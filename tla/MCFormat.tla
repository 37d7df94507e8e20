------------------------------ MODULE MCFormat ------------------------------
\* Printf and Scanf for TLC: every combination of flags, width, precision, rank
\* and conversion with values at the edges of each rank, and texts for the rest.
EXTENDS Scanf

MkCall(format, args, n, scan, back) ==
  [format |-> format, args |-> args, n |-> n, scan |-> scan, back |-> back]

MCSizes == {0, 3, 20}
MCFlags == {<<>>, <<"0">>, <<"-", "+">>, <<"#">>, <<"'", "0">>, <<" ", "#", "0">>}
\* width and precision, with the arguments their stars take
MCWidths == {[text |-> <<>>, args |-> <<>>], [text |-> <<"6">>, args |-> <<>>],
             [text |-> <<"*">>, args |-> <<-7>>]}
MCPrecs == {[text |-> <<>>, args |-> <<>>], [text |-> <<".", "4">>, args |-> <<>>],
            [text |-> <<".", "*">>, args |-> <<-1>>]}
MCRanks == {[text |-> <<>>, bits |-> INT_BITS], [text |-> <<"h", "h">>, bits |-> CHAR_BITS],
            [text |-> <<"h">>, bits |-> SHORT_BITS], [text |-> <<"l", "l", "l">>, bits |-> MAX_BITS]}
MCValues(bits) == {0, -1, 2 ^ (bits - 1), 2 ^ (bits - 1) - 1}

\* An integer is printed every way and read back with the plain conversion.
IntCalls ==
  UNION {{MkCall(<<"%">> \o f \o w.text \o pr.text \o r.text \o <<c>>,
                 w.args \o pr.args \o <<v>>, n,
                 <<"%">> \o r.text \o <<IF c = "i" THEN "d" ELSE c>>, <<v % 2 ^ r.bits>>)
            : v \in MCValues(r.bits), c \in {"i", "u", "X", "o"}, n \in MCSizes}
         : f \in MCFlags, w \in MCWidths, pr \in MCPrecs, r \in MCRanks}
PointerCalls ==
  {MkCall(<<"%", c>>, <<v>>, n, <<"%", c>>, <<v % 2 ^ INT_BITS>>)
     : c \in {"p", "P"}, v \in MCValues(INT_BITS), n \in MCSizes}

Word == <<"a", "b", "c">>
TextCalls ==
  UNION {
   {MkCall(<<"%">> \o f \o w.text \o pr.text \o <<"s">>, w.args \o pr.args \o <<Word>>, n,
           <<" ", "%", "s">>, IF pr.text = <<>> /\ "0" \notin Range(f) THEN <<Word>> ELSE <<>>)
      : f \in MCFlags, w \in MCWidths, pr \in MCPrecs}
   \cup
   {MkCall(<<"%", "5", "s", "%", "%", "%", "c", "%", "n">>, <<NullPointer, <<"e">>, 0>>, n,
           <<"%", "*", "[", "^", "%", "]">>, <<>>),
    MkCall(<<"%", "0", "2", "x", "%", "0", "2", "x">>, <<5, 20>>, n,
           <<"%", "2", "x", "%", "2", "x">>, <<5, 20>>),
    MkCall(<<"%", "d", ",", "%", "l", "d", "\n">>, <<-3, 12>>, n,
           <<"%", "d", ",", "%", "t", "d", " ", "%", "n">>, <<29, 12, 6>>),
    MkCall(<<"a", "%", "%", "b">>, <<>>, n, <<"a", "%", "%", "%", "1", "c">>, <<<<"b">>>>)}
  : n \in MCSizes}

\* Texts that are copied and then scanned: ends of text, failed matches, sets.
ScanCalls ==
  {MkCall(t, <<>>, 9, s, <<>>)
     : t \in {<<>>, <<"0">>, <<"-">>, <<"0", "x">>, <<" ", "0", "x", "f">>, <<"b", "a", "-", "1">>,
              <<"1", "2", " ", "a">>},
       s \in {<<"%", "i">>, <<"%", "1", "0", "q", "x">>, <<"%", "*", "d", "%", "c">>,
              <<"%", "*", "2", "c", "%", "3", "c">>, <<"%", "1", "s", "%", "*", "s", "%", "n">>,
              <<"%", "[", "a", "-", "]", "1">>, <<"%", "[", "^", "a", "]", "]">>,
              <<"%", "[", "a", "-", "1", "b", "]">>, <<"%", "*", "[", "b", "]">>,
              <<"%", "0", "[", "b", "]">>, <<"%", "e">>, <<"1", "%", "%">>}}

MCCalls == IntCalls \cup PointerCalls \cup TextCalls \cup ScanCalls
=============================================================================
