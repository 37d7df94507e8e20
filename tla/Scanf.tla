------------------------------- MODULE Scanf -------------------------------
(***************************************************************************)
(* vsscanf and strntoumax of the user library (vsscanf.c, strntoumax.c),   *)
(* one step per character of the format.  The text that is scanned is the  *)
(* one Printf has printed, so that the two conversions can be compared.    *)
(***************************************************************************)
EXTENDS Printf

VARIABLE sc   \* the scan: position in format and text, automaton, results

scanVars == <<printVars, sc>>

UINT_MAX == NoLimit
\* Characters in the order of their codes, as far as the formats use them.
Alphabet == <<"\t", "\n", " ", "#", "%", "'", "(", ")", "*", "+", ",", "-", ".">> \o lcdigits
Code(c) == CHOOSE i \in DOMAIN Alphabet : Alphabet[i] = c
isspace(c) == c \in {" ", "\t", "\n"}

\* The characters of the text that are scanned: tick marks are not read back.
Source == SelectSeq(Text, LAMBDA c : c # "_")
CharAt(q) == IF q < Len(Source) THEN Source[q + 1] ELSE NUL

\* The longest stretch from q on, of at most n characters, all in S.
Span(q, n, S) ==
  LET stops == {i \in q .. Len(Source) + 2 : i - q = n \/ CharAt(i) \notin S}
  IN CHOOSE i \in stops : \A j \in stops : i <= j
Spaces == {" ", "\t", "\n"}
skipspace(q) == Span(q, NoLimit, Spaces)

(***************************************************************************)
(* strntoumax: the number that starts at q, in at most n characters        *)
(***************************************************************************)
digitval(c) ==
  LET at == {i \in 1 .. 16 : lcdigits[i] = c \/ ucdigits[i] = c}
  IN IF at = {} THEN -1 ELSE (CHOOSE i \in at : TRUE) - 1

DigitsOf(base) == {c \in Range(lcdigits) \cup Range(ucdigits) : digitval(c) < base}

\* Mutant: the second character of the prefix is not looked at.
HexPrefixShort(q, n) == n >= 2 /\ CharAt(q) = "0"
HexPrefix(q, n) == n >= 2 /\ CharAt(q) = "0" /\ CharAt(q + 1) \in {"x", "X"}

ValueOf(digits, base) == FoldLeft(LAMBDA v, c : Wrap(v * base + digitval(c), MAX_BITS), 0, digits)

strntoumax(q, base, n) ==
  LET q1 == Span(q, n, Spaces)
      n1 == n - (q1 - q)
      sign == n1 > 0 /\ CharAt(q1) \in {"-", "+"}
      minus == sign /\ CharAt(q1) = "-"
      q2 == IF sign THEN q1 + 1 ELSE q1
      n2 == IF sign THEN n1 - 1 ELSE n1
      hex == base \in {0, 16} /\ HexPrefix(q2, n2)
      octal == base = 0 /\ ~hex /\ n2 >= 1 /\ CharAt(q2) = "0"
      b == IF base # 0 THEN base ELSE IF hex THEN 16 ELSE IF octal THEN 8 ELSE 10
      skip == IF hex THEN 2 ELSE IF octal THEN 1 ELSE 0
      start == q2 + skip
      end == Span(start, n2 - skip, DigitsOf(b))
      v == ValueOf(SubSeq(Source, start + 1, end), b)
  IN [val |-> IF minus THEN Wrap(-v, MAX_BITS) ELSE v, end |-> end]

(***************************************************************************)
(* The automaton                                                           *)
(***************************************************************************)
ScanStart ==
  [p |-> 1, q |-> 0, state |-> "normal", splat |-> FALSE, given |-> FALSE, width |-> UINT_MAX,
   rank |-> 0, set |-> {}, inv |-> FALSE, bail |-> "none", converted |-> 0, got |-> <<>>]

sch == call.scan[sc.p]
ScanAt(state) ==
  pc = "scan" /\ sc.p <= Len(call.scan) /\ sc.bail = "none" /\ sc.state = state
Step(new) == sc' = [new EXCEPT !.p = sc.p + 1] /\ UNCHANGED printVars
Reread(new) == sc' = new /\ UNCHANGED printVars

ScanNormal ==
  /\ ScanAt("normal")
  /\ Step(IF sch = "%"
          THEN [sc EXCEPT !.state = "flags", !.splat = FALSE, !.given = FALSE,
                          !.width = UINT_MAX, !.rank = 0]
          ELSE IF isspace(sch) THEN [sc EXCEPT !.q = skipspace(@)]
          ELSE IF CharAt(sc.q) = sch THEN [sc EXCEPT !.q = @ + 1]
          ELSE [sc EXCEPT !.bail = "err"])

ScanFlags ==
  /\ ScanAt("flags")
  /\ \/ sch = "*" /\ Step([sc EXCEPT !.splat = TRUE])
     \/ sch \in Digit /\ Step([sc EXCEPT !.width = DigitValue(sch), !.state = "width",
                                         !.given = TRUE])
     \/ sch \notin Digit \cup {"*"} /\ Reread([sc EXCEPT !.state = "modifiers"])

ScanWidth ==
  /\ ScanAt("width")
  /\ \/ sch \in Digit /\ Step([sc EXCEPT !.width = @ * 10 + DigitValue(sch)])
     \/ sch \notin Digit /\ Reread([sc EXCEPT !.state = "modifiers"])

ScanModify ==
  /\ ScanAt("modifiers") /\ sch \in Modifier
  /\ Step([sc EXCEPT !.rank = IF sch \in {"L", "q"} THEN 2 ELSE RankAfter(sch, @)])

Store(s, x) == IF s.splat THEN s ELSE [s EXCEPT !.got = Append(@, x)]
\* Mutant: a suppressed conversion counts.
ConvertCounts(s, x) == [Store(s, x) EXCEPT !.converted = @ + 1]
Convert(s, x) == IF s.splat THEN s ELSE [Store(s, x) EXCEPT !.converted = @ + 1]
ScanBase(c) == CASE c \in {"p", "P", "i"} -> 0 [] c \in {"d", "u"} -> 10
                 [] c = "o" -> 8 [] c \in {"x", "X"} -> 16
ScanBits(c, rank) == IF c \in {"p", "P"} THEN INT_BITS ELSE Bits(Clamp(rank))

ScanInteger ==
  /\ ScanAt("modifiers") /\ sch \in IntegerConversion
  /\ LET q == skipspace(sc.q)
         r == strntoumax(q, ScanBase(sch), sc.width)
         next == [sc EXCEPT !.state = "normal", !.q = q]
     IN Step(IF CharAt(q) = NUL THEN [next EXCEPT !.bail = "eof"]
             ELSE IF r.end = q THEN [next EXCEPT !.bail = "err"]
             ELSE Convert([next EXCEPT !.q = r.end], Wrap(r.val, ScanBits(sch, sc.rank))))

\* The number of characters consumed is stored and not counted.
ScanCount ==
  /\ ScanAt("modifiers") /\ sch = "n"
  /\ Step(Store([sc EXCEPT !.state = "normal"], Wrap(sc.q, Bits(Clamp(sc.rank)))))

\* A suppressed %c looks at one character width times and does not move.
ScanChar ==
  /\ ScanAt("modifiers") /\ sch = "c"
  /\ LET width == IF sc.given THEN sc.width ELSE 1
         end == IF Len(Source) - sc.q < width THEN Len(Source) ELSE sc.q + width
         next == [sc EXCEPT !.state = "normal"]
     IN Step(IF sc.splat
             THEN IF width > 0 /\ CharAt(sc.q) = NUL THEN [next EXCEPT !.bail = "eof"] ELSE next
             ELSE IF end < sc.q + width THEN [next EXCEPT !.q = end, !.bail = "eof"]
             ELSE Convert([next EXCEPT !.q = end], SubSeq(Source, sc.q + 1, end)))

\* A string stops at a space, at the width or at the end of the text, which is
\* noticed only if the width was not used up.
ScanString ==
  /\ ScanAt("modifiers") /\ sch = "s"
  /\ LET end == Span(sc.q, sc.width, Range(Source) \ Spaces)
         next == [sc EXCEPT !.state = "normal", !.q = end,
                            !.bail = IF end - sc.q < sc.width /\ CharAt(end) = NUL
                                     THEN "eof" ELSE "none"]
     IN Step(IF end = sc.q THEN next ELSE Convert(next, SubSeq(Source, sc.q + 1, end)))

ScanPercent ==
  /\ ScanAt("modifiers") /\ sch = "%"
  /\ Step(IF CharAt(sc.q) = "%" THEN [sc EXCEPT !.state = "normal", !.q = @ + 1]
          ELSE [sc EXCEPT !.state = "normal", !.bail = "err"])

ScanUnknown ==
  /\ ScanAt("modifiers")
  /\ sch \notin Modifier \cup IntegerConversion \cup {"n", "c", "s", "%", "["}
  /\ Step([sc EXCEPT !.state = "normal", !.bail = "err"])

(***************************************************************************)
(* %[...]: the set is collected, then matched.  The width is tested and    *)
(* never counted, a range starts at the character "-" itself and excludes  *)
(* its end, and after the match the automaton is still collecting.         *)
(***************************************************************************)
ScanSet ==
  /\ ScanAt("modifiers") /\ sch = "["
  /\ Step([sc EXCEPT !.state = "match_init", !.set = {}, !.inv = FALSE])

ScanSetFirst ==
  /\ ScanAt("match_init")
  /\ Step(IF sch = "^" THEN [sc EXCEPT !.inv = TRUE]
          ELSE [sc EXCEPT !.set = @ \cup {sch}, !.state = "match"])

MatchRun(s) ==
  LET chars == {c \in Range(Source) : (c \in s.set) # s.inv}
      end == Span(s.q, IF s.width = 0 THEN 0 ELSE NoLimit, chars)
      atEnd == s.width > 0 /\ CharAt(end) = NUL
      bail == IF atEnd THEN "eof" ELSE IF end = s.q \/ s.splat THEN "err" ELSE "none"
      next == [s EXCEPT !.q = end, !.bail = bail]
  IN IF end # s.q THEN Convert(next, SubSeq(Source, s.q + 1, end)) ELSE next

ScanSetNext ==
  /\ ScanAt("match")
  /\ Step(CASE sch = "]" -> MatchRun(sc)
            [] sch = "-" -> [sc EXCEPT !.state = "match_range"]
            [] OTHER     -> [sc EXCEPT !.set = @ \cup {sch}])

ScanSetRange ==
  /\ ScanAt("match_range")
  /\ Step(IF sch = "]" THEN MatchRun([sc EXCEPT !.set = @ \cup {"-"}])
          ELSE [sc EXCEPT !.state = "match",
                          !.set = @ \cup {Alphabet[i] : i \in Code("-") .. Code(sch) - 1}])

ScanEnd ==
  /\ pc = "scan" /\ (sc.p > Len(call.scan) \/ sc.bail # "none")
  /\ pc' = "done"
  /\ sc' = IF sc.bail = "eof" /\ sc.converted = 0 THEN [sc EXCEPT !.converted = -1] ELSE sc
  /\ UNCHANGED <<call, p, cv, ap, out, full, counts>>

(***************************************************************************)
(* The specification: a program prints a text and reads it again           *)
(***************************************************************************)
FormatInit == PrintInit /\ sc = ScanStart
FormatNext ==
  \/ PrintNext /\ UNCHANGED sc
  \/ ScanNormal \/ ScanFlags \/ ScanWidth \/ ScanModify
  \/ ScanInteger \/ ScanCount \/ ScanChar \/ ScanString \/ ScanPercent \/ ScanUnknown
  \/ ScanSet \/ ScanSetFirst \/ ScanSetNext \/ ScanSetRange
  \/ ScanEnd
FormatSpec == FormatInit /\ [][FormatNext]_scanVars

(***************************************************************************)
(* Properties                                                              *)
(***************************************************************************)
\* Every variable has its type, the automata are in one of their states, and every
\* conversion finds an argument of the type it asks va_arg for.
FormatTypeOK ==
  /\ pc \in {"print", "scan", "done"}
  /\ p \in 1 .. Len(call.format) + 1 /\ ap \in 1 .. Len(call.args) + 1
  /\ cv.state \in {"normal", "flags", "width", "prec", "modifiers"}
  /\ \A st \in {out, full} : st.o \in Nat /\ st.q \in 0 .. st.o /\ DOMAIN st.mem = 0 .. MEM - 1
  /\ ArgsMatch
  /\ sc.p \in 1 .. Len(call.scan) + 1 /\ sc.converted \in -1 .. Len(sc.got)
  /\ sc.bail \in {"none", "eof", "err"}

\* A scan never reads past the NUL that ends its text, with any prefix, sign, width
\* or set (CharAt beyond it would be whatever memory follows).
ScanStaysInText == sc.q <= Len(Source)

\* What printf prints scanf reads back: for every flag, width, precision, rank and
\* base the values that come back are the ones that were passed, as far as their
\* rank keeps them.  The two are separate code, with tables and loops of their own.
RoundTrip == pc = "done" /\ call.back # <<>> => sc.got = call.back
=============================================================================
