------------------------------- MODULE Printf -------------------------------
(***************************************************************************)
(* vsnprintf of the user library (vsnprintf.c), one step per character of  *)
(* the format, for two calls at once: snprintf with room for n characters  *)
(* and sprintf, which passes the largest size there is.  Memory beyond the *)
(* buffer is part of the model, so that a write past the end is seen.      *)
(*                                                                         *)
(* Characters are strings of length one.  Integers have MAX_BITS bits as   *)
(* uintmax_t and fewer as arguments; a long is an int on this machine.     *)
(***************************************************************************)
EXTENDS Integers, SequencesExt

CONSTANTS
  CHAR_BITS, SHORT_BITS, INT_BITS, MAX_BITS,
  Calls,    \* what programs print, and how they read it back
  MEM       \* bound: characters of memory the model looks at

NoLimit == 1000   \* bound: the size sprintf passes

Call == [format : Seq(STRING), args : Seq(Int \cup Seq(STRING)), n : Nat,
         scan : Seq(STRING), back : Seq(Int \cup Seq(STRING))]

ASSUME PrintfAssumption ==
  /\ {CHAR_BITS, SHORT_BITS, INT_BITS, MAX_BITS, MEM} \subseteq Nat \ {0}
  /\ CHAR_BITS < SHORT_BITS /\ SHORT_BITS < INT_BITS /\ INT_BITS < MAX_BITS
  /\ MEM <= NoLimit
  /\ \A c \in Calls : /\ DOMAIN c = {"format", "args", "n", "scan", "back"} /\ c.n \in 0 .. MEM
                      /\ c.format \in Seq(STRING) /\ c.scan \in Seq(STRING)
                      /\ Len(c.args) \in Nat /\ DOMAIN c.args = 1 .. Len(c.args)

\* What the width of integers has to do with the digits they print in.
ASSUME PowerAssumption ==
  /\ \A k \in 0 .. MAX_BITS : 2 ^ k \in 1 .. 2 ^ MAX_BITS
  /\ \A base \in {8, 10, 16} : \E k \in 0 .. MAX_BITS :
       2 ^ MAX_BITS <= base ^ k /\ \A i \in 0 .. k : base ^ i \in Nat

VARIABLES
  call,   \* the call being made
  p,      \* position in the format
  cv,     \* the automaton: state, flags, width, prec, rank
  ap,     \* position in the arguments
  out,    \* the call with room for n characters: n, o, q and the memory
  full,   \* the same call with no limit
  counts, \* what %n has stored
  pc      \* "print", then "scan", then "done"

printVars == <<call, p, cv, ap, out, full, counts, pc>>

NUL == "NUL"
NullPointer == <<NUL>>  \* as a string argument
Untouched == "?"
lcdigits == <<"0", "1", "2", "3", "4", "5", "6", "7", "8", "9", "a", "b", "c", "d", "e", "f">>
ucdigits == <<"0", "1", "2", "3", "4", "5", "6", "7", "8", "9", "A", "B", "C", "D", "E", "F">>
Digit == {lcdigits[i] : i \in 1 .. 10}
DigitValue(c) == (CHOOSE i \in 1 .. 10 : lcdigits[i] = c) - 1

MIN_RANK == -2
MAX_RANK == 2
Bits(rank) == CASE rank = -2 -> CHAR_BITS [] rank = -1 -> SHORT_BITS
                [] rank \in {0, 1} -> INT_BITS [] rank = 2 -> MAX_BITS
Wrap(x, bits) == x % 2 ^ bits
Signed(x, bits) == LET u == Wrap(x, bits) IN IF u >= 2 ^ (bits - 1) THEN u - 2 ^ bits ELSE u

(***************************************************************************)
(* Output                                                                  *)
(***************************************************************************)
\* Mutant: the character that does not fit any more is written.
EMITOne(st, x) ==
  IF st.o <= st.n THEN [st EXCEPT !.mem[st.q] = x, !.q = @ + 1, !.o = @ + 1]
  ELSE [st EXCEPT !.o = @ + 1]
\* q only moves while there is room, o always counts.
EMIT(st, x) ==
  IF st.o < st.n THEN [st EXCEPT !.mem[st.q] = x, !.q = @ + 1, !.o = @ + 1]
  ELSE [st EXCEPT !.o = @ + 1]
EmitAll(st, xs) ==
  LET after[k \in 0 .. Len(xs)] == IF k = 0 THEN st ELSE EMIT(after[k - 1], xs[k])
  IN after[Len(xs)]
Repeat(x, k) == [i \in 1 .. IF k > 0 THEN k ELSE 0 |-> x]

\* The number is written from its last digit to its first, wherever there is room.
PutNumber(st, number) ==
  [st EXCEPT !.mem = [j \in DOMAIN st.mem |->
                        LET i == j - st.q
                        IN IF i \in 0 .. Len(number) - 1 /\ st.o + i < st.n
                           THEN number[i + 1] ELSE st.mem[j]],
             !.q = @ + Len(number), !.o = @ + Len(number)]

NDigits(v, base) ==
  CHOOSE k \in 0 .. MAX_BITS : v < base ^ k /\ (k = 0 \/ base ^ (k - 1) <= v)

\* Mutant: a tick mark before the first digit of a full group.
TickMarksOff(ndigits, skip) == ndigits \div skip
TickMarks(ndigits, skip) == (ndigits - 1) \div skip

\* Mutant: the minus is separated and the value stays negative.
MagnitudeKept(val, minus) == val
Magnitude(val, minus) == IF minus THEN 2 ^ MAX_BITS - val ELSE val

\* What format_int emits before the number, the number, and what it emits after.
Field(val, flags, base, width, prec) ==
  LET minus   == "signed" \in flags /\ val >= 2 ^ (MAX_BITS - 1)
      v       == Magnitude(val, minus)
      digits  == IF "upper" \in flags THEN ucdigits ELSE lcdigits
      need    == NDigits(v, base)
      prec1   == IF "hash" \in flags /\ base = 8 /\ prec < need + 1 THEN need + 1 ELSE prec
      nd      == IF need < prec1 THEN prec1 ELSE IF v = 0 THEN 1 ELSE need
      skip    == IF "tick" \in flags THEN IF base = 16 THEN 4 ELSE 3 ELSE nd
      ndigits == nd + TickMarks(nd, skip)
      number  == [i \in 1 .. ndigits |->
                    LET k == ndigits - i
                    IN IF (k + 1) % (skip + 1) = 0 THEN "_"
                       ELSE digits[1 + ((v \div base ^ (k - k \div (skip + 1))) % base)]]
      sign    == IF minus THEN <<"-">> ELSE IF "plus" \in flags THEN <<"+">>
                 ELSE IF "space" \in flags THEN <<" ">> ELSE <<>>
      prefix  == IF "hash" \in flags /\ base = 16
                 THEN <<"0", IF "upper" \in flags THEN "X" ELSE "x">> ELSE <<>>
      pad     == width - ndigits - Len(sign) - Len(prefix)
      left    == flags \cap {"minus", "zero"} = {}
      zeros   == flags \cap {"minus", "zero"} = {"zero"}
  IN [before |-> (IF left THEN Repeat(" ", pad) ELSE <<>>) \o sign \o prefix
                   \o (IF zeros THEN Repeat("0", pad) ELSE <<>>),
      number |-> number,
      after  |-> IF "minus" \in flags THEN Repeat(" ", pad) ELSE <<>>]

\* Mutant: the caller's pointer is left where format_int started.
format_int_q(st, f) ==
  [EmitAll(PutNumber(EmitAll(st, f.before), f.number), f.after) EXCEPT !.q = st.q]
\* The caller advances q by the length returned, room or not.
format_int(st, f) ==
  LET end == EmitAll(PutNumber(EmitAll(st, f.before), f.number), f.after)
  IN [end EXCEPT !.q = st.q + (end.o - st.o)]

\* %s and %c: precision cuts, width pads.
PaddedString(s, flags, width, prec) ==
  LET slen == IF prec # -1 /\ Len(s) > prec THEN prec ELSE Len(s)
      pad  == width - slen
  IN (IF "minus" \in flags THEN <<>> ELSE Repeat(IF "zero" \in flags THEN "0" ELSE " ", pad))
       \o SubSeq(s, 1, slen)
       \o (IF "minus" \in flags THEN Repeat(" ", pad) ELSE <<>>)

(***************************************************************************)
(* The automaton                                                           *)
(***************************************************************************)
ch == call.format[p]
At(state) == pc = "print" /\ p <= Len(call.format) /\ cv.state = state
Plain == [state |-> "normal", flags |-> {}, width |-> 0, prec |-> -1, rank |-> 0]
Consumed == p' = p + 1
Again == p' = p
Quiet == UNCHANGED <<out, full, counts>>
Emits(xs) == out' = EmitAll(out, xs) /\ full' = EmitAll(full, xs)

Normal ==
  /\ At("normal")
  /\ IF ch = "%" THEN cv' = [Plain EXCEPT !.state = "flags"] /\ UNCHANGED <<out, full>>
     ELSE Emits(<<ch>>) /\ UNCHANGED cv
  /\ Consumed /\ UNCHANGED <<call, ap, counts, pc>>

FlagOf == [c \in {"-", "+", "'", " ", "#", "0"} |->
             CASE c = "-" -> "minus" [] c = "+" -> "plus" [] c = "'" -> "tick"
               [] c = " " -> "space" [] c = "#" -> "hash" [] c = "0" -> "zero"]

Flags ==
  /\ At("flags")
  /\ IF ch \in DOMAIN FlagOf THEN cv' = [cv EXCEPT !.flags = @ \cup {FlagOf[ch]}] /\ Consumed
     ELSE cv' = [cv EXCEPT !.state = "width"] /\ Again
  /\ Quiet /\ UNCHANGED <<call, ap, pc>>

\* A negative width from the arguments is a minus flag.
Width ==
  /\ At("width")
  /\ \/ /\ ch \in Digit /\ Consumed
        /\ cv' = [cv EXCEPT !.width = @ * 10 + DigitValue(ch)] /\ UNCHANGED ap
     \/ /\ ch = "*" /\ Consumed
        /\ cv' = IF call.args[ap] < 0
                 THEN [cv EXCEPT !.width = -call.args[ap], !.flags = @ \cup {"minus"}]
                 ELSE [cv EXCEPT !.width = call.args[ap]]
        /\ ap' = ap + 1
     \/ ch = "." /\ Consumed /\ cv' = [cv EXCEPT !.state = "prec", !.prec = 0] /\ UNCHANGED ap
     \/ /\ ch \notin Digit \cup {"*", "."} /\ Again
        /\ cv' = [cv EXCEPT !.state = "modifiers"] /\ UNCHANGED ap
  /\ Quiet /\ UNCHANGED <<call, pc>>

Prec ==
  /\ At("prec")
  /\ \/ /\ ch \in Digit /\ Consumed
        /\ cv' = [cv EXCEPT !.prec = @ * 10 + DigitValue(ch)] /\ UNCHANGED ap
     \/ /\ ch = "*" /\ Consumed
        /\ cv' = [cv EXCEPT !.prec = IF call.args[ap] < 0 THEN -1 ELSE call.args[ap]]
        /\ ap' = ap + 1
     \/ /\ ch \notin Digit \cup {"*"} /\ Again
        /\ cv' = [cv EXCEPT !.state = "modifiers"] /\ UNCHANGED ap
  /\ Quiet /\ UNCHANGED <<call, pc>>

RankAfter(c, rank) ==
  CASE c = "h" -> rank - 1 [] c = "l" -> rank + 1 [] c = "j" -> 2
    [] c \in {"z", "t"} -> 1 [] c \in {"L", "q"} -> rank + 2
Modifier == {"h", "l", "j", "z", "t", "L", "q"}

Modify ==
  /\ At("modifiers") /\ ch \in Modifier
  /\ cv' = [cv EXCEPT !.rank = RankAfter(ch, @)]
  /\ Consumed /\ Quiet /\ UNCHANGED <<call, ap, pc>>

Clamp(rank) == IF rank < MIN_RANK THEN MIN_RANK ELSE IF rank > MAX_RANK THEN MAX_RANK ELSE rank
BaseOf(c) == CASE c \in {"p", "P", "x", "X"} -> 16 [] c \in {"d", "i", "u"} -> 10 [] c = "o" -> 8

\* The argument as uintmax_t, after the casts its rank asks for.
IntegerArgument(c, arg, rank) ==
  CASE c \in {"d", "i"} -> Wrap(Signed(arg, Bits(rank)), MAX_BITS)
    [] c \in {"p", "P"} -> Wrap(arg, INT_BITS)
    [] OTHER            -> Wrap(arg, Bits(rank))
IntegerFlags(c, flags) ==
  flags \cup (IF c \in {"d", "i"} THEN {"signed"} ELSE {})
        \cup (IF c \in {"P", "X"} THEN {"upper"} ELSE {})
        \cup (IF c \in {"p", "P"} THEN {"hash"} ELSE {})
IntegerPrec(c, prec) == IF c \in {"p", "P"} THEN (INT_BITS + 3) \div 4 ELSE prec
IntegerConversion == {"p", "P", "d", "i", "o", "u", "x", "X"}
StringConversion == {"s", "c"}

ConvertInteger ==
  /\ At("modifiers") /\ ch \in IntegerConversion
  /\ LET f == Field(IntegerArgument(ch, call.args[ap], Clamp(cv.rank)),
                    IntegerFlags(ch, cv.flags), BaseOf(ch), cv.width, IntegerPrec(ch, cv.prec))
     IN out' = format_int(out, f) /\ full' = format_int(full, f)
  /\ cv' = [cv EXCEPT !.state = "normal"] /\ ap' = ap + 1
  /\ Consumed /\ UNCHANGED <<call, counts, pc>>

ConvertString ==
  /\ At("modifiers") /\ ch \in StringConversion
  /\ LET s == IF call.args[ap] = NullPointer THEN <<"(", "n", "u", "l", "l", ")">> ELSE call.args[ap]
     IN Emits(PaddedString(s, cv.flags, cv.width, cv.prec))
  /\ cv' = [cv EXCEPT !.state = "normal"] /\ ap' = ap + 1
  /\ Consumed /\ UNCHANGED <<call, counts, pc>>

ConvertCount ==
  /\ At("modifiers") /\ ch = "n"
  /\ counts' = Append(counts, Signed(out.o, Bits(Clamp(cv.rank))))
  /\ cv' = [cv EXCEPT !.state = "normal"] /\ ap' = ap + 1
  /\ Consumed /\ UNCHANGED <<call, out, full, pc>>

\* Anything else, % included, stands for itself.
ConvertOther ==
  /\ At("modifiers")
  /\ ch \notin Modifier \cup IntegerConversion \cup StringConversion \cup {"n"}
  /\ Emits(<<ch>>)
  /\ cv' = [cv EXCEPT !.state = "normal"]
  /\ Consumed /\ UNCHANGED <<call, ap, counts, pc>>

Terminate(st) ==
  IF st.o < st.n THEN [st EXCEPT !.mem[st.q] = NUL]
  ELSE IF st.n > 0 THEN [st EXCEPT !.mem[st.n - 1] = NUL] ELSE st

Finish ==
  /\ pc = "print" /\ p > Len(call.format)
  /\ out' = Terminate(out) /\ full' = Terminate(full)
  /\ pc' = "scan"
  /\ UNCHANGED <<call, p, cv, ap, counts>>

Empty(n) == [n |-> n, o |-> 0, q |-> 0, mem |-> [i \in 0 .. MEM - 1 |-> Untouched]]
PrintInit ==
  /\ call \in Calls
  /\ p = 1 /\ cv = Plain /\ ap = 1
  /\ out = Empty(call.n) /\ full = Empty(NoLimit)
  /\ counts = <<>>
  /\ pc = "print"

PrintNext ==
  \/ Normal \/ Flags \/ Width \/ Prec \/ Modify
  \/ ConvertInteger \/ ConvertString \/ ConvertCount \/ ConvertOther
  \/ Finish

(***************************************************************************)
(* Properties                                                              *)
(***************************************************************************)
Printed == pc # "print"

\* What va_arg needs: the arguments are there and are of the types the format names.
ArgsMatch ==
  /\ (At("width") \/ At("prec")) /\ ch = "*" =>
       ap \in DOMAIN call.args /\ call.args[ap] \in Int
  /\ At("modifiers") /\ ch \in IntegerConversion \cup StringConversion \cup {"n"} =>
       /\ ap \in DOMAIN call.args
       /\ ch \in IntegerConversion => call.args[ap] \in Int
       /\ ch \in StringConversion => call.args[ap] \in Seq(STRING)

\* Whatever is padded, cut or converted, nothing is written at or past the size the
\* caller gave (EMIT, and format_int, which writes a number from the right).
NothingPastBuffer == \A i \in out.n .. MEM - 1 : out.mem[i] = Untouched

\* A truncated call behaves like an unlimited one that is cut: it returns the same
\* length, holds the same characters and ends with a NUL inside the buffer.
TruncatesOnly ==
  Printed =>
    /\ out.o = full.o
    /\ \A i \in 0 .. MEM - 1 : i < out.o /\ i < out.n - 1 => out.mem[i] = full.mem[i]
    /\ out.n > 0 => out.mem[IF out.o < out.n THEN out.o ELSE out.n - 1] = NUL

\* The text of the unlimited call.
Text == [i \in 1 .. full.o |-> full.mem[i - 1]]

\* Tick marks only ever stand between two characters of a number.
TicksSeparate ==
  Printed => \A i \in DOMAIN Text : Text[i] = "_" =>
    /\ i > 1 /\ i < Len(Text)
    /\ {Text[i - 1], Text[i + 1]} \subseteq Range(lcdigits) \cup Range(ucdigits)
=============================================================================
