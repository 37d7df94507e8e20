------------------------------ MODULE MCMemory ------------------------------
\* Memory for TLC: a program with an unmapped page between text and data, a larger
\* one, and one that leaves no page between heap and stack and is refused; or one
\* with no page between text and data.
EXTENDS MemoryClaims

Prog(data, data_npg, stack_npg) ==
  [text |-> 0, t_npg |-> 1, data |-> data, data_npg |-> data_npg, stack_npg |-> stack_npg]
MCPrograms == {Prog(2, 1, 1), Prog(1, 2, 1), Prog(1, 2, 2)}
MCCompact == {Prog(1, 1, 1)}
=============================================================================
