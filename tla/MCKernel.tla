---- MODULE MCKernel ----
EXTENDS TerminalClaims
====
