----------------------------- MODULE MCUserHeap -----------------------------
\* UserHeap for TLC, with words of two bytes and a small page.  The product of the array
\* wraps around to zero.
EXTENDS UserHeap

MCArrays == {[nmemb |-> 64, size |-> 2]}
=============================================================================
