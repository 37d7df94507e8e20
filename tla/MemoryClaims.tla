---------------------------- MODULE MemoryClaims ----------------------------
(***************************************************************************)
(* What comments and a test of the repository say about memory, stated as  *)
(* properties of Memory.  The code does not satisfy them; each run shows a *)
(* counterexample.                                                         *)
(***************************************************************************)
EXTENDS Memory

(* src/user/cp5_tests/test1.c:8 says that on a stack fault "the kernel     *)
(* should map all the pages from the old stack base down to the new one":  *)
(* growStack maps only pages below the stack the process has, and never    *)
(* replaces a page that is mapped.                                         *)
GrowStackReplacesNothing == \A f \in Frames : <<"growStack", f>> \notin leaked

(* deletePCB frees the page table and the kernel stack of a process under  *)
(* the comment "make sure we freed the frames used up"                     *)
(* (src/src/proc.c:90 and 92): once its parent has waited for it, no frame *)
(* of a process is left in use.                                            *)
ReapedFramesAreFree == \A f \in Frames : <<"deletePCB", f>> \notin leaked
=============================================================================
