--------------------------- MODULE ManagedCacheMC ---------------------------
(***************************************************************************)
(* Instances of ManagedCache for TLC: an object of three slots, one of    *)
(* two that replaces it, and one that is too large to cache.               *)
(***************************************************************************)
EXTENDS ManagedCache, TLC

CONSTANTS triple, double, huge

SizesOf == [o \in Objects |-> CASE o = double -> 2 [] o = triple -> 3 [] OTHER -> 4]

AllCalls == {"get", "put", "delete", "clear"}

\* What follows an answer is what follows an idle thread: nothing looks at the
\* answer any more.
NoneHasAnswer == \A t \in Threads : at[t] # "returned"

ThreadSymmetry == Permutations(Threads)
=============================================================================
