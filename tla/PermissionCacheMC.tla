------------------------- MODULE PermissionCacheMC -------------------------
(***************************************************************************)
(* An instance of PermissionCache for TLC: two threads of one worker      *)
(* process.                                                                *)
(***************************************************************************)
EXTENDS PermissionCache, TLC

CONSTANTS p1, t1, t2

OneProcess == [t \in {t1, t2} |-> p1]

\* The threads of one process are alike.
ThreadSymmetry == Permutations({t1, t2})

FolderOps == {"folder", "user", "setFolder", "setGroups"}

\* Nobody asks for portfolio permissions here: their version is read at the
\* start, and again when a change has been announced, but not by the clock.
PortfolioVersionByNeed ==
    at' = at /\ checked[p1]["folio"] = "recent" => checked'[p1]["folio"] = "recent"
=============================================================================
