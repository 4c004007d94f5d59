--------------------------- MODULE TaskLifecycle ---------------------------
(***************************************************************************)
(* What the background task queue promises its callers, with no server,   *)
(* database row or process in sight.  A task is submitted once, may be    *)
(* cancelled only while it waits, is run by one worker at a time, goes    *)
(* back to the queue only when its worker has died, and frees its         *)
(* function + parameters key only when it is forgotten.                   *)
(***************************************************************************)
EXTENDS Naturals

CONSTANTS Keys,       \* the (function, parameters) combinations that can be posted
          MaxTasks    \* bound on the number of tasks ever posted

VARIABLES life,       \* the stage each task has reached
          key         \* the (function, parameters) of each task

lvars == <<life, key>>

Tasks  == 1..MaxTasks
Stages == {"unborn", "queued", "running", "interrupted", "done", "gone"}
Live   == {"queued", "running", "interrupted", "done"}

LInit == /\ life = [i \in Tasks |-> "unborn"]
         /\ key \in [Tasks -> Keys]

\* Every task of S moves from stage a to stage b.
Move(S, a, b) ==
    /\ \A i \in S : life[i] = a
    /\ life' = [i \in Tasks |-> IF i \in S THEN b ELSE life[i]]
    /\ UNCHANGED key

Submit(i, k) ==
    /\ life[i] = "unborn"
    /\ \A j \in Tasks : life[j] \in Live => key[j] # k
    /\ life' = [life EXCEPT ![i] = "queued"]
    /\ key'  = [key EXCEPT ![i] = k]

Cancel(i)    == Move({i}, "queued", "gone")
Start(i)     == Move({i}, "queued", "running")
Finish(i)    == Move({i}, "running", "done")
Interrupt(S) == Move(S, "running", "interrupted")
Requeue(i)   == Move({i}, "interrupted", "queued")
Forget(S)    == Move(S, "done", "gone")

LNext == \/ \E i \in Tasks, k \in Keys : Submit(i, k)
         \/ \E i \in Tasks : Cancel(i) \/ Start(i) \/ Finish(i) \/ Requeue(i)
         \/ \E S \in SUBSET Tasks : Interrupt(S) \/ Forget(S)

LSpec == LInit /\ [][LNext]_lvars
=============================================================================
