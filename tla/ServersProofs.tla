--------------------------- MODULE ServersProofs ---------------------------
(***************************************************************************)
(* Theorems about the two auxiliary processes, the task server (TaskQueue) *)
(* and the statistics server (StatsServer), for every value of their       *)
(* constants.                                                              *)
(***************************************************************************)
EXTENDS TaskQueue, StatsServer, TLAPS

-----------------------------------------------------------------------------
(* The task queue *)


\* Deleting rows, and only that, keeps the table well-typed.
LEMMA DeleteType ==
  ASSUME NEW S, rows \in [Ids -> Row], Delete(S)
  PROVE  rows' \in [Ids -> Row]
BY DEF Delete, Row, Unlocked

\* The initial state is well-typed.
LEMMA TypeInit == Init => TypeOK
<1> USE ConstantsAssumption DEF ConstantsAssumption, Ids, MainPoints, Row, Thread, Waits
<1> SUFFICES ASSUME Init PROVE TypeOK
  OBVIOUS
<1>1. PICK k \in Keys : rows = [i \in Ids |-> Unlocked(k, "absent")]
  BY DEF Init
<1>2. rows \in [Ids -> Row]
  BY <1>1 DEF Unlocked
<1>3. nextId \in 1..(MaxTasks + 1) /\ kills \in 0..MaxKills /\ stops \in 0..MaxStops
  BY DEF Init
<1>4. QED
  BY <1>2, <1>3 DEF Init, TypeOK

\* Every step keeps the types.
LEMMA TypeStep == ASSUME TypeOK, [Next]_vars PROVE TypeOK'
<1> USE ConstantsAssumption DEF ConstantsAssumption, Ids, MainPoints, Row, Thread, Waits
<1> USE DEF TypeOK, mainVars, faults, history, Unlocked, WithStatus, MainEnds
<1>1. ASSUME NEW k \in Keys, AddTask(k) PROVE TypeOK'
  BY <1>1, SMTT(30) DEF AddTask
<1>2. ASSUME NEW i \in Ids, CancelTask(i) PROVE TypeOK'
  BY <1>2, DeleteType DEF CancelTask
<1>3. ASSUME NEW i \in Ids, BeginWait(i) PROVE TypeOK'
  BY <1>3 DEF BeginWait
<1>4. ASSUME NEW i \in Ids, PollWait(i) PROVE TypeOK'
  BY <1>4 DEF PollWait
<1>5. ASSUME NEW i \in Ids, DeleteWaited(i) PROVE TypeOK'
  BY <1>5, DeleteType DEF DeleteWaited
<1>6. ASSUME NEW i \in Ids, KeepExpires(i) PROVE TypeOK'
  BY <1>6 DEF KeepExpires
<1>7. ASSUME NEW p \in Pids, StartServer(p) PROVE TypeOK'
  BY <1>7 DEF StartServer
<1>8. CASE OpenPidFile
  BY <1>8 DEF OpenPidFile
<1>9. CASE WritePidFile
  BY <1>9 DEF WritePidFile
<1>10. CASE Settled
  BY <1>10, DeleteType DEF DeleteCompleted, Settled
<1>11. CASE ListInterrupted
  BY <1>11 DEF ListInterrupted
<1>12. ASSUME NEW i \in Ids, ResetTask(i) PROVE TypeOK'
  BY <1>12 DEF ResetTask
<1>13. CASE Recovered
  BY <1>13 DEF Recovered
<1>14. CASE FetchPending
  BY <1>14 DEF FetchPending
<1>15. ASSUME NEW i \in Ids, DispatchTask(i) PROVE TypeOK'
  <2>1. PICK r \in Row : rows' = [rows EXCEPT ![i] = r] \/ rows' = rows
    <3>1. [key |-> rows[i].key, status |-> "active", lock |-> me, keep |-> rows[i].keep] \in Row
      BY <1>15 DEF DispatchTask
    <3>2. QED
      BY <3>1, <1>15 DEF DispatchTask
  <2>2. rows' \in [Ids -> Row]
    BY <2>1
  <2>3. threads' \subseteq Thread
    BY <1>15 DEF DispatchTask
  <2>4. QED
    BY <1>15, <2>2, <2>3 DEF DispatchTask
<1>16. CASE BatchDone
  BY <1>16 DEF BatchDone
<1>17. CASE CleanUp
  BY <1>17, DeleteType DEF DeleteCompleted, CleanUp
<1>18. CASE Rest
  BY <1>18 DEF Rest
<1>19. CASE LeaveLoop
  BY <1>19 DEF LeaveLoop
<1>20. CASE ExitServer
  BY <1>20 DEF ExitServer
<1>21. ASSUME NEW t \in threads, BeginTask(t) PROVE TypeOK'
  <2>1. t \in Thread /\ t.id \in Ids
    OBVIOUS
  <2>2. threads' \subseteq Thread
    BY <1>21, <2>1 DEF BeginTask, Advance
  <2>3. starts' \in [Ids -> Nat]
    BY <1>21, <2>1 DEF BeginTask
  <2>4. QED
    BY <1>21, <2>2, <2>3 DEF BeginTask
<1>22. ASSUME NEW t \in threads, EndTask(t) PROVE TypeOK'
  BY <1>22 DEF EndTask, Advance
<1>23. ASSUME NEW t \in threads, CompleteTask(t) PROVE TypeOK'
  <2>1. t.id \in Ids
    OBVIOUS
  <2>2. rows[t.id] \in Row
    BY <2>1
  <2>3. PICK r \in Row : rows' = [rows EXCEPT ![t.id] = r] \/ rows' = rows
    <3> DEFINE kp == IF rows[t.id].key \in KeptKeys THEN "future" ELSE rows[t.id].keep
    <3>1. kp \in {"null", "future", "past"}
      BY <2>2
    <3>2. [key |-> rows[t.id].key, status |-> "complete", lock |-> NoPid, keep |-> kp] \in Row
      BY <3>1, <2>2
    <3>3. QED
      BY <3>2, <1>23 DEF CompleteTask
  <2>4. rows' \in [Ids -> Row]
    BY <2>1, <2>3, ZenonT(60)
  <2>5. kills' \in 0..MaxKills
    BY <1>23 DEF CompleteTask
  <2>6. threads' \subseteq Thread
    BY <1>23 DEF CompleteTask
  <2>7. adrift' \subseteq Ids
    <3>1. adrift' = adrift \/ adrift' = adrift \cup {t.id}
      BY <1>23 DEF CompleteTask
    <3>2. adrift \subseteq Ids
      OBVIOUS
    <3>3. t.id \in Ids
      BY <2>1
    <3> HIDE DEF TypeOK, Ids
    <3>4. QED
      BY <3>1, <3>2, <3>3, Zenon
  <2>8. UNCHANGED <<nextId, pidFile, mainVars, waits, stops, starts, ended, cancelled>>
    BY <1>23 DEF CompleteTask
  <2>9. QED
    BY <2>4, <2>5, <2>6, <2>7, <2>8
<1>24. CASE Kill
  <2>1. adrift' \subseteq Ids /\ threads' \subseteq threads
    BY <1>24 DEF Kill
  <2>2. /\ pc' = "off" /\ todo' = {} /\ batch' = {} /\ kills' \in 0..MaxKills
        /\ UNCHANGED <<me, last, stop, starts, ended, cancelled, rows, nextId, pidFile, waits, stops>>
    BY <1>24 DEF Kill
  <2>3. QED
    BY <2>1, <2>2
<1>25. CASE Terminate
  BY <1>25 DEF Terminate
<1>26. CASE MainFails
  <2>1. adrift' \subseteq Ids /\ threads' \subseteq threads
    BY <1>26 DEF MainFails
  <2>2. /\ pc' = "off" /\ todo' = {} /\ batch' = {} /\ kills' \in 0..MaxKills
        /\ UNCHANGED <<me, last, stop, starts, ended, cancelled, rows, nextId, pidFile, waits, stops>>
    BY <1>26 DEF MainFails
  <2>3. QED
    BY <2>1, <2>2
<1>27. CASE UNCHANGED vars
  BY <1>27 DEF vars
<1>28. QED
  BY <1>1, <1>2, <1>3, <1>4, <1>5, <1>6, <1>7, <1>8, <1>9, <1>10, <1>11, <1>12,
     <1>13, <1>14, <1>15, <1>16, <1>17, <1>18, <1>19, <1>20, <1>21, <1>22, <1>23,
     <1>24, <1>25, <1>26, <1>27 DEF Next, MainStep, ThreadStep

\* The types hold in every reachable state.
THEOREM TypeCorrect == Spec => []TypeOK
BY TypeInit, TypeStep, PTL DEF Spec

-----------------------------------------------------------------------------
(* The inductive invariant behind the safety properties.  RunnerOwnsRow is *)
(* not inductive by itself: a row must not be reset, deleted or reused     *)
(* under a thread, so the threads must all belong to the process that      *)
(* holds the port and that has finished its recovery, the tasks to reset   *)
(* must be active rows, and the autoincrement must not reissue an ID.      *)

ThreadsServe     == \A t \in threads : t.pid = me /\ pc \in Serving
OneThreadPerTask == \A t, u \in threads : t.id = u.id => t = u
KeysUnique       == \A i, j \in Ids :
    rows[i].status # "absent" /\ rows[j].status # "absent" /\ rows[i].key = rows[j].key => i = j
NotYetIssued     == \A i \in Ids : i >= nextId =>
    rows[i].status = "absent" /\ waits[i] = "idle" /\ i \notin cancelled
DoneWaits        == \A i \in Ids : waits[i] = "done" => rows[i].status \in {"complete", "absent"}
TodoIsActive     == \A i \in todo : pc = "recovering" /\ rows[i].status = "active"

QueueInv == /\ TypeOK /\ RunnerOwnsRow /\ ThreadsServe /\ OneThreadPerTask /\ KeysUnique
            /\ NotYetIssued /\ DoneWaits /\ TodoIsActive /\ CancelledStaysGone

\* Main never lets go of the port while its threads live on.
ThreadsDieWithMain == ~(DbMayFail /\ ThreadsOutliveMain)

\* A deleted row is absent and keeps its key; the others are as they were.
LEMMA DeleteEffect ==
  ASSUME NEW S, rows \in [Ids -> Row], Delete(S)
  PROVE  \A j \in Ids : /\ rows'[j].key = rows[j].key
                        /\ j \in S => rows'[j].status = "absent"
                        /\ j \notin S => rows'[j] = rows[j]
BY DEF Delete, Unlocked, Row

LEMMA QueueInvInit == Init => QueueInv
BY TypeInit DEF Init, QueueInv, TypeOK, RunnerOwnsRow, ThreadsServe, OneThreadPerTask, KeysUnique,
   NotYetIssued, DoneWaits, TodoIsActive, CancelledStaysGone, Unlocked

LEMMA QueueInvStep ==
  ASSUME ThreadsDieWithMain, QueueInv, [Next]_vars, TypeOK'
  PROVE  QueueInv'
<1> USE DEF Ids, Row, Thread, Serving, mainVars, faults, history, Unlocked, RunnerOwnsRow,
        ThreadsServe, OneThreadPerTask, KeysUnique, NotYetIssued, DoneWaits, TodoIsActive,
        CancelledStaysGone
<1>0. /\ TypeOK /\ RunnerOwnsRow /\ ThreadsServe /\ OneThreadPerTask /\ KeysUnique
      /\ NotYetIssued /\ DoneWaits /\ TodoIsActive /\ CancelledStaysGone
  BY DEF QueueInv
<1>a. rows \in [Ids -> Row] /\ threads \subseteq Thread /\ nextId \in 1..(MaxTasks + 1)
      /\ todo \subseteq Ids /\ cancelled \subseteq Ids
      /\ waits \in [Ids -> Waits]
  BY <1>0 DEF TypeOK
<1>1. ASSUME NEW k \in Keys, AddTask(k) PROVE QueueInv'
  <2>1. nextId \in Ids /\ rows[nextId].status = "absent" /\ nextId \notin todo
    BY <1>1, <1>0, <1>a DEF AddTask, NotYetIssued, TodoIsActive
  <2>2. RunnerOwnsRow'
    BY <1>1, <1>0, <1>a, <2>1 DEF KeyTaken, AddTask
  <2>3. KeysUnique'
    BY <1>1, <1>0, <1>a, <2>1 DEF KeyTaken, AddTask
  <2>4. NotYetIssued'
    BY <1>1, <1>0, <1>a, <2>1 DEF KeyTaken, AddTask
  <2>5. DoneWaits'
    BY <1>1, <1>0, <1>a, <2>1 DEF KeyTaken, AddTask
  <2>6. TodoIsActive'
    BY <1>1, <1>0, <1>a, <2>1, ZenonT(60) DEF KeyTaken, AddTask
  <2>7. CancelledStaysGone'
    BY <1>1, <1>0, <1>a, <2>1 DEF KeyTaken, AddTask
  <2>8. ThreadsServe' /\ OneThreadPerTask'
    BY <1>1, <1>0, <1>a DEF KeyTaken, AddTask
  <2>9. QED
    BY <2>2, <2>3, <2>4, <2>5, <2>6, <2>7, <2>8, TypeOK' DEF QueueInv
<1>2. ASSUME NEW i \in Ids, CancelTask(i) PROVE QueueInv'
  <2>1. rows[i].status = "pending"
    BY <1>2, <1>0, <1>a DEF CancelTask
  <2>2. \A j \in Ids :
           /\ rows'[j].key = rows[j].key
           /\ rows'[j] = rows[j] \/ (rows'[j].status = "absent" /\ rows[j].status # "active")
    BY <1>2, <2>1, <1>a, DeleteEffect DEF CancelTask
  <2>3. RunnerOwnsRow'
    BY <1>2, <1>0, <1>a, <2>1, <2>2 DEF CancelTask
  <2>4. KeysUnique'
    BY <1>2, <1>0, <1>a, <2>1, <2>2 DEF CancelTask
  <2>5. NotYetIssued'
    BY <1>2, <1>0, <1>a, <2>1, <2>2 DEF CancelTask
  <2>6. DoneWaits'
    BY <1>2, <1>0, <1>a, <2>1, <2>2 DEF CancelTask
  <2>7. TodoIsActive'
    BY <1>2, <1>0, <1>a, <2>1, <2>2, ZenonT(90) DEF CancelTask
  <2>8. CancelledStaysGone'
    <3>1. rows'[i].status = "absent" /\ \A t \in threads : t.id # i
      BY <1>2, <1>0, <1>a, <2>1, DeleteEffect DEF CancelTask
    <3>2. QED
      BY <1>2, <1>0, <1>a, <2>2, <3>1 DEF CancelTask
  <2>9. ThreadsServe' /\ OneThreadPerTask'
    BY <1>2, <1>0, <1>a DEF CancelTask
  <2>10. QED
    BY <2>3, <2>4, <2>5, <2>6, <2>7, <2>8, <2>9, TypeOK' DEF QueueInv
<1>3. ASSUME NEW i \in Ids, BeginWait(i) PROVE QueueInv'
  <2>1. NotYetIssued'
    BY <1>3, <1>0, <1>a DEF BeginWait
  <2>2. DoneWaits'
    BY <1>3, <1>0, <1>a DEF BeginWait
  <2>3. RunnerOwnsRow' /\ ThreadsServe' /\ OneThreadPerTask' /\ KeysUnique' /\ TodoIsActive' /\ CancelledStaysGone'
    BY <1>3, <1>0, <1>a DEF BeginWait
  <2>4. QED
    BY <2>1, <2>2, <2>3, TypeOK' DEF QueueInv
<1>4. ASSUME NEW i \in Ids, PollWait(i) PROVE QueueInv'
  <2>1. /\ waits[i] = "waiting"
        /\ \E w \in {"done", "none", "unknown", "timeout"} :
               waits' = [waits EXCEPT ![i] = w] /\ (w = "done" => rows[i].status = "complete")
        /\ rows' = rows /\ nextId' = nextId /\ cancelled' = cancelled
    BY <1>4, <1>0, <1>a DEF PollWait
  <2>2. NotYetIssued'
    BY <1>4, <1>0, <1>a, <2>1 DEF PollWait
  <2>3. DoneWaits'
    BY <1>4, <1>0, <1>a, <2>1 DEF PollWait
  <2>4. RunnerOwnsRow' /\ ThreadsServe' /\ OneThreadPerTask' /\ KeysUnique' /\ TodoIsActive' /\ CancelledStaysGone'
    BY <1>4, <1>0, <1>a DEF PollWait
  <2>5. QED
    BY <2>2, <2>3, <2>4, TypeOK' DEF QueueInv
<1>5. ASSUME NEW i \in Ids, DeleteWaited(i) PROVE QueueInv'
  <2>1. /\ rows[i].status \in {"complete", "absent"} /\ i < nextId
        /\ Delete({i}) \/ rows' = rows
    BY <1>5, <1>0, <1>a DEF DeleteWaited
  <2>2. \A j \in Ids :
           /\ rows'[j].key = rows[j].key
           /\ rows'[j] = rows[j] \/ (rows'[j].status = "absent" /\ rows[j].status # "active")
    <3>1. CASE Delete({i})
      BY <3>1, <2>1, <1>a, DeleteEffect
    <3>2. CASE rows' = rows
      BY <3>2
    <3>3. QED
      BY <2>1, <3>1, <3>2
  <2>3. RunnerOwnsRow'
    BY <1>5, <1>0, <1>a, <2>1, <2>2 DEF DeleteWaited
  <2>4. KeysUnique'
    BY <1>5, <1>0, <1>a, <2>1, <2>2 DEF DeleteWaited
  <2>5. NotYetIssued'
    BY <1>5, <1>0, <1>a, <2>1, <2>2 DEF DeleteWaited
  <2>6. DoneWaits'
    BY <1>5, <1>0, <1>a, <2>1, <2>2 DEF DeleteWaited
  <2>7. TodoIsActive'
    <3>1. todo' = todo /\ pc' = pc
      BY <1>5 DEF DeleteWaited
    <3>2. QED
      BY <1>0, <1>a, <2>2, <3>1
  <2>8. CancelledStaysGone'
    BY <1>5, <1>0, <1>a, <2>1, <2>2 DEF DeleteWaited
  <2>9. ThreadsServe' /\ OneThreadPerTask'
    BY <1>5, <1>0, <1>a DEF DeleteWaited
  <2>10. QED
    BY <2>3, <2>4, <2>5, <2>6, <2>7, <2>8, <2>9, TypeOK' DEF QueueInv
<1>6. ASSUME NEW i \in Ids, KeepExpires(i) PROVE QueueInv'
  <2>1. RunnerOwnsRow'
    BY <1>6, <1>0, <1>a DEF KeepExpires
  <2>2. KeysUnique'
    BY <1>6, <1>0, <1>a DEF KeepExpires
  <2>3. NotYetIssued'
    BY <1>6, <1>0, <1>a DEF KeepExpires
  <2>4. DoneWaits'
    BY <1>6, <1>0, <1>a DEF KeepExpires
  <2>5. TodoIsActive'
    BY <1>6, <1>0, <1>a DEF KeepExpires
  <2>6. CancelledStaysGone'
    BY <1>6, <1>0, <1>a DEF KeepExpires
  <2>7. ThreadsServe' /\ OneThreadPerTask'
    BY <1>6, <1>0, <1>a DEF KeepExpires
  <2>8. QED
    BY <2>1, <2>2, <2>3, <2>4, <2>5, <2>6, <2>7, TypeOK' DEF QueueInv
<1>7. ASSUME NEW p \in Pids, StartServer(p) PROVE QueueInv'
  BY <1>7, <1>0, <1>a, TypeOK' DEF QueueInv, StartServer
<1>8. CASE OpenPidFile
  BY <1>8, <1>0, <1>a, TypeOK' DEF QueueInv, OpenPidFile
<1>9. CASE WritePidFile
  BY <1>9, <1>0, <1>a, TypeOK' DEF QueueInv, WritePidFile
<1>10. CASE Settled
  <2>1. Delete({j \in Ids : rows[j].status = "complete" /\ rows[j].keep # "future"}) \/ rows' = rows
    BY <1>10, <1>0, <1>a DEF Settled, DeleteCompleted, WithStatus
  <2>2. \A j \in Ids :
           /\ rows'[j].key = rows[j].key
           /\ rows'[j] = rows[j] \/ (rows'[j].status = "absent" /\ rows[j].status # "active")
    <3>1. CASE Delete({j \in Ids : rows[j].status = "complete" /\ rows[j].keep # "future"})
      BY <3>1, <2>1, <1>a, DeleteEffect
    <3>2. CASE rows' = rows
      BY <3>2
    <3>3. QED
      BY <2>1, <3>1, <3>2
  <2>3. RunnerOwnsRow'
    BY <1>10, <1>0, <1>a, <2>1, <2>2 DEF Settled
  <2>4. ThreadsServe'
    BY <1>10, <1>0, <1>a, <2>1, <2>2 DEF Settled
  <2>5. KeysUnique'
    BY <1>10, <1>0, <1>a, <2>1, <2>2 DEF Settled
  <2>6. NotYetIssued'
    BY <1>10, <1>0, <1>a, <2>1, <2>2 DEF Settled
  <2>7. DoneWaits'
    BY <1>10, <1>0, <1>a, <2>1, <2>2 DEF Settled
  <2>8. TodoIsActive'
    BY <1>10, <1>0, <1>a, <2>1, <2>2 DEF Settled
  <2>9. CancelledStaysGone'
    BY <1>10, <1>0, <1>a, <2>1, <2>2 DEF Settled
  <2>10. OneThreadPerTask'
    BY <1>10, <1>0, <1>a DEF Settled
  <2>11. QED
    BY <2>3, <2>4, <2>5, <2>6, <2>7, <2>8, <2>9, <2>10, TypeOK' DEF QueueInv
<1>11. CASE ListInterrupted
  <2>1. TodoIsActive'
    BY <1>11, <1>0, <1>a DEF WithStatus, ListInterrupted
  <2>2. RunnerOwnsRow' /\ ThreadsServe' /\ OneThreadPerTask' /\ KeysUnique' /\ NotYetIssued' /\ DoneWaits' /\ CancelledStaysGone'
    BY <1>11, <1>0, <1>a DEF WithStatus, ListInterrupted
  <2>3. QED
    BY <2>1, <2>2, TypeOK' DEF QueueInv
<1>12. ASSUME NEW i \in Ids, ResetTask(i) PROVE QueueInv'
  <2>1. RunnerOwnsRow'
    BY <1>12, <1>0, <1>a DEF ResetTask
  <2>2. KeysUnique'
    BY <1>12, <1>0, <1>a DEF ResetTask
  <2>3. NotYetIssued'
    BY <1>12, <1>0, <1>a DEF ResetTask
  <2>4. DoneWaits'
    BY <1>12, <1>0, <1>a DEF ResetTask
  <2>5. TodoIsActive'
    BY <1>12, <1>0, <1>a, ZenonT(60) DEF ResetTask
  <2>6. CancelledStaysGone'
    BY <1>12, <1>0, <1>a DEF ResetTask
  <2>7. ThreadsServe' /\ OneThreadPerTask'
    BY <1>12, <1>0, <1>a DEF ResetTask
  <2>8. QED
    BY <2>1, <2>2, <2>3, <2>4, <2>5, <2>6, <2>7, TypeOK' DEF QueueInv
<1>13. CASE Recovered
  BY <1>13, <1>0, <1>a, TypeOK' DEF QueueInv, Recovered
<1>14. CASE FetchPending
  BY <1>14, <1>0, <1>a, TypeOK' DEF QueueInv, FetchPending
<1>15. ASSUME NEW i \in Ids, DispatchTask(i) PROVE QueueInv'
  <2>1. CASE Lockable(i)
    <3>1. /\ rows[i].status = "pending"
          /\ rows' = [rows EXCEPT ![i] = [key |-> @.key, status |-> "active", lock |-> me, keep |-> @.keep]]
          /\ threads' = threads \cup {[pid |-> me, id |-> i, at |-> "ready"]}
          /\ pc = "dispatching" /\ pc' = pc /\ me' = me /\ todo' = todo /\ nextId' = nextId
          /\ waits' = waits /\ cancelled' = cancelled
      BY <1>15, <2>1 DEF DispatchTask, Lockable
    <3>2. \A t \in threads : t.id # i
      BY <3>1, <1>0
    <3>3. \A j \in Ids : rows'[j].key = rows[j].key
      BY <3>1, <1>a
    <3>4. RunnerOwnsRow'
      BY <3>1, <3>2, <3>3, <1>0, <1>a
    <3>5. ThreadsServe'
      BY <3>1, <3>2, <3>3, <1>0, <1>a
    <3>6. OneThreadPerTask'
      BY <3>1, <3>2, <3>3, <1>0, <1>a
    <3>7. KeysUnique'
      BY <3>1, <3>2, <3>3, <1>0, <1>a
    <3>8. NotYetIssued'
      BY <3>1, <3>2, <3>3, <1>0, <1>a
    <3>9. DoneWaits'
      BY <3>1, <3>2, <3>3, <1>0, <1>a
    <3>10. TodoIsActive'
      BY <3>1, <3>2, <3>3, <1>0, <1>a
    <3>11. CancelledStaysGone'
      BY <3>1, <3>2, <3>3, <1>0, <1>a
    <3>12. QED
      BY <3>4, <3>5, <3>6, <3>7, <3>8, <3>9, <3>10, <3>11, TypeOK' DEF QueueInv
  <2>2. CASE ~Lockable(i)
    BY <2>2, <1>15, <1>0, <1>a, TypeOK' DEF DispatchTask, QueueInv
  <2>3. QED
    BY <2>1, <2>2
<1>16. CASE BatchDone
  BY <1>16, <1>0, <1>a, TypeOK' DEF QueueInv, BatchDone
<1>17. CASE CleanUp
  <2>1. Delete({j \in Ids : rows[j].status = "complete" /\ rows[j].keep # "future"})
    BY <1>17, <1>0, <1>a DEF CleanUp, DeleteCompleted, WithStatus
  <2>2. \A j \in Ids :
           /\ rows'[j].key = rows[j].key
           /\ rows'[j] = rows[j] \/ (rows'[j].status = "absent" /\ rows[j].status # "active")
    BY <1>17, <2>1, <1>a, DeleteEffect DEF CleanUp
  <2>3. RunnerOwnsRow'
    BY <1>17, <1>0, <1>a, <2>1, <2>2 DEF CleanUp
  <2>4. KeysUnique'
    BY <1>17, <1>0, <1>a, <2>1, <2>2 DEF CleanUp
  <2>5. NotYetIssued'
    BY <1>17, <1>0, <1>a, <2>1, <2>2 DEF CleanUp
  <2>6. DoneWaits'
    BY <1>17, <1>0, <1>a, <2>1, <2>2 DEF CleanUp
  <2>7. TodoIsActive'
    BY <1>17, <1>0, <1>a, <2>1, <2>2 DEF CleanUp
  <2>8. CancelledStaysGone'
    BY <1>17, <1>0, <1>a, <2>1, <2>2 DEF CleanUp
  <2>9. ThreadsServe' /\ OneThreadPerTask'
    BY <1>17, <1>0, <1>a DEF CleanUp
  <2>10. QED
    BY <2>3, <2>4, <2>5, <2>6, <2>7, <2>8, <2>9, TypeOK' DEF QueueInv
<1>18. CASE Rest
  BY <1>18, <1>0, <1>a, TypeOK' DEF QueueInv, Rest
<1>19. CASE LeaveLoop
  BY <1>19, <1>0, <1>a, TypeOK' DEF QueueInv, LeaveLoop
<1>20. CASE ExitServer
  BY <1>20, <1>0, <1>a, TypeOK' DEF QueueInv, NoThreadsLeft, ExitServer
<1>21. ASSUME NEW t \in threads, BeginTask(t) PROVE QueueInv'
  <2>1. RunnerOwnsRow'
    BY <1>21, <1>0, <1>a DEF Advance, BeginTask
  <2>2. ThreadsServe'
    BY <1>21, <1>0, <1>a DEF Advance, BeginTask
  <2>3. OneThreadPerTask'
    BY <1>21, <1>0, <1>a DEF Advance, BeginTask
  <2>4. CancelledStaysGone'
    BY <1>21, <1>0, <1>a DEF Advance, BeginTask
  <2>5. KeysUnique' /\ NotYetIssued' /\ DoneWaits' /\ TodoIsActive'
    BY <1>21, <1>0, <1>a DEF Advance, BeginTask
  <2>6. QED
    BY <2>1, <2>2, <2>3, <2>4, <2>5, TypeOK' DEF QueueInv
<1>22. ASSUME NEW t \in threads, EndTask(t) PROVE QueueInv'
  <2>1. RunnerOwnsRow'
    BY <1>22, <1>0, <1>a DEF Advance, EndTask
  <2>2. ThreadsServe'
    BY <1>22, <1>0, <1>a DEF Advance, EndTask
  <2>3. OneThreadPerTask'
    BY <1>22, <1>0, <1>a DEF Advance, EndTask
  <2>4. CancelledStaysGone'
    BY <1>22, <1>0, <1>a DEF Advance, EndTask
  <2>5. KeysUnique' /\ NotYetIssued' /\ DoneWaits' /\ TodoIsActive'
    BY <1>22, <1>0, <1>a DEF Advance, EndTask
  <2>6. QED
    BY <2>1, <2>2, <2>3, <2>4, <2>5, TypeOK' DEF QueueInv
<1>23. ASSUME NEW t \in threads, CompleteTask(t) PROVE QueueInv'
  <2>1. t.id \in Ids /\ rows[t.id].status = "active"
    BY <1>0, <1>a
  <2>2. ASSUME NEW kp, rows' = [rows EXCEPT ![t.id] =
                     [key |-> @.key, status |-> "complete", lock |-> NoPid, keep |-> kp]]
        PROVE  \A j \in Ids : /\ rows'[j].key = rows[j].key
                              /\ j # t.id => rows'[j] = rows[j]
                              /\ j = t.id => rows'[j].status = "complete"
    BY <2>1, <2>2, <1>a
  <2>3. \A j \in Ids : /\ rows'[j].key = rows[j].key
                       /\ j # t.id => rows'[j] = rows[j]
                       /\ rows'[j].status = rows[j].status \/ (j = t.id /\ rows'[j].status = "complete")
    <3>1. CASE rows' = rows
      BY <3>1
    <3>2. CASE rows' # rows
      <4>1. PICK kp : rows' = [rows EXCEPT ![t.id] =
                     [key |-> @.key, status |-> "complete", lock |-> NoPid, keep |-> kp]]
        BY <3>2, <1>23 DEF CompleteTask
      <4>2. QED
        BY <2>2, <4>1
    <3>3. QED
      BY <3>1, <3>2
  <2>4. /\ threads' = threads \ {t} /\ t.pid = me
        /\ pc' = pc /\ me' = me /\ todo' = todo /\ nextId' = nextId /\ waits' = waits
        /\ cancelled' = cancelled
    BY <1>23, <1>0 DEF CompleteTask
  <2>5. RunnerOwnsRow'
    BY <2>1, <2>3, <2>4, <1>0, <1>a
  <2>6. ThreadsServe'
    BY <2>1, <2>3, <2>4, <1>0, <1>a
  <2>7. OneThreadPerTask'
    BY <2>1, <2>3, <2>4, <1>0, <1>a
  <2>8. KeysUnique'
    BY <2>1, <2>3, <2>4, <1>0, <1>a
  <2>9. NotYetIssued'
    BY <2>1, <2>3, <2>4, <1>0, <1>a
  <2>10. DoneWaits'
    BY <2>1, <2>3, <2>4, <1>0, <1>a
  <2>11. TodoIsActive'
    BY <2>1, <2>3, <2>4, <1>0, <1>a
  <2>12. CancelledStaysGone'
    BY <2>1, <2>3, <2>4, <1>0, <1>a
  <2>13. QED
    BY <2>5, <2>6, <2>7, <2>8, <2>9, <2>10, <2>11, <2>12, TypeOK' DEF QueueInv
<1>24. CASE Kill
  <2>1. RunnerOwnsRow'
    BY <1>24, <1>0, <1>a DEF MainEnds, Kill
  <2>2. ThreadsServe'
    BY <1>24, <1>0, <1>a DEF MainEnds, Kill
  <2>3. OneThreadPerTask'
    BY <1>24, <1>0, <1>a DEF MainEnds, Kill
  <2>4. CancelledStaysGone'
    BY <1>24, <1>0, <1>a DEF MainEnds, Kill
  <2>5. KeysUnique' /\ NotYetIssued' /\ DoneWaits' /\ TodoIsActive'
    BY <1>24, <1>0, <1>a DEF MainEnds, Kill
  <2>6. QED
    BY <2>1, <2>2, <2>3, <2>4, <2>5, TypeOK' DEF QueueInv
<1>25. CASE Terminate
  BY <1>25, <1>0, <1>a, TypeOK' DEF QueueInv, Terminate
<1>26. CASE MainFails
  <2>1. threads' = {} \/ threads = {}
    BY <1>26, <1>0, ConstantsAssumption DEF MainFails, ThreadsDieWithMain, ConstantsAssumption, CanMerge
  <2>2. RunnerOwnsRow'
    BY <1>26, <1>0, <1>a, <2>1 DEF MainEnds, CanMerge, MainFails
  <2>3. ThreadsServe'
    BY <1>26, <1>0, <1>a, <2>1 DEF MainEnds, CanMerge, MainFails
  <2>4. OneThreadPerTask'
    BY <1>26, <1>0, <1>a, <2>1 DEF MainEnds, CanMerge, MainFails
  <2>5. CancelledStaysGone'
    BY <1>26, <1>0, <1>a, <2>1 DEF MainEnds, CanMerge, MainFails
  <2>6. KeysUnique' /\ NotYetIssued' /\ DoneWaits' /\ TodoIsActive'
    BY <1>26, <1>0, <1>a DEF MainEnds, CanMerge, MainFails
  <2>7. QED
    BY <2>2, <2>3, <2>4, <2>5, <2>6, TypeOK' DEF QueueInv
<1>27. CASE UNCHANGED vars
  BY <1>27, <1>0 DEF vars, QueueInv, TypeOK
<1>28. QED
  BY <1>1, <1>2, <1>3, <1>4, <1>5, <1>6, <1>7, <1>8, <1>9, <1>10, <1>11, <1>12, <1>13, <1>14, <1>15, <1>16, <1>17, <1>18, <1>19, <1>20, <1>21, <1>22, <1>23, <1>24, <1>25, <1>26, <1>27 DEF Next, MainStep, ThreadStep

\* The strengthened invariant holds in every reachable state.
LEMMA QueueInvariant == ASSUME ThreadsDieWithMain PROVE Spec => []QueueInv
<1>1. QueueInv /\ [Next]_vars => QueueInv'
  BY QueueInvStep, TypeStep DEF QueueInv
<1>2. QED
  BY QueueInvInit, <1>1, PTL DEF Spec

\* No task, and no two tasks with the same function and parameters, ever run at
\* the same time: for any number of keys, tasks, threads, kills and restarts, as
\* long as the port is never released with threads alive.
THEOREM OneRunner == ASSUME ThreadsDieWithMain PROVE Spec => []OneRunnerPerKey
<1>1. QueueInv => OneRunnerPerKey
  BY DEF QueueInv, TypeOK, RunnerOwnsRow, OneThreadPerTask, KeysUnique, OneRunnerPerKey, Thread
<1>2. QED
  BY QueueInvariant, <1>1, PTL

\* A running task's row is active and locked by the process that runs it.
THEOREM RunnerOwns == ASSUME ThreadsDieWithMain PROVE Spec => []RunnerOwnsRow
<1>1. QueueInv => RunnerOwnsRow
  BY DEF QueueInv
<1>2. QED
  BY QueueInvariant, <1>1, PTL

\* A task that was cancelled successfully never runs again and never reappears.
THEOREM CancelIsFinal == ASSUME ThreadsDieWithMain PROVE Spec => []CancelledStaysGone
<1>1. QueueInv => CancelledStaysGone
  BY DEF QueueInv
<1>2. QED
  BY QueueInvariant, <1>1, PTL

\* A completed task never goes back to the queue.
THEOREM CompletedStays == ASSUME ThreadsDieWithMain PROVE Spec => CompletedIsFinal
<1> DEFINE Final == \A i \in Ids : rows[i].status = "complete" =>
                        rows'[i].status \in {"complete", "absent"}
<1>1. QueueInv /\ [Next]_vars => [Final]_rows
  <2> SUFFICES ASSUME QueueInv, [Next]_vars, NEW i \in Ids, rows[i].status = "complete",
                      rows' # rows
               PROVE  rows'[i].status \in {"complete", "absent"}
    OBVIOUS
  <2>1. /\ rows \in [Ids -> Row] /\ nextId \in 1..(MaxTasks + 1)
        /\ \A t \in threads : t.id \in Ids /\ rows[t.id].status = "active"
        /\ rows[nextId].status = "absent" \/ nextId \notin Ids
        /\ \A j \in todo : rows[j].status = "active"
    BY DEF QueueInv, TypeOK, Thread, RunnerOwnsRow, NotYetIssued, TodoIsActive
  <2> USE DEF Ids, Row, Unlocked
  <2>2. ASSUME NEW k \in Keys, AddTask(k) PROVE rows'[i].status \in {"complete", "absent"}
    BY <2>1, <2>2, ConstantsAssumption DEF AddTask, ConstantsAssumption
  <2>3. ASSUME NEW S, Delete(S) PROVE rows'[i].status \in {"complete", "absent"}
    BY <2>1, <2>3, DeleteEffect
  <2>4. ASSUME NEW j \in Ids, KeepExpires(j) PROVE rows'[i].status \in {"complete", "absent"}
    BY <2>1, <2>4 DEF KeepExpires
  <2>5. ASSUME NEW j \in Ids, ResetTask(j) PROVE rows'[i].status \in {"complete", "absent"}
    BY <2>1, <2>5 DEF ResetTask
  <2>6. ASSUME NEW j \in Ids, DispatchTask(j) PROVE rows'[i].status \in {"complete", "absent"}
    BY <2>1, <2>6 DEF DispatchTask, Lockable
  <2>7. ASSUME NEW t \in threads, CompleteTask(t)
        PROVE  rows'[i].status \in {"complete", "absent"}
    BY <2>1, <2>7 DEF CompleteTask
  <2>8. QED
    BY <2>2, <2>3, <2>4, <2>5, <2>6, <2>7 DEF Next, MainStep, ThreadStep, vars, BeginWait,
       PollWait, CancelTask, DeleteWaited, Settled, CleanUp, DeleteCompleted, StartServer, OpenPidFile, WritePidFile, ListInterrupted, Recovered,
       FetchPending, BatchDone, Rest, LeaveLoop, ExitServer, BeginTask, EndTask, Kill,
       Terminate, MainFails
<1>2. QED
  BY QueueInvariant, <1>1, PTL DEF Spec, CompletedIsFinal

-----------------------------------------------------------------------------
(* Recovery.  An active row is always traceable to the process that locked *)
(* it: by the process ID file while no server is up, by the value the new  *)
(* server read from that file while it starts, by the list of tasks to     *)
(* reset while it recovers, and by a thread once it serves.  The chain     *)
(* breaks only if a start is interrupted after the file is rewritten, or   *)
(* the end of a task cannot be recorded: such tasks are adrift.            *)

Traceable(i) ==
    /\ rows[i].lock # NoPid
    /\ pc \in {"off", "boot"} => rows[i].lock = pidFile
    /\ pc \in {"naming", "settling", "listing"} => rows[i].lock = last
    /\ pc = "recovering" => i \in todo
    /\ pc \in Serving => \E t \in threads : t.id = i

StartInv == /\ \A i \in WithStatus("active") \ adrift : Traceable(i)
            /\ pc \notin {"off", "boot", "naming"} => pidFile = me

LEMMA StartInvInit == Init => StartInv
BY DEF Init, StartInv, WithStatus, Unlocked, Serving

LEMMA StartInvStep ==
  ASSUME ThreadsDieWithMain, QueueInv, StartInv, [Next]_vars
  PROVE  StartInv'
<1> USE DEF Serving, mainVars, history, Traceable
<1>0. /\ rows \in [Ids -> Row] /\ threads \subseteq Thread /\ pc \in MainPoints
      /\ me \in Pids \cup {NoPid} /\ (pc # "off" => me # NoPid)
      /\ \A t \in threads : /\ t.id \in Ids /\ rows[t.id].status = "active"
                            /\ rows[t.id].lock = t.pid /\ t.pid = me /\ pc \in Serving
      /\ \A t, u \in threads : t.id = u.id => t = u
      /\ \A j \in todo : pc = "recovering" /\ rows[j].status = "active"
  BY DEF QueueInv, TypeOK, Thread, RunnerOwnsRow, OneThreadPerTask, TodoIsActive, ThreadsServe
<1>2. pc' \notin {"off", "boot", "naming"} => pidFile' = me'
  <2>1. CASE UNCHANGED <<pc, pidFile, me>>
    BY <2>1 DEF StartInv
  <2>2. CASE UNCHANGED <<pidFile, me>> /\ pc \notin {"off", "boot", "naming"}
    BY <2>2 DEF StartInv
  <2>3. ASSUME NEW p \in Pids, StartServer(p)
        PROVE  pc' \notin {"off", "boot", "naming"} => pidFile' = me'
    BY <2>3 DEF StartServer
  <2>4. CASE OpenPidFile \/ WritePidFile \/ Kill \/ MainFails
    BY <2>4 DEF OpenPidFile, WritePidFile, Kill, MainFails, MainEnds
  <2>5. CASE ThreadStep \/ Terminate \/ UNCHANGED vars
    BY <2>1, <2>5 DEF ThreadStep, Terminate, vars, BeginTask, EndTask, CompleteTask
  <2>6. CASE MainStep
    BY <2>1, <2>2, <2>4, <2>6 DEF MainStep, Settled, ListInterrupted, ResetTask, Recovered,
       FetchPending, DispatchTask, BatchDone, CleanUp, Rest, LeaveLoop, ExitServer
  <2>7. QED
    BY <2>1, <2>3, <2>4, <2>5, <2>6 DEF Next, AddTask, CancelTask, BeginWait, PollWait,
       DeleteWaited, KeepExpires
<1>3. ASSUME NEW i \in Ids, rows'[i].status = "active", i \notin adrift' PROVE Traceable(i)'
  <2>0. rows[i].status = "active" /\ i \notin adrift => Traceable(i)
    BY DEF StartInv, WithStatus
  <2>1. ASSUME NEW k \in Keys, AddTask(k) PROVE Traceable(i)'
    BY <1>0, <1>3, <2>0, <2>1 DEF AddTask, Unlocked
  <2>2. ASSUME NEW S, Delete(S) PROVE rows'[i] = rows[i]
    BY <1>0, <1>3, <2>2, DeleteEffect
  <2>3. ASSUME NEW j \in Ids, CancelTask(j) \/ DeleteWaited(j) PROVE Traceable(i)'
    BY <1>3, <2>0, <2>2, <2>3 DEF CancelTask, DeleteWaited
  <2>4. ASSUME NEW j \in Ids, BeginWait(j) \/ PollWait(j) PROVE Traceable(i)'
    BY <1>3, <2>0, <2>4 DEF BeginWait, PollWait
  <2>5. ASSUME NEW j \in Ids, KeepExpires(j) PROVE Traceable(i)'
    BY <1>0, <1>3, <2>0, <2>5 DEF KeepExpires
  <2>6. ASSUME NEW p \in Pids, StartServer(p) PROVE Traceable(i)'
    BY <1>3, <2>0, <2>6 DEF StartServer
  <2>7. CASE OpenPidFile \/ WritePidFile
    BY <1>3, <2>0, <2>7 DEF OpenPidFile, WritePidFile
  <2>8. CASE Settled
    <3>1. rows'[i] = rows[i]
      BY <2>2, <2>8 DEF Settled, DeleteCompleted
    <3>2. i \in WithStatus("active")
      BY <1>3, <3>1 DEF WithStatus
    <3>3. pc = "settling" /\ ~stop /\ i \notin adrift /\ last # NoPid
      BY <1>3, <2>0, <2>8, <3>1, <3>2 DEF Settled
    <3>4. QED
      BY <1>3, <2>0, <2>8, <3>1, <3>3 DEF Settled
  <2>9. CASE ListInterrupted
    BY <1>3, <2>0, <2>9 DEF ListInterrupted, WithStatus
  <2>10. ASSUME NEW j \in Ids, ResetTask(j) PROVE Traceable(i)'
    BY <1>0, <1>3, <2>0, <2>10 DEF ResetTask, Unlocked
  <2>11. CASE Recovered
    BY <1>3, <2>0, <2>11 DEF Recovered
  <2>12. CASE FetchPending \/ BatchDone \/ Rest \/ LeaveLoop
    BY <1>3, <2>0, <2>12 DEF FetchPending, BatchDone, Rest, LeaveLoop
  <2>13. ASSUME NEW j \in Ids, DispatchTask(j) PROVE Traceable(i)'
    <3>1. CASE i = j /\ Lockable(i)
      <4>1. /\ rows'[i].lock = me /\ pc = "dispatching" /\ pc' = pc
            /\ [pid |-> me, id |-> i, at |-> "ready"] \in threads'
        BY <1>0, <2>13, <3>1 DEF DispatchTask
      <4>2. QED
        BY <1>0, <4>1
    <3>2. CASE ~(i = j /\ Lockable(i))
      <4>1. /\ rows'[i] = rows[i] /\ threads \subseteq threads'
            /\ pc = "dispatching" /\ pc' = pc /\ adrift' = adrift
        BY <1>0, <2>13, <3>2 DEF DispatchTask
      <4>2. QED
        BY <1>3, <2>0, <4>1
    <3>3. QED
      BY <3>1, <3>2
  <2>14. CASE CleanUp
    BY <1>3, <2>0, <2>2, <2>14 DEF CleanUp, DeleteCompleted
  <2>15. CASE ExitServer
    BY <1>0, <1>3, <2>0, <2>15 DEF ExitServer, NoThreadsLeft
  <2>16. ASSUME NEW t \in threads, BeginTask(t) \/ EndTask(t) PROVE Traceable(i)'
    <3>1. PICK at \in {"running", "ended"} : Advance(t, at)
      BY <2>16 DEF BeginTask, EndTask
    <3>2. UNCHANGED <<rows, pidFile, pc, last, todo, adrift>>
      BY <2>16 DEF BeginTask, EndTask
    <3>3. [t EXCEPT !.at = at].id = t.id
      BY <1>0 DEF Thread
    <3>4. \A u \in threads : \E v \in threads' : v.id = u.id
      BY <3>1, <3>3 DEF Advance
    <3>5. QED
      BY <1>3, <2>0, <3>2, <3>4
  <2>17. ASSUME NEW t \in threads, CompleteTask(t) PROVE Traceable(i)'
    BY <1>0, <1>3, <2>0, <2>17 DEF CompleteTask, CanMerge
  <2>18. CASE Kill \/ MainFails
    <3>1. /\ rows' = rows /\ pidFile' = pidFile /\ pc' = "off"
          /\ adrift' = IF pc \in Recovering THEN adrift \cup WithStatus("active") ELSE adrift
      BY <2>18 DEF Kill, MainFails, MainEnds
    <3>2. i \in WithStatus("active")
      BY <1>3, <3>1 DEF WithStatus
    <3>3. pc \notin Recovering /\ i \notin adrift /\ Traceable(i)
      BY <1>3, <2>0, <3>1, <3>2 DEF WithStatus
    <3>4. pc \in {"boot"} \cup Serving
      BY <1>0, <2>18, <3>3, ConstantsAssumption
         DEF Kill, MainFails, MainPoints, Recovering, ConstantsAssumption
    <3>5. pc \in Serving => rows[i].lock = pidFile
      BY <1>0, <3>3 DEF StartInv
    <3>6. QED
      BY <3>1, <3>3, <3>4, <3>5
  <2>19. CASE Terminate
    BY <1>3, <2>0, <2>19 DEF Terminate
  <2>20. CASE UNCHANGED vars
    BY <1>3, <2>0, <2>20 DEF vars
  <2>21. QED
    BY <2>1, <2>3, <2>4, <2>5, <2>6, <2>7, <2>8, <2>9, <2>10, <2>11, <2>12, <2>13, <2>14,
       <2>15, <2>16, <2>17, <2>18, <2>19, <2>20 DEF Next, MainStep, ThreadStep
<1>4. QED
  BY <1>2, <1>3 DEF StartInv, WithStatus

\* Once the server dispatches, every active task has a thread, but for those that
\* a disturbed start passed over, or whose end could not be recorded: wherever
\* kills, stops and failures strike, no other way leads to a task without one.
THEOREM RecoveryIsComplete == ASSUME ThreadsDieWithMain PROVE Spec => []ServingOwnsActive
<1>2. Spec => []QueueInv
  BY QueueInvariant
<1>3. QueueInv /\ StartInv /\ [Next]_vars => StartInv'
  BY StartInvStep
<1>4. StartInv => ServingOwnsActive
  BY DEF StartInv, ServingOwnsActive, Traceable
<1>5. QED
  BY <1>2, <1>3, <1>4, StartInvInit, PTL DEF Spec

-----------------------------------------------------------------------------
(* What waiters are told, and how often a task runs.                       *)

OutcomeInv ==
    /\ \A i \in Ids :
         /\ rows[i].status = "complete" => i \in ended
         /\ rows[i].status = "absent" /\ i < nextId => i \in ended \cup cancelled
    /\ \A t \in threads : t.at = "ended" => t.id \in ended
    /\ WaiterToldTruth

LEMMA OutcomeInvStep ==
  ASSUME QueueInv, OutcomeInv, [Next]_vars
  PROVE  OutcomeInv'
<1> USE DEF mainVars, history, faults
<1>0. /\ rows \in [Ids -> Row] /\ threads \subseteq Thread /\ waits \in [Ids -> Waits]
      /\ nextId \in 1..(MaxTasks + 1)
      /\ \A t \in threads : t.id \in Ids /\ rows[t.id].status = "active"
      /\ \A j \in Ids : j >= nextId => rows[j].status = "absent" /\ waits[j] = "idle"
      /\ \A j \in todo : rows[j].status = "active"
  BY DEF QueueInv, TypeOK, Thread, RunnerOwnsRow, TodoIsActive, NotYetIssued
<1>1. ended \subseteq ended' /\ cancelled \subseteq cancelled'
  BY DEF Next, MainStep, ThreadStep, vars, AddTask, CancelTask,
     BeginWait, PollWait, DeleteWaited, KeepExpires, StartServer, OpenPidFile, WritePidFile,
     Settled, ListInterrupted, ResetTask, Recovered, FetchPending, DispatchTask, BatchDone,
     CleanUp, Rest, LeaveLoop, ExitServer, BeginTask, EndTask, CompleteTask, Kill, Terminate,
     MainFails, MainEnds
<1>2. ASSUME NEW i \in Ids
      PROVE  /\ rows'[i].status = "complete" => i \in ended'
             /\ rows'[i].status = "absent" /\ i < nextId' => i \in ended' \cup cancelled'
  <2>0. /\ rows[i].status = "complete" => i \in ended
        /\ rows[i].status = "absent" /\ i < nextId => i \in ended \cup cancelled
    BY DEF OutcomeInv
  <2>1. CASE UNCHANGED <<rows, nextId>>
    BY <2>1, <2>0, <1>1
  <2>2. ASSUME NEW k \in Keys, AddTask(k)
        PROVE  /\ rows'[i].status = "complete" => i \in ended'
               /\ rows'[i].status = "absent" /\ i < nextId' => i \in ended' \cup cancelled'
    BY <2>2, <2>0, <1>0 DEF AddTask, Unlocked, Ids
  <2>3. ASSUME NEW S, Delete(S), nextId' = nextId,
               \A j \in S \cap Ids : j \in ended' \cup cancelled'
        PROVE  /\ rows'[i].status = "complete" => i \in ended'
               /\ rows'[i].status = "absent" /\ i < nextId' => i \in ended' \cup cancelled'
    <3>1. CASE i \in S
      BY <2>3, <3>1, <1>0, DeleteEffect
    <3>2. CASE i \notin S
      <4>1. rows'[i] = rows[i]
        BY <2>3, <3>2, <1>0, DeleteEffect
      <4>2. QED
        BY <4>1, <2>3, <2>0, <1>1
    <3>3. QED
      BY <3>1, <3>2
  <2>4. ASSUME NEW j \in Ids, CancelTask(j)
        PROVE  /\ rows'[i].status = "complete" => i \in ended'
               /\ rows'[i].status = "absent" /\ i < nextId' => i \in ended' \cup cancelled'
    BY <2>3, <2>4 DEF CancelTask
  <2>5. ASSUME NEW j \in Ids, DeleteWaited(j)
        PROVE  /\ rows'[i].status = "complete" => i \in ended'
               /\ rows'[i].status = "absent" /\ i < nextId' => i \in ended' \cup cancelled'
    BY <2>3, <2>5, <1>1 DEF DeleteWaited, OutcomeInv, WaiterToldTruth
  <2>6. CASE Settled \/ CleanUp
    <3>1. DeleteCompleted \/ rows' = rows
      BY <2>6 DEF Settled, CleanUp
    <3>2. nextId' = nextId
      BY <2>6 DEF Settled, CleanUp
    <3>3. \A j \in WithStatus("complete") : j \in ended'
      BY <1>1 DEF WithStatus, OutcomeInv
    <3>4. QED
      BY <2>1, <2>3, <3>1, <3>2, <3>3 DEF DeleteCompleted
  <2>7. ASSUME NEW j \in Ids, KeepExpires(j) \/ ResetTask(j) \/ DispatchTask(j)
        PROVE  /\ rows'[i].status = "complete" => i \in ended'
               /\ rows'[i].status = "absent" /\ i < nextId' => i \in ended' \cup cancelled'
    <3>1. nextId' = nextId
      BY <2>7 DEF KeepExpires, ResetTask, DispatchTask
    <3>2. rows'[i].status = rows[i].status \/ rows'[i].status \in {"pending", "active"}
      BY <2>7, <1>0 DEF KeepExpires, ResetTask, DispatchTask, Unlocked
    <3>3. QED
      BY <2>0, <1>1, <3>1, <3>2
  <2>8. ASSUME NEW t \in threads, CompleteTask(t)
        PROVE  /\ rows'[i].status = "complete" => i \in ended'
               /\ rows'[i].status = "absent" /\ i < nextId' => i \in ended' \cup cancelled'
    <3>1. nextId' = nextId /\ t.id \in ended
      BY <2>8 DEF CompleteTask, OutcomeInv
    <3>2. rows'[i] = rows[i] \/ (i = t.id /\ rows'[i].status = "complete")
      BY <2>8, <1>0 DEF CompleteTask
    <3>3. QED
      BY <2>0, <1>1, <3>1, <3>2
  <2>9. QED
    BY <2>1, <2>2, <2>4, <2>5, <2>6, <2>7, <2>8 DEF Next, MainStep, ThreadStep, vars,
       BeginWait, PollWait, StartServer, OpenPidFile, WritePidFile, ListInterrupted, Recovered,
       FetchPending, BatchDone, Rest, LeaveLoop, ExitServer, BeginTask, EndTask, Kill,
       Terminate, MainFails
<1>3. ASSUME NEW u \in threads', u.at = "ended" PROVE u.id \in ended'
  <2>1. CASE u \in threads
    BY <2>1, <1>1, <1>3 DEF OutcomeInv
  <2>2. ASSUME NEW t \in threads, EndTask(t), u \notin threads PROVE u.id \in ended'
    BY <2>2, <1>0 DEF EndTask, Advance, Thread
  <2>3. ASSUME NEW t \in threads, BeginTask(t), u \notin threads PROVE FALSE
    BY <2>3, <1>0, <1>3 DEF BeginTask, Advance, Thread
  <2>4. ASSUME NEW j \in Ids, DispatchTask(j), u \notin threads PROVE FALSE
    BY <2>4, <1>3 DEF DispatchTask
  <2>5. QED
    BY <2>1, <2>2, <2>3, <2>4 DEF Next, MainStep, ThreadStep, vars, AddTask, CancelTask,
       BeginWait, PollWait, DeleteWaited, KeepExpires, StartServer, OpenPidFile, WritePidFile,
       Settled, ListInterrupted, ResetTask, Recovered, FetchPending, BatchDone, CleanUp, Rest,
       LeaveLoop, ExitServer, CompleteTask, Kill, Terminate, MainFails
<1>4. WaiterToldTruth'
  <2> SUFFICES ASSUME NEW i \in Ids
               PROVE  /\ waits'[i] \in {"done", "closed"} => i \in ended'
                      /\ waits'[i] = "none" => i \in ended' \cup cancelled'
    BY DEF WaiterToldTruth
  <2>0. /\ waits[i] \in {"done", "closed"} => i \in ended
        /\ waits[i] = "none" => i \in ended \cup cancelled
    BY DEF OutcomeInv, WaiterToldTruth
  <2>1. CASE waits' = waits
    BY <2>1, <2>0, <1>1
  <2>2. ASSUME NEW j \in Ids, BeginWait(j) \/ PollWait(j) \/ DeleteWaited(j)
        PROVE  /\ waits'[i] \in {"done", "closed"} => i \in ended'
               /\ waits'[i] = "none" => i \in ended' \cup cancelled'
    <3>1. \A w : waits' = [waits EXCEPT ![j] = w] => waits'[i] = (IF i = j THEN w ELSE waits[i])
      BY <1>0
    <3>2. CASE BeginWait(j)
      BY <3>1, <3>2, <2>0, <1>1 DEF BeginWait
    <3>3. CASE PollWait(j)
      <4>1. waits[j] = "waiting" /\ j < nextId
        BY <3>3, <1>0 DEF PollWait, Ids
      <4>2. QED
        BY <3>1, <3>3, <4>1, <2>0, <1>1 DEF PollWait, OutcomeInv
    <3>4. CASE DeleteWaited(j)
      BY <3>1, <3>4, <2>0, <1>1 DEF DeleteWaited
    <3>5. QED
      BY <2>2, <3>2, <3>3, <3>4
  <2>3. QED
    BY <2>1, <2>2 DEF Next, MainStep, ThreadStep, vars, AddTask, CancelTask, KeepExpires,
       StartServer, OpenPidFile, WritePidFile, Settled, ListInterrupted, ResetTask, Recovered,
       FetchPending, DispatchTask, BatchDone, CleanUp, Rest, LeaveLoop, ExitServer, BeginTask,
       EndTask, CompleteTask, Kill, Terminate, MainFails
<1>5. QED
  BY <1>2, <1>3, <1>4 DEF OutcomeInv

\* A caller that waited for a task is never told something untrue about it.
THEOREM WaitersAreToldTheTruth == ASSUME ThreadsDieWithMain PROVE Spec => []WaiterToldTruth
<1>1. Spec => []QueueInv
  BY QueueInvariant
<1>2. Init => OutcomeInv
  BY DEF Init, OutcomeInv, WaiterToldTruth, Unlocked, Ids
<1>3. QueueInv /\ OutcomeInv /\ [Next]_vars => OutcomeInv'
  BY OutcomeInvStep
<1>4. OutcomeInv => WaiterToldTruth
  BY DEF OutcomeInv
<1>5. QED
  BY <1>1, <1>2, <1>3, <1>4, PTL DEF Spec

-----------------------------------------------------------------------------
(* A run is repeated only after a kill or a failure: each further start of *)
(* a task needs its row to be pending again, which recovery does only for  *)
(* a row whose thread is gone, and without either a thread goes by         *)
(* completing its row.                                                     *)

Unstarted(i) == starts[i] <= kills

RerunInv ==
    /\ RerunNeedsKill
    /\ \A i \in WithStatus("pending") : Unstarted(i)
    /\ \A i \in WithStatus("active") : (\E t \in threads : t.id = i) \/ Unstarted(i)
    /\ \A t \in threads : t.at = "ready" => Unstarted(t.id)
    /\ \A i \in Ids : i >= nextId => starts[i] = 0

LEMMA RerunInvStep ==
  ASSUME QueueInv, RerunInv, [Next]_vars
  PROVE  RerunInv'
<1> USE DEF mainVars, history, faults
<1>0. /\ rows \in [Ids -> Row] /\ threads \subseteq Thread /\ starts \in [Ids -> Nat]
      /\ nextId \in 1..(MaxTasks + 1) /\ kills \in Nat
      /\ \A t \in threads : /\ t.id \in Ids /\ rows[t.id].status = "active" /\ pc \in Serving
      /\ \A t, u \in threads : t.id = u.id => t = u
      /\ \A j \in todo : rows[j].status = "active" /\ pc = "recovering"
  BY DEF QueueInv, TypeOK, Thread, RunnerOwnsRow, TodoIsActive, OneThreadPerTask, ThreadsServe
<1>1. /\ \A i \in Ids : starts[i] <= kills + 1
      /\ \A i \in Ids : rows[i].status = "pending" => starts[i] <= kills
      /\ \A i \in Ids : rows[i].status = "active" =>
                           (\E t \in threads : t.id = i) \/ starts[i] <= kills
      /\ \A t \in threads : t.at = "ready" => starts[t.id] <= kills
      /\ \A i \in Ids : i >= nextId => starts[i] = 0
  BY <1>0 DEF RerunInv, RerunNeedsKill, WithStatus, Unstarted
\* Steps that start no task and kill nothing: what becomes of the rows decides.
<1>2. ASSUME starts' = starts, kills' = kills, nextId' \in {nextId, nextId + 1},
             \A i \in Ids : rows'[i].status = "pending" => starts[i] <= kills,
             \A i \in Ids : rows'[i].status = "active" =>
                               (\E t \in threads' : t.id = i) \/ starts[i] <= kills,
             \A t \in threads' : t.at = "ready" => starts[t.id] <= kills
      PROVE  RerunInv'
  BY <1>1, <1>2, <1>0 DEF RerunInv, RerunNeedsKill, WithStatus, Unstarted, Ids
<1>3. ASSUME UNCHANGED <<starts, kills, threads>>, nextId' \in {nextId, nextId + 1},
             \A i \in Ids : \/ rows'[i].status = rows[i].status
                            \/ rows'[i].status \in {"absent", "complete"}
                            \/ rows'[i].status = "pending" /\ starts[i] <= kills
      PROVE  RerunInv'
  BY <1>1, <1>2, <1>3
<1>4. ASSUME NEW S, Delete(S), UNCHANGED <<starts, kills, threads, nextId>> PROVE RerunInv'
  BY <1>0, <1>3, <1>4, DeleteEffect
<1>5. ASSUME NEW k \in Keys, AddTask(k) PROVE RerunInv'
  <2>1. nextId \in Ids /\ rows' = [rows EXCEPT ![nextId] = Unlocked(k, "pending")]
    BY <1>5, <1>0 DEF AddTask, Ids
  <2>2. \A i \in Ids : i # nextId => rows'[i] = rows[i]
    BY <2>1, <1>0
  <2>3. starts[nextId] = 0
    BY <2>1, <1>1, <1>0 DEF Ids
  <2>4. rows'[nextId].status = "pending"
    BY <2>1, <1>0 DEF Unlocked
  <2>5. \A i \in Ids : \/ rows'[i].status = rows[i].status
                       \/ rows'[i].status = "pending" /\ starts[i] <= kills
    BY <2>2, <2>3, <2>4, <1>0
  <2>6. QED
    BY <1>5, <1>3, <2>5 DEF AddTask
<1>6. ASSUME NEW j \in Ids, CancelTask(j) \/ DeleteWaited(j) PROVE RerunInv'
  <2>1. Delete({j}) \/ rows' = rows
    BY <1>6 DEF CancelTask, DeleteWaited
  <2>2. UNCHANGED <<starts, kills, threads, nextId>>
    BY <1>6 DEF CancelTask, DeleteWaited
  <2>3. QED
    BY <1>3, <1>4, <2>1, <2>2
<1>7. CASE Settled \/ CleanUp
  <2>1. DeleteCompleted \/ rows' = rows
    BY <1>7 DEF Settled, CleanUp
  <2>2. UNCHANGED <<starts, kills, threads, nextId>>
    BY <1>7 DEF Settled, CleanUp
  <2>3. QED
    BY <1>3, <1>4, <2>1, <2>2 DEF DeleteCompleted
<1>8. ASSUME NEW j \in Ids, KeepExpires(j) PROVE RerunInv'
  <2>1. \A i \in Ids : rows'[i].status = rows[i].status
    BY <1>8, <1>0 DEF KeepExpires
  <2>2. QED
    BY <1>8, <1>3, <2>1 DEF KeepExpires
<1>9. ASSUME NEW j \in Ids, ResetTask(j) PROVE RerunInv'
  <2>1. starts[j] <= kills
    BY <1>9, <1>0, <1>1 DEF ResetTask, Serving
  <2>2. /\ \A i \in Ids : i # j => rows'[i] = rows[i]
        /\ rows'[j].status = "pending"
    BY <1>9, <1>0 DEF ResetTask, Unlocked
  <2>3. UNCHANGED <<starts, kills, threads, nextId>>
    BY <1>9 DEF ResetTask
  <2>4. QED
    BY <1>3, <2>1, <2>2, <2>3
<1>10. ASSUME NEW j \in Ids, DispatchTask(j), Lockable(j) PROVE RerunInv'
  <2>1. starts[j] <= kills
    BY <1>10, <1>1 DEF Lockable
  <2>2. /\ \A i \in Ids : i # j => rows'[i] = rows[i]
        /\ rows'[j].status = "active"
    BY <1>10, <1>0 DEF DispatchTask
  <2>3. threads' = threads \cup {[pid |-> me, id |-> j, at |-> "ready"]}
    BY <1>10 DEF DispatchTask
  <2>4. \A t \in threads' : t.at = "ready" => starts[t.id] <= kills
    BY <2>1, <2>3, <1>1
  <2>5. UNCHANGED <<starts, kills, nextId>>
    BY <1>10 DEF DispatchTask
  <2>6. \A i \in Ids : rows'[i].status = "active" =>
                          (\E t \in threads' : t.id = i) \/ starts[i] <= kills
    BY <2>1, <2>2, <2>3, <1>1
  <2>7. QED
    BY <1>1, <1>2, <2>2, <2>4, <2>5, <2>6
<1>11. ASSUME NEW t \in threads, BeginTask(t) PROVE RerunInv'
  <2> DEFINE r == [t EXCEPT !.at = "running"]
  <2>1. r.id = t.id /\ r.at = "running"
    BY <1>0 DEF Thread
  <2>2. /\ UNCHANGED <<rows, kills, nextId>> /\ threads' = (threads \ {t}) \cup {r}
        /\ starts' = [starts EXCEPT ![t.id] = @ + 1] /\ t.at = "ready"
    BY <1>11 DEF BeginTask, Advance
  <2>3. /\ starts'[t.id] <= kills + 1
        /\ \A i \in Ids : i # t.id => starts'[i] = starts[i]
    BY <2>2, <1>0, <1>1
  <2>4. \A i \in Ids : starts'[i] <= 1 + kills'
    BY <2>2, <2>3, <1>0, <1>1
  <2>5. \A i \in Ids : rows'[i].status = "pending" => starts'[i] <= kills'
    BY <2>2, <2>3, <1>0, <1>1
  <2>6. \A i \in Ids : (\E u \in threads : u.id = i) => (\E u \in threads' : u.id = i)
    BY <2>1, <2>2
  <2>7. \A i \in Ids : rows'[i].status = "active" =>
                          (\E u \in threads' : u.id = i) \/ starts'[i] <= kills'
    BY <2>1, <2>2, <2>3, <2>6, <1>1
  <2>8. \A u \in threads' : u.at = "ready" => starts'[u.id] <= kills'
    BY <2>1, <2>2, <2>3, <1>0, <1>1
  <2>9. \A i \in Ids : i >= nextId' => starts'[i] = 0
    <3>1. t.id < nextId
      BY <1>0 DEF QueueInv, NotYetIssued, Ids
    <3>2. QED
      BY <3>1, <2>2, <2>3, <1>0, <1>1 DEF Ids
  <2>10. QED
    BY <2>4, <2>5, <2>7, <2>8, <2>9 DEF RerunInv, RerunNeedsKill, WithStatus, Unstarted
<1>12. ASSUME NEW t \in threads, EndTask(t) PROVE RerunInv'
  <2> DEFINE r == [t EXCEPT !.at = "ended"]
  <2>1. r.id = t.id /\ r.at = "ended"
    BY <1>0 DEF Thread
  <2>2. UNCHANGED <<rows, kills, nextId, starts>> /\ threads' = (threads \ {t}) \cup {r}
    BY <1>12 DEF EndTask, Advance
  <2>3. \A i \in Ids : (\E u \in threads : u.id = i) => (\E u \in threads' : u.id = i)
    BY <2>1, <2>2
  <2>4. QED
    BY <2>1, <2>2, <2>3, <1>1, <1>2
<1>13. ASSUME NEW t \in threads, CompleteTask(t) PROVE RerunInv'
  <2>1. /\ CanMerge(t.id)
        /\ UNCHANGED <<nextId, starts>> /\ threads' = threads \ {t}
    BY <1>13, <1>0 DEF CanMerge, CompleteTask
  <2>2. CASE /\ UNCHANGED kills /\ rows'[t.id].status = "complete"
             /\ \A i \in Ids : i # t.id => rows'[i] = rows[i]
    BY <2>1, <2>2, <1>1, <1>2
  <2>3. CASE kills' = kills + 1 /\ UNCHANGED rows
    <3>1. \A i \in Ids : starts'[i] <= kills' /\ starts'[i] \in Nat
      BY <2>1, <2>3, <1>0, <1>1
    <3>2. /\ \A i \in Ids : starts'[i] <= 1 + kills'
          /\ \A u \in threads' : u.id \in Ids
      BY <2>1, <2>3, <3>1, <1>0
    <3>3. \A i \in Ids : i >= nextId' => starts'[i] = 0
      BY <2>1, <1>1
    <3>4. QED
      BY <3>1, <3>2, <3>3, Zenon DEF RerunInv, RerunNeedsKill, WithStatus, Unstarted
  <2>4. QED
    BY <2>1, <2>2, <2>3, <1>13, <1>0 DEF CompleteTask
<1>14. CASE Kill \/ MainFails
  <2>1. UNCHANGED <<rows, nextId, starts>> /\ kills' = kills + 1 /\ threads' \subseteq threads
    BY <1>14 DEF Kill, MainFails, MainEnds
  <2>2. \A i \in Ids : starts'[i] <= kills' /\ starts'[i] \in Nat
    BY <2>1, <1>0, <1>1
  <2>3. \A t \in threads' : t.id \in Ids
    BY <2>1, <1>0
  <2>4. \A i \in Ids : i >= nextId' => starts'[i] = 0
    BY <2>1, <1>1
  <2>5. \A i \in Ids : starts'[i] <= 1 + kills'
    BY <2>1, <2>2, <1>0
  <2>6. RerunNeedsKill'
    BY <2>5 DEF RerunNeedsKill
  <2>7. \A i \in Ids : Unstarted(i)'
    BY <2>2 DEF Unstarted
  <2>8. \A t \in threads' : t.at = "ready" => Unstarted(t.id)'
    BY <2>2, <2>3 DEF Unstarted
  <2>9. /\ \A i \in WithStatus("pending")' : Unstarted(i)'
        /\ \A i \in WithStatus("active")' : Unstarted(i)'
    BY <2>7 DEF WithStatus
  <2>10. QED
    BY <2>4, <2>6, <2>8, <2>9, Zenon DEF RerunInv
<1>15. CASE UNCHANGED <<rows, nextId, threads, starts, kills>>
  BY <1>15, <1>3
<1>16. ASSUME NEW j \in Ids, DispatchTask(j), ~Lockable(j) PROVE RerunInv'
  BY <1>16, <1>15 DEF DispatchTask
<1>17. QED
  BY <1>5, <1>6, <1>7, <1>8, <1>9, <1>10, <1>11, <1>12, <1>13, <1>14, <1>15, <1>16
     DEF Next, MainStep, ThreadStep, vars, BeginWait, PollWait, StartServer, OpenPidFile,
         WritePidFile, ListInterrupted, Recovered, FetchPending, BatchDone, Rest, LeaveLoop,
         ExitServer, Terminate

\* A task runs again only after a kill, a failure of its server or of the call that
\* records its end: the n-th run of a task needs n - 1 of them, however many clean
\* stops there are.
THEOREM RerunsNeedKills == ASSUME ThreadsDieWithMain PROVE Spec => []RerunNeedsKill
<1>1. Spec => []QueueInv
  BY QueueInvariant
<1>2. Init => RerunInv
  BY DEF Init, RerunInv, RerunNeedsKill, WithStatus, Unstarted, Unlocked, Ids
<1>3. QueueInv /\ RerunInv /\ [Next]_vars => RerunInv'
  BY RerunInvStep
<1>4. RerunInv => RerunNeedsKill
  BY DEF RerunInv
<1>5. QED
  BY <1>1, <1>2, <1>3, <1>4, PTL DEF Spec

-----------------------------------------------------------------------------
(* Implementation of TaskLifecycle: every step moves the stages of a set   *)
(* of tasks as one of its actions allows, or moves none.                   *)

LEMMA StagesMove ==
  ASSUME NEW S \in SUBSET Ids, NEW a, NEW b,
         \A i \in S : Stage(i) = a /\ Stage(i)' = b,
         \A i \in Ids \ S : Stage(i)' = Stage(i),
         \A i \in Ids : rows'[i].key = rows[i].key
  PROVE  Lifecycle!Move(S, a, b)
BY DEF Lifecycle!Move, Lifecycle!Tasks, Ids

LEMMA StagesStay ==
  ASSUME \A i \in Ids : Stage(i)' = Stage(i) /\ rows'[i].key = rows[i].key
  PROVE  UNCHANGED Lifecycle!lvars
BY DEF Lifecycle!lvars

LEMMA LifecycleStep ==
  ASSUME QueueInv, QueueInv', [Next]_vars
  PROVE  [Lifecycle!LNext]_(Lifecycle!lvars)
<1> DEFINE Goal == Lifecycle!LNext \/ UNCHANGED Lifecycle!lvars
<1> SUFFICES Goal
  OBVIOUS
<1> USE DEF mainVars, history, faults
<1>0. /\ rows \in [Ids -> Row] /\ threads \subseteq Thread
      /\ nextId \in 1..(MaxTasks + 1)
      /\ \A t \in threads : /\ t.id \in Ids /\ rows[t.id].status = "active"
                            /\ t.pid = me /\ pc \in Serving
      /\ \A t, u \in threads : t.id = u.id => t = u
      /\ \A j \in Ids : j >= nextId => rows[j].status = "absent"
      /\ \A j \in todo : rows[j].status = "active" /\ pc = "recovering"
      /\ \A j \in Ids : waits[j] = "done" => rows[j].status \in {"complete", "absent"}
  BY DEF QueueInv, TypeOK, Thread, RunnerOwnsRow, TodoIsActive, NotYetIssued, OneThreadPerTask,
         ThreadsServe, DoneWaits
<1>1. ASSUME UNCHANGED <<rows, nextId>>,
             \A i \in Ids : (\E t \in threads' : t.id = i) <=> (\E t \in threads : t.id = i)
      PROVE  Goal
  <2>1. \A i \in Ids : Stage(i)' = Stage(i) /\ rows'[i].key = rows[i].key
    BY <1>1 DEF Stage
  <2>2. QED
    BY <2>1, StagesStay
<1>2. CASE UNCHANGED <<rows, nextId, threads>>
  BY <1>1, <1>2
<1>3. ASSUME NEW k \in Keys, AddTask(k) PROVE Goal
  <2>1. /\ nextId \in Ids /\ rows' = [rows EXCEPT ![nextId] = Unlocked(k, "pending")]
        /\ nextId' = nextId + 1 /\ threads' = threads
        /\ \A j \in Ids : rows[j].status # "absent" => rows[j].key # k
    BY <1>3, <1>0 DEF AddTask, Ids, KeyTaken
  <2>2. /\ rows[nextId].status = "absent"
        /\ rows'[nextId].status = "pending" /\ rows'[nextId].key = k
        /\ \A i \in Ids \ {nextId} : rows'[i] = rows[i]
    <3>1. rows'[nextId] = Unlocked(k, "pending")
      BY <2>1, <1>0
    <3>2. \A i \in Ids \ {nextId} : rows'[i] = rows[i]
      BY <2>1, <1>0
    <3>3. rows[nextId].status = "absent"
      BY <2>1, <1>0 DEF Ids
    <3>4. QED
      BY <3>1, <3>2, <3>3 DEF Unlocked
  <2>3. /\ ~(nextId < nextId)
        /\ \A i \in Ids \ {nextId} : (i < nextId') <=> (i < nextId)
    BY <2>1, <1>0 DEF Ids
  <2>4. Stage(nextId) = "unborn" /\ \A i \in Ids : i = nextId => Stage(i)' = "queued"
    <3>1. Stage(nextId) = "unborn"
      BY <2>2, <2>3 DEF Stage
    <3>2. \A i \in Ids : i = nextId => Stage(i)' = "queued"
      BY <2>2 DEF Stage
    <3>3. QED
      BY <3>1, <3>2
  <2>5. \A i \in Ids \ {nextId} : Stage(i)' = Stage(i)
    BY <2>1, <2>2, <2>3 DEF Stage
  <2>6. \A i \in Ids : Stage(i) \in Lifecycle!Live => rows[i].status # "absent"
    BY <1>0 DEF Stage, Lifecycle!Live, Row
  <2>7. Lifecycle!Submit(nextId, k)
    <3>1. [i \in Ids |-> Stage(i)'] = [[i \in Ids |-> Stage(i)] EXCEPT ![nextId] = "queued"]
      <4>1. \A i \in Ids : Stage(i)' = IF i = nextId THEN "queued" ELSE Stage(i)
        BY <2>4, <2>5
      <4>2. QED
        BY <4>1, Zenon
    <3>2. [i \in Ids |-> rows'[i].key] = [[i \in Ids |-> rows[i].key] EXCEPT ![nextId] = k]
      <4>1. \A i \in Ids : rows'[i].key = IF i = nextId THEN k ELSE rows[i].key
        BY <2>2
      <4>2. QED
        BY <4>1, Zenon
    <3>3. QED
      BY <3>1, <3>2, <2>1, <2>4, <2>6 DEF Lifecycle!Submit, Lifecycle!Tasks, Ids
  <2>8. QED
    BY <2>1, <2>7 DEF Lifecycle!LNext, Lifecycle!Tasks, Ids
<1>4. ASSUME NEW j \in Ids, CancelTask(j) PROVE Goal
  <2>1. /\ rows[j].status = "pending" /\ Delete({j}) /\ nextId' = nextId /\ threads' = threads
        /\ j < nextId
    BY <1>4, <1>0 DEF CancelTask, Ids
  <2>2. Lifecycle!Move({j}, "queued", "gone")
    <3>1. Stage(j) = "queued" /\ Stage(j)' = "gone"
      BY <2>1, <1>0, DeleteEffect DEF Stage
    <3>2. \A i \in Ids \ {j} : Stage(i)' = Stage(i)
      BY <2>1, <1>0, DeleteEffect DEF Stage
    <3>3. QED
      BY <3>1, <3>2, <2>1, <1>0, DeleteEffect, StagesMove
  <2>3. QED
    BY <2>2 DEF Lifecycle!LNext, Lifecycle!Cancel, Lifecycle!Tasks, Ids
<1>5. ASSUME NEW S \in SUBSET Ids, Delete(S), nextId' = nextId, threads' = threads,
             \A j \in S : rows[j].status \in {"complete", "absent"}
      PROVE  Goal
  <2> DEFINE D == {j \in S : rows[j].status = "complete"}
  <2>1. \A i \in D : Stage(i) = "done" /\ Stage(i)' = "gone"
    BY <1>5, <1>0, DeleteEffect DEF Stage, Ids
  <2>2. \A i \in Ids \ D : Stage(i)' = Stage(i)
    BY <1>5, <1>0, DeleteEffect DEF Stage
  <2>3. Lifecycle!Move(D, "done", "gone")
    BY <2>1, <2>2, <1>5, <1>0, DeleteEffect, StagesMove
  <2>4. D \in SUBSET Lifecycle!Tasks
    BY DEF Lifecycle!Tasks, Ids
  <2>5. QED
    BY <2>3, <2>4 DEF Lifecycle!LNext, Lifecycle!Forget
<1>6. ASSUME NEW j \in Ids, DeleteWaited(j) PROVE Goal
  <2>1. nextId' = nextId /\ threads' = threads /\ rows[j].status \in {"complete", "absent"}
        /\ (Delete({j}) \/ rows' = rows)
    BY <1>6, <1>0 DEF DeleteWaited
  <2>2. QED
    BY <2>1, <1>5, <1>2
<1>7. CASE Settled \/ CleanUp
  <2>1. nextId' = nextId /\ threads' = threads /\ (DeleteCompleted \/ rows' = rows)
    BY <1>7 DEF Settled, CleanUp
  <2>2. QED
    BY <2>1, <1>5, <1>2 DEF DeleteCompleted, WithStatus
<1>8. ASSUME NEW j \in Ids, KeepExpires(j) PROVE Goal
  <2>1. \A i \in Ids : rows'[i].status = rows[i].status /\ rows'[i].key = rows[i].key
    BY <1>8, <1>0 DEF KeepExpires
  <2>2. nextId' = nextId /\ threads' = threads
    BY <1>8 DEF KeepExpires
  <2>3. QED
    BY <2>1, <2>2, StagesStay DEF Stage
<1>9. ASSUME NEW j \in Ids, ResetTask(j) PROVE Goal
  <2>1. /\ rows[j].status = "active" /\ threads = {} /\ threads' = threads /\ nextId' = nextId
        /\ rows'[j].status = "pending" /\ rows'[j].key = rows[j].key
        /\ \A i \in Ids \ {j} : rows'[i] = rows[i]
    BY <1>9, <1>0 DEF ResetTask, Unlocked, Serving
  <2>2. Lifecycle!Move({j}, "interrupted", "queued")
    <3>1. Stage(j) = "interrupted" /\ Stage(j)' = "queued"
      BY <2>1 DEF Stage
    <3>2. \A i \in Ids \ {j} : Stage(i)' = Stage(i)
      BY <2>1 DEF Stage
    <3>3. QED
      BY <3>1, <3>2, <2>1, StagesMove
  <2>3. QED
    BY <2>2 DEF Lifecycle!LNext, Lifecycle!Requeue, Lifecycle!Tasks, Ids
<1>10. ASSUME NEW j \in Ids, DispatchTask(j) PROVE Goal
  <2>1. CASE ~Lockable(j)
    BY <2>1, <1>10, <1>2 DEF DispatchTask
  <2>2. CASE Lockable(j)
    <3>1. /\ rows[j].status = "pending" /\ nextId' = nextId
          /\ threads' = threads \cup {[pid |-> me, id |-> j, at |-> "ready"]}
          /\ rows'[j].status = "active" /\ rows'[j].key = rows[j].key
          /\ \A i \in Ids \ {j} : rows'[i] = rows[i]
      BY <2>2, <1>10, <1>0 DEF DispatchTask, Lockable
    <3>2. Stage(j) = "queued" /\ Stage(j)' = "running"
      <4> DEFINE u == [pid |-> me, id |-> j, at |-> "ready"]
      <4>1. u \in threads' /\ u.id = j
        BY <3>1
      <4>2. \E v \in threads' : v.id = j
        BY <4>1
      <4>3. QED
        BY <4>2, <3>1 DEF Stage
    <3>3. \A i \in Ids \ {j} : Stage(i)' = Stage(i)
      <4>1. \A i \in Ids \ {j} :
               (\E u \in threads' : u.id = i) <=> (\E u \in threads : u.id = i)
        BY <3>1
      <4>2. QED
        BY <4>1, <3>1 DEF Stage
    <3>4. Lifecycle!Move({j}, "queued", "running")
      BY <3>1, <3>2, <3>3, StagesMove
    <3>5. QED
      BY <3>4 DEF Lifecycle!LNext, Lifecycle!Start, Lifecycle!Tasks, Ids
  <2>3. QED
    BY <2>1, <2>2
<1>11. ASSUME NEW t \in threads, BeginTask(t) \/ EndTask(t) PROVE Goal
  <2>1. PICK at \in {"running", "ended"} : Advance(t, at)
    BY <1>11 DEF BeginTask, EndTask
  <2>2. [t EXCEPT !.at = at].id = t.id
    BY <1>0 DEF Thread
  <2>3. \A i \in Ids : (\E u \in threads' : u.id = i) <=> (\E u \in threads : u.id = i)
    BY <2>1, <2>2 DEF Advance
  <2>4. UNCHANGED <<rows, nextId>>
    BY <1>11 DEF BeginTask, EndTask
  <2>5. QED
    BY <2>3, <2>4, <1>1
<1>12. ASSUME NEW t \in threads, CompleteTask(t) PROVE Goal
  <2>1. /\ t.id \in Ids /\ rows[t.id].status = "active" /\ nextId' = nextId
        /\ threads' = threads \ {t}
        /\ \A i \in Ids \ {t.id} : rows'[i] = rows[i]
        /\ rows'[t.id].key = rows[t.id].key
        /\ rows'[t.id].status = "complete" \/ rows' = rows
    BY <1>12, <1>0 DEF CompleteTask
  <2>2. \A i \in Ids \ {t.id} : Stage(i)' = Stage(i)
    BY <2>1 DEF Stage
  <2>3. Stage(t.id) = "running"
    BY <2>1 DEF Stage
  <2>4. \A u \in threads' : u.id # t.id
    BY <2>1, <1>0
  <2>5. \A i \in Ids : rows'[i].key = rows[i].key
    BY <2>1
  <2>6. CASE rows'[t.id].status = "complete"
    <3>1. Stage(t.id)' = "done"
      BY <2>6 DEF Stage
    <3>2. Lifecycle!Move({t.id}, "running", "done")
      BY <3>1, <2>1, <2>2, <2>3, <2>5, StagesMove
    <3>3. QED
      BY <3>2, <2>1 DEF Lifecycle!LNext, Lifecycle!Finish, Lifecycle!Tasks, Ids
  <2>7. CASE rows' = rows
    <3>1. Stage(t.id)' = "interrupted"
      BY <2>1, <2>4, <2>7 DEF Stage
    <3>2. Lifecycle!Move({t.id}, "running", "interrupted")
      BY <3>1, <2>1, <2>2, <2>3, <2>5, StagesMove
    <3>3. {t.id} \in SUBSET Lifecycle!Tasks
      BY <2>1 DEF Lifecycle!Tasks, Ids
    <3>4. QED
      BY <3>2, <3>3 DEF Lifecycle!LNext, Lifecycle!Interrupt
  <2>8. QED
    BY <2>1, <2>6, <2>7
<1>13. CASE Kill \/ MainFails
  <2>1. UNCHANGED <<rows, nextId>> /\ (threads' = {} \/ threads' = threads)
    BY <1>13, <1>0 DEF Kill, MainFails
  <2>2. CASE threads' = {}
    <3> DEFINE S == {t.id : t \in threads}
    <3>1. \A i \in S : Stage(i) = "running" /\ Stage(i)' = "interrupted"
      BY <2>1, <2>2, <1>0 DEF Stage
    <3>2. \A i \in Ids \ S : Stage(i)' = Stage(i)
      BY <2>1, <2>2, <1>0 DEF Stage
    <3>3. S \in SUBSET Ids
      BY <1>0
    <3>4. Lifecycle!Move(S, "running", "interrupted")
      BY <3>1, <3>2, <3>3, <2>1, StagesMove
    <3>5. QED
      BY <3>3, <3>4 DEF Lifecycle!LNext, Lifecycle!Interrupt, Lifecycle!Tasks, Ids
  <2>3. QED
    BY <2>1, <2>2, <1>2
<1>14. QED
  BY <1>2, <1>3, <1>4, <1>6, <1>7, <1>8, <1>9, <1>10, <1>11, <1>12, <1>13
     DEF Next, MainStep, ThreadStep, vars, BeginWait, PollWait, StartServer, OpenPidFile,
         WritePidFile, ListInterrupted, Recovered, FetchPending, BatchDone, Rest, LeaveLoop,
         ExitServer, Terminate

\* The queue keeps the promise made to its callers, for every value of the
\* constants: it implements TaskLifecycle under the mapping Stage.
THEOREM QueueImplementsLifecycle == ASSUME ThreadsDieWithMain PROVE Spec => ImplementsLifecycle
<1>1. Init => Lifecycle!LInit
  <2> SUFFICES ASSUME Init PROVE Lifecycle!LInit
    OBVIOUS
  <2>1. PICK k \in Keys : rows = [i \in Ids |-> Unlocked(k, "absent")]
    BY DEF Init
  <2>2. \A i \in Ids : Stage(i) = "unborn" /\ rows[i].key = k
    BY <2>1 DEF Init, Stage, Unlocked, Ids
  <2>3. QED
    BY <2>2 DEF Lifecycle!LInit, Lifecycle!Tasks, Ids
<1>2. QueueInv /\ QueueInv' /\ [Next]_vars => [Lifecycle!LNext]_(Lifecycle!lvars)
  BY LifecycleStep
<1>3. QED
  BY <1>1, <1>2, QueueInvariant, PTL DEF Spec, ImplementsLifecycle, Lifecycle!LSpec

-----------------------------------------------------------------------------
(* The statistics server *)


LEMMA ZeroType == \A S : Zero(S) \in [S -> Nat] /\ \A k \in S : Zero(S)[k] = 0
BY DEF Zero

\* What the sums of the module's actions are.
IsSum(h, S, f, g) == h \in [S -> Nat] /\ \A k \in S : h[k] = f[k] + g[k]
IsPart(h, f, T) ==
    /\ h \in [Images -> Nat]
    /\ \A k \in Images : h[k] = IF k \in T THEN f[k] ELSE 0

LEMMA SumIsSum ==
  ASSUME NEW S, NEW f \in [S -> Nat], NEW g \in [S -> Nat]
  PROVE  IsSum(Plus(f, g), S, f, g)
BY DEF Plus, IsSum

LEMMA OnlyIsPart ==
  ASSUME NEW f \in [Images -> Nat], NEW T
  PROVE  IsPart(Only(f, T), f, T)
BY DEF Only, IsPart

LEMMA SetFacts ==
  ASSUME StatsTypeOK
  PROVE  /\ NewImages \subseteq Images
         /\ \A i \in Images : i \in NewImages <=> i \notin reuse /\ localImg[i] > 0
         /\ GoneImages \subseteq Images /\ KeptImages \subseteq Images
         /\ \A i \in Images : i \in GoneImages <=> i \in inserts /\ i \notin exists
         /\ \A i \in Images : i \in KeptImages <=> i \in inserts /\ i \in exists
         /\ KeptImages \subseteq exists
BY DEF StatsTypeOK, NewImages, GoneImages, KeptImages

LEMMA SumFacts ==
  ASSUME StatsTypeOK
  PROVE  /\ IsSum(Plus(sysLost, sysCache), EventKeys, sysLost, sysCache)
         /\ IsSum(Plus(sysLost, localSys), EventKeys, sysLost, localSys)
         /\ IsSum(Plus(sysWritten, localSys), EventKeys, sysWritten, localSys)
         /\ IsSum(Plus(imgLost, imgCache), Images, imgLost, imgCache)
         /\ IsSum(Plus(imgLost, localImg), Images, imgLost, localImg)
         /\ IsSum(Plus(imgWritten, localImg), Images, imgWritten, localImg)
<1> USE DEF StatsTypeOK
<1>1. IsSum(Plus(sysLost, sysCache), EventKeys, sysLost, sysCache)
  BY SumIsSum
<1>2. IsSum(Plus(sysLost, localSys), EventKeys, sysLost, localSys)
  BY SumIsSum
<1>3. IsSum(Plus(sysWritten, localSys), EventKeys, sysWritten, localSys)
  BY SumIsSum
<1>4. IsSum(Plus(imgLost, imgCache), Images, imgLost, imgCache)
  BY SumIsSum
<1>5. IsSum(Plus(imgLost, localImg), Images, imgLost, localImg)
  BY SumIsSum
<1>6. IsSum(Plus(imgWritten, localImg), Images, imgWritten, localImg)
  BY SumIsSum
<1>7. QED
  BY <1>1, <1>2, <1>3, <1>4, <1>5, <1>6

LEMMA PartFacts ==
  ASSUME StatsTypeOK
  PROVE  /\ IsPart(Only(localImg, reuse), localImg, reuse)
         /\ IsPart(Only(localImg, NewImages), localImg, NewImages)
         /\ IsPart(Only(localImg, GoneImages), localImg, GoneImages)
         /\ IsPart(Only(localImg, KeptImages), localImg, KeptImages)
         /\ IsSum(Plus(imgWritten, Only(localImg, reuse)), Images,
                  imgWritten, Only(localImg, reuse))
         /\ IsSum(Plus(imgLost, Only(localImg, GoneImages)), Images,
                  imgLost, Only(localImg, GoneImages))
<1>1. localImg \in [Images -> Nat] /\ imgWritten \in [Images -> Nat] /\ imgLost \in [Images -> Nat]
  BY DEF StatsTypeOK
<1>2. /\ IsPart(Only(localImg, reuse), localImg, reuse)
      /\ IsPart(Only(localImg, GoneImages), localImg, GoneImages)
  BY <1>1, OnlyIsPart
<1>3. /\ IsPart(Only(localImg, NewImages), localImg, NewImages)
      /\ IsPart(Only(localImg, KeptImages), localImg, KeptImages)
  BY <1>1, OnlyIsPart
<1>4. IsSum(Plus(imgWritten, Only(localImg, reuse)), Images,
            imgWritten, Only(localImg, reuse))
  BY <1>1, <1>2, SumIsSum DEF IsPart
<1>5. IsSum(Plus(imgLost, Only(localImg, GoneImages)), Images,
            imgLost, Only(localImg, GoneImages))
  BY <1>1, <1>2, SumIsSum DEF IsPart
<1>6. QED
  BY <1>2, <1>3, <1>4, <1>5

\* The next-state relation keeps the types.
LEMMA StatsTypeStep == StatsTypeOK /\ [StatsNext]_statsVars => StatsTypeOK'
<1> SUFFICES ASSUME StatsTypeOK, [StatsNext]_statsVars PROVE StatsTypeOK'
  OBVIOUS
<1> USE TimeAssumption, ZeroType, SumFacts, PartFacts, SetFacts DEF IsSum, IsPart,
    TimeAssumption
<1> USE DEF StatsTypeOK, EventKeys, held, taken, flushing, monitoring, written, lost
<1>1. ASSUME NEW k \in EventKeys, CountForSystem(k) PROVE StatsTypeOK'
  BY <1>1 DEF CountForSystem
<1>2. ASSUME NEW i \in Images, CountForImage(i) PROVE StatsTypeOK'
  BY <1>2 DEF CountForImage
<1>3. CASE ClearSignal
  BY <1>3 DEF ClearSignal, Fault, DropCaches, EmptyCaches
<1>4. CASE MonitorWakes
  BY <1>4 DEF MonitorWakes
<1>5. CASE MonitorDiscards
  BY <1>5 DEF MonitorDiscards, DropCaches, EmptyCaches
<1>6. CASE FlushWakes
  BY <1>6 DEF FlushWakes
<1>7. CASE FlushHasNoSession
  BY <1>7 DEF FlushHasNoSession, Fault, FlushEnds
<1>8. CASE FlushTakes
  BY <1>8 DEF FlushTakes, EmptyCaches
<1>9. CASE FlushWritesSystem
  BY <1>9 DEF FlushWritesSystem, NewRowAge
<1>10. CASE FlushUpdatesImages
  BY <1>10 DEF FlushUpdatesImages, FlushEnds
<1>11. CASE FlushInserts
  BY <1>11 DEF FlushInserts, InsertRows, FlushEnds, NewRowAge
<1>12. CASE FlushFixesInserts
  BY <1>12 DEF FlushFixesInserts, FlushEnds
<1>13. CASE FlushRetries
  <2>1. CASE inserts \subseteq exists
    <3>1. rowAge' \in [EventKeys -> 0..Frequency]
      BY <1>13, <2>1 DEF FlushRetries, InsertRows, StatsTypeOK, NewRowAge
    <3>2. QED
      BY <1>13, <2>1, <3>1 DEF FlushRetries, InsertRows, FlushEnds, StatsTypeOK, held,
         monitoring, lost
  <2>2. CASE ~ (inserts \subseteq exists)
    BY <1>13, <2>2 DEF FlushRetries, InsertRows, DropTaken, FlushEnds, NewRowAge
  <2>3. QED
    BY <2>1, <2>2
<1>14. CASE FlushFails
  BY <1>14 DEF FlushFails, Fault, DropTaken, FlushEnds
<1>15. CASE Tick
  BY <1>15 DEF Tick
<1>16. ASSUME NEW i \in Images, PurgeImage(i) PROVE StatsTypeOK'
  BY <1>16 DEF PurgeImage
<1>17. CASE Shutdown
  BY <1>17 DEF Shutdown, Fault
<1>18. CASE ProcessEnds
  BY <1>18 DEF ProcessEnds, Fault, EmptyCaches, FlushEnds
<1>19. CASE StartStatsServer
  BY <1>19 DEF StartStatsServer
<1>20. CASE UNCHANGED statsVars
  BY <1>20 DEF statsVars
<1>21. QED
  BY <1>1, <1>2, <1>3, <1>4, <1>5, <1>6, <1>7, <1>8, <1>9, <1>10, <1>11, <1>12, <1>13,
     <1>14, <1>15, <1>16, <1>17, <1>18, <1>19, <1>20
     DEF StatsNext, HandlerStep, MonitorStep, FlushStep, Surroundings

(***************************************************************************)
(* The conservation of events.  It needs to know what the flush thread     *)
(* still holds at each of its steps: nothing may be overwritten when the   *)
(* counters are taken, and nothing forgotten when it ends.                 *)
(***************************************************************************)
HoldsNothing ==
    /\ flushPc # "sys" => \A k \in EventKeys : localSys[k] = 0
    /\ flushPc \in {"sleep", "session"} => \A i \in Images : localImg[i] = 0
    /\ flushPc \in {"insert", "fix", "retry"} =>
          \A i \in Images : localImg[i] > 0 => i \in inserts

LEMMA HoldsStep == StatsTypeOK /\ HoldsNothing /\ [StatsNext]_statsVars => HoldsNothing'
<1> SUFFICES ASSUME StatsTypeOK, HoldsNothing, [StatsNext]_statsVars PROVE HoldsNothing'
  OBVIOUS
<1> USE ZeroType, PartFacts, SetFacts DEF IsPart, HoldsNothing
<1> USE DEF StatsTypeOK, EventKeys, held, taken, flushing, monitoring, written, lost
<1>1. ASSUME NEW k \in EventKeys, CountForSystem(k) PROVE HoldsNothing'
  BY <1>1 DEF CountForSystem
<1>2. ASSUME NEW i \in Images, CountForImage(i) PROVE HoldsNothing'
  BY <1>2 DEF CountForImage
<1>3. CASE ClearSignal
  BY <1>3 DEF ClearSignal, Fault, DropCaches, EmptyCaches
<1>4. CASE MonitorWakes
  BY <1>4 DEF MonitorWakes
<1>5. CASE MonitorDiscards
  BY <1>5 DEF MonitorDiscards, DropCaches, EmptyCaches
<1>6. CASE FlushWakes
  BY <1>6 DEF FlushWakes
<1>7. CASE FlushHasNoSession
  BY <1>7 DEF FlushHasNoSession, Fault, FlushEnds
<1>8. CASE FlushTakes
  BY <1>8 DEF FlushTakes, EmptyCaches
<1>9. CASE FlushWritesSystem
  BY <1>9 DEF FlushWritesSystem
<1>10. CASE FlushUpdatesImages
  BY <1>10 DEF FlushUpdatesImages, FlushEnds
<1>11. CASE FlushInserts
  BY <1>11 DEF FlushInserts, InsertRows, FlushEnds
<1>12. CASE FlushFixesInserts
  BY <1>12 DEF FlushFixesInserts, FlushEnds
<1>13. CASE FlushRetries
  BY <1>13 DEF FlushRetries, InsertRows, DropTaken, FlushEnds
<1>14. CASE FlushFails
  BY <1>14 DEF FlushFails, Fault, DropTaken, FlushEnds
<1>15. CASE Tick
  BY <1>15 DEF Tick
<1>16. ASSUME NEW i \in Images, PurgeImage(i) PROVE HoldsNothing'
  BY <1>16 DEF PurgeImage
<1>17. CASE Shutdown
  BY <1>17 DEF Shutdown, Fault
<1>18. CASE ProcessEnds
  BY <1>18 DEF ProcessEnds, Fault, EmptyCaches, FlushEnds
<1>19. CASE StartStatsServer
  BY <1>19 DEF StartStatsServer
<1>20. CASE UNCHANGED statsVars
  BY <1>20 DEF statsVars
<1>21. QED
  BY <1>1, <1>2, <1>3, <1>4, <1>5, <1>6, <1>7, <1>8, <1>9, <1>10, <1>11, <1>12, <1>13,
     <1>14, <1>15, <1>16, <1>17, <1>18, <1>19, <1>20
     DEF StatsNext, HandlerStep, MonitorStep, FlushStep, Surroundings

\* Two steps move events of the images from what was taken to the rows, or to
\* what is lost, and change no sum.
LEMMA UpdateMoves ==
  ASSUME StatsTypeOK, FlushUpdatesImages
  PROVE  /\ imgWritten' \in [Images -> Nat] /\ localImg' \in [Images -> Nat]
         /\ \A i \in Images : imgWritten'[i] + localImg'[i] = imgWritten[i] + localImg[i]
         /\ UNCHANGED <<midway, imgCache, imgLost, sysCache, localSys, sysWritten, sysLost, received>>
<1>1. /\ imgWritten' = Plus(imgWritten, Only(localImg, reuse))
      /\ localImg' = Only(localImg, NewImages)
      /\ UNCHANGED <<midway, imgCache, imgLost, sysCache, localSys, sysWritten, sysLost, received>>
  BY DEF FlushUpdatesImages, held, lost
<1>2. imgWritten' \in [Images -> Nat] /\ localImg' \in [Images -> Nat]
  BY <1>1, PartFacts DEF IsSum, IsPart
<1>3. ASSUME NEW i \in Images
      PROVE  imgWritten'[i] + localImg'[i] = imgWritten[i] + localImg[i]
  <2>1. imgWritten'[i] = imgWritten[i] + (IF i \in reuse THEN localImg[i] ELSE 0)
    BY <1>1, PartFacts DEF IsSum, IsPart
  <2>2. localImg'[i] = IF i \in NewImages THEN localImg[i] ELSE 0
    BY <1>1, PartFacts DEF IsPart
  <2>3. i \in NewImages <=> i \notin reuse /\ localImg[i] > 0
    BY SetFacts
  <2>4. localImg[i] \in Nat /\ imgWritten[i] \in Nat
    BY DEF StatsTypeOK
  <2>5. QED
    BY <2>1, <2>2, <2>3, <2>4
<1>4. QED
  BY <1>1, <1>2, <1>3

LEMMA FixMoves ==
  ASSUME StatsTypeOK, FlushFixesInserts, HoldsNothing
  PROVE  /\ imgLost' \in [Images -> Nat] /\ localImg' \in [Images -> Nat]
         /\ \A i \in Images : imgLost'[i] + localImg'[i] = imgLost[i] + localImg[i]
         /\ UNCHANGED <<midway, imgCache, imgWritten, sysCache, localSys, sysWritten, sysLost, received>>
<1>1. /\ imgLost' = Plus(imgLost, Only(localImg, GoneImages))
      /\ localImg' = Only(localImg, KeptImages)
      /\ UNCHANGED <<midway, imgCache, imgWritten, sysCache, localSys, sysWritten, sysLost, received>>
  BY DEF FlushFixesInserts, held, written
<1>2. imgLost' \in [Images -> Nat] /\ localImg' \in [Images -> Nat]
  BY <1>1, PartFacts DEF IsSum, IsPart
<1>3. ASSUME NEW i \in Images
      PROVE  imgLost'[i] + localImg'[i] = imgLost[i] + localImg[i]
  <2>1. imgLost'[i] = imgLost[i] + (IF i \in GoneImages THEN localImg[i] ELSE 0)
    BY <1>1, PartFacts DEF IsSum, IsPart
  <2>2. localImg'[i] = IF i \in KeptImages THEN localImg[i] ELSE 0
    BY <1>1, PartFacts DEF IsPart
  <2>3. /\ i \in GoneImages <=> i \in inserts /\ i \notin exists
        /\ i \in KeptImages <=> i \in inserts /\ i \in exists
        /\ localImg[i] > 0 => i \in inserts
    BY SetFacts DEF HoldsNothing, FlushFixesInserts
  <2>4. localImg[i] \in Nat /\ imgLost[i] \in Nat
    BY DEF StatsTypeOK
  <2>5. QED
    BY <2>1, <2>2, <2>3, <2>4
<1>4. QED
  BY <1>1, <1>2, <1>3

LEMMA CountedStep ==
  StatsTypeOK /\ HoldsNothing /\ CountedOnce /\ [StatsNext]_statsVars => CountedOnce'
<1> SUFFICES ASSUME StatsTypeOK, HoldsNothing, CountedOnce, [StatsNext]_statsVars
             PROVE  CountedOnce'
  OBVIOUS
<1> USE ImageAssumption, ZeroType, SumFacts, PartFacts, SetFacts DEF IsSum, IsPart,
    ImageAssumption, HoldsNothing, CountedOnce
<1> USE DEF StatsTypeOK, EventKeys, held, taken, flushing, monitoring, written, lost
<1>1. ASSUME NEW k \in EventKeys, CountForSystem(k) PROVE CountedOnce'
  BY <1>1 DEF CountForSystem
<1>2. ASSUME NEW i \in Images, CountForImage(i) PROVE CountedOnce'
  BY <1>2 DEF CountForImage
<1>3. CASE ClearSignal
  BY <1>3 DEF ClearSignal, Fault, DropCaches, EmptyCaches
<1>4. CASE MonitorWakes
  BY <1>4 DEF MonitorWakes
<1>5. CASE MonitorDiscards
  BY <1>5 DEF MonitorDiscards, DropCaches, EmptyCaches
<1>6. CASE FlushWakes
  BY <1>6 DEF FlushWakes
<1>7. CASE FlushHasNoSession
  BY <1>7 DEF FlushHasNoSession, Fault, FlushEnds
<1>8. CASE FlushTakes
  BY <1>8 DEF FlushTakes, EmptyCaches
<1>9. CASE FlushWritesSystem
  BY <1>9 DEF FlushWritesSystem
<1>10. CASE FlushUpdatesImages
  <2>1. \A i \in Images :
           received[i] = midway[i] + imgCache[i] + localImg'[i] + imgWritten'[i] + imgLost[i]
    BY <1>10, UpdateMoves DEF StatsTypeOK, EventKeys
  <2>2. QED
    BY <1>10, <2>1, UpdateMoves
<1>11. CASE FlushInserts
  BY <1>11 DEF FlushInserts, InsertRows, FlushEnds
<1>12. CASE FlushFixesInserts
  <2>1. \A i \in Images :
           received[i] = midway[i] + imgCache[i] + localImg'[i] + imgWritten[i] + imgLost'[i]
    BY <1>12, FixMoves DEF StatsTypeOK, EventKeys
  <2>2. QED
    BY <1>12, <2>1, FixMoves
<1>13. CASE FlushRetries
  BY <1>13 DEF FlushRetries, InsertRows, DropTaken, FlushEnds
<1>14. CASE FlushFails
  BY <1>14 DEF FlushFails, Fault, DropTaken, FlushEnds
<1>15. CASE Tick
  BY <1>15 DEF Tick
<1>16. ASSUME NEW i \in Images, PurgeImage(i) PROVE CountedOnce'
  BY <1>16 DEF PurgeImage
<1>17. CASE Shutdown
  BY <1>17 DEF Shutdown, Fault
<1>18. CASE ProcessEnds
  BY <1>18 DEF ProcessEnds, Fault, EmptyCaches, FlushEnds
<1>19. CASE StartStatsServer
  BY <1>19 DEF StartStatsServer
<1>20. CASE UNCHANGED statsVars
  BY <1>20 DEF statsVars
<1>21. QED
  BY <1>1, <1>2, <1>3, <1>4, <1>5, <1>6, <1>7, <1>8, <1>9, <1>10, <1>11, <1>12, <1>13,
     <1>14, <1>15, <1>16, <1>17, <1>18, <1>19, <1>20
     DEF StatsNext, HandlerStep, MonitorStep, FlushStep, Surroundings

(***************************************************************************)
(* The order of the two sets of counters.  What has passed the counters of *)
(* an image is at most what has passed the system's: the handler counts    *)
(* for the system first and both are exchanged in one step.                *)
(***************************************************************************)
Passed(i) == localImg[i] + imgWritten[i] + imgLost[i]
PassedSystem(i) == localSys[i] + sysWritten[i] + sysLost[i]

InOrder ==
    /\ \A i \in Images : Passed(i) <= PassedSystem(i)
    /\ ImageNotAheadOfSystem

LEMMA OrderStep ==
  StatsTypeOK /\ HoldsNothing /\ CountedOnce /\ InOrder /\ [StatsNext]_statsVars => InOrder'
<1> SUFFICES ASSUME StatsTypeOK, HoldsNothing, CountedOnce, InOrder, [StatsNext]_statsVars
             PROVE  InOrder'
  OBVIOUS
<1> USE ZeroType, SumFacts, PartFacts, SetFacts DEF IsSum, IsPart, HoldsNothing,
    CountedOnce, InOrder, ImageNotAheadOfSystem,
        Passed, PassedSystem
<1> USE DEF StatsTypeOK, EventKeys, held, taken, flushing, monitoring, written, lost
<1>1. ASSUME NEW k \in EventKeys, CountForSystem(k) PROVE InOrder'
  BY <1>1 DEF CountForSystem
<1>2. ASSUME NEW i \in Images, CountForImage(i) PROVE InOrder'
  BY <1>2 DEF CountForImage
<1>3. CASE ClearSignal
  BY <1>3 DEF ClearSignal, Fault, DropCaches, EmptyCaches
<1>4. CASE MonitorWakes
  BY <1>4 DEF MonitorWakes
<1>5. CASE MonitorDiscards
  BY <1>5 DEF MonitorDiscards, DropCaches, EmptyCaches
<1>6. CASE FlushWakes
  BY <1>6 DEF FlushWakes
<1>7. CASE FlushHasNoSession
  BY <1>7 DEF FlushHasNoSession, Fault, FlushEnds
<1>8. CASE FlushTakes
  BY <1>8 DEF FlushTakes, EmptyCaches
<1>9. CASE FlushWritesSystem
  BY <1>9 DEF FlushWritesSystem
<1>10. CASE FlushUpdatesImages
  <2>1. \A i \in Images : localSys[i] = 0
    BY <1>10 DEF FlushUpdatesImages, EventKeys
  <2>2. ASSUME NEW i \in Images
        PROVE  Passed(i)' <= PassedSystem(i)' /\ imgWritten'[i] <= sysWritten'[i] + sysLost'[i]
    BY <1>10, <2>1, UpdateMoves DEF StatsTypeOK, EventKeys
  <2>3. QED
    BY <2>2
<1>11. CASE FlushInserts
  BY <1>11 DEF FlushInserts, InsertRows, FlushEnds
<1>12. CASE FlushFixesInserts
  BY <1>12 DEF FlushFixesInserts, FlushEnds
<1>13. CASE FlushRetries
  BY <1>13 DEF FlushRetries, InsertRows, DropTaken, FlushEnds
<1>14. CASE FlushFails
  <2>1. \A i \in Images : /\ imgLost'[i] + localImg'[i] = imgLost[i] + localImg[i]
                           /\ sysLost'[i] + localSys'[i] = sysLost[i] + localSys[i]
                           /\ sysLost'[i] >= sysLost[i]
    BY <1>14 DEF FlushFails, DropTaken, StatsTypeOK, EventKeys
  <2>2. UNCHANGED <<imgWritten, sysWritten>>
    BY <1>14 DEF FlushFails, written
  <2>3. /\ imgLost' \in [Images -> Nat] /\ localImg' \in [Images -> Nat]
        /\ sysLost' \in [EventKeys -> Nat] /\ localSys' \in [EventKeys -> Nat]
    BY <1>14 DEF FlushFails, DropTaken, StatsTypeOK
  <2>4. QED
    BY <2>1, <2>2, <2>3 DEF StatsTypeOK, EventKeys
<1>15. CASE Tick
  BY <1>15 DEF Tick
<1>16. ASSUME NEW i \in Images, PurgeImage(i) PROVE InOrder'
  BY <1>16 DEF PurgeImage
<1>17. CASE Shutdown
  BY <1>17 DEF Shutdown, Fault
<1>18. CASE ProcessEnds
  BY <1>18 DEF ProcessEnds, Fault, EmptyCaches, FlushEnds
<1>19. CASE StartStatsServer
  BY <1>19 DEF StartStatsServer
<1>20. CASE UNCHANGED statsVars
  BY <1>20 DEF statsVars
<1>21. QED
  BY <1>1, <1>2, <1>3, <1>4, <1>5, <1>6, <1>7, <1>8, <1>9, <1>10, <1>11, <1>12, <1>13,
     <1>14, <1>15, <1>16, <1>17, <1>18, <1>19, <1>20
     DEF StatsNext, HandlerStep, MonitorStep, FlushStep, Surroundings

(***************************************************************************)
(* The age of the counters.  While the monitor sleeps, their age and what  *)
(* is left of the sleep stay below a period and a minute.                  *)
(***************************************************************************)
AgeInv ==
    /\ age < Frequency + Minute
    /\ monitorPc = "sleep" => age + monitorDue < Frequency + Minute

LEMMA AgeStep == StatsTypeOK /\ AgeInv /\ [StatsNext]_statsVars => AgeInv'
<1> SUFFICES ASSUME StatsTypeOK, AgeInv, [StatsNext]_statsVars PROVE AgeInv'
  OBVIOUS
<1> USE TimeAssumption DEF TimeAssumption, AgeInv
<1> USE DEF StatsTypeOK, held, taken, flushing, monitoring, written, lost
<1>1. ASSUME NEW k \in EventKeys, CountForSystem(k) PROVE AgeInv'
  BY <1>1 DEF CountForSystem
<1>2. ASSUME NEW i \in Images, CountForImage(i) PROVE AgeInv'
  BY <1>2 DEF CountForImage
<1>3. CASE ClearSignal
  BY <1>3 DEF ClearSignal, Fault, DropCaches, EmptyCaches
<1>4. CASE MonitorWakes
  BY <1>4 DEF MonitorWakes
<1>5. CASE MonitorDiscards
  BY <1>5 DEF MonitorDiscards, DropCaches, EmptyCaches
<1>6. CASE FlushWakes
  BY <1>6 DEF FlushWakes
<1>7. CASE FlushHasNoSession
  BY <1>7 DEF FlushHasNoSession, Fault, FlushEnds
<1>8. CASE FlushTakes
  BY <1>8 DEF FlushTakes, EmptyCaches
<1>9. CASE FlushWritesSystem
  BY <1>9 DEF FlushWritesSystem
<1>10. CASE FlushUpdatesImages
  BY <1>10 DEF FlushUpdatesImages, FlushEnds
<1>11. CASE FlushInserts
  BY <1>11 DEF FlushInserts, InsertRows, FlushEnds
<1>12. CASE FlushFixesInserts
  BY <1>12 DEF FlushFixesInserts, FlushEnds
<1>13. CASE FlushRetries
  BY <1>13 DEF FlushRetries, InsertRows, DropTaken, FlushEnds
<1>14. CASE FlushFails
  BY <1>14 DEF FlushFails, Fault, DropTaken, FlushEnds
<1>15. CASE Tick
  BY <1>15 DEF Tick
<1>16. ASSUME NEW i \in Images, PurgeImage(i) PROVE AgeInv'
  BY <1>16 DEF PurgeImage
<1>17. CASE Shutdown
  BY <1>17 DEF Shutdown, Fault
<1>18. CASE ProcessEnds
  BY <1>18 DEF ProcessEnds, Fault, EmptyCaches, FlushEnds
<1>19. CASE StartStatsServer
  BY <1>19 DEF StartStatsServer
<1>20. CASE UNCHANGED statsVars
  BY <1>20 DEF statsVars
<1>21. QED
  BY <1>1, <1>2, <1>3, <1>4, <1>5, <1>6, <1>7, <1>8, <1>9, <1>10, <1>11, <1>12, <1>13,
     <1>14, <1>15, <1>16, <1>17, <1>18, <1>19, <1>20
     DEF StatsNext, HandlerStep, MonitorStep, FlushStep, Surroundings

(***************************************************************************)
(* Losses.  A second insert can only fail for an image that was deleted    *)
(* after the first one failed, which was for another deletion.             *)
(***************************************************************************)
LossInv ==
    /\ LossNeedsACause
    /\ server = "stopping" => mishaps > 0
    /\ exists # Images => purges > 0
    /\ flushPc \in {"fix", "retry"} => purges > 0
    /\ flushPc = "retry" /\ purges <= 1 => inserts \subseteq exists

LEMMA LossStep == StatsTypeOK /\ LossInv /\ [StatsNext]_statsVars => LossInv'
<1> SUFFICES ASSUME StatsTypeOK, LossInv, [StatsNext]_statsVars PROVE LossInv'
  OBVIOUS
<1> USE BoundAssumption, SumFacts, PartFacts, SetFacts DEF IsSum, IsPart,
    BoundAssumption, LossInv, LossNeedsACause
<1> USE DEF StatsTypeOK, EventKeys, held, taken, flushing, monitoring, written, lost
<1>1. ASSUME NEW k \in EventKeys, CountForSystem(k) PROVE LossInv'
  BY <1>1 DEF CountForSystem
<1>2. ASSUME NEW i \in Images, CountForImage(i) PROVE LossInv'
  BY <1>2 DEF CountForImage
<1>3. CASE ClearSignal
  BY <1>3 DEF ClearSignal, Fault, DropCaches, EmptyCaches
<1>4. CASE MonitorWakes
  BY <1>4 DEF MonitorWakes
<1>5. CASE MonitorDiscards
  BY <1>5 DEF MonitorDiscards, DropCaches, EmptyCaches
<1>6. CASE FlushWakes
  BY <1>6 DEF FlushWakes
<1>7. CASE FlushHasNoSession
  BY <1>7 DEF FlushHasNoSession, Fault, FlushEnds
<1>8. CASE FlushTakes
  BY <1>8 DEF FlushTakes, EmptyCaches
<1>9. CASE FlushWritesSystem
  BY <1>9 DEF FlushWritesSystem
<1>10. CASE FlushUpdatesImages
  BY <1>10 DEF FlushUpdatesImages, FlushEnds
<1>11. CASE FlushInserts
  BY <1>11 DEF FlushInserts, InsertRows, FlushEnds
<1>12. CASE FlushFixesInserts
  BY <1>12 DEF FlushFixesInserts, FlushEnds
<1>13. CASE FlushRetries
  BY <1>13 DEF FlushRetries, InsertRows, DropTaken, FlushEnds
<1>14. CASE FlushFails
  BY <1>14 DEF FlushFails, Fault, DropTaken, FlushEnds
<1>15. CASE Tick
  BY <1>15 DEF Tick
<1>16. ASSUME NEW i \in Images, PurgeImage(i) PROVE LossInv'
  BY <1>16 DEF PurgeImage
<1>17. CASE Shutdown
  BY <1>17 DEF Shutdown, Fault
<1>18. CASE ProcessEnds
  BY <1>18 DEF ProcessEnds, Fault, EmptyCaches, FlushEnds
<1>19. CASE StartStatsServer
  BY <1>19 DEF StartStatsServer
<1>20. CASE UNCHANGED statsVars
  BY <1>20 DEF statsVars
<1>21. QED
  BY <1>1, <1>2, <1>3, <1>4, <1>5, <1>6, <1>7, <1>8, <1>9, <1>10, <1>11, <1>12, <1>13,
     <1>14, <1>15, <1>16, <1>17, <1>18, <1>19, <1>20
     DEF StatsNext, HandlerStep, MonitorStep, FlushStep, Surroundings

-----------------------------------------------------------------------------

LEMMA InitHolds ==
  StatsInit => StatsTypeOK /\ HoldsNothing /\ CountedOnce /\ InOrder /\ AgeInv /\ LossInv
<1> SUFFICES ASSUME StatsInit
             PROVE  StatsTypeOK /\ HoldsNothing /\ CountedOnce /\ InOrder /\ AgeInv /\ LossInv
  OBVIOUS
<1> USE ZeroType, TimeAssumption DEF StatsInit, TimeAssumption
<1>1. StatsTypeOK
  BY DEF StatsTypeOK
<1>2. HoldsNothing /\ AgeInv
  BY DEF HoldsNothing, AgeInv
<1>3. CountedOnce
  BY DEF CountedOnce, EventKeys
<1>4. InOrder
  BY DEF InOrder, ImageNotAheadOfSystem, Passed, PassedSystem, EventKeys
<1>5. LossInv
  BY DEF LossInv, LossNeedsACause, EventKeys
<1>6. QED
  BY <1>1, <1>2, <1>3, <1>4, <1>5

(* Every variable of the statistics server keeps its type: the counters    *)
(* never become negative.                                                  *)
THEOREM StatsTypeCorrect == StatsSpec => []StatsTypeOK
BY InitHolds, StatsTypeStep, PTL DEF StatsSpec

LEMMA CountsInvariant == StatsSpec => [](StatsTypeOK /\ HoldsNothing /\ CountedOnce /\ InOrder)
BY InitHolds, StatsTypeStep, HoldsStep, CountedStep, OrderStep, PTL DEF StatsSpec

(* Each event is counted once: what was received is held, taken, written   *)
(* or lost, whatever fails and whenever the server is stopped.             *)
THEOREM EventsAreCountedOnce == StatsSpec => []CountedOnce
BY CountsInvariant, PTL

(* The rows of an image are never ahead of the system's.                   *)
THEOREM ImagesFollowSystem == StatsSpec => []ImageNotAheadOfSystem
<1>1. InOrder => ImageNotAheadOfSystem
  BY DEF InOrder
<1>2. QED
  BY <1>1, CountsInvariant, PTL

(* The monitor bounds the age of the counters that a flush can take.       *)
THEOREM CountersStayYoung == StatsSpec => []NoFalseSpike
<1>1. AgeInv => NoFalseSpike
  BY DEF AgeInv, NoFalseSpike
<1>2. QED
  BY <1>1, InitHolds, StatsTypeStep, AgeStep, PTL DEF StatsSpec

(* Without a fault nothing is lost by the deletion of an image but what    *)
(* was counted for it.                                                     *)
THEOREM LossesHaveACause == StatsSpec => []LossNeedsACause
<1>1. LossInv => LossNeedsACause
  BY DEF LossInv
<1>2. QED
  BY <1>1, InitHolds, StatsTypeStep, LossStep, PTL DEF StatsSpec
=============================================================================
