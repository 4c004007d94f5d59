------------------------- MODULE TemplateCacheProofs -------------------------
(***************************************************************************)
(* Theorems about TemplateCache for every value of its constants.         *)
(***************************************************************************)
EXTENDS TemplateCache, TLAPS

-----------------------------------------------------------------------------
(* Types *)

LocalsType ==
    /\ at \in [Threads -> Steps] /\ op \in [Threads -> Ops \cup {"change"}]
    /\ name \in [Threads -> Names \cup {NoName}] /\ rows \in [Threads -> Contents]
    /\ todo \in [Threads -> SUBSET Names] /\ DOMAIN got = Threads

DatabaseType ==
    /\ table \in Contents /\ default \in Names \cup {NoName} /\ version \in Nat \ {0}
    /\ revision \in Revisions /\ unannounced \in BOOLEAN

ProcessType ==
    /\ cache \in Contents /\ list \in Lists \cup {NoList} /\ dataVersion \in 0..version
    /\ defaultName \in Names \cup {NoName} /\ checked \in {"recent", "due"}
    /\ lock \in Threads \cup {NoThread} /\ useable \in BOOLEAN

\* A call that has ended has an answer of its kind.
AnswerOf(t) == got[t] \in IF op[t] = "list" THEN Lists ELSE Revisions \cup {Absent}
Answers == \A t \in Threads : at[t] = "returned" => AnswerOf(t)

Types == LocalsType /\ DatabaseType /\ ProcessType /\ Answers /\ faults \in 0..MaxFaults

\* Whoever checks has been asked for something; who looks up a template not for
\* a list, and who makes a list for one.
Asking == LoadSteps \cup {"trying", "waiting"}
Kinds == \A t \in Threads :
    /\ at[t] \in Asking => op[t] \in Ops
    /\ at[t] \in {"looking", "naming"} => op[t] # "list"
    /\ at[t] \in {"fetching", "storing"} => op[t] = "list"

TypeInv == Types /\ Kinds

LEMMA EmptyType == Empty \in Contents
BY DEF Empty, Contents

LEMMA WorkType == \A o : /\ Work(o) \in {"looking", "naming", "fetching"}
                         /\ Work(o) = "looking" => o = "template"
                         /\ Work(o) = "naming" => o = "default"
                         /\ o \in Ops /\ Work(o) = "fetching" => o = "list"
BY TemplateAssumption DEF Work, TemplateAssumption

\* What a thread that is at a step has been asked for.
Fits(step, o) ==
    /\ step \in Asking => o \in Ops
    /\ step \in {"looking", "naming"} => o # "list"
    /\ step \in {"fetching", "storing"} => o = "list"

LEMMA WorkFits == \A o \in Ops : Fits(Work(o), o) /\ Work(o) \in Steps /\ Work(o) # "returned"
BY WorkType DEF Fits, Steps, Asking, LoadSteps

LEMMA MoveType ==
  ASSUME TypeInv, NEW t \in Threads, NEW step \in Steps, step # "returned",
         at' = [at EXCEPT ![t] = step],
         op' \in [Threads -> Ops \cup {"change"}],
         \A u \in Threads \ {t} : op'[u] = op[u] /\ got'[u] = got[u],
         Fits(step, op'[t])
  PROVE  at' \in [Threads -> Steps] /\ Answers' /\ Kinds'
<1>1. at' \in [Threads -> Steps] /\ at'[t] = step /\ \A u \in Threads \ {t} : at'[u] = at[u]
  BY DEF TypeInv, Types, LocalsType
<1>2. Answers'
  BY <1>1 DEF TypeInv, Types, Answers, AnswerOf
<1>3. Kinds'
  BY <1>1 DEF TypeInv, Kinds, Fits
<1>4. QED
  BY <1>1, <1>2, <1>3

LEMMA GotoType ==
  ASSUME TypeInv, NEW t \in Threads, NEW step \in Steps, step # "returned", Goto(t, step),
         Fits(step, op[t])
  PROVE  LocalsType' /\ Answers' /\ Kinds'
<1>1. at' = [at EXCEPT ![t] = step] /\ UNCHANGED <<op, name, rows, todo, got>>
  BY DEF Goto
<1>2. at' \in [Threads -> Steps] /\ Answers' /\ Kinds'
  BY <1>1, MoveType DEF TypeInv, Types, LocalsType
<1>3. QED
  BY <1>1, <1>2 DEF TypeInv, Types, LocalsType

LEMMA LocalsAreTyped ==
  ASSUME TypeInv, NEW t \in Threads, NEW step \in Steps, step # "returned",
         NEW n \in Names \cup {NoName}, NEW contents \in Contents, NEW left \in SUBSET Names,
         Locals(t, step, n, contents, left), Fits(step, op[t])
  PROVE  LocalsType' /\ Answers' /\ Kinds'
<1>1. /\ at' = [at EXCEPT ![t] = step] /\ name' = [name EXCEPT ![t] = n]
      /\ rows' = [rows EXCEPT ![t] = contents] /\ todo' = [todo EXCEPT ![t] = left]
      /\ UNCHANGED <<op, got>>
  BY DEF Locals
<1>2. at' \in [Threads -> Steps] /\ Answers' /\ Kinds'
  BY <1>1, MoveType DEF TypeInv, Types, LocalsType
<1>3. QED
  BY <1>1, <1>2 DEF TypeInv, Types, LocalsType

LEMMA ReturnType ==
  ASSUME TypeInv, NEW t \in Threads, NEW answer, Return(t, answer),
         answer \in IF op[t] = "list" THEN Lists ELSE Revisions \cup {Absent}
  PROVE  LocalsType' /\ Answers' /\ Kinds'
<1>1. /\ at' = [at EXCEPT ![t] = "returned"] /\ name' = [name EXCEPT ![t] = NoName]
      /\ rows' = [rows EXCEPT ![t] = Empty] /\ got' = [got EXCEPT ![t] = answer]
      /\ UNCHANGED <<op, todo>>
  BY DEF Return
<1>2. /\ at' \in [Threads -> Steps] /\ at'[t] = "returned" /\ got'[t] = answer
      /\ \A u \in Threads \ {t} : at'[u] = at[u] /\ got'[u] = got[u]
  BY <1>1 DEF TypeInv, Types, LocalsType, Steps
<1>3. Answers'
  BY <1>1, <1>2 DEF TypeInv, Types, Answers, AnswerOf
<1>4. Kinds'
  BY <1>1, <1>2 DEF TypeInv, Kinds, Asking, LoadSteps
<1>5. LocalsType'
  BY <1>1, <1>2, EmptyType DEF TypeInv, Types, LocalsType
<1>6. QED
  BY <1>3, <1>4, <1>5

LEMMA FaultType == ASSUME TypeInv, Fault PROVE faults' \in 0..MaxFaults
BY TemplateAssumption DEF TemplateAssumption, TypeInv, Types, Fault

LEMMA InitType == Init => TypeInv
<1> SUFFICES ASSUME Init PROVE TypeInv
  OBVIOUS
<1>1. LocalsType
  BY EmptyType DEF Init, LocalsType, Steps
<1>2. DatabaseType
  <2>1. 0 \in Revisions
    BY TemplateAssumption DEF Revisions, TemplateAssumption
  <2>2. table \in Contents /\ default \in Names \cup {NoName} /\ revision \in Revisions /\ version \in Nat \ {0}
    BY <2>1 DEF Init, Contents
  <2>3. unannounced \in BOOLEAN
    BY DEF Init
  <2>4. QED
    BY <2>2, <2>3 DEF DatabaseType
<1>3. ProcessType
  <2>1. table \in Contents /\ default \in Names \cup {NoName} /\ version = 1
    BY <1>2 DEF Init, DatabaseType
  <2>2. CASE Started
    BY <2>1, <2>2 DEF Init, ProcessType
  <2>3. CASE ~Started
    BY <2>1, <2>3, EmptyType DEF Init, ProcessType
  <2>4. QED
    BY <2>2, <2>3
<1>4. Answers /\ Kinds
  BY DEF Init, Answers, Kinds, Asking, LoadSteps
<1>5. faults \in 0..MaxFaults
  BY TemplateAssumption DEF Init, TemplateAssumption
<1>6. QED
  BY <1>1, <1>2, <1>3, <1>4, <1>5 DEF TypeInv, Types

\* The steps of the threads, with the process and the database.
LEMMA StepType ==
  ASSUME TypeInv, NEW t \in Threads, Step(t)
  PROVE  TypeInv'
<1> USE DEF database, process, locals
<1>t. LocalsType /\ DatabaseType /\ ProcessType /\ Answers /\ Kinds /\ faults \in 0..MaxFaults
  BY DEF TypeInv, Types
<1>d. ASSUME UNCHANGED database PROVE DatabaseType'
  BY <1>t, <1>d DEF DatabaseType
<1>p. ASSUME UNCHANGED process, version' = version PROVE ProcessType'
  BY <1>t, <1>p DEF ProcessType
<1>s. ASSUME LocalsType', Answers', Kinds', DatabaseType', ProcessType', faults' \in 0..MaxFaults
      PROVE  TypeInv'
  BY <1>s DEF TypeInv, Types
<1>w. at[t] \in Asking =>
        op[t] \in Ops /\ Work(op[t]) \in Steps /\ Work(op[t]) # "returned" /\ Fits(Work(op[t]), op[t])
  BY <1>t, WorkFits DEF Kinds
<1>o. at[t] \in Steps /\ op[t] \in Ops \cup {"change"} /\ name[t] \in Names \cup {NoName}
      /\ rows[t] \in Contents /\ todo[t] \in SUBSET Names
  BY <1>t DEF LocalsType
<1>a. LoadSteps \subseteq Asking /\ {"trying", "waiting"} \subseteq Asking
  BY DEF Asking
<1>b. LoadSteps \subseteq Steps
  BY DEF Steps
<1>i. "idle" \in Steps /\ \A o : Fits("idle", o)
  BY DEF Steps, Fits, Asking, LoadSteps
<1>1. CASE Try(t)
  <2>1. Goto(t, "checking") \/ Goto(t, "waiting")
    BY <1>1 DEF Try
  <2>2. /\ {"checking", "waiting"} \subseteq Steps
        /\ Fits("checking", op[t]) /\ Fits("waiting", op[t])
    BY <1>1, <1>w, <1>a DEF Try, Steps, Fits, Asking, LoadSteps
  <2>3. LocalsType' /\ Answers' /\ Kinds'
    BY <2>1, <2>2, GotoType
  <2>4. ProcessType'
    BY <1>1, <1>t DEF Try, ProcessType
  <2>5. QED
    BY <1>1, <1>d, <1>s, <1>t, <2>3, <2>4 DEF Try
<1>2. CASE Proceed(t) \/ WaitTimesOut(t)
  <2>1. LocalsType' /\ Answers' /\ Kinds'
    BY <1>2, <1>w, <1>a, GotoType DEF Proceed, WaitTimesOut
  <2>2. QED
    BY <1>2, <1>d, <1>p, <1>s, <1>t, <2>1 DEF Proceed, WaitTimesOut
<1>3. CASE Compare(t)
  <2>1. Fits("clearing", op[t]) /\ "clearing" \in Steps
    BY <1>3, <1>w, <1>a DEF Compare, Steps, Fits, Asking, LoadSteps
  <2>2. at[t] \in Asking
    BY <1>3 DEF Compare, Asking, LoadSteps
  <2>3. LocalsType' /\ Answers' /\ Kinds'
    BY <1>3, <1>w, <2>1, <2>2, GotoType DEF Compare
  <2>4. ProcessType'
    BY <1>3, <1>t DEF Compare, Release, ProcessType
  <2>5. QED
    BY <1>3, <1>d, <1>s, <1>t, <2>3, <2>4 DEF Compare
<1>4. CASE Clear(t) \/ ReadVersion(t) \/ ReadDefault(t)
  <2>1. at[t] \in LoadSteps
    BY <1>4 DEF Clear, ReadVersion, ReadDefault, LoadSteps
  <2>2. \A step \in LoadSteps : step \in Steps /\ step # "returned" /\ Fits(step, op[t])
    BY <1>w, <1>a, <1>b, <2>1 DEF Fits, LoadSteps
  <2>3. Goto(t, "versioning") \/ Goto(t, "configuring") \/ Goto(t, "selecting")
    BY <1>4 DEF Clear, ReadVersion, ReadDefault
  <2>4. {"versioning", "configuring", "selecting"} \subseteq LoadSteps
    BY DEF LoadSteps
  <2>5. LocalsType' /\ Answers' /\ Kinds'
    BY <2>2, <2>3, <2>4, GotoType
  <2>6. ProcessType'
    BY <1>4, <1>t, EmptyType DEF Clear, ReadVersion, ReadDefault, ProcessType, DatabaseType
  <2>7. QED
    BY <1>4, <1>d, <1>s, <1>t, <2>5, <2>6 DEF Clear, ReadVersion, ReadDefault
<1>5. CASE SelectRows(t)
  <2>1. "filling" \in Steps /\ Fits("filling", op[t]) /\ table \in Contents
    BY <1>5, <1>t, <1>w, <1>a DEF SelectRows, Steps, Fits, Asking, LoadSteps, DatabaseType
  <2>2. Locals(t, "filling", name[t], table, {n \in Names : table[n] # Absent})
    BY <1>5 DEF SelectRows
  <2>3. LocalsType' /\ Answers' /\ Kinds'
    BY <1>o, <2>1, <2>2, LocalsAreTyped
  <2>4. QED
    BY <1>5, <1>d, <1>p, <1>s, <1>t, <2>3 DEF SelectRows
<1>6. CASE Fill(t)
  <2>1. "filling" \in Steps /\ Fits("filling", op[t])
    BY <1>6, <1>w, <1>a DEF Fill, Steps, Fits, Asking, LoadSteps
  <2>2. PICK n \in todo[t] : /\ cache' = [cache EXCEPT ![n] = rows[t][n]]
                             /\ Locals(t, "filling", name[t], rows[t], todo[t] \ {n})
    BY <1>6 DEF Fill
  <2>3. todo[t] \ {n} \in SUBSET Names
    BY <1>o
  <2>4. LocalsType' /\ Answers' /\ Kinds'
    BY <1>o, <2>1, <2>2, <2>3, LocalsAreTyped
  <2>5. cache' \in Contents
    BY <1>t, <1>o, <2>2 DEF ProcessType, Contents
  <2>6. ProcessType'
    BY <1>6, <1>t, <2>5 DEF Fill, ProcessType
  <2>7. QED
    BY <1>6, <1>d, <1>s, <1>t, <2>4, <2>6 DEF Fill
<1>7. CASE Loaded(t)
  <2>1. at[t] \in Asking
    BY <1>7 DEF Loaded, Asking, LoadSteps
  <2>2. Locals(t, Work(op[t]), name[t], Empty, {})
    BY <1>7 DEF Loaded
  <2>3. LocalsType' /\ Answers' /\ Kinds'
    BY <1>o, <1>w, <2>1, <2>2, EmptyType, LocalsAreTyped
  <2>4. ProcessType'
    BY <1>7, <1>t DEF Loaded, Release, ProcessType
  <2>5. QED
    BY <1>7, <1>d, <1>s, <1>t, <2>3, <2>4 DEF Loaded
<1>8. CASE LoadFails(t)
  <2>1. Locals(t, "idle", NoName, Empty, {}) /\ Fault
    BY <1>8 DEF LoadFails
  <2>2. LocalsType' /\ Answers' /\ Kinds'
    BY <1>i, <2>1, EmptyType, LocalsAreTyped
  <2>3. ProcessType'
    BY <1>8, <1>t DEF LoadFails, Release, ProcessType
  <2>4. QED
    BY <1>8, <1>d, <1>s, <2>1, <2>2, <2>3, FaultType DEF LoadFails
<1>9. CASE ReadDefaultName(t)
  <2>1. "looking" \in Steps /\ Fits("looking", op[t]) /\ defaultName \in Names \cup {NoName}
    BY <1>9, <1>t DEF ReadDefaultName, Steps, Fits, Asking, LoadSteps, Kinds, ProcessType
  <2>2. Locals(t, "looking", defaultName, Empty, {})
    BY <1>9 DEF ReadDefaultName
  <2>3. LocalsType' /\ Answers' /\ Kinds'
    BY <2>1, <2>2, EmptyType, LocalsAreTyped
  <2>4. QED
    BY <1>9, <1>d, <1>p, <1>s, <1>t, <2>3 DEF ReadDefaultName
<1>10. CASE LookUp(t)
  <2>1. op[t] # "list" /\ cache \in Contents
    BY <1>10, <1>t DEF LookUp, Kinds, ProcessType
  <2> DEFINE answer == IF name[t] \in Names THEN cache[name[t]] ELSE Absent
  <2>2. answer \in Revisions \cup {Absent}
    BY <2>1 DEF Contents
  <2>3. Return(t, answer)
    BY <1>10 DEF LookUp
  <2> HIDE DEF answer
  <2>4. LocalsType' /\ Answers' /\ Kinds'
    BY <2>1, <2>2, <2>3, ReturnType
  <2>5. QED
    BY <1>10, <1>d, <1>p, <1>s, <1>t, <2>4 DEF LookUp
<1>11. CASE GetList(t)
  <2>1. op[t] = "list" /\ "storing" \in Steps /\ Fits("storing", op[t])
    BY <1>11, <1>t DEF GetList, Kinds, Steps, Fits, Asking, LoadSteps
  <2>2. defaultName \in Names \cup {NoName} /\ cache \in Contents /\ list \in Lists \cup {NoList}
    BY <1>t DEF ProcessType
  <2>3. CASE list # NoList
    BY <1>11, <1>d, <1>p, <1>s, <1>t, <2>1, <2>2, <2>3, ReturnType DEF GetList
  <2>4. CASE list = NoList
    BY <1>11, <1>d, <1>p, <1>s, <1>t, <2>1, <2>2, <2>4, LocalsAreTyped DEF GetList
  <2>5. QED
    BY <2>3, <2>4
<1>12. CASE StoreList(t)
  <2>1. op[t] = "list" /\ list' \in Lists
    BY <1>12, <1>t, <1>o DEF StoreList, Kinds, Lists
  <2>2. Return(t, list')
    BY <1>12 DEF StoreList
  <2>3. LocalsType' /\ Answers' /\ Kinds'
    BY <2>1, <2>2, ReturnType
  <2>4. ProcessType'
    BY <1>12, <1>t, <2>1 DEF StoreList, ProcessType
  <2>5. QED
    BY <1>12, <1>d, <1>s, <1>t, <2>3, <2>4 DEF StoreList
<1>13. CASE Delete(t)
  <2>1. "resetting" \in Steps /\ Fits("resetting", op[t])
    BY DEF Steps, Fits, Asking, LoadSteps
  <2>2. Locals(t, "idle", NoName, Empty, {}) \/ Locals(t, "resetting", NoName, Empty, {})
    BY <1>13 DEF Delete
  <2>3. LocalsType' /\ Answers' /\ Kinds'
    BY <1>i, <2>1, <2>2, EmptyType, LocalsAreTyped
  <2>4. table' \in Contents
    BY <1>13, <1>t DEF Delete, DatabaseType, Contents
  <2>5. DatabaseType' /\ ProcessType'
    BY <1>13, <1>t, <1>p, <2>4 DEF Delete, DatabaseType
  <2>6. QED
    BY <1>13, <1>s, <1>t, <2>3, <2>5 DEF Delete
<1>14. CASE LockForReset(t)
  <2>1. "incrementing" \in Steps /\ Fits("incrementing", op[t])
    BY DEF Steps, Fits, Asking, LoadSteps
  <2>2. LocalsType' /\ Answers' /\ Kinds'
    BY <1>14, <2>1, GotoType DEF LockForReset
  <2>3. ProcessType'
    BY <1>14, <1>t DEF LockForReset, ProcessType
  <2>4. QED
    BY <1>14, <1>d, <1>s, <1>t, <2>2, <2>3 DEF LockForReset
<1>15. CASE Increment(t)
  <2>1. "expiring" \in Steps /\ Fits("expiring", op[t])
    BY DEF Steps, Fits, Asking, LoadSteps
  <2>2. LocalsType' /\ Answers' /\ Kinds'
    BY <1>15, <2>1, GotoType DEF Increment
  <2>3. DatabaseType'
    BY <1>15, <1>t DEF Increment, DatabaseType
  <2>4. ProcessType'
    BY <1>15, <1>t DEF Increment, ProcessType, DatabaseType
  <2>5. QED
    BY <1>15, <1>s, <1>t, <2>2, <2>3, <2>4 DEF Increment
<1>16. CASE IncrementFails(t)
  <2>1. LocalsType' /\ Answers' /\ Kinds'
    BY <1>16, <1>i, GotoType DEF IncrementFails
  <2>2. ProcessType'
    BY <1>16, <1>t DEF IncrementFails, ProcessType
  <2>3. QED
    BY <1>16, <1>d, <1>s, <2>1, <2>2, FaultType DEF IncrementFails
<1>17. CASE Expire(t)
  <2>1. LocalsType' /\ Answers' /\ Kinds'
    BY <1>17, <1>i, GotoType DEF Expire
  <2>2. ProcessType'
    BY <1>17, <1>t DEF Expire, ProcessType
  <2>3. QED
    BY <1>17, <1>d, <1>s, <1>t, <2>1, <2>2 DEF Expire
<1>18. QED
  BY <1>1, <1>2, <1>3, <1>4, <1>5, <1>6, <1>7, <1>8, <1>9, <1>10, <1>11, <1>12, <1>13, <1>14,
     <1>15, <1>16, <1>17 DEF Step

\* A change of the table, wherever it is made.
LEMMA ChangeType ==
  ASSUME TypeInv, Change
  PROVE  /\ table' \in Contents /\ default' \in Names \cup {NoName} /\ revision' \in Revisions
         /\ name' \in [Threads -> Names \cup {NoName}]
<1>1. /\ table \in Contents /\ default \in Names \cup {NoName} /\ revision \in Revisions
      /\ name \in [Threads -> Names \cup {NoName}]
  BY DEF TypeInv, Types, DatabaseType, LocalsType
<1>2. revision' \in Revisions
  BY <1>1, TemplateAssumption DEF Change, Revisions, TemplateAssumption
<1>3. \/ \E n, m \in Names : Save(n) \/ Rename(n, m)
      \/ \E n \in Names \cup {NoName} : SetDefault(n)
  BY DEF Change
<1>4. ASSUME NEW n \in Names, Save(n)
      PROVE  /\ table' \in Contents /\ default' \in Names \cup {NoName}
             /\ name' \in [Threads -> Names \cup {NoName}]
  BY <1>1, <1>2, <1>4 DEF Save, Contents
<1>5. ASSUME NEW n \in Names, NEW m \in Names, Rename(n, m)
      PROVE  /\ table' \in Contents /\ default' \in Names \cup {NoName}
             /\ name' \in [Threads -> Names \cup {NoName}]
  <2>1. table' \in Contents
    <3> DEFINE without == [table EXCEPT ![n] = Absent]
    <3>1. without \in Contents
      BY <1>1 DEF Contents
    <3>2. table' = [without EXCEPT ![m] = revision']
      BY <1>5 DEF Rename
    <3> HIDE DEF without
    <3>3. QED
      BY <1>2, <3>1, <3>2 DEF Contents
  <2>2. name' \in [Threads -> Names \cup {NoName}]
    BY <1>1, <1>5 DEF Rename
  <2>3. QED
    BY <1>1, <1>2, <1>5, <2>1, <2>2 DEF Rename
<1>6. ASSUME NEW n \in Names \cup {NoName}, SetDefault(n)
      PROVE  /\ table' \in Contents /\ default' \in Names \cup {NoName}
             /\ name' \in [Threads -> Names \cup {NoName}]
  BY <1>1, <1>2, <1>6 DEF SetDefault
<1>7. QED
  BY <1>2, <1>3, <1>4, <1>5, <1>6

LEMMA TypeStep == TypeInv /\ [Next]_vars => TypeInv'
<1> SUFFICES ASSUME TypeInv, [Next]_vars PROVE TypeInv'
  OBVIOUS
<1> USE DEF database, process, locals
<1>t. LocalsType /\ DatabaseType /\ ProcessType /\ Answers /\ Kinds /\ faults \in 0..MaxFaults
  BY DEF TypeInv, Types
<1>d. ASSUME UNCHANGED database PROVE DatabaseType'
  BY <1>t, <1>d DEF DatabaseType
<1>p. ASSUME UNCHANGED process, version' = version PROVE ProcessType'
  BY <1>t, <1>p DEF ProcessType
<1>l. ASSUME UNCHANGED <<at, op, got>>, name' \in [Threads -> Names \cup {NoName}], UNCHANGED <<rows, todo>>
      PROVE  LocalsType' /\ Answers' /\ Kinds'
  BY <1>t, <1>l DEF LocalsType, Answers, AnswerOf, Kinds
<1>n. name \in [Threads -> Names \cup {NoName}]
  BY <1>t DEF LocalsType
<1>s. ASSUME LocalsType', Answers', Kinds', DatabaseType', ProcessType', faults' \in 0..MaxFaults
      PROVE  TypeInv'
  BY <1>s DEF TypeInv, Types
\* Calls begin.
<1>m. ASSUME NEW t \in Threads, NEW step \in Steps, step # "returned",
             at' = [at EXCEPT ![t] = step],
             NEW o \in Ops \cup {"change"}, op' = [op EXCEPT ![t] = o], Fits(step, o),
             got' = [got EXCEPT ![t] = Absent],
             name' \in [Threads -> Names \cup {NoName}], UNCHANGED <<rows, todo>>
      PROVE  LocalsType' /\ Answers' /\ Kinds'
  <2>1. /\ op' \in [Threads -> Ops \cup {"change"}] /\ op'[t] = o /\ DOMAIN got' = Threads
        /\ \A u \in Threads \ {t} : op'[u] = op[u] /\ got'[u] = got[u]
    BY <1>m, <1>t DEF LocalsType
  <2>2. at' \in [Threads -> Steps] /\ Answers' /\ Kinds'
    BY <1>m, <2>1, MoveType
  <2>3. QED
    BY <1>m, <1>t, <2>1, <2>2 DEF LocalsType
<1>1. ASSUME NEW t \in Threads, Asked(t) PROVE TypeInv'
  <2>1. PICK o \in Ops, n \in Names \cup {NoName} : Begin(t, o, n)
    BY <1>1 DEF Asked
  <2> DEFINE step == IF NeedsCheck THEN "trying" ELSE Work(o)
  <2>2. step \in Steps /\ step # "returned" /\ Fits(step, o)
    BY WorkFits DEF Steps, Fits, Asking, LoadSteps
  <2>3. /\ at' = [at EXCEPT ![t] = step] /\ op' = [op EXCEPT ![t] = o]
        /\ name' = [name EXCEPT ![t] = n] /\ got' = [got EXCEPT ![t] = Absent]
        /\ UNCHANGED <<database, process, rows, todo, faults>>
    BY <2>1 DEF Begin
  <2> HIDE DEF step
  <2>4. LocalsType' /\ Answers' /\ Kinds'
    BY <1>m, <1>n, <2>2, <2>3
  <2>5. QED
    BY <1>d, <1>p, <1>s, <1>t, <2>3, <2>4
<1>2. ASSUME NEW t \in Threads, ChangeHere(t) PROVE TypeInv'
  <2>1. "resetting" \in Steps /\ Fits("resetting", "change")
    BY DEF Steps, Fits, Asking, LoadSteps
  <2>2. LocalsType' /\ Answers' /\ Kinds'
    BY <1>2, <1>m, <2>1, ChangeType DEF ChangeHere
  <2>3. DatabaseType' /\ ProcessType'
    BY <1>2, <1>t, <1>p, ChangeType DEF ChangeHere, DatabaseType
  <2>4. QED
    BY <1>2, <1>s, <1>t, <2>2, <2>3 DEF ChangeHere
<1>3. ASSUME NEW t \in Threads, NEW n \in Names, BeginDelete(t, n) PROVE TypeInv'
  <2>1. "deleting" \in Steps /\ Fits("deleting", "change")
    BY DEF Steps, Fits, Asking, LoadSteps
  <2>2. LocalsType' /\ Answers' /\ Kinds'
    BY <1>3, <1>m, <1>n, <2>1 DEF BeginDelete
  <2>3. QED
    BY <1>3, <1>d, <1>p, <1>s, <1>t, <2>2 DEF BeginDelete
<1>4. CASE ChangeElsewhere
  <2>1. LocalsType' /\ Answers' /\ Kinds'
    BY <1>4, <1>l, ChangeType DEF ChangeElsewhere
  <2>2. DatabaseType' /\ ProcessType'
    BY <1>4, <1>t, <1>p, ChangeType DEF ChangeElsewhere, DatabaseType
  <2>3. QED
    BY <1>4, <1>s, <1>t, <2>1, <2>2 DEF ChangeElsewhere
<1>5. CASE AnnounceElsewhere
  <2>1. DatabaseType'
    <3>1. version' \in Nat \ {0} /\ UNCHANGED <<table, default, revision>>
      BY <1>5, <1>t DEF AnnounceElsewhere, DatabaseType
    <3>2. unannounced' \in BOOLEAN
      BY <1>5 DEF AnnounceElsewhere
    <3>3. QED
      BY <1>t, <3>1, <3>2 DEF DatabaseType
  <2>2. ProcessType'
    BY <1>5, <1>t DEF AnnounceElsewhere, DatabaseType, ProcessType
  <2>3. QED
    BY <1>5, <1>l, <1>n, <1>s, <1>t, <2>1, <2>2 DEF AnnounceElsewhere
<1>6. CASE KillElsewhere
  <2>1. DatabaseType' /\ ProcessType'
    BY <1>6, <1>t, <1>p DEF KillElsewhere, DatabaseType
  <2>2. QED
    BY <1>6, <1>l, <1>n, <1>s, <2>1, FaultType DEF KillElsewhere
<1>7. CASE TimePasses
  <2>1. ProcessType'
    BY <1>7, <1>t DEF TimePasses, ProcessType
  <2>2. QED
    BY <1>7, <1>d, <1>l, <1>n, <1>s, <1>t, <2>1 DEF TimePasses
<1>8. CASE UNCHANGED vars
  BY <1>8, <1>d, <1>p, <1>l, <1>n, <1>s, <1>t DEF vars
<1>9. QED
  BY <1>1, <1>2, <1>3, <1>4, <1>5, <1>6, <1>7, <1>8, StepType DEF Next

THEOREM TypesHold == Spec => []TypeInv
BY InitType, TypeStep, PTL DEF Spec

\* The types hold, and no process has a version that the database has not
\* reached.
THEOREM TypeCorrect == Spec => []TypeOK
<1>1. TypeInv => TypeOK
  BY DEF TypeInv, Types, LocalsType, DatabaseType, ProcessType, Answers, AnswerOf, TypeOK
<1>2. QED
  BY <1>1, TypesHold, PTL

-----------------------------------------------------------------------------
(* The copy *)

\* The lock is held through a check, a load and the announcement of a change.
Critical == LoadSteps \cup {"incrementing"}
LockInv == \A t \in Threads : at[t] \in Critical => lock = t

\* The process has the current version, and no change waits to be announced.
UpToDate == dataVersion = version /\ ~Pending

\* What a load has put together so far; as long as the version that it has read
\* stays the current one, this is the current data.
LoadInv == \A t \in Threads :
    /\ at[t] \in {"versioning", "configuring", "selecting"} => cache = Empty
    /\ at[t] = "filling" => \A n \in Names \ todo[t] : cache[n] = rows[t][n]
    /\ at[t] \in {"selecting", "filling"} /\ UpToDate => defaultName = default
    /\ at[t] = "filling" /\ UpToDate => rows[t] = table

CopyInv == TypeInv /\ LockInv /\ (faults = 0 => LoadInv) /\ CurrentCopyIsComplete

\* A step of a thread moves that thread only.
LEMMA OthersStay ==
  ASSUME TypeInv, NEW t \in Threads, Step(t), NEW u \in Threads, u # t
  PROVE  at'[u] = at[u] /\ rows'[u] = rows[u] /\ todo'[u] = todo[u]
<1>1. at \in [Threads -> Steps] /\ rows \in [Threads -> Contents] /\ todo \in [Threads -> SUBSET Names]
  BY DEF TypeInv, Types, LocalsType
<1>2. ASSUME NEW step, Goto(t, step) PROVE at'[u] = at[u] /\ rows'[u] = rows[u] /\ todo'[u] = todo[u]
  BY <1>1, <1>2 DEF Goto
<1>3. ASSUME NEW step, NEW n, NEW c, NEW left, Locals(t, step, n, c, left)
      PROVE  at'[u] = at[u] /\ rows'[u] = rows[u] /\ todo'[u] = todo[u]
  BY <1>1, <1>3 DEF Locals
<1>4. ASSUME NEW a, Return(t, a) PROVE at'[u] = at[u] /\ rows'[u] = rows[u] /\ todo'[u] = todo[u]
  BY <1>1, <1>4 DEF Return
<1>5. CASE Try(t) \/ Proceed(t) \/ WaitTimesOut(t) \/ Compare(t) \/ Clear(t) \/ ReadVersion(t) \/ ReadDefault(t)
  BY <1>2, <1>5 DEF Try, Proceed, WaitTimesOut, Compare, Clear, ReadVersion, ReadDefault
<1>6. CASE SelectRows(t) \/ Fill(t) \/ Loaded(t) \/ LoadFails(t) \/ ReadDefaultName(t)
  BY <1>3, <1>6 DEF SelectRows, Fill, Loaded, LoadFails, ReadDefaultName
<1>7. CASE LookUp(t) \/ GetList(t) \/ StoreList(t)
  BY <1>3, <1>4, <1>7 DEF LookUp, GetList, StoreList
<1>8. CASE Delete(t) \/ LockForReset(t) \/ Increment(t) \/ IncrementFails(t) \/ Expire(t)
  BY <1>2, <1>3, <1>8 DEF Delete, LockForReset, Increment, IncrementFails, Expire
<1>9. QED
  BY <1>5, <1>6, <1>7, <1>8 DEF Step

\* The steps after a check or a load.
LEMMA WorkIsNotCritical ==
  \A o : Work(o) \notin Critical /\ Work(o) \notin {"resetting", "incrementing"}
BY WorkType DEF Critical, LoadSteps

LEMMA LockStep ==
  ASSUME TypeInv, LockInv, NEW t \in Threads, Step(t)
  PROVE  LockInv'
<1>1. lock \in Threads \cup {NoThread} /\ NoThread \notin Threads /\ at \in [Threads -> Steps]
  BY TemplateAssumption DEF TypeInv, Types, ProcessType, LocalsType, TemplateAssumption
<1>2. \A u \in Threads \ {t} : at'[u] = at[u]
  BY OthersStay
<1>3. CASE lock' = lock /\ (at'[t] \in Critical => at[t] \in Critical)
  BY <1>2, <1>3 DEF LockInv
<1>4. CASE lock = NoThread /\ lock' = t
  BY <1>1, <1>2, <1>4 DEF LockInv
<1>5. CASE at[t] \in Critical /\ at'[t] \notin Critical
  BY <1>1, <1>2, <1>5 DEF LockInv
<1>g. ASSUME NEW step, Goto(t, step) PROVE at'[t] = step
  BY <1>1, <1>g DEF Goto
<1>l. ASSUME NEW step, NEW n, NEW c, NEW left, Locals(t, step, n, c, left) PROVE at'[t] = step
  BY <1>1, <1>l DEF Locals
<1>r. ASSUME NEW a, Return(t, a) PROVE at'[t] = "returned"
  BY <1>1, <1>r DEF Return
<1> USE DEF process
<1>6. CASE Try(t) \/ LockForReset(t)
  BY <1>3, <1>4, <1>6, <1>g DEF Try, LockForReset, Critical, LoadSteps
<1>7. CASE Compare(t) \/ Increment(t) \/ IncrementFails(t)
  BY <1>3, <1>5, <1>7, <1>g, WorkIsNotCritical DEF Compare, Increment, IncrementFails, Critical, LoadSteps
<1>8. CASE Loaded(t) \/ LoadFails(t)
  BY <1>5, <1>8, <1>l, WorkIsNotCritical DEF Loaded, LoadFails, Critical, LoadSteps
<1>9. CASE Clear(t) \/ ReadVersion(t) \/ ReadDefault(t) \/ Proceed(t) \/ WaitTimesOut(t) \/ Expire(t)
  BY <1>3, <1>9, <1>g, WorkIsNotCritical
     DEF Clear, ReadVersion, ReadDefault, Proceed, WaitTimesOut, Expire, Critical, LoadSteps
<1>10. CASE SelectRows(t) \/ Fill(t) \/ ReadDefaultName(t) \/ Delete(t)
  BY <1>3, <1>10, <1>l DEF SelectRows, Fill, ReadDefaultName, Delete, Critical, LoadSteps
<1>11. CASE LookUp(t) \/ GetList(t) \/ StoreList(t)
  BY <1>3, <1>11, <1>l, <1>r DEF LookUp, GetList, StoreList, Critical, LoadSteps
<1>12. QED
  BY <1>6, <1>7, <1>8, <1>9, <1>10, <1>11 DEF Step

LEMMA LockHolds == TypeInv /\ LockInv /\ [Next]_vars => LockInv'
<1> SUFFICES ASSUME TypeInv, LockInv, [Next]_vars PROVE LockInv'
  OBVIOUS
<1>1. at \in [Threads -> Steps]
  BY DEF TypeInv, Types, LocalsType
<1>2. ASSUME NEW t \in Threads, NEW step, step \notin Critical, at' = [at EXCEPT ![t] = step], lock' = lock
      PROVE  LockInv'
  BY <1>1, <1>2 DEF LockInv
<1>3. ASSUME UNCHANGED <<at, lock>> PROVE LockInv'
  BY <1>3 DEF LockInv
<1> USE DEF process, locals
<1>4. ASSUME NEW t \in Threads, Asked(t) PROVE LockInv'
  <2>1. PICK o \in Ops, n \in Names \cup {NoName} : Begin(t, o, n)
    BY <1>4 DEF Asked
  <2> DEFINE step == IF NeedsCheck THEN "trying" ELSE Work(o)
  <2>2. step \notin Critical
    BY WorkIsNotCritical DEF Critical, LoadSteps
  <2>3. at' = [at EXCEPT ![t] = step] /\ lock' = lock
    BY <2>1 DEF Begin
  <2> HIDE DEF step
  <2>4. QED
    BY <1>2, <2>2, <2>3
<1>5. ASSUME NEW t \in Threads, ChangeHere(t) PROVE LockInv'
  BY <1>2, <1>5 DEF ChangeHere, Critical, LoadSteps
<1>6. ASSUME NEW t \in Threads, NEW n \in Names, BeginDelete(t, n) PROVE LockInv'
  BY <1>2, <1>6 DEF BeginDelete, Critical, LoadSteps
<1>7. CASE ChangeElsewhere \/ AnnounceElsewhere \/ KillElsewhere \/ TimePasses
  BY <1>3, <1>7 DEF ChangeElsewhere, AnnounceElsewhere, KillElsewhere, TimePasses
<1>8. CASE UNCHANGED vars
  BY <1>3, <1>8 DEF vars
<1>9. QED
  BY <1>4, <1>5, <1>6, <1>7, <1>8, LockStep DEF Next

\* Nothing brings the process up to date but a load: an announced change is
\* ahead of the version it has, and stays so.
LEMMA OutOfDateStays ==
  ASSUME TypeInv, faults = 0, faults' = 0, [Next]_vars, UpToDate', dataVersion' = dataVersion
  PROVE  UpToDate /\ UNCHANGED <<table, default>>
<1> USE DEF database, process, locals
<1>1. /\ at \in [Threads -> Steps] /\ dataVersion \in 0..version /\ version \in Nat \ {0}
      /\ faults = 0 /\ name \in [Threads -> Names \cup {NoName}]
  BY DEF TypeInv, Types, LocalsType, DatabaseType, ProcessType
<1>2. ~Fault
  BY <1>1 DEF Fault
<1>3. ~unannounced' /\ (\A u \in Threads : at'[u] \notin {"resetting", "incrementing"})
      /\ dataVersion = version'
  BY DEF UpToDate, Pending
\* Steps that leave the database alone, by a thread that announces nothing.
<1>4. ASSUME UNCHANGED database,
             \A u \in Threads : at[u] \in {"resetting", "incrementing"} => at'[u] = at[u]
      PROVE  UpToDate /\ UNCHANGED <<table, default>>
  BY <1>3, <1>4 DEF UpToDate, Pending
<1>5. ASSUME NEW t \in Threads, Step(t) PROVE UpToDate /\ UNCHANGED <<table, default>>
  <2>1. \A u \in Threads \ {t} : at'[u] = at[u]
    BY <1>5, OthersStay
  <2>2. CASE at[t] \notin {"resetting", "incrementing"} /\ UNCHANGED database
    BY <1>4, <2>1, <2>2
  <2>3. CASE Try(t) \/ Proceed(t) \/ WaitTimesOut(t) \/ Compare(t) \/ Clear(t) \/ ReadVersion(t) \/ ReadDefault(t)
    BY <2>2, <2>3 DEF Try, Proceed, WaitTimesOut, Compare, Clear, ReadVersion, ReadDefault
  <2>4. CASE SelectRows(t) \/ Fill(t) \/ Loaded(t) \/ LoadFails(t) \/ ReadDefaultName(t)
    BY <2>2, <2>4 DEF SelectRows, Fill, Loaded, LoadFails, ReadDefaultName
  <2>5. CASE LookUp(t) \/ GetList(t) \/ StoreList(t) \/ Expire(t)
    BY <2>2, <2>5 DEF LookUp, GetList, StoreList, Expire
  <2>6. CASE Delete(t)
    <3>1. at'[t] # "resetting"
      BY <1>3
    <3>2. table[name[t]] = Absent /\ UNCHANGED database
      BY <1>1, <2>6, <3>1 DEF Delete, Locals
    <3>3. QED
      BY <2>2, <2>6, <3>2 DEF Delete
  <2>7. CASE LockForReset(t)
    BY <1>1, <1>3, <2>7 DEF LockForReset, Goto
  <2>8. CASE Increment(t) \/ IncrementFails(t)
    BY <1>1, <1>2, <1>3, <2>8 DEF Increment, IncrementFails
  <2>9. QED
    BY <1>5, <2>3, <2>4, <2>5, <2>6, <2>7, <2>8 DEF Step
<1>6. ASSUME NEW t \in Threads, Asked(t) PROVE UpToDate /\ UNCHANGED <<table, default>>
  <2>1. at[t] \in {"idle", "returned"} /\ UNCHANGED database /\ \E step : at' = [at EXCEPT ![t] = step]
    BY <1>6 DEF Asked, Begin, Free
  <2>2. QED
    BY <1>1, <1>4, <2>1
<1>7. ASSUME NEW t \in Threads, ChangeHere(t) PROVE FALSE
  BY <1>1, <1>3, <1>7 DEF ChangeHere
<1>8. ASSUME NEW t \in Threads, NEW n \in Names, BeginDelete(t, n)
      PROVE  UpToDate /\ UNCHANGED <<table, default>>
  BY <1>1, <1>4, <1>8 DEF BeginDelete, Free
<1>9. CASE ChangeElsewhere
  BY <1>3, <1>9 DEF ChangeElsewhere
<1>10. CASE AnnounceElsewhere
  BY <1>1, <1>3, <1>10 DEF AnnounceElsewhere
<1>11. CASE KillElsewhere
  BY <1>2, <1>11 DEF KillElsewhere
<1>12. CASE TimePasses
  BY <1>4, <1>12 DEF TimePasses
<1>13. CASE UNCHANGED vars
  BY <1>4, <1>13 DEF vars
<1>14. QED
  BY <1>5, <1>6, <1>7, <1>8, <1>9, <1>10, <1>11, <1>12, <1>13 DEF Next

Replacing == LoadSteps \ {"checking"}

\* The steps that have no part in a load.
LEMMA QuietStep ==
  ASSUME CopyInv, faults = 0, faults' = 0, [Next]_vars, UNCHANGED <<cache, defaultName, dataVersion>>,
         \A u \in Threads : /\ at[u] \in Replacing <=> at'[u] \in Replacing
                            /\ at[u] \in Replacing => UNCHANGED <<at[u], rows[u], todo[u]>>
  PROVE  LoadInv' /\ CurrentCopyIsComplete'
<1>1. UpToDate' => UpToDate /\ UNCHANGED <<table, default>>
  BY OutOfDateStays DEF CopyInv
<1>2. Loading' <=> Loading
  BY DEF Loading, Replacing
<1>3. CurrentCopyIsComplete'
  BY <1>1, <1>2 DEF CopyInv, CurrentCopyIsComplete, UpToDate
<1>4. ASSUME NEW t \in Threads
      PROVE  /\ at'[t] \in {"versioning", "configuring", "selecting"} => cache' = Empty
             /\ at'[t] = "filling" => \A n \in Names \ todo'[t] : cache'[n] = rows'[t][n]
             /\ at'[t] \in {"selecting", "filling"} /\ UpToDate' => defaultName' = default'
             /\ at'[t] = "filling" /\ UpToDate' => rows'[t] = table'
  <2>1. CASE at'[t] \in Replacing
    BY <1>1, <2>1 DEF CopyInv, LoadInv, Replacing, LoadSteps
  <2>2. CASE at'[t] \notin Replacing
    BY <2>2 DEF Replacing, LoadSteps
  <2>3. QED
    BY <2>1, <2>2
<1>5. LoadInv'
  BY <1>4 DEF LoadInv
<1>6. QED
  BY <1>3, <1>5

LEMMA CopyStep ==
  ASSUME CopyInv, faults = 0, faults' = 0, NEW t \in Threads, Step(t)
  PROVE  LoadInv' /\ CurrentCopyIsComplete'
<1> USE DEF database, process, locals
<1>1. /\ TypeInv /\ LockInv /\ LoadInv /\ CurrentCopyIsComplete /\ at \in [Threads -> Steps]
      /\ rows \in [Threads -> Contents] /\ todo \in [Threads -> SUBSET Names] /\ cache \in Contents
      /\ table \in Contents /\ faults = 0
  BY DEF CopyInv, TypeInv, Types, LocalsType, ProcessType, DatabaseType
<1>2. /\ [Next]_vars /\ ~Fault
      /\ \A u \in Threads \ {t} : at'[u] = at[u] /\ rows'[u] = rows[u] /\ todo'[u] = todo[u]
  BY <1>1, OthersStay DEF Next, Fault
<1>u. UpToDate' /\ dataVersion' = dataVersion => UpToDate /\ UNCHANGED <<table, default>>
  BY <1>1, <1>2, OutOfDateStays
\* While one thread loads no other does.
<1>o. ASSUME at[t] \in LoadSteps PROVE \A u \in Threads \ {t} : at[u] \notin LoadSteps
  BY <1>1, <1>o DEF LockInv, Critical
<1>g. ASSUME NEW step, Goto(t, step) PROVE at'[t] = step /\ UNCHANGED <<rows, todo>>
  BY <1>1, <1>g DEF Goto
<1>l. ASSUME NEW step, NEW n, NEW c, NEW left, Locals(t, step, n, c, left)
      PROVE  at'[t] = step /\ rows'[t] = c /\ todo'[t] = left
  BY <1>1, <1>l DEF Locals
<1>r. ASSUME NEW a, Return(t, a) PROVE at'[t] = "returned"
  BY <1>1, <1>r DEF Return
<1>w. \A o : Work(o) \notin LoadSteps
  BY WorkType DEF LoadSteps
<1>q. ASSUME at[t] \notin Replacing, at'[t] \notin Replacing, UNCHANGED <<cache, defaultName, dataVersion>>
      PROVE  LoadInv' /\ CurrentCopyIsComplete'
  BY <1>2, <1>q, QuietStep
\* What is to be shown of a load that goes on.
<1>s. ASSUME at[t] \in LoadSteps, at'[t] \in Replacing,
             /\ at'[t] \in {"versioning", "configuring", "selecting"} => cache' = Empty
             /\ at'[t] = "filling" => \A n \in Names \ todo'[t] : cache'[n] = rows'[t][n]
             /\ at'[t] \in {"selecting", "filling"} /\ UpToDate' => defaultName' = default'
             /\ at'[t] = "filling" /\ UpToDate' => rows'[t] = table'
      PROVE  LoadInv' /\ CurrentCopyIsComplete'
  <2>1. Loading'
    BY <1>s DEF Loading, Replacing
  <2>2. \A u \in Threads \ {t} : at'[u] \notin LoadSteps
    BY <1>2, <1>o, <1>s
  <2>3. LoadInv'
    BY <1>s, <2>2 DEF LoadInv, LoadSteps
  <2>4. QED
    BY <2>1, <2>3 DEF CurrentCopyIsComplete
<1>3. CASE Try(t) \/ Proceed(t) \/ WaitTimesOut(t) \/ Expire(t) \/ LockForReset(t) \/ Increment(t) \/ IncrementFails(t)
  BY <1>3, <1>g, <1>q, <1>w
     DEF Try, Proceed, WaitTimesOut, Expire, LockForReset, Increment, IncrementFails, Replacing, LoadSteps
<1>4. CASE ReadDefaultName(t) \/ LookUp(t) \/ GetList(t) \/ StoreList(t) \/ Delete(t)
  BY <1>4, <1>l, <1>r, <1>q DEF ReadDefaultName, LookUp, GetList, StoreList, Delete, Replacing, LoadSteps
<1>5. CASE Compare(t)
  <2>1. CASE version = dataVersion
    BY <1>5, <1>g, <1>q, <1>w, <2>1 DEF Compare, Replacing, LoadSteps
  <2>2. CASE version # dataVersion
    <3>1. at[t] \in LoadSteps /\ at'[t] = "clearing"
      BY <1>5, <1>g, <2>2 DEF Compare, LoadSteps
    <3>2. QED
      BY <1>s, <3>1 DEF Replacing, LoadSteps
  <2>3. QED
    BY <2>1, <2>2
<1>6. CASE Clear(t)
  <2>1. at[t] \in LoadSteps /\ at'[t] = "versioning" /\ cache' = Empty
    BY <1>6, <1>g DEF Clear, LoadSteps
  <2>2. QED
    BY <1>s, <2>1 DEF Replacing, LoadSteps
<1>7. CASE ReadVersion(t)
  <2>1. at[t] \in LoadSteps /\ at'[t] = "configuring" /\ cache' = Empty
    BY <1>1, <1>7, <1>g DEF ReadVersion, LoadSteps, LoadInv
  <2>2. QED
    BY <1>s, <2>1 DEF Replacing, LoadSteps
<1>8. CASE ReadDefault(t)
  <2>1. at[t] \in LoadSteps /\ at'[t] = "selecting" /\ cache' = Empty /\ defaultName' = default'
    BY <1>1, <1>8, <1>g DEF ReadDefault, LoadSteps, LoadInv
  <2>2. QED
    BY <1>s, <2>1 DEF Replacing, LoadSteps
<1>9. CASE SelectRows(t)
  <2>1. /\ at[t] \in LoadSteps /\ at'[t] = "filling" /\ rows'[t] = table
        /\ todo'[t] = {n \in Names : table[n] # Absent}
        /\ UNCHANGED <<cache, defaultName, default, table, dataVersion>>
    BY <1>9, <1>l DEF SelectRows, LoadSteps
  <2>2. cache = Empty /\ (UpToDate => defaultName = default)
    BY <1>1, <1>9 DEF SelectRows, LoadInv
  <2>3. \A n \in Names \ todo'[t] : cache'[n] = rows'[t][n]
    BY <2>1, <2>2 DEF Empty
  <2>4. QED
    BY <1>s, <1>u, <2>1, <2>2, <2>3 DEF Replacing, LoadSteps
<1>10. CASE Fill(t)
  <2>1. PICK n \in todo[t] : /\ cache' = [cache EXCEPT ![n] = rows[t][n]]
                             /\ Locals(t, "filling", name[t], rows[t], todo[t] \ {n})
    BY <1>10 DEF Fill
  <2>2. at'[t] = "filling" /\ rows'[t] = rows[t] /\ todo'[t] = todo[t] \ {n}
    BY <1>1, <2>1 DEF Locals
  <2>3. at[t] = "filling" /\ at[t] \in LoadSteps /\ UNCHANGED <<defaultName, default, table, dataVersion>>
    BY <1>10 DEF Fill, LoadSteps
  <2>4. \A k \in Names \ todo'[t] : cache'[k] = rows'[t][k]
    BY <1>1, <2>1, <2>2, <2>3 DEF LoadInv, Contents
  <2>5. UpToDate' => defaultName' = default' /\ rows'[t] = table'
    BY <1>1, <1>u, <2>2, <2>3 DEF LoadInv
  <2>6. QED
    BY <1>s, <2>2, <2>3, <2>4, <2>5 DEF Replacing, LoadSteps
<1>11. CASE Loaded(t)
  <2>1. /\ at[t] = "filling" /\ at[t] \in LoadSteps /\ todo[t] = {} /\ at'[t] \notin LoadSteps
        /\ UNCHANGED <<cache, defaultName, default, table, dataVersion>>
    BY <1>11, <1>l, <1>w DEF Loaded, LoadSteps
  <2>2. \A u \in Threads : at'[u] \notin LoadSteps
    BY <1>2, <1>o, <2>1
  <2>3. UpToDate => cache = table /\ defaultName = default
    <3>1. \A n \in Names : cache[n] = rows[t][n]
      BY <1>1, <2>1 DEF LoadInv
    <3>2. cache = rows[t]
      BY <1>1, <3>1 DEF Contents
    <3>3. QED
      BY <1>1, <2>1, <3>2 DEF LoadInv
  <2>4. CurrentCopyIsComplete'
    BY <1>u, <2>1, <2>3 DEF CurrentCopyIsComplete, UpToDate
  <2>5. LoadInv'
    BY <2>2 DEF LoadInv, LoadSteps
  <2>6. QED
    BY <2>4, <2>5
<1>12. CASE LoadFails(t)
  BY <1>2, <1>12 DEF LoadFails
<1>13. QED
  BY <1>3, <1>4, <1>5, <1>6, <1>7, <1>8, <1>9, <1>10, <1>11, <1>12 DEF Step

\* Faults are counted and not forgotten.
LEMMA FaultsAreCounted ==
  ASSUME TypeInv, [Next]_vars, faults' = 0
  PROVE  faults = 0
<1> USE DEF Fault
<1>1. faults \in Nat
  BY TemplateAssumption DEF TypeInv, Types
<1>2. ASSUME NEW t \in Threads, Step(t) PROVE faults = 0
  <2>1. CASE Try(t) \/ Proceed(t) \/ WaitTimesOut(t) \/ Compare(t) \/ Clear(t) \/ ReadVersion(t) \/ ReadDefault(t)
    BY <2>1 DEF Try, Proceed, WaitTimesOut, Compare, Clear, ReadVersion, ReadDefault
  <2>2. CASE SelectRows(t) \/ Fill(t) \/ Loaded(t) \/ LoadFails(t) \/ ReadDefaultName(t)
    BY <1>1, <2>2 DEF SelectRows, Fill, Loaded, LoadFails, ReadDefaultName
  <2>3. CASE LookUp(t) \/ GetList(t) \/ StoreList(t) \/ Delete(t) \/ LockForReset(t)
    BY <2>3 DEF LookUp, GetList, StoreList, Delete, LockForReset
  <2>4. CASE Increment(t) \/ IncrementFails(t) \/ Expire(t)
    BY <1>1, <2>4 DEF Increment, IncrementFails, Expire
  <2>5. QED
    BY <1>2, <2>1, <2>2, <2>3, <2>4 DEF Step
<1>3. ASSUME NEW t \in Threads, Asked(t) \/ ChangeHere(t) \/ \E n \in Names : BeginDelete(t, n) PROVE faults = 0
  BY <1>3 DEF Asked, Begin, ChangeHere, BeginDelete
<1>4. CASE ChangeElsewhere \/ AnnounceElsewhere \/ KillElsewhere \/ TimePasses \/ UNCHANGED vars
  BY <1>1, <1>4 DEF ChangeElsewhere, AnnounceElsewhere, KillElsewhere, TimePasses, vars
<1>5. QED
  BY <1>2, <1>3, <1>4 DEF Next

LEMMA CopyHolds ==
  ASSUME CopyInv, [Next]_vars, faults = 0, faults' = 0
  PROVE  LoadInv' /\ CurrentCopyIsComplete'
<1> USE DEF process, locals
<1>1. at \in [Threads -> Steps]
  BY DEF CopyInv, TypeInv, Types, LocalsType
<1>2. ASSUME NEW t \in Threads, NEW step, at' = [at EXCEPT ![t] = step], step \notin Replacing,
             Free(t), UNCHANGED <<cache, defaultName, dataVersion, rows, todo>>
      PROVE  LoadInv' /\ CurrentCopyIsComplete'
  <2>1. at[t] \notin Replacing /\ at'[t] \notin Replacing /\ \A u \in Threads \ {t} : at'[u] = at[u]
    BY <1>1, <1>2 DEF Free, Replacing, LoadSteps
  <2>2. QED
    BY <1>2, <2>1, QuietStep
<1>3. ASSUME NEW t \in Threads, Asked(t) PROVE LoadInv' /\ CurrentCopyIsComplete'
  <2>1. PICK o \in Ops, n \in Names \cup {NoName} : Begin(t, o, n)
    BY <1>3 DEF Asked
  <2> DEFINE step == IF NeedsCheck THEN "trying" ELSE Work(o)
  <2>2. step \notin Replacing
    BY WorkIsNotCritical DEF Critical, Replacing, LoadSteps
  <2>3. /\ at' = [at EXCEPT ![t] = step] /\ Free(t)
        /\ UNCHANGED <<cache, defaultName, dataVersion, rows, todo>>
    BY <2>1 DEF Begin
  <2> HIDE DEF step
  <2>4. QED
    BY <1>2, <2>2, <2>3
<1>4. ASSUME NEW t \in Threads, ChangeHere(t) PROVE LoadInv' /\ CurrentCopyIsComplete'
  BY <1>2, <1>4 DEF ChangeHere, Replacing, LoadSteps
<1>5. ASSUME NEW t \in Threads, NEW n \in Names, BeginDelete(t, n) PROVE LoadInv' /\ CurrentCopyIsComplete'
  BY <1>2, <1>5 DEF BeginDelete, Replacing, LoadSteps
<1>6. ASSUME UNCHANGED <<cache, defaultName, dataVersion, at, rows, todo>>
      PROVE  LoadInv' /\ CurrentCopyIsComplete'
  BY <1>6, QuietStep
<1>7. ASSUME ChangeElsewhere \/ AnnounceElsewhere \/ KillElsewhere \/ TimePasses \/ UNCHANGED vars
      PROVE  LoadInv' /\ CurrentCopyIsComplete'
  <2>1. CASE ChangeElsewhere
    BY <1>6, <2>1 DEF ChangeElsewhere
  <2>2. CASE AnnounceElsewhere
    BY <1>6, <2>2 DEF AnnounceElsewhere
  <2>3. CASE KillElsewhere
    BY <1>6, <2>3 DEF KillElsewhere
  <2>4. CASE TimePasses
    BY <1>6, <2>4 DEF TimePasses
  <2>5. CASE UNCHANGED vars
    BY <1>6, <2>5 DEF vars
  <2>6. QED
    BY <1>7, <2>1, <2>2, <2>3, <2>4, <2>5
<1>8. ASSUME NEW t \in Threads, Step(t) PROVE LoadInv' /\ CurrentCopyIsComplete'
  BY <1>8, CopyStep
<1>9. QED
  BY <1>3, <1>4, <1>5, <1>7, <1>8 DEF Next

LEMMA CopyInvStep == CopyInv /\ [Next]_vars => CopyInv'
<1> SUFFICES ASSUME CopyInv, [Next]_vars PROVE CopyInv'
  OBVIOUS
<1>1. TypeInv' /\ LockInv'
  BY TypeStep, LockHolds DEF CopyInv
<1>2. CASE faults' = 0
  <2>1. LoadInv' /\ CurrentCopyIsComplete'
    BY <1>2, CopyHolds, FaultsAreCounted DEF CopyInv
  <2>2. QED
    BY <1>1, <2>1 DEF CopyInv
<1>3. CASE faults' # 0
  <2>1. CurrentCopyIsComplete'
    BY <1>3 DEF CurrentCopyIsComplete
  <2>2. QED
    BY <1>1, <1>3, <2>1 DEF CopyInv
<1>4. QED
  BY <1>2, <1>3

\* Up to the first error of the database or kill, a process that has the current
\* version, and does not load, has the current templates: with any number of
\* templates, threads, processes and changes.
THEOREM CopyIsComplete == Spec => []CurrentCopyIsComplete
<1>1. Init => CopyInv
  <2> SUFFICES ASSUME Init PROVE CopyInv
    OBVIOUS
  <2>1. LockInv /\ LoadInv
    BY DEF Init, LockInv, LoadInv, Critical, LoadSteps
  <2>2. CurrentCopyIsComplete
    BY DEF Init, CurrentCopyIsComplete
  <2>3. QED
    BY <2>1, <2>2, InitType DEF CopyInv
<1>2. CopyInv => CurrentCopyIsComplete
  BY DEF CopyInv
<1>3. QED
  BY <1>1, <1>2, CopyInvStep, PTL DEF Spec
=============================================================================
