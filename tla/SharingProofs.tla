--------------------------- MODULE SharingProofs ---------------------------
(***************************************************************************)
(* Theorems about what is shared with others, the cached permissions       *)
(* (PermissionCache) and the exported portfolios (PortfolioExport), for    *)
(* every value of their constants.                                         *)
(***************************************************************************)
EXTENDS PermissionCache, PortfolioExport, TLAPS

----------------------------------------------------------------------------
(* PermissionCache *)

\* Where a thread may be in each kind of request, and what it has passed by then:
\* nobody looks anything up before the process knows both versions.
LookupSteps == {"caching", "boot", "booting", "check", "refreshing", "adopting", "clearing",
                "lookup", "reading", "storing", "answered"}
PastStart   == {"check", "refreshing", "adopting", "clearing", "lookup"}

LooksUp     == \A t \in Threads : at[t] \in LookupSteps => op[t] \in Lookups
StartsFirst == \A t \in Threads : at[t] = "caching" => kind[t] = "folder"
KnowsFolder == \A t \in Threads :
    at[t] \in PastStart \/ (at[t] \in {"boot", "booting"} /\ kind[t] = "folio")
        => known[Home[t]]["folder"] # 0
KnowsBoth   == \A t \in Threads : at[t] \in PastStart => known[Home[t]]["folio"] # 0
HasVersion  == \A t \in Threads :
    at[t] \in {"booting", "adopting", "reading", "storing"} => ver[t] # 0

StageInv == TypeOK /\ LooksUp /\ StartsFirst /\ KnowsFolder /\ KnowsBoth /\ HasVersion

LEMMA StageInit == Init => StageInv
<1> SUFFICES ASSUME Init PROVE StageInv
  OBVIOUS
<1> USE PermissionAssumption DEF PermissionAssumption, Init, Data, Kinds, Lookups, Changes, Versions,
        Count, Steps
<1>1. TypeOK
  BY DEF TypeOK, UserEntry, PublicEntry
<1>2. QED
  BY <1>1 DEF StageInv, LooksUp, StartsFirst, KnowsFolder, KnowsBoth, HasVersion, LookupSteps,
     PastStart

\* Updating one cell of a table keeps its type.
LEMMA TableType ==
  ASSUME NEW S, NEW f \in [Procs -> [Kinds -> S]], NEW p \in Procs, NEW k \in Kinds, NEW v \in S
  PROVE  [f EXCEPT ![p][k] = v] \in [Procs -> [Kinds -> S]]
OBVIOUS

\* Giving the threads of a process their initial value keeps a function's type.
LEMMA ResetType ==
  ASSUME NEW S, NEW f \in [Threads -> S], NEW p \in Procs, NEW v \in S
  PROVE  Reset(f, p, v) \in [Threads -> S]
BY DEF Reset

LEMMA AdoptedType ==
  ASSUME TypeOK, NEW p \in Procs, NEW k \in Kinds, NEW v \in Versions \cup {0}, Adopted(p, k, v)
  PROVE  /\ known' \in [Procs -> [Kinds -> Versions \cup {0}]]
         /\ seen' \in [Procs -> [Kinds -> Versions \cup {0}]]
<1> DEFINE w == IF v > seen[p][k] THEN v ELSE seen[p][k]
<1>1. w \in Versions \cup {0}
  BY DEF TypeOK
<1>2. seen' = [seen EXCEPT ![p][k] = w]
  BY DEF Adopted
<1> HIDE DEF w
<1>3. QED
  BY <1>1, <1>2, TableType DEF Adopted, TypeOK

LEMMA ReleaseType ==
  ASSUME TypeOK, NEW t \in Threads, Release(t)
  PROVE  /\ checked' \in [Procs -> [Kinds -> {"never", "due", "recent"}]]
         /\ lock' \in [Procs -> Threads \cup {NoThread}]
<1>1. Home[t] \in Procs /\ kind[t] \in Kinds
  BY PermissionAssumption DEF PermissionAssumption, TypeOK
<1>2. QED
  BY <1>1, TableType DEF Release, TypeOK

LEMMA EndType ==
  ASSUME TypeOK, NEW t \in Threads, End(t)
  PROVE  /\ at' \in [Threads -> Steps] /\ op' \in [Threads -> Lookups \cup Changes]
         /\ kind' \in [Threads -> Kinds] /\ ver' \in [Threads -> Versions \cup {0}]
         /\ user' \in [Threads -> Count] /\ read' \in [Threads -> Count]
         /\ asof' \in [Threads -> Versions \cup {0}]
<1>1. "idle" \in Steps /\ "folder" \in Lookups \cup Changes /\ "folder" \in Kinds /\ 0 \in Count
  BY PermissionAssumption DEF PermissionAssumption, Steps, Lookups, Changes, Kinds, Count
<1>2. QED
  BY <1>1 DEF End, Goto, TypeOK

LEMMA NextKindType ==
  ASSUME TypeOK, NEW t \in Threads, NEW step \in Steps, NEW after \in Steps,
         NextKind(t, step, after)
  PROVE  at' \in [Threads -> Steps] /\ kind' \in [Threads -> Kinds]
<1>1. "folder" \in Kinds /\ "folio" \in Kinds
  BY DEF Kinds
<1>2. at \in [Threads -> Steps] /\ kind \in [Threads -> Kinds]
  BY DEF TypeOK
<1>3. CASE kind[t] = "folder"
  BY <1>1, <1>2, <1>3 DEF NextKind, Goto
<1>4. CASE kind[t] # "folder"
  BY <1>1, <1>2, <1>4, SMTT(30) DEF NextKind, Goto
<1>5. QED
  BY <1>3, <1>4

\* Every step keeps the types and the stages of a request.
LEMMA TypeStep == ASSUME StageInv, [Next]_vars PROVE TypeOK'
<1> USE DEF StageInv, TypeOK, dbVars, processVars, cacheVars, threadVars
<1>a. Home \in [Threads -> Procs]
  BY PermissionAssumption DEF PermissionAssumption
<1>b. /\ {"idle", "caching", "boot", "booting", "check", "refreshing", "adopting", "clearing"}
             \subseteq Steps
      /\ {"lookup", "reading", "storing", "answered", "forgetting", "announce", "announcing", "due"}
             \subseteq Steps
  BY DEF Steps
<1>c. {"folder", "folio"} = Kinds /\ {"folder", "groups", "folio"} = Data
  BY DEF Kinds, Data
<1>d. Versions \subseteq Nat \ {0} /\ Count \subseteq Nat
  BY PermissionAssumption DEF PermissionAssumption, Versions, Count
<1>1. ASSUME NEW t \in Threads, NEW o \in Ops, BeginLookup(t, o) PROVE TypeOK'
  <2>1. o \in Lookups \cup Changes
    BY <1>1 DEF BeginLookup
  <2>2. data["groups"] \in Count /\ session \subseteq Count
    BY <1>c
  <2>3. at' \in [Threads -> Steps]
    BY <1>1, <1>b DEF BeginLookup, Goto
  <2>5. user' \in [Threads -> Count]
    <3>1. PICK g \in Count : user' = [user EXCEPT ![t] = g] \/ user' = user
      BY <1>1, <2>2 DEF BeginLookup
    <3>2. QED
      BY <3>1
  <2>4. op' \in [Threads -> Lookups \cup Changes] /\ kind' \in [Threads -> Kinds]
    BY <1>1, <1>c, <2>1 DEF BeginLookup
  <2>6. QED
    BY <1>1, <2>3, <2>4, <2>5 DEF BeginLookup
<1>2. ASSUME NEW t \in Threads, NEW o \in Ops, Commit(t, o) PROVE TypeOK'
  <2>1. o \in Lookups \cup Changes /\ DataOf(o) \in Data
    BY <1>2, <1>c DEF Commit, DataOf
  <2>2. \A d \in Data : data[d] + 1 \in Count
    <3>1. /\ data["folder"] \in Nat /\ data["groups"] \in Nat /\ data["folio"] \in Nat
          /\ MaxChanges \in Nat
      BY <1>c, <1>d, PermissionAssumption DEF PermissionAssumption
    <3>2. data["folder"] + data["groups"] + data["folio"] < MaxChanges
      BY <1>2 DEF Commit
    <3>3. /\ data["folder"] + 1 \in Count /\ data["groups"] + 1 \in Count
          /\ data["folio"] + 1 \in Count
      BY <3>1, <3>2 DEF Count
    <3>4. QED
      BY <3>3, <1>c
  <2>3. data' \in [Data -> Count]
    BY <1>2, <2>1, <2>2 DEF Commit
  <2>4. at' \in [Threads -> Steps] /\ kind' \in [Threads -> Kinds]
    BY <1>2, <1>b, <1>c DEF Commit, Goto
  <2>5. op' \in [Threads -> Lookups \cup Changes]
    BY <1>2, <2>1 DEF Commit
  <2>6. QED
    BY <1>2, <2>3, <2>4, <2>5 DEF Commit
<1>3. ASSUME NEW t \in Threads, CacheUser(t) PROVE TypeOK'
  BY <1>3, <1>b DEF CacheUser, Goto
<1>4. ASSUME NEW t \in Threads, Boot(t) PROVE TypeOK'
  <2>1. kind[t] \in Kinds /\ "boot" \in Steps /\ "booting" \in Steps /\ "check" \in Steps
    BY <1>b
  <2>2. CASE NotStarted(Home[t], kind[t])
    <3>1. ver' \in [Threads -> Versions \cup {0}] /\ at' \in [Threads -> Steps]
      <4>1. version[kind[t]] \in Versions
        BY <2>1
      <4>2. ver' = [ver EXCEPT ![t] = version[kind[t]]] /\ at' = [at EXCEPT ![t] = "booting"]
        BY <1>4, <2>2 DEF Boot, Goto
      <4>3. QED
        BY <2>1, <4>1, <4>2
    <3>2. QED
      BY <1>4, <2>2, <3>1 DEF Boot
  <2>3. CASE ~NotStarted(Home[t], kind[t])
    <3>1. at' \in [Threads -> Steps] /\ kind' \in [Threads -> Kinds]
      BY <1>4, <2>1, <2>3, NextKindType DEF Boot
    <3>2. QED
      BY <1>4, <2>3, <3>1 DEF Boot
  <2>4. QED
    BY <2>2, <2>3
<1>5. ASSUME NEW t \in Threads, BootSet(t) PROVE TypeOK'
  <2>1. /\ Home[t] \in Procs /\ kind[t] \in Kinds /\ ver[t] \in Versions \cup {0}
        /\ "boot" \in Steps /\ "check" \in Steps
    BY <1>a, <1>b
  <2>2. /\ known' \in [Procs -> [Kinds -> Versions \cup {0}]]
        /\ seen' \in [Procs -> [Kinds -> Versions \cup {0}]]
    BY <1>5, <2>1, AdoptedType DEF BootSet
  <2>3. checked' \in [Procs -> [Kinds -> {"never", "due", "recent"}]]
    BY <1>5, <2>1, TableType DEF BootSet
  <2>4. at' \in [Threads -> Steps] /\ kind' \in [Threads -> Kinds]
    BY <1>5, <2>1, NextKindType DEF BootSet
  <2>6. clashed' \subseteq Procs \X Kinds
    <3>1. clashed' \subseteq clashed \cup {<<Home[t], kind[t]>>}
      BY <1>5 DEF BootSet
    <3>2. <<Home[t], kind[t]>> \in Procs \X Kinds
      BY PermissionAssumption DEF PermissionAssumption
    <3>3. QED
      BY <3>1, <3>2
  <2>5. QED
    BY <1>5, <2>2, <2>3, <2>4, <2>6 DEF BootSet
<1>6. ASSUME NEW t \in Threads, Check(t) PROVE TypeOK'
  <2>1. "check" \in Steps /\ "lookup" \in Steps /\ "refreshing" \in Steps
    BY <1>b
  <2>2. lock' \in [Procs -> Threads \cup {NoThread}]
    <3>1. lock' = lock \/ lock' = [lock EXCEPT ![Home[t]] = t]
      BY <1>6 DEF Check
    <3>2. QED
      BY <3>1
  <2>3. at' \in [Threads -> Steps] /\ kind' \in [Threads -> Kinds]
    BY <1>6, <2>1, NextKindType DEF Check, Goto
  <2>4. QED
    BY <1>6, <2>2, <2>3 DEF Check
<1>7. ASSUME NEW t \in Threads, Refresh(t) PROVE TypeOK'
  <2>1. "check" \in Steps /\ "lookup" \in Steps /\ "adopting" \in Steps
    BY <1>b
  <2>2. ver' \in [Threads -> Versions \cup {0}]
    BY <1>7 DEF Refresh
  <2>3. /\ checked' \in [Procs -> [Kinds -> {"never", "due", "recent"}]]
        /\ lock' \in [Procs -> Threads \cup {NoThread}]
    BY <1>7, ReleaseType DEF Refresh
  <2>4. at' \in [Threads -> Steps] /\ kind' \in [Threads -> Kinds]
    BY <1>7, <2>1, NextKindType DEF Refresh, Goto
  <2>5. QED
    BY <1>7, <2>2, <2>3, <2>4 DEF Refresh
<1>8. ASSUME NEW t \in Threads, DbError(t) PROVE TypeOK'
  <2>1. /\ checked' \in [Procs -> [Kinds -> {"never", "due", "recent"}]]
        /\ lock' \in [Procs -> Threads \cup {NoThread}]
    BY <1>8, ReleaseType DEF DbError
  <2>2. faults' \in 0..MaxFaults
    BY <1>8, PermissionAssumption DEF DbError, PermissionAssumption, TypeOK
  <2>3. QED
    BY <1>8, <2>1, <2>2, EndType DEF DbError
<1>9. ASSUME NEW t \in Threads, Adopt(t) PROVE TypeOK'
  <2>1. Home[t] \in Procs /\ kind[t] \in Kinds /\ ver[t] \in Versions \cup {0}
    BY <1>a
  <2>2. /\ known' \in [Procs -> [Kinds -> Versions \cup {0}]]
        /\ seen' \in [Procs -> [Kinds -> Versions \cup {0}]]
    BY <1>9, <2>1, AdoptedType DEF Adopt
  <2>3. at' \in [Threads -> Steps]
    BY <1>9, <1>b DEF Adopt, Goto
  <2>4. QED
    BY <1>9, <2>2, <2>3 DEF Adopt
<1>10. ASSUME NEW t \in Threads, ClearCache(t) PROVE TypeOK'
  <2>1. "check" \in Steps /\ "lookup" \in Steps
    BY <1>b
  <2>2. /\ checked' \in [Procs -> [Kinds -> {"never", "due", "recent"}]]
        /\ lock' \in [Procs -> Threads \cup {NoThread}]
    BY <1>10, ReleaseType DEF ClearCache
  <2>3. at' \in [Threads -> Steps] /\ kind' \in [Threads -> Kinds]
    BY <1>10, <2>1, NextKindType DEF ClearCache
  <2>4. pubFolder' \in [Procs -> SUBSET PublicEntry] /\ pubFolio' \in [Procs -> SUBSET Count]
    BY <1>10 DEF ClearCache
  <2>5. QED
    BY <1>10, <2>2, <2>3, <2>4 DEF ClearCache
<1>11. ASSUME NEW t \in Threads, LookUp(t) PROVE TypeOK'
  <2>1. \A h \in Hits(t) : h.read \in Count /\ h.user \in Count
    BY <1>a DEF Hits, PublicEntry, UserEntry
  <2>2. Home[t] \in Procs /\ OpKind(t) \in Kinds /\ "folder" \in Kinds
    BY <1>a, <1>c DEF OpKind
  <2>3. ver' \in [Threads -> Versions \cup {0}] /\ asof' \in [Threads -> Versions \cup {0}]
    BY <1>11, <2>2 DEF LookUp
  <2>4. read' \in [Threads -> Count] /\ user' \in [Threads -> Count] /\ at' \in [Threads -> Steps]
    BY <1>11, <1>b, <2>1, ZenonT(60) DEF LookUp, Goto
  <2>5. QED
    BY <1>11, <2>3, <2>4 DEF LookUp
<1>12. ASSUME NEW t \in Threads, ReadData(t) PROVE TypeOK'
  <2>1. OpKind(t) \in Data
    BY <1>c DEF OpKind
  <2>2. read' \in [Threads -> Count] /\ at' \in [Threads -> Steps]
    BY <1>12, <1>b, <2>1 DEF ReadData, Goto
  <2>3. QED
    BY <1>12, <2>2 DEF ReadData
<1>13. ASSUME NEW t \in Threads, Store(t) PROVE TypeOK'
  <2>1. op[t] \in Lookups /\ ver[t] \in Versions
    BY <1>13 DEF Store, LooksUp, HasVersion, LookupSteps
  <2>2. /\ [ver |-> ver[t], folder |-> read[t]] \in PublicEntry
        /\ [ver |-> ver[t], folder |-> read[t], groups |-> user[t]] \in UserEntry
    BY <2>1 DEF PublicEntry, UserEntry
  <2>3. at' \in [Threads -> Steps]
    BY <1>13, <1>b DEF Store, Goto
  <2>4. /\ pubFolder' \in [Procs -> SUBSET PublicEntry] /\ pubFolio' \in [Procs -> SUBSET Count]
        /\ entry' \subseteq UserEntry
    <3>1. CASE op[t] = "folder"
      <4>1. /\ pubFolder' = [pubFolder EXCEPT ![Home[t]] = {[ver |-> ver[t], folder |-> read[t]]}]
            /\ UNCHANGED <<pubFolio, entry>>
        BY <1>13, <3>1 DEF Store
      <4>2. {[ver |-> ver[t], folder |-> read[t]]} \in SUBSET PublicEntry
        BY <2>2
      <4>3. QED
        BY <4>1, <4>2
    <3>2. CASE op[t] = "user"
      BY <1>13, <2>2, <3>2 DEF Store
    <3>3. CASE op[t] = "folio"
      <4>1. /\ pubFolio' = [pubFolio EXCEPT ![Home[t]] = {read[t]}]
            /\ UNCHANGED <<pubFolder, entry>>
        BY <1>13, <3>3 DEF Store
      <4>2. {read[t]} \in SUBSET Count
        OBVIOUS
      <4>3. QED
        BY <4>1, <4>2
    <3>4. QED
      BY <2>1, <3>1, <3>2, <3>3 DEF Lookups
  <2>5. QED
    BY <1>13, <2>3, <2>4 DEF Store
<1>14. ASSUME NEW t \in Threads, Finish(t) PROVE TypeOK'
  BY <1>14, EndType DEF Finish
<1>15. ASSUME NEW t \in Threads, ForgetUser(t) PROVE TypeOK'
  BY <1>15, <1>b DEF ForgetUser, Goto
<1>16. ASSUME NEW t \in Threads, AnnounceLock(t) PROVE TypeOK'
  BY <1>16, <1>b DEF AnnounceLock, Goto
<1>17. ASSUME NEW t \in Threads, Announce(t) PROVE TypeOK'
  <2>1. kind[t] \in Kinds /\ version[kind[t]] + 1 \in Versions
    BY <1>17, PermissionAssumption DEF Announce, PermissionAssumption, Versions
  <2>2. version' \in [Kinds -> Versions]
    BY <1>17, <2>1 DEF Announce
  <2>3. told' \in [Data -> [Versions -> Count]]
    BY <1>17, <2>1 DEF Announce
  <2>4. at' \in [Threads -> Steps] /\ lock' \in [Procs -> Threads \cup {NoThread}]
    BY <1>17, <1>b DEF Announce, Goto
  <2>5. QED
    BY <1>17, <2>2, <2>3, <2>4 DEF Announce
<1>18. ASSUME NEW t \in Threads, MarkDue(t) PROVE TypeOK'
  <2>1. Home[t] \in Procs /\ kind[t] \in Kinds
    BY <1>a
  <2>2. checked' \in [Procs -> [Kinds -> {"never", "due", "recent"}]]
    BY <1>18, <2>1, TableType DEF MarkDue
  <2>3. CASE op[t] = "setGroups" /\ kind[t] = "folio"
    <3>a. at' = [at EXCEPT ![t] = "announce"] /\ kind' = [kind EXCEPT ![t] = "folder"]
      BY <1>18, <2>3 DEF MarkDue, Goto
    <3>b. "announce" \in Steps /\ "folder" \in Kinds
      BY <1>b, <1>c
    <3>1. at' \in [Threads -> Steps] /\ kind' \in [Threads -> Kinds]
      BY <3>a, <3>b
    <3>2. QED
      BY <1>18, <2>2, <2>3, <3>1 DEF MarkDue
  <2>4. CASE ~(op[t] = "setGroups" /\ kind[t] = "folio")
    BY <1>18, <2>2, <2>4, EndType DEF MarkDue
  <2>5. QED
    BY <2>3, <2>4
<1>19. ASSUME NEW p \in Procs, NEW k \in Kinds, TimePasses(p, k) PROVE TypeOK'
  <2>1. checked' \in [Procs -> [Kinds -> {"never", "due", "recent"}]]
    BY <1>19, TableType DEF TimePasses
  <2>2. QED
    BY <1>19, <2>1 DEF TimePasses
<1>20. CASE Evict
  BY <1>20 DEF Evict
<1>21. ASSUME NEW p \in Procs, Restart(p) PROVE TypeOK'
  <2>1. /\ known' \in [Procs -> [Kinds -> Versions \cup {0}]]
        /\ seen' \in [Procs -> [Kinds -> Versions \cup {0}]]
        /\ checked' \in [Procs -> [Kinds -> {"never", "due", "recent"}]]
    BY <1>21 DEF Restart, Reset
  <2>2. /\ lock' \in [Procs -> Threads \cup {NoThread}]
        /\ pubFolder' \in [Procs -> SUBSET PublicEntry] /\ pubFolio' \in [Procs -> SUBSET Count]
    BY <1>21 DEF Restart, Reset
  <2>3. at' \in [Threads -> Steps] /\ op' \in [Threads -> Lookups \cup Changes]
    <3>1. at' = Reset(at, p, "idle") /\ op' = Reset(op, p, "folder")
      BY <1>21 DEF Restart
    <3>2. "folder" \in Lookups \cup Changes
      BY DEF Lookups
    <3>3. QED
      BY <3>1, <3>2, <1>b, ResetType
  <2>6. /\ kind' \in [Threads -> Kinds]
        /\ ver' \in [Threads -> Versions \cup {0}] /\ user' \in [Threads -> Count]
        /\ read' \in [Threads -> Count] /\ asof' \in [Threads -> Versions \cup {0}]
    <3>1. /\ kind' = Reset(kind, p, "folder") /\ ver' = Reset(ver, p, 0)
          /\ user' = Reset(user, p, 0) /\ read' = Reset(read, p, 0) /\ asof' = Reset(asof, p, 0)
      BY <1>21 DEF Restart
    <3>2. "folder" \in Kinds /\ 0 \in Count /\ 0 \in Versions \cup {0}
      BY PermissionAssumption DEF PermissionAssumption, Kinds, Count
    <3>3. QED
      BY <3>1, <3>2, ResetType
  <2>4. faults' \in 0..MaxFaults
    BY <1>21, PermissionAssumption DEF Restart, PermissionAssumption
  <2>5. QED
    BY <1>21, <2>1, <2>2, <2>3, <2>4, <2>6 DEF Restart
<1>22. CASE UNCHANGED vars
  BY <1>22 DEF vars
<1>23. QED
  BY <1>1, <1>2, <1>3, <1>4, <1>5, <1>6, <1>7, <1>8, <1>9, <1>10, <1>11, <1>12, <1>13,
     <1>14, <1>15, <1>16, <1>17, <1>18, <1>19, <1>20, <1>21, <1>22 DEF Next, Request

\* Every step keeps the stages of a request.
LEMMA StageStep == ASSUME StageInv, [Next]_vars, TypeOK' PROVE StageInv'
<1> USE DEF LooksUp, StartsFirst, KnowsFolder, KnowsBoth, HasVersion,
        LookupSteps, PastStart, dbVars, processVars, cacheVars, threadVars, Goto
<1>0. TypeOK /\ LooksUp /\ StartsFirst /\ KnowsFolder /\ KnowsBoth /\ HasVersion
  BY DEF StageInv
<1>a. /\ at \in [Threads -> Steps] /\ kind \in [Threads -> Kinds] /\ Kinds = {"folder", "folio"}
      /\ op \in [Threads -> Lookups \cup Changes] /\ ver \in [Threads -> Versions \cup {0}]
      /\ known \in [Procs -> [Kinds -> Versions \cup {0}]]
      /\ Home \in [Threads -> Procs] /\ version \in [Kinds -> Nat \ {0}]
  BY <1>0, PermissionAssumption DEF PermissionAssumption, TypeOK, Versions, Kinds
<1>1. ASSUME NEW t \in Threads, NEW o \in Ops, BeginLookup(t, o) PROVE StageInv'
  <2>1. LooksUp' /\ StartsFirst'
    BY <1>1, <1>0, <1>a DEF BeginLookup
  <2>2. KnowsFolder' /\ KnowsBoth'
    BY <1>1, <1>0, <1>a DEF BeginLookup
  <2>3. HasVersion'
    BY <1>1, <1>0, <1>a DEF BeginLookup
  <2>4. QED
    BY <2>1, <2>2, <2>3 DEF StageInv
<1>2. ASSUME NEW t \in Threads, NEW o \in Ops, Commit(t, o) PROVE StageInv'
  <2>1. LooksUp' /\ StartsFirst'
    BY <1>2, <1>0, <1>a DEF Commit, DataOf
  <2>2. KnowsFolder' /\ KnowsBoth'
    BY <1>2, <1>0, <1>a DEF Commit, DataOf
  <2>3. HasVersion'
    BY <1>2, <1>0, <1>a DEF Commit, DataOf
  <2>4. QED
    BY <2>1, <2>2, <2>3 DEF StageInv
<1>3. ASSUME NEW t \in Threads, CacheUser(t) PROVE StageInv'
  <2>1. LooksUp' /\ StartsFirst'
    BY <1>3, <1>0, <1>a DEF CacheUser
  <2>2. KnowsFolder' /\ KnowsBoth'
    BY <1>3, <1>0, <1>a DEF CacheUser
  <2>3. HasVersion'
    BY <1>3, <1>0, <1>a DEF CacheUser
  <2>4. QED
    BY <2>1, <2>2, <2>3 DEF StageInv
<1>4. ASSUME NEW t \in Threads, Boot(t) PROVE StageInv'
  <2>1. LooksUp' /\ StartsFirst'
    BY <1>4, <1>0, <1>a DEF Boot, NextKind, NotStarted
  <2>2. KnowsFolder' /\ KnowsBoth'
    BY <1>4, <1>0, <1>a DEF Boot, NextKind, NotStarted
  <2>3. HasVersion'
    BY <1>4, <1>0, <1>a DEF Boot, NextKind, NotStarted
  <2>4. QED
    BY <2>1, <2>2, <2>3 DEF StageInv
<1>5. ASSUME NEW t \in Threads, BootSet(t) PROVE StageInv'
  <2>1. LooksUp' /\ StartsFirst'
    BY <1>5, <1>0, <1>a, ZenonT(60) DEF BootSet, NextKind, Adopted
  <2>2. KnowsFolder' /\ KnowsBoth'
    BY <1>5, <1>0, <1>a DEF BootSet, NextKind, Adopted
  <2>3. HasVersion'
    BY <1>5, <1>0, <1>a DEF BootSet, NextKind, Adopted
  <2>4. QED
    BY <2>1, <2>2, <2>3 DEF StageInv
<1>6. ASSUME NEW t \in Threads, Check(t) PROVE StageInv'
  <2>1. LooksUp' /\ StartsFirst'
    BY <1>6, <1>0, <1>a DEF Check, NextKind
  <2>2. KnowsFolder' /\ KnowsBoth'
    BY <1>6, <1>0, <1>a DEF Check, NextKind
  <2>3. HasVersion'
    BY <1>6, <1>0, <1>a DEF Check, NextKind
  <2>4. QED
    BY <2>1, <2>2, <2>3 DEF StageInv
<1>7. ASSUME NEW t \in Threads, Refresh(t) PROVE StageInv'
  <2>1. LooksUp' /\ StartsFirst'
    BY <1>7, <1>0, <1>a, ZenonT(60) DEF Refresh, NextKind, Release
  <2>2. KnowsFolder' /\ KnowsBoth'
    BY <1>7, <1>0, <1>a DEF Refresh, NextKind, Release
  <2>3. HasVersion'
    BY <1>7, <1>0, <1>a DEF Refresh, NextKind, Release
  <2>4. QED
    BY <2>1, <2>2, <2>3 DEF StageInv
<1>8. ASSUME NEW t \in Threads, DbError(t) PROVE StageInv'
  <2>1. LooksUp' /\ StartsFirst'
    BY <1>8, <1>0, <1>a DEF DbError, End
  <2>2. KnowsFolder' /\ KnowsBoth'
    BY <1>8, <1>0, <1>a DEF DbError, End
  <2>3. HasVersion'
    BY <1>8, <1>0, <1>a DEF DbError, End
  <2>4. QED
    BY <2>1, <2>2, <2>3 DEF StageInv
<1>9. ASSUME NEW t \in Threads, Adopt(t) PROVE StageInv'
  <2>1. LooksUp' /\ StartsFirst'
    BY <1>9, <1>0, <1>a DEF Adopt, Adopted
  <2>2. KnowsFolder' /\ KnowsBoth'
    BY <1>9, <1>0, <1>a DEF Adopt, Adopted
  <2>3. HasVersion'
    BY <1>9, <1>0, <1>a DEF Adopt, Adopted
  <2>4. QED
    BY <2>1, <2>2, <2>3 DEF StageInv
<1>10. ASSUME NEW t \in Threads, ClearCache(t) PROVE StageInv'
  <2>1. LooksUp' /\ StartsFirst'
    BY <1>10, <1>0, <1>a, ZenonT(60) DEF ClearCache, NextKind
  <2>2. KnowsFolder' /\ KnowsBoth'
    BY <1>10, <1>0, <1>a DEF ClearCache, NextKind
  <2>3. HasVersion'
    BY <1>10, <1>0, <1>a DEF ClearCache, NextKind
  <2>4. QED
    BY <2>1, <2>2, <2>3 DEF StageInv
<1>11. ASSUME NEW t \in Threads, LookUp(t) PROVE StageInv'
  <2>1. LooksUp' /\ StartsFirst'
    BY <1>11, <1>0, <1>a DEF LookUp
  <2>2. KnowsFolder' /\ KnowsBoth'
    BY <1>11, <1>0, <1>a DEF LookUp
  <2>3. HasVersion'
    BY <1>11, <1>0, <1>a DEF LookUp
  <2>4. QED
    BY <2>1, <2>2, <2>3 DEF StageInv
<1>12. ASSUME NEW t \in Threads, ReadData(t) PROVE StageInv'
  <2>1. LooksUp' /\ StartsFirst'
    BY <1>12, <1>0, <1>a DEF ReadData
  <2>2. KnowsFolder' /\ KnowsBoth'
    BY <1>12, <1>0, <1>a DEF ReadData
  <2>3. HasVersion'
    BY <1>12, <1>0, <1>a DEF ReadData
  <2>4. QED
    BY <2>1, <2>2, <2>3 DEF StageInv
<1>13. ASSUME NEW t \in Threads, Store(t) PROVE StageInv'
  <2>1. LooksUp' /\ StartsFirst'
    BY <1>13, <1>0, <1>a DEF Store
  <2>2. KnowsFolder' /\ KnowsBoth'
    BY <1>13, <1>0, <1>a DEF Store
  <2>3. HasVersion'
    BY <1>13, <1>0, <1>a DEF Store
  <2>4. QED
    BY <2>1, <2>2, <2>3 DEF StageInv
<1>14. ASSUME NEW t \in Threads, Finish(t) PROVE StageInv'
  <2>1. LooksUp' /\ StartsFirst'
    BY <1>14, <1>0, <1>a DEF Finish, End
  <2>2. KnowsFolder' /\ KnowsBoth'
    BY <1>14, <1>0, <1>a DEF Finish, End
  <2>3. HasVersion'
    BY <1>14, <1>0, <1>a DEF Finish, End
  <2>4. QED
    BY <2>1, <2>2, <2>3 DEF StageInv
<1>15. ASSUME NEW t \in Threads, ForgetUser(t) PROVE StageInv'
  <2>1. LooksUp' /\ StartsFirst'
    BY <1>15, <1>0, <1>a DEF ForgetUser
  <2>2. KnowsFolder' /\ KnowsBoth'
    BY <1>15, <1>0, <1>a DEF ForgetUser
  <2>3. HasVersion'
    BY <1>15, <1>0, <1>a DEF ForgetUser
  <2>4. QED
    BY <2>1, <2>2, <2>3 DEF StageInv
<1>16. ASSUME NEW t \in Threads, AnnounceLock(t) PROVE StageInv'
  <2>1. LooksUp' /\ StartsFirst'
    BY <1>16, <1>0, <1>a DEF AnnounceLock
  <2>2. KnowsFolder' /\ KnowsBoth'
    BY <1>16, <1>0, <1>a DEF AnnounceLock
  <2>3. HasVersion'
    BY <1>16, <1>0, <1>a DEF AnnounceLock
  <2>4. QED
    BY <2>1, <2>2, <2>3 DEF StageInv
<1>17. ASSUME NEW t \in Threads, Announce(t) PROVE StageInv'
  <2>1. LooksUp' /\ StartsFirst'
    BY <1>17, <1>0, <1>a DEF Announce
  <2>2. KnowsFolder' /\ KnowsBoth'
    BY <1>17, <1>0, <1>a DEF Announce
  <2>3. HasVersion'
    BY <1>17, <1>0, <1>a DEF Announce
  <2>4. QED
    BY <2>1, <2>2, <2>3 DEF StageInv
<1>18. ASSUME NEW t \in Threads, MarkDue(t) PROVE StageInv'
  <2>1. LooksUp' /\ StartsFirst'
    BY <1>18, <1>0, <1>a, SMTT(30) DEF MarkDue, End
  <2>2. KnowsFolder' /\ KnowsBoth'
    <3>1. /\ known' = known /\ at'[t] \in {"idle", "announce"}
          /\ \A u \in Threads : u # t => at'[u] = at[u] /\ kind'[u] = kind[u]
      BY <1>18, <1>a DEF MarkDue, End
    <3>2. QED
      BY <3>1, <1>0
  <2>3. HasVersion'
    BY <1>18, <1>0, <1>a DEF MarkDue, End
  <2>4. QED
    BY <2>1, <2>2, <2>3 DEF StageInv
<1>19. ASSUME NEW p \in Procs, NEW k \in Kinds, TimePasses(p, k) PROVE StageInv'
  BY <1>19, <1>0 DEF TimePasses, StageInv
<1>20. CASE Evict
  BY <1>20, <1>0 DEF Evict, StageInv
<1>21. ASSUME NEW p \in Procs, Restart(p) PROVE StageInv'
  <2>1. LooksUp' /\ StartsFirst'
    BY <1>21, <1>0, <1>a DEF Restart, Reset
  <2>2. KnowsFolder' /\ KnowsBoth'
    BY <1>21, <1>0, <1>a DEF Restart, Reset
  <2>3. HasVersion'
    BY <1>21, <1>0, <1>a DEF Restart, Reset
  <2>4. QED
    BY <2>1, <2>2, <2>3 DEF StageInv
<1>22. CASE UNCHANGED vars
  BY <1>22, <1>0 DEF vars, StageInv
<1>23. QED
  BY <1>1, <1>2, <1>3, <1>4, <1>5, <1>6, <1>7, <1>8, <1>9, <1>10, <1>11, <1>12, <1>13,
     <1>14, <1>15, <1>16, <1>17, <1>18, <1>19, <1>20, <1>21, <1>22 DEF Next, Request

\* The variables keep their types in every reachable state.
THEOREM TypeCorrect == Spec => []TypeOK
<1>1. StageInv => TypeOK
  BY DEF StageInv
<1>2. StageInv /\ [Next]_vars => StageInv'
  BY TypeStep, StageStep
<1>3. QED
  BY <1>1, <1>2, StageInit, PTL DEF Spec

-----------------------------------------------------------------------------
(* The inductive invariant behind FolderEntriesAreFresh.  An announcement  *)
(* concerns versions that nothing is filed under yet: nobody knows, holds  *)
(* or has filed a version newer than the database's.  A thread read after  *)
(* it noted its version, and so after the version was announced.           *)

ToldIsOld   == \A v \in Versions : told["folder"][v] <= data["folder"]
KnownIsOld  == \A p \in Procs, k \in Kinds : known[p][k] <= version[k]
FiledIsOld  == /\ \A e \in entry : e.ver <= version["folder"]
               /\ \A p \in Procs : \A e \in pubFolder[p] : e.ver <= version["folder"]
HeldIsOld   == \A t \in Threads :
    /\ at[t] \in {"booting", "adopting"} => ver[t] <= version[kind[t]]
    /\ at[t] \in {"reading", "storing"} => ver[t] <= version["folder"]
ReadIsFresh == \A t \in Threads :
    at[t] = "storing" /\ op[t] # "folio" => read[t] >= told["folder"][ver[t]]

FreshInv == /\ StageInv /\ ToldIsOld /\ KnownIsOld /\ FiledIsOld /\ HeldIsOld /\ ReadIsFresh
            /\ FolderEntriesAreFresh

LEMMA FreshInit == Init => FreshInv
<1> SUFFICES ASSUME Init PROVE FreshInv
  OBVIOUS
<1>1. StageInv
  BY StageInit
<1>2. ToldIsOld /\ KnownIsOld /\ FiledIsOld /\ HeldIsOld /\ ReadIsFresh /\ FolderEntriesAreFresh
  BY DEF Init, Data, Kinds, Versions, ToldIsOld, KnownIsOld, FiledIsOld, HeldIsOld, ReadIsFresh,
     FolderEntriesAreFresh
<1>3. QED
  BY <1>1, <1>2 DEF FreshInv

\* An announcement changes nothing that older versions announced.
LEMMA AnnounceEffect ==
  ASSUME TypeOK, ToldIsOld, NEW t \in Threads, Announce(t)
  PROVE  /\ \A k \in Kinds : version'[k] \in Nat /\ version'[k] >= version[k]
         /\ \A w \in Versions : told'["folder"][w] <= data["folder"]
         /\ \A w \in Versions : w <= version["folder"] => told'["folder"][w] = told["folder"][w]
<1>0. /\ Versions \subseteq Nat /\ Count \subseteq Nat /\ "folder" \in Data /\ "folder" \in Kinds
      /\ version \in [Kinds -> Versions] /\ kind[t] \in Kinds
  <2>1. Versions \subseteq Nat /\ Count \subseteq Nat /\ "folder" \in Data /\ "folder" \in Kinds
    BY PermissionAssumption DEF PermissionAssumption, Versions, Count, Data, Kinds
  <2>2. QED
    BY <2>1 DEF TypeOK
<1>1. \A k \in Kinds : version[k] \in Nat
  BY <1>0
<1>2. version' = [version EXCEPT ![kind[t]] = version[kind[t]] + 1]
  BY DEF Announce
<1>3. \A k \in Kinds : version'[k] \in Nat /\ version'[k] >= version[k]
  BY <1>0, <1>1, <1>2
<1>4. told'["folder"] = IF kind[t] = "folder"
                       THEN [told["folder"] EXCEPT ![version["folder"] + 1] = data["folder"]]
                       ELSE told["folder"]
  BY <1>0 DEF Announce, Data, Kinds
<1>5. told["folder"] \in [Versions -> Count] /\ data["folder"] \in Count
  BY <1>0 DEF TypeOK
<1>6. told["folder"] \in [Versions -> Nat] /\ data["folder"] \in Nat /\ version["folder"] \in Nat
  BY <1>0, <1>1, <1>5
<1>7. /\ \A w \in Versions : told'["folder"][w] <= data["folder"]
      /\ \A w \in Versions : w <= version["folder"] => told'["folder"][w] = told["folder"][w]
  BY <1>0, <1>4, <1>6 DEF ToldIsOld
<1>8. QED
  BY <1>3, <1>7

LEMMA FreshStep == ASSUME FreshInv, [Next]_vars, StageInv' PROVE FreshInv'
<1> USE DEF ToldIsOld, KnownIsOld, FiledIsOld, HeldIsOld, ReadIsFresh, FolderEntriesAreFresh,
        dbVars, processVars, cacheVars, threadVars, Goto
<1>0. /\ StageInv /\ ToldIsOld /\ KnownIsOld /\ FiledIsOld /\ HeldIsOld /\ ReadIsFresh
      /\ FolderEntriesAreFresh
  BY DEF FreshInv
<1>a. /\ at \in [Threads -> Steps] /\ kind \in [Threads -> Kinds] /\ Kinds = {"folder", "folio"}
      /\ op \in [Threads -> Lookups \cup Changes] /\ ver \in [Threads -> Nat]
      /\ known \in [Procs -> [Kinds -> Nat]] /\ Home \in [Threads -> Procs]
      /\ version \in [Kinds -> Versions] /\ Versions \subseteq Nat /\ read \in [Threads -> Nat]
      /\ told["folder"] \in [Versions -> Nat] /\ data["folder"] \in Nat
  <2>1. /\ Versions \subseteq Nat /\ Count \subseteq Nat /\ "folder" \in Data
        /\ Kinds = {"folder", "folio"} /\ Home \in [Threads -> Procs]
    BY PermissionAssumption DEF PermissionAssumption, Versions, Kinds, Data, Count
  <2>2. data["folder"] \in Count /\ told["folder"] \in [Versions -> Count]
    BY <1>0, <2>1 DEF StageInv, TypeOK
  <2>3. ver \in [Threads -> Nat] /\ read \in [Threads -> Nat]
    <3>1. /\ ver \in [Threads -> Versions \cup {0}] /\ Versions \cup {0} \subseteq Nat
          /\ read \in [Threads -> Count]
      BY <1>0, <2>1 DEF StageInv, TypeOK
    <3>2. QED
      BY <3>1, <2>1
  <2>5. known \in [Procs -> [Kinds -> Nat]]
    <3>1. known \in [Procs -> [Kinds -> Versions \cup {0}]] /\ Versions \cup {0} \subseteq Nat
      BY <1>0, <2>1 DEF StageInv, TypeOK
    <3>2. QED
      BY <3>1
  <2>4. QED
    BY <1>0, <2>1, <2>2, <2>3, <2>5 DEF StageInv, TypeOK
<1>b. /\ pubFolder \in [Procs -> SUBSET PublicEntry]
      /\ \A e \in PublicEntry : e.ver \in Versions /\ e.folder \in Nat
      /\ entry \subseteq UserEntry
      /\ \A e \in UserEntry : e.ver \in Versions /\ e.folder \in Nat
  BY <1>0, <1>a, PermissionAssumption DEF PermissionAssumption, StageInv, TypeOK, PublicEntry,
     UserEntry, Count
<1>c. \A k \in Kinds : version[k] \in Nat
  BY <1>a
<1>1. ASSUME NEW t \in Threads, NEW o \in Ops, BeginLookup(t, o) PROVE FreshInv'
  <2>1. ToldIsOld' /\ KnownIsOld'
    BY <1>1, <1>0, <1>a DEF BeginLookup
  <2>2. FiledIsOld' /\ FolderEntriesAreFresh'
    BY <1>1, <1>0, <1>a, <1>b DEF BeginLookup
  <2>3. HeldIsOld' /\ ReadIsFresh'
    BY <1>1, <1>0, <1>a DEF BeginLookup
  <2>4. QED
    BY <2>1, <2>2, <2>3 DEF FreshInv
<1>2. ASSUME NEW t \in Threads, NEW o \in Ops, Commit(t, o) PROVE FreshInv'
  <2>1. ToldIsOld' /\ KnownIsOld'
    BY <1>2, <1>0, <1>a DEF Commit, DataOf
  <2>2. FiledIsOld' /\ FolderEntriesAreFresh'
    BY <1>2, <1>0, <1>a, <1>b DEF Commit, DataOf
  <2>3. HeldIsOld' /\ ReadIsFresh'
    BY <1>2, <1>0, <1>a DEF Commit, DataOf
  <2>4. QED
    BY <2>1, <2>2, <2>3 DEF FreshInv
<1>3. ASSUME NEW t \in Threads, CacheUser(t) PROVE FreshInv'
  <2>1. ToldIsOld' /\ KnownIsOld'
    BY <1>3, <1>0, <1>a DEF CacheUser
  <2>2. FiledIsOld' /\ FolderEntriesAreFresh'
    BY <1>3, <1>0, <1>a, <1>b DEF CacheUser
  <2>3. HeldIsOld' /\ ReadIsFresh'
    BY <1>3, <1>0, <1>a DEF CacheUser
  <2>4. QED
    BY <2>1, <2>2, <2>3 DEF FreshInv
<1>4. ASSUME NEW t \in Threads, Boot(t) PROVE FreshInv'
  <2>1. ToldIsOld' /\ KnownIsOld'
    BY <1>4, <1>0, <1>a DEF Boot, NextKind
  <2>2. FiledIsOld' /\ FolderEntriesAreFresh'
    BY <1>4, <1>0, <1>a, <1>b DEF Boot, NextKind
  <2>3. HeldIsOld' /\ ReadIsFresh'
    <3>1. CASE NotStarted(Home[t], kind[t])
      BY <1>4, <3>1, <1>0, <1>a, <1>c, SMTT(30) DEF Boot
    <3>2. CASE ~NotStarted(Home[t], kind[t])
      BY <1>4, <3>2, <1>0, <1>a DEF Boot, NextKind
    <3>3. QED
      BY <3>1, <3>2
  <2>4. QED
    BY <2>1, <2>2, <2>3 DEF FreshInv
<1>5. ASSUME NEW t \in Threads, BootSet(t) PROVE FreshInv'
  <2>1. ToldIsOld' /\ KnownIsOld'
    BY <1>5, <1>0, <1>a DEF BootSet, NextKind, Adopted
  <2>2. FiledIsOld' /\ FolderEntriesAreFresh'
    BY <1>5, <1>0, <1>a, <1>b DEF BootSet, NextKind, Adopted
  <2>3. HeldIsOld' /\ ReadIsFresh'
    BY <1>5, <1>0, <1>a DEF BootSet, NextKind, Adopted
  <2>4. QED
    BY <2>1, <2>2, <2>3 DEF FreshInv
<1>6. ASSUME NEW t \in Threads, Check(t) PROVE FreshInv'
  <2>1. ToldIsOld' /\ KnownIsOld'
    BY <1>6, <1>0, <1>a DEF Check, NextKind
  <2>2. FiledIsOld' /\ FolderEntriesAreFresh'
    BY <1>6, <1>0, <1>a, <1>b DEF Check, NextKind
  <2>3. HeldIsOld' /\ ReadIsFresh'
    BY <1>6, <1>0, <1>a DEF Check, NextKind
  <2>4. QED
    BY <2>1, <2>2, <2>3 DEF FreshInv
<1>7. ASSUME NEW t \in Threads, Refresh(t) PROVE FreshInv'
  <2>1. ToldIsOld' /\ KnownIsOld'
    BY <1>7, <1>0, <1>a DEF Refresh, NextKind
  <2>2. FiledIsOld' /\ FolderEntriesAreFresh'
    BY <1>7, <1>0, <1>a, <1>b DEF Refresh, NextKind
  <2>3. HeldIsOld' /\ ReadIsFresh'
    <3>1. CASE version[kind[t]] # known[Home[t]][kind[t]]
      BY <1>7, <3>1, <1>0, <1>a, <1>c DEF Refresh
    <3>2. CASE version[kind[t]] = known[Home[t]][kind[t]]
      BY <1>7, <3>2, <1>0, <1>a DEF Refresh, NextKind
    <3>3. QED
      BY <3>1, <3>2
  <2>4. QED
    BY <2>1, <2>2, <2>3 DEF FreshInv
<1>8. ASSUME NEW t \in Threads, DbError(t) PROVE FreshInv'
  <2>1. ToldIsOld' /\ KnownIsOld'
    BY <1>8, <1>0, <1>a DEF DbError, End
  <2>2. FiledIsOld' /\ FolderEntriesAreFresh'
    BY <1>8, <1>0, <1>a, <1>b DEF DbError, End
  <2>3. HeldIsOld' /\ ReadIsFresh'
    BY <1>8, <1>0, <1>a DEF DbError, End
  <2>4. QED
    BY <2>1, <2>2, <2>3 DEF FreshInv
<1>9. ASSUME NEW t \in Threads, Adopt(t) PROVE FreshInv'
  <2>1. ToldIsOld' /\ KnownIsOld'
    BY <1>9, <1>0, <1>a DEF Adopt, Adopted
  <2>2. FiledIsOld' /\ FolderEntriesAreFresh'
    BY <1>9, <1>0, <1>a, <1>b DEF Adopt, Adopted
  <2>3. HeldIsOld' /\ ReadIsFresh'
    BY <1>9, <1>0, <1>a DEF Adopt, Adopted
  <2>4. QED
    BY <2>1, <2>2, <2>3 DEF FreshInv
<1>10. ASSUME NEW t \in Threads, ClearCache(t) PROVE FreshInv'
  <2>1. ToldIsOld' /\ KnownIsOld'
    BY <1>10, <1>0, <1>a DEF ClearCache, NextKind
  <2>2. FiledIsOld' /\ FolderEntriesAreFresh'
    BY <1>10, <1>0, <1>a, <1>b DEF ClearCache, NextKind
  <2>3. HeldIsOld' /\ ReadIsFresh'
    BY <1>10, <1>0, <1>a, SMTT(30) DEF ClearCache, NextKind
  <2>4. QED
    BY <2>1, <2>2, <2>3 DEF FreshInv
<1>11. ASSUME NEW t \in Threads, LookUp(t) PROVE FreshInv'
  <2>1. ToldIsOld' /\ KnownIsOld'
    BY <1>11, <1>0, <1>a DEF LookUp
  <2>2. FiledIsOld' /\ FolderEntriesAreFresh'
    BY <1>11, <1>0, <1>a, <1>b DEF LookUp
  <2>3. HeldIsOld' /\ ReadIsFresh'
    BY <1>11, <1>0, <1>a DEF LookUp
  <2>4. QED
    BY <2>1, <2>2, <2>3 DEF FreshInv
<1>12. ASSUME NEW t \in Threads, ReadData(t) PROVE FreshInv'
  <2>1. ToldIsOld' /\ KnownIsOld'
    BY <1>12, <1>0, <1>a DEF ReadData, OpKind
  <2>2. FiledIsOld' /\ FolderEntriesAreFresh'
    BY <1>12, <1>0, <1>a, <1>b DEF ReadData, OpKind
  <2>3. HeldIsOld' /\ ReadIsFresh'
    <3>1. op[t] # "folio" => read'[t] = data["folder"]
      BY <1>12, <1>a DEF ReadData, OpKind
    <3>2. ver[t] # 0 /\ ver[t] \in Versions \cup {0}
      BY <1>12, <1>0 DEF ReadData, StageInv, HasVersion, TypeOK
    <3>3. op[t] # "folio" => read'[t] >= told["folder"][ver[t]]
      BY <3>1, <3>2, <1>0, <1>a
    <3>4. \A u \in Threads : u # t => at'[u] = at[u] /\ read'[u] = read[u]
      BY <1>12, <1>a DEF ReadData
    <3>5. QED
      BY <1>12, <3>3, <3>4, <1>0, <1>a DEF ReadData
  <2>4. QED
    BY <2>1, <2>2, <2>3 DEF FreshInv
<1>13. ASSUME NEW t \in Threads, Store(t) PROVE FreshInv'
  <2>1. ToldIsOld' /\ KnownIsOld'
    BY <1>13, <1>0, <1>a DEF Store
  <2>2. FiledIsOld' /\ FolderEntriesAreFresh'
    <3>1. op[t] \in Lookups /\ ver[t] <= version["folder"]
      BY <1>13, <1>0 DEF Store, StageInv, LooksUp, LookupSteps
    <3>2. op[t] # "folio" => read[t] >= told["folder"][ver[t]]
      BY <1>13, <1>0 DEF Store
    <3>3. CASE op[t] = "folder"
      <4>1. /\ pubFolder' = [pubFolder EXCEPT ![Home[t]] = {[ver |-> ver[t], folder |-> read[t]]}]
            /\ UNCHANGED <<entry, version, told>>
        BY <1>13, <3>3 DEF Store
      <4>2. QED
        BY <4>1, <3>1, <3>2, <3>3, <1>0, <1>a, <1>b
    <3>4. CASE op[t] = "user"
      <4>1. /\ entry' = {[ver |-> ver[t], folder |-> read[t], groups |-> user[t]]}
            /\ UNCHANGED <<pubFolder, version, told>>
        BY <1>13, <3>4 DEF Store
      <4>2. QED
        BY <4>1, <3>1, <3>2, <3>4, <1>0, <1>a, <1>b
    <3>5. CASE op[t] = "folio"
      BY <1>13, <3>5, <1>0 DEF Store
    <3>6. QED
      BY <3>1, <3>3, <3>4, <3>5 DEF Lookups
  <2>3. HeldIsOld' /\ ReadIsFresh'
    BY <1>13, <1>0, <1>a DEF Store
  <2>4. QED
    BY <2>1, <2>2, <2>3 DEF FreshInv
<1>14. ASSUME NEW t \in Threads, Finish(t) PROVE FreshInv'
  <2>1. ToldIsOld' /\ KnownIsOld'
    BY <1>14, <1>0, <1>a DEF Finish, End
  <2>2. FiledIsOld' /\ FolderEntriesAreFresh'
    BY <1>14, <1>0, <1>a, <1>b DEF Finish, End
  <2>3. HeldIsOld' /\ ReadIsFresh'
    BY <1>14, <1>0, <1>a DEF Finish, End
  <2>4. QED
    BY <2>1, <2>2, <2>3 DEF FreshInv
<1>15. ASSUME NEW t \in Threads, ForgetUser(t) PROVE FreshInv'
  <2>1. ToldIsOld' /\ KnownIsOld'
    BY <1>15, <1>0, <1>a DEF ForgetUser
  <2>2. FiledIsOld' /\ FolderEntriesAreFresh'
    BY <1>15, <1>0, <1>a, <1>b DEF ForgetUser
  <2>3. HeldIsOld' /\ ReadIsFresh'
    BY <1>15, <1>0, <1>a DEF ForgetUser
  <2>4. QED
    BY <2>1, <2>2, <2>3 DEF FreshInv
<1>16. ASSUME NEW t \in Threads, AnnounceLock(t) PROVE FreshInv'
  <2>1. ToldIsOld' /\ KnownIsOld'
    BY <1>16, <1>0, <1>a DEF AnnounceLock
  <2>2. FiledIsOld' /\ FolderEntriesAreFresh'
    BY <1>16, <1>0, <1>a, <1>b DEF AnnounceLock
  <2>3. HeldIsOld' /\ ReadIsFresh'
    BY <1>16, <1>0, <1>a DEF AnnounceLock
  <2>4. QED
    BY <2>1, <2>2, <2>3 DEF FreshInv
<1>17. ASSUME NEW t \in Threads, Announce(t) PROVE FreshInv'
  <2>1. /\ version' = [version EXCEPT ![kind[t]] = version[kind[t]] + 1]
        /\ UNCHANGED <<data, known, cacheVars, op, kind, ver, read>>
        /\ at' = [at EXCEPT ![t] = "due"]
    BY <1>17 DEF Announce
  <2>a. TypeOK /\ ToldIsOld
    BY <1>0 DEF StageInv
  <2>b. /\ \A k \in Kinds : version'[k] \in Nat /\ version'[k] >= version[k]
        /\ \A w \in Versions : told'["folder"][w] <= data["folder"]
        /\ \A w \in Versions : w <= version["folder"] => told'["folder"][w] = told["folder"][w]
    BY <1>17, <2>a, AnnounceEffect
  <2>2. \A k \in Kinds : version'[k] \in Nat /\ version'[k] >= version[k]
    BY <2>b
  <2>4. \A w \in Versions : told'["folder"][w] <= data["folder"]
    BY <2>b
  <2>c. \A w \in Versions : w <= version["folder"] => told'["folder"][w] = told["folder"][w]
    BY <2>b
  <2>5. ToldIsOld' /\ KnownIsOld'
    BY <2>1, <2>2, <2>4, <1>0, <1>a, <1>c
  <2>6. FiledIsOld'
    <3>1. version["folder"] \in Nat /\ version'["folder"] \in Nat /\ version'["folder"] >= version["folder"]
      BY <2>2, <1>a, <1>c
    <3>2. \A e \in entry : e.ver \in Nat /\ e.ver <= version["folder"]
      BY <1>0, <1>a, <1>b
    <3>3. \A p \in Procs : \A e \in pubFolder[p] : e.ver \in Nat /\ e.ver <= version["folder"]
      BY <1>0, <1>a, <1>b
    <3>4. QED
      BY <2>1, <3>1, <3>2, <3>3
  <2>7. FolderEntriesAreFresh'
    BY <2>1, <2>c, <1>0, <1>a, <1>b
  <2>8. HeldIsOld'
    BY <2>1, <2>2, <1>0, <1>a, <1>c
  <2>9. ReadIsFresh'
    <3>1. \A u \in Threads : at[u] = "storing" => ver[u] \in Versions
      BY <1>0 DEF StageInv, HasVersion, TypeOK
    <3>2. QED
      BY <2>1, <2>c, <3>1, <1>0, <1>a
  <2>10. QED
    BY <2>5, <2>6, <2>7, <2>8, <2>9 DEF FreshInv
<1>18. ASSUME NEW t \in Threads, MarkDue(t) PROVE FreshInv'
  <2>1. ToldIsOld' /\ KnownIsOld'
    BY <1>18, <1>0, <1>a DEF MarkDue, End
  <2>2. FiledIsOld' /\ FolderEntriesAreFresh'
    BY <1>18, <1>0, <1>a, <1>b DEF MarkDue, End
  <2>3. HeldIsOld' /\ ReadIsFresh'
    <3>1. at'[t] \in {"idle", "announce"}
      BY <1>18, <1>a DEF MarkDue, End
    <3>2. \A u \in Threads : u # t => /\ at'[u] = at[u] /\ kind'[u] = kind[u] /\ op'[u] = op[u]
                                     /\ ver'[u] = ver[u] /\ read'[u] = read[u]
      BY <1>18, <1>a DEF MarkDue, End
    <3>3. version' = version /\ told' = told
      BY <1>18 DEF MarkDue
    <3>4. QED
      BY <3>1, <3>2, <3>3, <1>0, <1>a
  <2>4. QED
    BY <2>1, <2>2, <2>3 DEF FreshInv
<1>19. ASSUME NEW p \in Procs, NEW k \in Kinds, TimePasses(p, k) PROVE FreshInv'
  BY <1>19, <1>0 DEF TimePasses, FreshInv
<1>20. CASE Evict
  BY <1>20, <1>0 DEF Evict, FreshInv
<1>21. ASSUME NEW p \in Procs, Restart(p) PROVE FreshInv'
  <2>1. ToldIsOld' /\ KnownIsOld'
    <3>1. known' = [known EXCEPT ![p] = [k \in Kinds |-> 0]] /\ UNCHANGED <<told, data, version>>
      BY <1>21 DEF Restart, Reset
    <3>2. \A k \in Kinds : version[k] \in Nat /\ version[k] >= 0
      BY <1>c
    <3>3. QED
      BY <3>1, <3>2, <1>0, <1>a
  <2>2. FiledIsOld' /\ FolderEntriesAreFresh'
    BY <1>21, <1>0, <1>a, <1>b DEF Restart, Reset
  <2>3. HeldIsOld' /\ ReadIsFresh'
    BY <1>21, <1>0, <1>a DEF Restart, Reset
  <2>4. QED
    BY <2>1, <2>2, <2>3 DEF FreshInv
<1>22. CASE UNCHANGED vars
  BY <1>22, <1>0 DEF vars, FreshInv
<1>23. QED
  BY <1>1, <1>2, <1>3, <1>4, <1>5, <1>6, <1>7, <1>8, <1>9, <1>10, <1>11, <1>12, <1>13,
     <1>14, <1>15, <1>16, <1>17, <1>18, <1>19, <1>20, <1>21, <1>22 DEF Next, Request

\* Whatever threads and processes do, a cached folder permission reflects every
\* change that its version announced.
THEOREM EntriesAreFresh == Spec => []FolderEntriesAreFresh
<1>1. FreshInv => FolderEntriesAreFresh
  BY DEF FreshInv
<1>2. FreshInv /\ [Next]_vars => FreshInv'
  <2> SUFFICES ASSUME FreshInv, [Next]_vars PROVE FreshInv'
    OBVIOUS
  <2>1. StageInv'
    BY TypeStep, StageStep DEF FreshInv
  <2>2. QED
    BY <2>1, FreshStep
<1>3. QED
  BY <1>1, <1>2, FreshInit, PTL DEF Spec

-----------------------------------------------------------------------------
(* A version is adopted by the holder of the refresh lock, or by a thread  *)
(* that initialises the process; unless initialisations clashed, the       *)
(* latter finds the process without one.  So nothing overtakes the reading *)
(* of a version, and what a process knows is the newest it has known.      *)

KnownChecked == \A p \in Procs, k \in Kinds : checked[p][k] = "never" => known[p][k] = 0
Holding      == {"refreshing", "adopting", "clearing", "announcing"}
HolderAdopts == \A t \in Threads :
    /\ at[t] \in Holding => lock[Home[t]] = t
    /\ at[t] = "adopting" /\ <<Home[t], kind[t]>> \notin clashed =>
           ver[t] >= seen[Home[t]][kind[t]]
SeenIsKnown  == \A p \in Procs, k \in Kinds :
    /\ known[p][k] <= seen[p][k] /\ seen[p][k] <= version[k]
    /\ <<p, k>> \notin clashed => seen[p][k] = known[p][k]

TurnInv == FreshInv /\ KnownChecked /\ HolderAdopts /\ SeenIsKnown

LEMMA TurnInit == Init => TurnInv
<1> SUFFICES ASSUME Init PROVE TurnInv
  OBVIOUS
<1>1. FreshInv
  BY FreshInit
<1>2. KnownChecked /\ HolderAdopts /\ SeenIsKnown
  BY PermissionAssumption DEF PermissionAssumption, Init, KnownChecked, HolderAdopts,
     Holding, SeenIsKnown, Versions
<1>3. QED
  BY <1>1, <1>2 DEF TurnInv

LEMMA TurnStep == ASSUME TurnInv, [Next]_vars, FreshInv' PROVE TurnInv'
<1> USE DEF KnownChecked, HolderAdopts, Holding, SeenIsKnown, dbVars, processVars, cacheVars,
        threadVars, Goto
<1>0. StageInv /\ KnownIsOld /\ HeldIsOld /\ KnownChecked /\ HolderAdopts /\ SeenIsKnown
  BY DEF TurnInv, FreshInv
<1>a. /\ at \in [Threads -> Steps] /\ kind \in [Threads -> Kinds] /\ Kinds = {"folder", "folio"}
      /\ ver \in [Threads -> Versions \cup {0}] /\ known \in [Procs -> [Kinds -> Versions \cup {0}]]
      /\ checked \in [Procs -> [Kinds -> {"never", "due", "recent"}]]
      /\ lock \in [Procs -> Threads \cup {NoThread}] /\ version \in [Kinds -> Versions]
      /\ Home \in [Threads -> Procs] /\ Versions \cup {0} \subseteq Nat
      /\ NoThread \notin Threads /\ seen \in [Procs -> [Kinds -> Versions \cup {0}]]
  BY <1>0, PermissionAssumption DEF PermissionAssumption, StageInv, TypeOK, Versions, Kinds
<1>b. \A t \in Threads : at[t] \in PastStart => \A k \in Kinds : known[Home[t]][k] # 0
  BY <1>0, <1>a DEF StageInv, KnowsFolder, KnowsBoth
<1>c. /\ \A t \in Threads : ver[t] \in Nat /\ kind[t] \in Kinds /\ Home[t] \in Procs
      /\ \A p \in Procs, k \in Kinds : known[p][k] \in Nat /\ seen[p][k] \in Nat
      /\ \A k \in Kinds : version[k] \in Nat
  BY <1>a
\* Setting a version that was read from the database.
<1>d. ASSUME NEW p \in Procs, NEW k \in Kinds, NEW v \in Nat, Adopted(p, k, v),
             v <= version[k], UNCHANGED version,
             \A q \in Procs, j \in Kinds : <<q, j>> # <<p, k>> =>
                 (<<q, j>> \in clashed <=> <<q, j>> \in clashed'),
             <<p, k>> \notin clashed' => v >= seen[p][k]
      PROVE  SeenIsKnown'
  <2>1. /\ known' = [known EXCEPT ![p][k] = v]
        /\ seen' = [seen EXCEPT ![p][k] = IF v > seen[p][k] THEN v ELSE seen[p][k]]
    BY <1>d DEF Adopted
  <2>2. known'[p][k] = v /\ seen'[p][k] = IF v > seen[p][k] THEN v ELSE seen[p][k]
    BY <2>1, <1>a
  <2>3. \A q \in Procs, j \in Kinds : <<q, j>> # <<p, k>> =>
            known'[q][j] = known[q][j] /\ seen'[q][j] = seen[q][j]
    BY <2>1, <1>a
  <2>4. /\ known'[p][k] <= seen'[p][k] /\ seen'[p][k] <= version'[k]
        /\ <<p, k>> \notin clashed' => seen'[p][k] = known'[p][k]
    BY <2>2, <1>d, <1>c, <1>0
  <2>5. ASSUME NEW q \in Procs, NEW j \in Kinds, <<q, j>> # <<p, k>>
        PROVE  /\ known'[q][j] <= seen'[q][j] /\ seen'[q][j] <= version'[j]
               /\ <<q, j>> \notin clashed' => seen'[q][j] = known'[q][j]
    BY <2>3, <2>5, <1>d, <1>c, <1>0
  <2>6. QED
    BY <2>4, <2>5
<1>1. ASSUME NEW t \in Threads, NEW o \in Ops, BeginLookup(t, o) PROVE TurnInv'
  <2>1. KnownChecked' /\ SeenIsKnown'
    BY <1>1, <1>0, <1>a DEF BeginLookup
  <2>2. HolderAdopts'
    BY <1>1, <1>0, <1>a DEF BeginLookup
  <2>3. QED
    BY <2>1, <2>2 DEF TurnInv
<1>2. ASSUME NEW t \in Threads, NEW o \in Ops, Commit(t, o) PROVE TurnInv'
  <2>1. KnownChecked' /\ SeenIsKnown'
    BY <1>2, <1>0, <1>a DEF Commit
  <2>2. HolderAdopts'
    BY <1>2, <1>0, <1>a DEF Commit
  <2>3. QED
    BY <2>1, <2>2 DEF TurnInv
<1>3. ASSUME NEW t \in Threads, CacheUser(t) PROVE TurnInv'
  <2>1. KnownChecked' /\ SeenIsKnown'
    BY <1>3, <1>0, <1>a DEF CacheUser
  <2>2. HolderAdopts'
    BY <1>3, <1>0, <1>a DEF CacheUser
  <2>3. QED
    BY <2>1, <2>2 DEF TurnInv
<1>4. ASSUME NEW t \in Threads, Boot(t) PROVE TurnInv'
  <2>1. KnownChecked' /\ SeenIsKnown'
    BY <1>4, <1>0, <1>a DEF Boot, NextKind
  <2>2. HolderAdopts'
    BY <1>4, <1>0, <1>a DEF Boot, NextKind
  <2>3. QED
    BY <2>1, <2>2 DEF TurnInv
<1>5. ASSUME NEW t \in Threads, BootSet(t) PROVE TurnInv'
  <2> DEFINE p == Home[t]  k == kind[t]
  <2>0. p \in Procs /\ k \in Kinds
    BY <1>c
  <2>1. /\ at[t] = "booting" /\ Adopted(p, k, ver[t]) /\ UNCHANGED <<version, lock, ver>>
        /\ checked' = [checked EXCEPT ![p][k] = "recent"]
        /\ clashed' = IF NotStarted(p, k) THEN clashed ELSE clashed \cup {<<p, k>>}
    BY <1>5 DEF BootSet
  <2>2. NotStarted(p, k) => known[p][k] = 0
    BY <2>0, <1>0 DEF NotStarted
  <2>3. KnownChecked'
    <3>1. known' = [known EXCEPT ![p][k] = ver[t]]
      BY <2>1 DEF Adopted
    <3>2. QED
      BY <3>1, <2>0, <2>1, <1>0, <1>a
  <2>4. SeenIsKnown'
    <3>1. ver[t] <= version[k]
      BY <2>1, <1>0 DEF HeldIsOld
    <3>2. <<p, k>> \notin clashed' => ver[t] >= seen[p][k]
      BY <2>0, <2>1, <2>2, <1>0, <1>c
    <3>3. \A q \in Procs, j \in Kinds : <<q, j>> # <<p, k>> =>
              (<<q, j>> \in clashed <=> <<q, j>> \in clashed')
      BY <2>1
    <3>4. ver[t] \in Nat
      BY <1>c
    <3> HIDE DEF p, k
    <3>5. QED
      BY <2>0, <2>1, <3>1, <3>2, <3>3, <3>4, <1>d
  <2>5. HolderAdopts'
    <3>1. /\ at'[t] \in {"boot", "check"}
          /\ \A u \in Threads : u # t => at'[u] = at[u] /\ kind'[u] = kind[u]
      BY <1>5, <1>a DEF BootSet, NextKind
    <3>2. \A q \in Procs, j \in Kinds : <<q, j>> # <<p, k>> => seen'[q][j] = seen[q][j]
      BY <2>0, <2>1, <1>a DEF Adopted
    <3>3. ASSUME NEW u \in Threads, at'[u] = "adopting", <<Home[u], kind'[u]>> \notin clashed'
          PROVE  ver'[u] >= seen'[Home[u]][kind'[u]]
      <4>1. u # t /\ at[u] = "adopting" /\ kind'[u] = kind[u] /\ ver'[u] = ver[u]
        BY <2>1, <3>1, <3>3
      <4>2. <<Home[u], kind[u]>> \notin clashed
        BY <2>1, <3>3, <4>1
      <4>3. <<Home[u], kind[u]>> # <<p, k>>
        <5>1. known[Home[u]][kind[u]] # 0
          BY <4>1, <1>b, <1>c DEF PastStart
        <5>2. QED
          BY <5>1, <2>1, <2>2, <3>3, <4>1
      <4>4. ver[u] >= seen[Home[u]][kind[u]]
        BY <4>1, <4>2, <1>0
      <4>5. QED
        BY <4>1, <4>3, <4>4, <3>2, <1>c
    <3>4. \A u \in Threads : at'[u] \in Holding => lock'[Home[u]] = u
      BY <2>1, <3>1, <1>0
    <3>5. QED
      BY <3>3, <3>4
  <2>6. QED
    BY <2>3, <2>4, <2>5 DEF TurnInv
<1>6. ASSUME NEW t \in Threads, Check(t) PROVE TurnInv'
  <2>1. KnownChecked' /\ SeenIsKnown'
    BY <1>6, <1>0, <1>a DEF Check, NextKind
  <2>2. HolderAdopts'
    BY <1>6, <1>0, <1>a DEF Check, NextKind
  <2>3. QED
    BY <2>1, <2>2 DEF TurnInv
<1>7. ASSUME NEW t \in Threads, Refresh(t) PROVE TurnInv'
  <2> DEFINE p == Home[t]  k == kind[t]
  <2>0. p \in Procs /\ k \in Kinds
    BY <1>c
  <2>1. at[t] = "refreshing" /\ lock[p] = t /\ UNCHANGED <<known, seen, version>>
    BY <1>7, <1>0 DEF Refresh
  <2>2. CASE version[k] # known[p][k]
    <3>1. UNCHANGED <<clashed, checked, lock, kind>>
      BY <1>7, <2>2 DEF Refresh
    <3>2. at'[t] = "adopting" /\ ver'[t] = version[k]
      BY <1>7, <2>2, <1>a DEF Refresh
    <3>3. \A u \in Threads : u # t => at'[u] = at[u] /\ ver'[u] = ver[u]
      BY <1>7, <2>2, <1>a DEF Refresh
    <3>4. HolderAdopts'
      BY <2>0, <2>1, <3>1, <3>2, <3>3, <1>0
    <3>5. KnownChecked' /\ SeenIsKnown'
      BY <2>1, <3>1, <1>0
    <3>6. QED
      BY <3>4, <3>5 DEF TurnInv
  <2>3. CASE version[k] = known[p][k]
    <3>1. /\ clashed' = clashed \ {<<p, k>>} /\ lock' = [lock EXCEPT ![p] = NoThread]
          /\ checked' = [checked EXCEPT ![p][k] = "recent"]
      BY <1>7, <2>3 DEF Refresh, Release
    <3>2. at'[t] \in {"check", "lookup"}
      BY <1>7, <2>3, <1>a DEF Refresh, NextKind
    <3>3. \A u \in Threads : u # t => at'[u] = at[u] /\ ver'[u] = ver[u] /\ kind'[u] = kind[u]
      BY <1>7, <2>3, <1>a DEF Refresh, NextKind
    <3>4. \A u \in Threads : at'[u] \in Holding => Home[u] # p
      BY <2>1, <3>2, <3>3, <1>0
    <3>5. HolderAdopts'
      BY <2>1, <3>1, <3>2, <3>3, <3>4, <1>0, <1>a
    <3>6. seen[p][k] = known[p][k]
      <4>1. known[p][k] <= seen[p][k] /\ seen[p][k] <= version[k]
        BY <2>0, <1>0
      <4>2. known[p][k] \in Nat /\ seen[p][k] \in Nat
        BY <2>0, <1>c
      <4> HIDE DEF p, k
      <4>3. QED
        BY <4>1, <4>2, <2>3
    <3>7. SeenIsKnown'
      BY <2>0, <2>1, <3>1, <3>6, <1>0
    <3>8. KnownChecked'
      BY <2>0, <2>1, <3>1, <1>0, <1>a
    <3>9. QED
      BY <3>5, <3>7, <3>8 DEF TurnInv
  <2>4. QED
    BY <2>2, <2>3
<1>8. ASSUME NEW t \in Threads, DbError(t) PROVE TurnInv'
  <2>1. KnownChecked' /\ SeenIsKnown'
    <3>1. UNCHANGED <<known, seen, version, clashed>>
      BY <1>8 DEF DbError
    <3>2. \A p \in Procs, k \in Kinds : checked'[p][k] = "never" => checked[p][k] = "never"
      BY <1>8, <1>a DEF DbError, Release
    <3>3. QED
      BY <3>1, <3>2, <1>0
  <2>2. HolderAdopts'
    <3>1. UNCHANGED <<seen, clashed>> /\ at'[t] = "idle"
      BY <1>8, <1>a DEF DbError, End
    <3>2. \A u \in Threads : u # t => at'[u] = at[u] /\ ver'[u] = ver[u] /\ kind'[u] = kind[u]
      BY <1>8, <1>a DEF DbError, End
    <3>3. \/ lock' = lock
          \/ at[t] \in {"refreshing", "announcing"} /\ lock' = [lock EXCEPT ![Home[t]] = NoThread]
      <4>1. CASE at[t] = "boot" /\ UNCHANGED <<checked, lock>>
        BY <4>1
      <4>2. CASE at[t] = "refreshing" /\ Release(t)
        BY <4>2 DEF Release
      <4>3. CASE at[t] = "reading" /\ UNCHANGED <<checked, lock>>
        BY <4>3
      <4>4. CASE at[t] = "announcing" /\ lock' = [lock EXCEPT ![Home[t]] = NoThread]
        BY <4>4
      <4>5. QED
        BY <1>8, <4>1, <4>2, <4>3, <4>4 DEF DbError
    <3>4. \A u \in Threads : u # t /\ at[u] \in Holding => lock'[Home[u]] = lock[Home[u]]
      BY <3>3, <1>0, <1>a
    <3>5. QED
      BY <3>1, <3>2, <3>4, <1>0
  <2>3. QED
    BY <2>1, <2>2 DEF TurnInv
<1>9. ASSUME NEW t \in Threads, Adopt(t) PROVE TurnInv'
  <2> DEFINE p == Home[t]  k == kind[t]
  <2>0. p \in Procs /\ k \in Kinds
    BY <1>c
  <2>1. /\ at[t] = "adopting" /\ Adopted(p, k, ver[t])
        /\ UNCHANGED <<version, lock, ver, checked, kind>>
        /\ clashed' = IF ver[t] >= seen[p][k] THEN clashed \ {<<p, k>>} ELSE clashed
    BY <1>9 DEF Adopt
  <2>2. ver[t] \in Nat /\ ver[t] <= version[k] /\ lock[p] = t
    BY <2>1, <1>0, <1>c DEF HeldIsOld
  <2>3. <<p, k>> \notin clashed' => ver[t] >= seen[p][k]
    BY <2>1, <1>0
  <2>4. KnownChecked'
    <3>1. checked[p][k] # "never"
      BY <2>0, <2>1, <1>0, <1>b DEF PastStart
    <3>2. known' = [known EXCEPT ![p][k] = ver[t]]
      BY <2>1 DEF Adopted
    <3>3. QED
      BY <2>0, <2>1, <3>1, <3>2, <1>0, <1>a
  <2>5. SeenIsKnown'
    <3>1. \A q \in Procs, j \in Kinds : <<q, j>> # <<p, k>> =>
              (<<q, j>> \in clashed <=> <<q, j>> \in clashed')
      BY <2>1
    <3> HIDE DEF p, k
    <3>2. QED
      BY <2>0, <2>1, <2>2, <2>3, <3>1, <1>d
  <2>6. HolderAdopts'
    <3>1. at'[t] = "clearing" /\ \A u \in Threads : u # t => at'[u] = at[u]
      BY <1>9, <1>a DEF Adopt
    <3>2. \A q \in Procs, j \in Kinds : q # p => seen'[q][j] = seen[q][j]
      BY <2>0, <2>1, <1>a DEF Adopted
    <3>3. ASSUME NEW u \in Threads, at'[u] = "adopting", <<Home[u], kind'[u]>> \notin clashed'
          PROVE  ver'[u] >= seen'[Home[u]][kind'[u]]
      <4>1. u # t /\ at[u] = "adopting"
        BY <3>1, <3>3
      <4>2. Home[u] # p
        BY <4>1, <2>1, <2>2, <1>0
      <4>3. <<Home[u], kind[u]>> \notin clashed
        BY <2>1, <3>3, <4>2
      <4>4. ver[u] >= seen[Home[u]][kind[u]]
        BY <4>1, <4>3, <1>0
      <4>5. QED
        BY <4>2, <4>4, <2>1, <3>2, <1>c
    <3>4. \A u \in Threads : at'[u] \in Holding => lock'[Home[u]] = u
      BY <2>1, <3>1, <1>0
    <3>5. QED
      BY <3>3, <3>4
  <2>7. QED
    BY <2>4, <2>5, <2>6 DEF TurnInv
<1>10. ASSUME NEW t \in Threads, ClearCache(t) PROVE TurnInv'
  <2>1. KnownChecked' /\ SeenIsKnown'
    BY <1>10, <1>0, <1>a DEF ClearCache, NextKind, Release
  <2>2. HolderAdopts'
    <3>1. UNCHANGED <<seen, clashed, ver>> /\ at[t] = "clearing" /\ at'[t] \in {"check", "lookup"}
      BY <1>10, <1>a DEF ClearCache, NextKind
    <3>2. \A u \in Threads : u # t => at'[u] = at[u] /\ kind'[u] = kind[u]
      BY <1>10, <1>a DEF ClearCache, NextKind
    <3>3. lock' = [lock EXCEPT ![Home[t]] = NoThread]
      BY <1>10 DEF ClearCache, Release
    <3>4. \A u \in Threads : u # t /\ at[u] \in Holding => lock'[Home[u]] = lock[Home[u]]
      BY <3>1, <3>3, <1>0, <1>a
    <3>5. QED
      BY <3>1, <3>2, <3>4, <1>0
  <2>3. QED
    BY <2>1, <2>2 DEF TurnInv
<1>11. ASSUME NEW t \in Threads, LookUp(t) PROVE TurnInv'
  <2>1. KnownChecked' /\ SeenIsKnown'
    BY <1>11, <1>0, <1>a DEF LookUp
  <2>2. HolderAdopts'
    BY <1>11, <1>0, <1>a DEF LookUp
  <2>3. QED
    BY <2>1, <2>2 DEF TurnInv
<1>12. ASSUME NEW t \in Threads, ReadData(t) PROVE TurnInv'
  <2>1. KnownChecked' /\ SeenIsKnown'
    BY <1>12, <1>0, <1>a DEF ReadData
  <2>2. HolderAdopts'
    BY <1>12, <1>0, <1>a DEF ReadData
  <2>3. QED
    BY <2>1, <2>2 DEF TurnInv
<1>13. ASSUME NEW t \in Threads, Store(t) PROVE TurnInv'
  <2>1. KnownChecked' /\ SeenIsKnown'
    BY <1>13, <1>0, <1>a DEF Store
  <2>2. HolderAdopts'
    BY <1>13, <1>0, <1>a DEF Store
  <2>3. QED
    BY <2>1, <2>2 DEF TurnInv
<1>14. ASSUME NEW t \in Threads, Finish(t) PROVE TurnInv'
  <2>1. KnownChecked' /\ SeenIsKnown'
    BY <1>14, <1>0, <1>a DEF Finish, End
  <2>2. HolderAdopts'
    BY <1>14, <1>0, <1>a DEF Finish, End
  <2>3. QED
    BY <2>1, <2>2 DEF TurnInv
<1>15. ASSUME NEW t \in Threads, ForgetUser(t) PROVE TurnInv'
  <2>1. KnownChecked' /\ SeenIsKnown'
    BY <1>15, <1>0, <1>a DEF ForgetUser
  <2>2. HolderAdopts'
    BY <1>15, <1>0, <1>a DEF ForgetUser
  <2>3. QED
    BY <2>1, <2>2 DEF TurnInv
<1>16. ASSUME NEW t \in Threads, AnnounceLock(t) PROVE TurnInv'
  <2>1. KnownChecked' /\ SeenIsKnown'
    BY <1>16, <1>0, <1>a DEF AnnounceLock
  <2>2. HolderAdopts'
    BY <1>16, <1>0, <1>a DEF AnnounceLock
  <2>3. QED
    BY <2>1, <2>2 DEF TurnInv
<1>17. ASSUME NEW t \in Threads, Announce(t) PROVE TurnInv'
  <2>1. KnownChecked' /\ HolderAdopts'
    BY <1>17, <1>0, <1>a DEF Announce
  <2>2. SeenIsKnown'
    <3>1. TypeOK /\ ToldIsOld
      BY DEF TurnInv, FreshInv, StageInv
    <3>2. \A k \in Kinds : version'[k] \in Nat /\ version'[k] >= version[k]
      BY <1>17, <3>1, AnnounceEffect
    <3>3. UNCHANGED <<known, seen, clashed>>
      BY <1>17 DEF Announce
    <3>4. ASSUME NEW p \in Procs, NEW k \in Kinds
          PROVE  /\ known'[p][k] <= seen'[p][k] /\ seen'[p][k] <= version'[k]
                 /\ <<p, k>> \notin clashed' => seen'[p][k] = known'[p][k]
      <4>1. /\ known[p][k] <= seen[p][k] /\ seen[p][k] <= version[k]
            /\ <<p, k>> \notin clashed => seen[p][k] = known[p][k]
        BY <1>0
      <4>2. version'[k] \in Nat /\ version'[k] >= version[k] /\ version[k] \in Nat
        BY <3>2, <1>c
      <4>3. seen[p][k] \in Nat
        BY <1>c
      <4>4. QED
        BY <3>3, <4>1, <4>2, <4>3
    <3>5. QED
      BY <3>4
  <2>3. QED
    BY <2>1, <2>2 DEF TurnInv
<1>18. ASSUME NEW t \in Threads, MarkDue(t) PROVE TurnInv'
  <2>1. KnownChecked' /\ SeenIsKnown'
    BY <1>18, <1>0, <1>a DEF MarkDue, End
  <2>2. HolderAdopts'
    BY <1>18, <1>0, <1>a DEF MarkDue, End
  <2>3. QED
    BY <2>1, <2>2 DEF TurnInv
<1>19. ASSUME NEW p \in Procs, NEW k \in Kinds, TimePasses(p, k) PROVE TurnInv'
  BY <1>19, <1>0, <1>a DEF TimePasses, TurnInv
<1>20. CASE Evict
  BY <1>20, <1>0 DEF Evict, TurnInv
<1>21. ASSUME NEW p \in Procs, Restart(p) PROVE TurnInv'
  <2>1. KnownChecked' /\ SeenIsKnown'
    <3>1. /\ known' = [known EXCEPT ![p] = [k \in Kinds |-> 0]]
          /\ seen' = [seen EXCEPT ![p] = [k \in Kinds |-> 0]]
          /\ checked' = [checked EXCEPT ![p] = [k \in Kinds |-> "never"]]
      BY <1>21 DEF Restart
    <3>2. version' = version /\ \A q \in Procs, k \in Kinds :
              q # p => (<<q, k>> \in clashed <=> <<q, k>> \in clashed')
      BY <1>21 DEF Restart
    <3>3. \A k \in Kinds : known'[p][k] = 0 /\ seen'[p][k] = 0
      BY <3>1, <1>a
    <3>4. \A q \in Procs : q # p => known'[q] = known[q] /\ seen'[q] = seen[q] /\ checked'[q] = checked[q]
      BY <3>1, <1>a
    <3>5. KnownChecked'
      BY <3>3, <3>4, <1>0
    <3>6. SeenIsKnown'
      <4>1. ASSUME NEW k \in Kinds
            PROVE  /\ known'[p][k] <= seen'[p][k] /\ seen'[p][k] <= version'[k]
                   /\ <<p, k>> \notin clashed' => seen'[p][k] = known'[p][k]
        BY <3>2, <3>3, <1>c
      <4>2. ASSUME NEW q \in Procs, NEW k \in Kinds, q # p
            PROVE  /\ known'[q][k] <= seen'[q][k] /\ seen'[q][k] <= version'[k]
                   /\ <<q, k>> \notin clashed' => seen'[q][k] = known'[q][k]
        BY <4>2, <3>2, <3>4, <1>0
      <4>3. QED
        BY <4>1, <4>2
    <3>7. QED
      BY <3>5, <3>6
  <2>2. HolderAdopts'
    BY <1>21, <1>0, <1>a DEF Restart, Reset
  <2>3. QED
    BY <2>1, <2>2 DEF TurnInv
<1>22. CASE UNCHANGED vars
  BY <1>22, <1>0 DEF vars, TurnInv
<1>23. QED
  BY <1>1, <1>2, <1>3, <1>4, <1>5, <1>6, <1>7, <1>8, <1>9, <1>10, <1>11, <1>12, <1>13,
     <1>14, <1>15, <1>16, <1>17, <1>18, <1>19, <1>20, <1>21, <1>22 DEF Next, Request

LEMMA TurnInvariant == Spec => []TurnInv
<1>1. ASSUME TurnInv, [Next]_vars PROVE TurnInv'
  <2>1. StageInv'
    BY <1>1, TypeStep, StageStep DEF TurnInv, FreshInv
  <2>2. QED
    BY <1>1, <2>1, FreshStep, TurnStep DEF TurnInv
<1>2. TurnInv /\ [Next]_vars => TurnInv'
  BY <1>1
<1>3. QED
  BY <1>2, TurnInit, PTL DEF Spec

\* No process goes back to an older version of its permissions, except when
\* threads that initialise it at once meet, until the next refresh.
THEOREM MovesForward == Spec => VersionsMoveForward
<1> DEFINE Forward == \A p \in Procs, k \in Kinds :
               known'[p][k] # 0 /\ <<p, k>> \notin clashed' => known'[p][k] >= known[p][k]
<1>1. ASSUME TurnInv, [Next]_vars PROVE [Forward]_known
  <2>0. /\ known \in [Procs -> [Kinds -> Nat]] /\ Home \in [Threads -> Procs]
        /\ kind \in [Threads -> Kinds] /\ ver \in [Threads -> Nat]
        /\ seen \in [Procs -> [Kinds -> Nat]]
    <3>1. Versions \cup {0} \subseteq Nat
      BY PermissionAssumption DEF PermissionAssumption, Versions
    <3>2. /\ known \in [Procs -> [Kinds -> Versions \cup {0}]]
          /\ ver \in [Threads -> Versions \cup {0}]
          /\ seen \in [Procs -> [Kinds -> Versions \cup {0}]]
      BY <1>1 DEF TurnInv, FreshInv, StageInv, TypeOK
    <3>3. known \in [Procs -> [Kinds -> Nat]] /\ seen \in [Procs -> [Kinds -> Nat]]
      BY <3>1, <3>2
    <3>4. ver \in [Threads -> Nat]
      BY <3>1, <3>2
    <3>5. QED
      BY <1>1, <3>3, <3>4, PermissionAssumption DEF PermissionAssumption, TurnInv, FreshInv, StageInv,
         TypeOK
  <2>1. ASSUME NEW t \in Threads, NEW v \in Nat,
               <<Home[t], kind[t]>> \notin clashed' => v >= known[Home[t]][kind[t]],
               known' = [known EXCEPT ![Home[t]][kind[t]] = v]
        PROVE  Forward
    <3>1. known'[Home[t]][kind[t]] = v
      BY <2>0, <2>1
    <3>2. \A p \in Procs, k \in Kinds : <<p, k>> # <<Home[t], kind[t]>> => known'[p][k] = known[p][k]
      BY <2>0, <2>1
    <3>3. \A p \in Procs, k \in Kinds : known[p][k] \in Nat
      BY <2>0
    <3>4. QED
      BY <2>1, <3>1, <3>2, <3>3
  <2>2. ASSUME NEW t \in Threads, BootSet(t) PROVE Forward
    <3>1. NotStarted(Home[t], kind[t]) => known[Home[t]][kind[t]] = 0
      BY <1>1, <2>0 DEF TurnInv, KnownChecked, NotStarted
    <3>2. <<Home[t], kind[t]>> \notin clashed' => ver[t] >= known[Home[t]][kind[t]]
      BY <2>0, <2>2, <3>1 DEF BootSet
    <3>3. QED
      BY <2>0, <2>2, <3>2, <2>1 DEF BootSet, Adopted
  <2>3. ASSUME NEW t \in Threads, Adopt(t) PROVE Forward
    <3>1. seen[Home[t]][kind[t]] \in Nat /\ known[Home[t]][kind[t]] <= seen[Home[t]][kind[t]]
      BY <1>1, <2>0 DEF TurnInv, SeenIsKnown
    <3>2. <<Home[t], kind[t]>> \notin clashed' => ver[t] >= seen[Home[t]][kind[t]]
      BY <1>1, <2>3 DEF TurnInv, HolderAdopts, Adopt
    <3>3. <<Home[t], kind[t]>> \notin clashed' => ver[t] >= known[Home[t]][kind[t]]
      BY <2>0, <3>1, <3>2
    <3>4. QED
      BY <2>0, <2>3, <3>3, <2>1 DEF Adopt, Adopted
  <2>4. ASSUME NEW p \in Procs, Restart(p) PROVE Forward
    <3>1. known' = [known EXCEPT ![p] = [k \in Kinds |-> 0]]
      BY <2>4 DEF Restart, Reset
    <3>2. \A k \in Kinds : known'[p][k] = 0
      BY <2>0, <3>1
    <3>3. \A q \in Procs : q # p => known'[q] = known[q]
      BY <2>0, <3>1
    <3>4. QED
      BY <2>0, <3>2, <3>3
  <2>5. \/ \E t \in Threads : BootSet(t) \/ Adopt(t)
        \/ \E p \in Procs : Restart(p)
        \/ UNCHANGED known
    BY <1>1, ZenonT(60) DEF Next, Request, BeginLookup, Commit, CacheUser, Boot, Check, Refresh,
       DbError, ClearCache, LookUp, ReadData, Store, Finish, ForgetUser, AnnounceLock, Announce, MarkDue,
       TimePasses, Evict, vars, processVars
  <2>6. QED
    BY <2>2, <2>3, <2>4, <2>5
<1>2. TurnInv /\ [Next]_vars => [Forward]_known
  BY <1>1
<1>3. QED
  BY <1>2, TurnInvariant, PTL DEF Spec, VersionsMoveForward

-----------------------------------------------------------------------------
(* What a thread answers was calculated under the version it noted, which   *)
(* was the newest its process had known, if no initialisations clashed.     *)

NotedSeen     == \A t \in Threads :
    at[t] \in {"reading", "storing"} /\ op[t] # "folio" => asof[t] = ver[t]
AnsweredIsOld == \A t \in Threads :
    at[t] = "answered" /\ op[t] # "folio" => asof[t] # 0 /\ asof[t] <= version["folder"]
AnswerInv     == NotedSeen /\ AnsweredIsOld /\ FolderAnswersAreFresh

LEMMA AnswerInit == Init => AnswerInv
BY DEF Init, AnswerInv, NotedSeen, AnsweredIsOld, FolderAnswersAreFresh

\* Nothing changes for a thread that has noted its version.
Undisturbed(u) == /\ at'[u] = at[u] /\ op'[u] = op[u] /\ ver'[u] = ver[u]
                  /\ asof'[u] = asof[u] /\ read'[u] = read[u]

LEMMA AnswerStep == ASSUME TurnInv, AnswerInv, [Next]_vars PROVE AnswerInv'
<1> USE DEF NotedSeen, AnsweredIsOld, FolderAnswersAreFresh, dbVars, processVars, cacheVars,
        threadVars, Goto
<1>0. /\ StageInv /\ FolderEntriesAreFresh /\ HeldIsOld /\ ReadIsFresh /\ KnownIsOld
      /\ ToldIsOld /\ SeenIsKnown /\ NotedSeen /\ AnsweredIsOld /\ FolderAnswersAreFresh
  BY DEF TurnInv, FreshInv, AnswerInv
<1>a. /\ at \in [Threads -> Steps] /\ op \in [Threads -> Lookups \cup Changes]
      /\ ver \in [Threads -> Versions \cup {0}] /\ asof \in [Threads -> Versions \cup {0}]
      /\ read \in [Threads -> Count] /\ Home \in [Threads -> Procs]
      /\ version \in [Kinds -> Versions] /\ "folder" \in Kinds /\ Versions \subseteq Nat
  BY <1>0, PermissionAssumption DEF PermissionAssumption, StageInv, TypeOK, Versions, Kinds
<1>q. ASSUME NEW t \in Threads, version' = version, told' = told,
             at'[t] \notin {"reading", "storing", "answered"},
             \A u \in Threads : u # t => Undisturbed(u)
      PROVE  AnswerInv'
  BY <1>q, <1>0 DEF Undisturbed, AnswerInv
<1>1. ASSUME NEW t \in Threads, NEW o \in Ops, BeginLookup(t, o) PROVE AnswerInv'
  BY <1>1, <1>a, <1>q DEF BeginLookup, Undisturbed
<1>2. ASSUME NEW t \in Threads, NEW o \in Ops, Commit(t, o) PROVE AnswerInv'
  BY <1>2, <1>a, <1>q DEF Commit, Undisturbed
<1>3. ASSUME NEW t \in Threads, CacheUser(t) PROVE AnswerInv'
  BY <1>3, <1>a, <1>q DEF CacheUser, Undisturbed
<1>4. ASSUME NEW t \in Threads, Boot(t) PROVE AnswerInv'
  BY <1>4, <1>a, <1>q DEF Boot, NextKind, Undisturbed
<1>5. ASSUME NEW t \in Threads, BootSet(t) PROVE AnswerInv'
  BY <1>5, <1>a, <1>q DEF BootSet, NextKind, Undisturbed
<1>6. ASSUME NEW t \in Threads, Check(t) PROVE AnswerInv'
  BY <1>6, <1>a, <1>q DEF Check, NextKind, Undisturbed
<1>7. ASSUME NEW t \in Threads, Refresh(t) PROVE AnswerInv'
  BY <1>7, <1>a, <1>q DEF Refresh, NextKind, Undisturbed
<1>8. ASSUME NEW t \in Threads, DbError(t) PROVE AnswerInv'
  BY <1>8, <1>a, <1>q DEF DbError, End, Undisturbed
<1>9. ASSUME NEW t \in Threads, Adopt(t) PROVE AnswerInv'
  BY <1>9, <1>a, <1>q DEF Adopt, Undisturbed
<1>10. ASSUME NEW t \in Threads, ClearCache(t) PROVE AnswerInv'
  BY <1>10, <1>a, <1>q DEF ClearCache, NextKind, Undisturbed
<1>11. ASSUME NEW t \in Threads, Finish(t) PROVE AnswerInv'
  BY <1>11, <1>a, <1>q DEF Finish, End, Undisturbed
<1>12. ASSUME NEW t \in Threads, ForgetUser(t) PROVE AnswerInv'
  BY <1>12, <1>a, <1>q DEF ForgetUser, Undisturbed
<1>13. ASSUME NEW t \in Threads, AnnounceLock(t) PROVE AnswerInv'
  BY <1>13, <1>a, <1>q DEF AnnounceLock, Undisturbed
<1>14. ASSUME NEW t \in Threads, MarkDue(t) PROVE AnswerInv'
  BY <1>14, <1>a, <1>q DEF MarkDue, End, Undisturbed
<1>15. ASSUME NEW t \in Threads, LookUp(t) PROVE AnswerInv'
  <2> DEFINE k == known[Home[t]]["folder"]
  <2>1. /\ at[t] = "lookup" /\ op' = op /\ version' = version /\ told' = told
        /\ \A u \in Threads : u # t => Undisturbed(u)
    BY <1>15, <1>a DEF LookUp, Undisturbed
  <2>2. /\ at'[t] \in {"reading", "answered"} /\ ver'[t] = k
        /\ asof'[t] = IF <<Home[t], OpKind(t)>> \in clashed
                      THEN known[Home[t]][OpKind(t)] ELSE seen[Home[t]][OpKind(t)]
    BY <1>15, <1>a DEF LookUp
  <2>3. op[t] # "folio" => asof'[t] = k
    <3>1. <<Home[t], "folder">> \notin clashed => seen[Home[t]]["folder"] = k
      BY <1>0, <1>a DEF SeenIsKnown
    <3>2. QED
      BY <2>2, <3>1 DEF OpKind
  <2>4. k # 0 /\ k <= version["folder"]
    BY <2>1, <1>0, <1>a DEF StageInv, KnowsFolder, PastStart, KnownIsOld
  <2>5. at'[t] = "answered" /\ op[t] \in {"folder", "user"} => read'[t] >= told["folder"][k]
    <3>1. ASSUME at'[t] = "answered"
          PROVE  \E h \in Hits(t) : read'[t] = h.read
      BY <1>15, <1>a, <3>1 DEF LookUp
    <3>2. ASSUME op[t] = "folder", NEW h \in Hits(t) PROVE h.read >= told["folder"][k]
      <4>1. PICK e \in pubFolder[Home[t]] : e.ver = k /\ h.read = e.folder
        BY <3>2 DEF Hits
      <4>2. QED
        BY <4>1, <1>0, <1>a DEF FolderEntriesAreFresh
    <3>3. ASSUME op[t] = "user", NEW h \in Hits(t) PROVE h.read >= told["folder"][k]
      <4>1. PICK e \in entry : e.ver = k /\ h.read = e.folder
        BY <3>3 DEF Hits
      <4>2. QED
        BY <4>1, <1>0 DEF FolderEntriesAreFresh
    <3>4. QED
      BY <3>1, <3>2, <3>3
  <2> HIDE DEF k
  <2>6. NotedSeen'
    BY <2>1, <2>2, <2>3, <1>0 DEF Undisturbed
  <2>7. AnsweredIsOld'
    BY <2>1, <2>2, <2>3, <2>4, <1>0 DEF Undisturbed
  <2>8. FolderAnswersAreFresh'
    BY <2>1, <2>2, <2>3, <2>5, <1>0 DEF Undisturbed
  <2>9. QED
    BY <2>6, <2>7, <2>8 DEF AnswerInv
<1>16. ASSUME NEW t \in Threads, ReadData(t) PROVE AnswerInv'
  BY <1>16, <1>0, <1>a DEF ReadData, AnswerInv
<1>17. ASSUME NEW t \in Threads, Store(t) PROVE AnswerInv'
  <2>1. /\ at[t] = "storing" /\ at'[t] = "answered" /\ UNCHANGED <<op, ver, asof, read, version, told>>
        /\ \A u \in Threads : u # t => at'[u] = at[u]
    BY <1>17, <1>a DEF Store
  <2>2. op[t] # "folio" => /\ asof[t] = ver[t] /\ ver[t] # 0 /\ ver[t] <= version["folder"]
                           /\ read[t] >= told["folder"][ver[t]]
    BY <2>1, <1>0 DEF HeldIsOld, ReadIsFresh, StageInv, HasVersion
  <2>3. QED
    BY <2>1, <2>2, <1>0 DEF AnswerInv
<1>18. ASSUME NEW t \in Threads, Announce(t) PROVE AnswerInv'
  <2>1. /\ at'[t] = "due" /\ UNCHANGED <<op, ver, asof, read>>
        /\ \A u \in Threads : u # t => at'[u] = at[u]
    BY <1>18, <1>a DEF Announce
  <2>a. TypeOK /\ ToldIsOld
    BY <1>0 DEF StageInv
  <2>b. /\ \A k \in Kinds : version'[k] \in Nat /\ version'[k] >= version[k]
        /\ \A w \in Versions : told'["folder"][w] <= data["folder"]
        /\ \A w \in Versions : w <= version["folder"] => told'["folder"][w] = told["folder"][w]
    BY <1>18, <2>a, AnnounceEffect
  <2>2. \A k \in Kinds : version'[k] \in Nat /\ version'[k] >= version[k]
    BY <2>b
  <2>4. \A w \in Versions : told'["folder"][w] <= data["folder"]
    BY <2>b
  <2>c. \A w \in Versions : w <= version["folder"] => told'["folder"][w] = told["folder"][w]
    BY <2>b
  <2>3. version'["folder"] \in Nat /\ version["folder"] \in Nat /\ version'["folder"] >= version["folder"]
    <3>1. version["folder"] \in Versions
      BY <1>a
    <3>2. QED
      BY <3>1, <2>2, <1>a
  <2>8. NotedSeen'
    BY <2>1, <1>0
  <2>5. AnsweredIsOld'
    <3>1. \A u \in Threads : asof[u] \in Nat
      <4>1. asof \in [Threads -> Versions \cup {0}] /\ Versions \cup {0} \subseteq Nat
        BY <1>a
      <4>2. QED
        BY <4>1
    <3>2. \A u \in Threads : at'[u] = "answered" /\ op'[u] # "folio" =>
              asof[u] # 0 /\ asof[u] <= version["folder"]
      BY <2>1, <1>0
    <3>3. QED
      BY <2>1, <2>3, <3>1, <3>2
  <2>6. FolderAnswersAreFresh'
    <3>1. ASSUME NEW u \in Threads, at'[u] = "answered", op'[u] \in {"folder", "user"}
          PROVE  read'[u] >= told'["folder"][asof'[u]]
      <4>1. at[u] = "answered" /\ op[u] = op'[u] /\ read'[u] = read[u] /\ asof'[u] = asof[u]
        BY <2>1, <3>1
      <4>2. asof[u] # 0 /\ asof[u] <= version["folder"]
        BY <4>1, <3>1, <1>0
      <4>3. asof[u] \in Versions
        BY <4>2, <1>a
      <4>4. told'["folder"][asof[u]] = told["folder"][asof[u]]
        BY <4>2, <4>3, <2>c
      <4>5. read[u] >= told["folder"][asof[u]]
        BY <4>1, <3>1, <1>0
      <4>6. QED
        BY <4>1, <4>4, <4>5
    <3>2. QED
      BY <3>1
  <2>7. QED
    BY <2>8, <2>5, <2>6 DEF AnswerInv
<1>19. ASSUME NEW p \in Procs, NEW k \in Kinds, TimePasses(p, k) PROVE AnswerInv'
  BY <1>19, <1>0 DEF TimePasses, AnswerInv
<1>20. CASE Evict
  BY <1>20, <1>0 DEF Evict, AnswerInv
<1>21. ASSUME NEW p \in Procs, Restart(p) PROVE AnswerInv'
  <2>1. /\ at' = Reset(at, p, "idle") /\ op' = Reset(op, p, "folder")
        /\ ver' = Reset(ver, p, 0) /\ read' = Reset(read, p, 0) /\ asof' = Reset(asof, p, 0)
        /\ version' = version /\ told' = told
    BY <1>21 DEF Restart
  <2>2. \A u \in Threads : at'[u] = "idle" \/ Undisturbed(u)
    BY <2>1 DEF Reset, Undisturbed
  <2>3. QED
    BY <2>1, <2>2, <1>0 DEF Undisturbed, AnswerInv
<1>22. CASE UNCHANGED vars
  BY <1>22, <1>0 DEF vars, AnswerInv
<1>23. QED
  BY <1>1, <1>2, <1>3, <1>4, <1>5, <1>6, <1>7, <1>8, <1>9, <1>10, <1>11, <1>12, <1>13, <1>14, <1>15, <1>16, <1>17, <1>18, <1>19, <1>20, <1>21, <1>22 DEF Next, Request

\* An answer about folders reflects every change that the process has known to be
\* announced, however its threads and the changes interleave; where threads that
\* initialised it at once met, every change announced by the version it knows.
THEOREM AnswersAreFresh == Spec => []FolderAnswersAreFresh
<1>1. AnswerInv => FolderAnswersAreFresh
  BY DEF AnswerInv
<1>2. TurnInv /\ AnswerInv /\ [Next]_vars => AnswerInv'
  BY AnswerStep
<1>3. QED
  BY <1>1, <1>2, AnswerInit, TurnInvariant, PTL DEF Spec

----------------------------------------------------------------------------
(***************************************************************************)
(* PortfolioExport: the safety properties of the exports of a portfolio,   *)
(* for any number of exports, editors, deleters and events.  The argument  *)
(* is about the life of one export: it runs only while its task is active, *)
(* it has no filename until the run that saves one, and no run tries again *)
(* after that.  So a deletion that knows of a filename meets no run that   *)
(* could bring the record back, and the rest is a matter of who saw what.  *)
(***************************************************************************)

----------------------------------------------------------------------------
(* Types *)

\* A deletion in progress has the fields of one.
LEMMA Deleting ==
  ASSUME ExportsTypeOK, NEW d \in Deleters, dels[d] # Idle
  PROVE  /\ dels[d] \in Deletion
         /\ dels[d].at \in {"loaded", "files"} /\ dels[d].of \in Exports
         /\ dels[d].named \in BOOLEAN /\ dels[d].zip \in Nat
BY DEF ExportsTypeOK, Deletion

LEMMA NotIdle ==
  ASSUME NEW d \in Deleters, dels[d].at # "idle"
  PROVE  dels[d] # Idle
BY DEF Idle

\* An edit in flight, likewise.
LEMMA Editing ==
  ASSUME ExportsTypeOK, NEW c \in Editors, edits[c] # Idle
  PROVE  edits[c].older \subseteq Exports /\ edits[c].empties \in BOOLEAN
BY DEF ExportsTypeOK, Edit

LEMMA InitTypes == ExportsInit => ExportsTypeOK
<1> SUFFICES ASSUME ExportsInit PROVE ExportsTypeOK
  OBVIOUS
<1> USE DEF ExportsInit, All
<1>1. edits \in [Editors -> Edit \cup {Idle}] /\ dels \in [Deleters -> Deletion \cup {Idle}]
  OBVIOUS
<1>2. /\ row \in [Exports -> {"none", "present", "gone"}]
      /\ zipOf \in [Exports -> Nat] /\ copied \in [Exports -> Nat] /\ tries \in [Exports -> Nat]
  OBVIOUS
<1>3. /\ api \in [Exports -> {"none", "recorded", "posted", "done", "error"}]
      /\ task \in [Exports -> {"absent", "pending", "active", "complete", "expired"}]
      /\ run \in [Exports -> {"none", "start", "load", "images", "move", "save", "end"}]
  OBVIOUS
<1>4. events \in 0..MaxEvents
  BY BoundAssumption
<1> QED
  BY <1>1, <1>2, <1>3, <1>4 DEF ExportsTypeOK

LEMMA EventTypes == ExportsTypeOK /\ Event => events' \in 0..MaxEvents
BY BoundAssumption DEF ExportsTypeOK, Event

\* What the clean-up of the task server leaves in the tasks table.
LEMMA CleanUpTypes ==
  ASSUME ExportsTypeOK, NEW after,
         after \in [Exports -> {"absent", "pending", "active", "complete", "expired"}],
         DeleteCompleted(after)
  PROVE  /\ server' \in {"up", "killed", "failed"}
         /\ task' \in [Exports -> {"absent", "pending", "active", "complete", "expired"}]
BY DEF ExportsTypeOK, DeleteCompleted

LEMMA NextTypes == ExportsTypeOK /\ [ExportsNext]_exportVars => ExportsTypeOK'
<1> SUFFICES ASSUME ExportsTypeOK, [ExportsNext]_exportVars PROVE ExportsTypeOK'
  OBVIOUS
<1> USE EventTypes DEF exportVars, portfolio, record, work, files, history
<1>1. CASE UNCHANGED exportVars
  BY <1>1 DEF ExportsTypeOK
<1>2. ASSUME NEW e \in Exports, PostStep(e) PROVE ExportsTypeOK'
  <2>1. CASE RecordExport(e)
    BY <2>1 DEF RecordExport, ExportsTypeOK
  <2>2. CASE PostTask(e)
    BY <2>2 DEF PostTask, ExportsTypeOK
  <2>3. CASE NameTask(e)
    <3>1. named' \subseteq Exports /\ strayed' \subseteq Exports
      BY <2>3 DEF NameTask, ExportsTypeOK
    <3> QED
      BY <2>3, <3>1 DEF NameTask, ExportsTypeOK
  <2> QED
    BY <1>2, <2>1, <2>2, <2>3 DEF PostStep
<1>3. ASSUME NEW e \in Exports, TaskStep(e) PROVE ExportsTypeOK'
  <2>1. CASE StartTask(e)
    BY <2>1 DEF StartTask, ExportsTypeOK
  <2>2. CASE EndTask(e)
    BY <2>2 DEF EndTask, ExportsTypeOK
  <2>3. CASE KeepExpires(e)
    BY <2>3 DEF KeepExpires, ExportsTypeOK
  <2> QED
    BY <1>3, <2>1, <2>2, <2>3 DEF TaskStep
<1>4. ASSUME NEW e \in Exports, RunStep(e) PROVE ExportsTypeOK'
  <2> USE DEF RunGoes, Stray
  <2>1. CASE RunStart(e)
    BY <2>1 DEF RunStart, ExportsTypeOK
  <2>2. CASE RunLoad(e)
    BY <2>2 DEF RunLoad, ExportsTypeOK
  <2>3. CASE RunImages(e)
    BY <2>3 DEF RunImages, ExportsTypeOK
  <2>4. CASE RunMove(e)
    <3>1. tries[e] + 1 \in Nat
      BY DEF ExportsTypeOK
    <3>2. [of |-> e, try |-> tries[e] + 1, has |-> copied[e]] \in Zip
      BY <3>1 DEF Zip, ExportsTypeOK
    <3>3. zips' \subseteq Zip /\ tries' \in [Exports -> Nat] /\ run' \in
            [Exports -> {"none", "start", "load", "images", "move", "save", "end"}]
      BY <2>4, <3>1, <3>2 DEF RunMove, ExportsTypeOK
    <3> QED
      BY <2>4, <3>3 DEF RunMove, ExportsTypeOK
  <2>5. CASE RunSave(e)
    <3>1. named' \subseteq Exports
      BY <2>5 DEF RunSave, Unname, ExportsTypeOK
    <3>2. row' \in [Exports -> {"none", "present", "gone"}] /\ zipOf' \in [Exports -> Nat]
      BY <2>5 DEF RunSave, ExportsTypeOK
    <3> QED
      BY <2>5, <3>1, <3>2 DEF RunSave, ExportsTypeOK
  <2> QED
    BY <1>4, <2>1, <2>2, <2>3, <2>4, <2>5 DEF RunStep
<1>5. ASSUME NEW c \in Editors, EditStep(c) PROVE ExportsTypeOK'
  <2>1. CASE StampEdit(c)
    <3>1. ASSUME NEW b \in BOOLEAN
          PROVE  [at |-> "stamped", older |-> Recorded, empties |-> b] \in Edit
      BY DEF Edit, Recorded
    <3>2. edits' \in [Editors -> Edit \cup {Idle}]
      BY <2>1, <3>1 DEF StampEdit, ExportsTypeOK
    <3> QED
      BY <2>1, <3>2 DEF StampEdit, ExportsTypeOK
  <2>2. CASE CommitEdit(c)
    <3>1. edition + 1 \in Nat
      BY DEF ExportsTypeOK
    <3>2. edition' \in Nat /\ empty' \in BOOLEAN /\ outdated' \subseteq Exports
      BY <2>2, <3>1, Editing DEF CommitEdit, Flag, ExportsTypeOK
    <3>3. edits' \in [Editors -> Edit \cup {Idle}]
      BY <2>2 DEF CommitEdit, ExportsTypeOK
    <3> QED
      BY <2>2, <3>2, <3>3 DEF CommitEdit, ExportsTypeOK
  <2> QED
    BY <1>5, <2>1, <2>2 DEF EditStep
<1>6. ASSUME NEW d \in Deleters, DeleteStep(d) PROVE ExportsTypeOK'
  <2>1. ASSUME NEW e \in Exports, LoadExport(d, e) PROVE ExportsTypeOK'
    <3>1. [at |-> "loaded", of |-> e, named |-> e \in named, zip |-> zipOf[e]] \in Deletion
      BY DEF Deletion, ExportsTypeOK
    <3>2. dels' \in [Deleters -> Deletion \cup {Idle}]
      BY <2>1, <3>1 DEF LoadExport, ExportsTypeOK
    <3> QED
      BY <2>1, <3>2 DEF LoadExport, ExportsTypeOK
  <2>2. CASE Refuse(d)
    BY <2>2 DEF Refuse, ExportsTypeOK
  <2>3. CASE DeleteRecord(d)
    <3>1. dels[d] \in Deletion /\ dels[d].of \in Exports
      BY <2>3, Deleting, NotIdle DEF DeleteRecord
    <3>2. [dels[d] EXCEPT !.at = "files"] \in Deletion
      BY <3>1 DEF Deletion
    <3>3. dels' \in [Deleters -> Deletion \cup {Idle}]
      BY <2>3, <3>2 DEF DeleteRecord, ExportsTypeOK
    <3>4. /\ task' \in [Exports -> {"absent", "pending", "active", "complete", "expired"}]
          /\ row' \in [Exports -> {"none", "present", "gone"}]
          /\ named' \subseteq Exports /\ unseen' \subseteq Exports
      BY <2>3, <3>1 DEF DeleteRecord, ExportsTypeOK
    <3> QED
      BY <2>3, <3>3, <3>4 DEF DeleteRecord, ExportsTypeOK
  <2>4. CASE DeleteFiles(d)
    <3>1. dir' \in BOOLEAN
      BY <2>4 DEF DeleteFiles
    <3>2. zips' \subseteq Zip /\ dels' \in [Deleters -> Deletion \cup {Idle}]
      BY <2>4 DEF DeleteFiles, Remaining, ExportsTypeOK
    <3> QED
      BY <2>4, <3>1, <3>2 DEF DeleteFiles, ExportsTypeOK
  <2> QED
    BY <1>6, <2>1, <2>2, <2>3, <2>4 DEF DeleteStep
<1>7. CASE ServerStep
  <2>1. CASE CleanUp
    <3>1. task \in [Exports -> {"absent", "pending", "active", "complete", "expired"}]
      BY DEF ExportsTypeOK
    <3>2. DeleteCompleted(task)
      BY <2>1 DEF CleanUp
    <3> QED
      BY <2>1, <3>1, <3>2, CleanUpTypes DEF CleanUp, ExportsTypeOK
  <2>2. CASE RestartServer
    <3>1. Requeued \in [Exports -> {"absent", "pending", "active", "complete", "expired"}]
      BY DEF Requeued, ExportsTypeOK
    <3>2. DeleteCompleted(Requeued)
      BY <2>2 DEF RestartServer
    <3> QED
      BY <2>2, <3>1, <3>2, CleanUpTypes DEF RestartServer, ExportsTypeOK
  <2>3. CASE KillServer
    <3>1. run' \in [Exports -> {"none", "start", "load", "images", "move", "save", "end"}]
      BY <2>3 DEF KillServer, All
    <3>2. broken' \subseteq Exports
      BY <2>3 DEF KillServer, ExportsTypeOK
    <3> QED
      BY <2>3, <3>1, <3>2 DEF KillServer, ExportsTypeOK
  <2> QED
    BY <1>7, <2>1, <2>2, <2>3 DEF ServerStep
<1>8. CASE FolioStep
  <2>1. CASE DeleteFolio
    BY <2>1 DEF DeleteFolio, ExportsTypeOK
  <2>2. CASE DeleteFolioFiles
    BY <2>2 DEF DeleteFolioFiles, ExportsTypeOK
  <2>3. CASE PurgeImage
    <3>1. edition' \in Nat /\ empty' \in BOOLEAN
      BY <2>3 DEF PurgeImage, ExportsTypeOK
    <3>2. purged' \subseteq Exports
      BY <2>3 DEF PurgeImage, Loaded, ExportsTypeOK
    <3>3. edits' \in [Editors -> Edit \cup {Idle}]
      BY <2>3 DEF PurgeImage, ExportsTypeOK
    <3>4. events' \in 0..MaxEvents
      BY <2>3, BoundAssumption DEF PurgeImage, Event, ExportsTypeOK
    <3> QED
      BY <2>3, <3>1, <3>2, <3>3, <3>4 DEF PurgeImage, ExportsTypeOK
  <2> QED
    BY <1>8, <2>1, <2>2, <2>3 DEF FolioStep
<1> QED
  BY <1>1, <1>2, <1>3, <1>4, <1>5, <1>6, <1>7, <1>8 DEF ExportsNext

----------------------------------------------------------------------------
(* The inductive invariant *)

\* The life of one export: its task comes after its record, its run belongs to
\* an active task, and it has no filename until its last run has saved one.
Writing == {"load", "images", "move", "save"}

Life(e) ==
    /\ row[e] = "none" => api[e] = "none" /\ zipOf[e] = 0
    /\ api[e] \in {"none", "recorded"} => task[e] = "absent"
    /\ run[e] # "none" => task[e] = "active"
    /\ run[e] \in Writing => zipOf[e] = 0
    /\ run[e] = "save" => tries[e] # 0
    /\ row[e] = "present" => folio = "live"

\* The run that is about to save a filename has moved the file there.
Moved(e) == run[e] = "save" /\ folio = "live" => ZipOf(e, tries[e]) # {}

\* A deletion that knows of a filename knows of the only one there will be,
\* and once it has deleted the record nothing brings that back.
Known(d) ==
    dels[d] # Idle =>
        /\ row[dels[d].of] # "none"
        /\ dels[d].zip # 0 => /\ zipOf[dels[d].of] = dels[d].zip
                              /\ dels[d].at = "files" => row[dels[d].of] = "gone"

\* An export whose run or task has ended without a filename is a stray, or
\* its record is gone; so is one that was named after it had got a filename.
Ended(e) ==
    /\ run[e] = "end" \/ task[e] \in {"complete", "expired"} =>
           zipOf[e] # 0 \/ e \in strayed \/ row[e] = "gone"
    /\ zipOf[e] # 0 /\ e \in named => e \in strayed

\* Unless an edit was in flight when it was recorded, an export is known to
\* all edits in flight, and has what the portfolio has until one commits or an
\* image is purged.
Current(e) ==
    row[e] # "none" /\ e \notin raced =>
        /\ \A c \in Editors : edits[c] # Idle => e \in edits[c].older
        /\ folio = "live" /\ e \notin outdated \cup purged =>
               /\ run[e] \in {"images", "move", "save"} => copied[e] = edition
               /\ \A z \in zips : z.of = e => z.has = edition

ZipsOfExports == \A z \in zips : z.try # 0 /\ row[z.of] # "none"

LifeInv == (\A e \in Exports : Life(e)) /\ (\A d \in Deleters : Known(d))
FileInv == (\A e \in Exports : Moved(e)) /\ VisibleZipExists
ZipInv == ZipsOfExports /\ (\A e \in Exports : Current(e)) /\ EveryZipIsAccountedFor
EndInv == (\A e \in Exports : Ended(e)) /\ CleanUpFailsForStraysOnly

LEMMA InitInv == ExportsInit => LifeInv /\ FileInv /\ ZipInv /\ EndInv
<1> SUFFICES ASSUME ExportsInit PROVE LifeInv /\ FileInv /\ ZipInv /\ EndInv
  OBVIOUS
<1> USE DEF ExportsInit, All
<1>1. LifeInv
  BY DEF LifeInv, Life, Known, Writing
<1>2. FileInv
  BY DEF FileInv, Moved, VisibleZipExists, Present
<1>3. ZipInv
  BY DEF ZipInv, ZipsOfExports, Current, EveryZipIsAccountedFor
<1>4. EndInv
  BY DEF EndInv, Ended, CleanUpFailsForStraysOnly
<1> QED
  BY <1>1, <1>2, <1>3, <1>4

----------------------------------------------------------------------------
(* The life of an export *)

\* The clean-up removes completed tasks, and puts interrupted ones back.
LEMMA CleanUpTasks ==
  ASSUME ExportsTypeOK, NEW e \in Exports, CleanUp \/ RestartServer
  PROVE  /\ task[e] = "absent" => task'[e] = "absent"
         /\ run[e] # "none" => task'[e] = task[e] \/ task[e] = "expired"
         /\ task'[e] \in {"complete", "expired"} => task'[e] = task[e]
BY DEF ExportsTypeOK, CleanUp, RestartServer, DeleteCompleted, Requeued, Expired

LEMMA NextLife ==
  ASSUME ExportsTypeOK, LifeInv, [ExportsNext]_exportVars, NEW x \in Exports
  PROVE  Life(x)'
<1>0. Life(x)
  BY DEF LifeInv
<1> USE <1>0 DEF exportVars, portfolio, record, work, files, history, Writing
<1>1. CASE UNCHANGED exportVars
  BY <1>1 DEF Life
<1>2. ASSUME NEW e \in Exports, PostStep(e) PROVE Life(x)'
  <2>1. CASE RecordExport(e)
    BY <2>1 DEF RecordExport, ExportsTypeOK, Life
  <2>2. CASE PostTask(e)
    BY <2>2 DEF PostTask, ExportsTypeOK, Life
  <2>3. CASE NameTask(e)
    BY <2>3 DEF NameTask, ExportsTypeOK, Life
  <2> QED
    BY <1>2, <2>1, <2>2, <2>3 DEF PostStep
<1>3. ASSUME NEW e \in Exports, TaskStep(e) PROVE Life(x)'
  <2>1. CASE StartTask(e)
    BY <2>1 DEF StartTask, ExportsTypeOK, Life
  <2>2. CASE EndTask(e)
    BY <2>2 DEF EndTask, ExportsTypeOK, Life
  <2>3. CASE KeepExpires(e)
    BY <2>3 DEF KeepExpires, ExportsTypeOK, Life
  <2> QED
    BY <1>3, <2>1, <2>2, <2>3 DEF TaskStep
<1>4. ASSUME NEW e \in Exports, RunStep(e) PROVE Life(x)'
  <2> USE DEF RunGoes, Stray
  <2>1. CASE RunStart(e)
    BY <2>1 DEF RunStart, ExportsTypeOK, Life
  <2>2. CASE RunLoad(e)
    BY <2>2 DEF RunLoad, ExportsTypeOK, Life
  <2>3. CASE RunImages(e)
    BY <2>3 DEF RunImages, ExportsTypeOK, Life
  <2>4. CASE RunMove(e)
    BY <2>4 DEF RunMove, ExportsTypeOK, Life
  <2>5. CASE RunSave(e)
    <3>1. Life(e) /\ (e \in Present => folio = "live")
      BY DEF LifeInv, Life, Present
    <3> QED
      BY <2>5, <3>1 DEF RunSave, ExportsTypeOK, Life
  <2> QED
    BY <1>4, <2>1, <2>2, <2>3, <2>4, <2>5 DEF RunStep
<1>5. ASSUME NEW c \in Editors, EditStep(c) PROVE Life(x)'
  BY <1>5 DEF EditStep, StampEdit, CommitEdit, Life
<1>6. ASSUME NEW d \in Deleters, DeleteStep(d) PROVE Life(x)'
  <2>1. CASE DeleteRecord(d)
    BY <2>1 DEF DeleteRecord, Cancelled, ExportsTypeOK, Life
  <2>2. CASE (\E e \in Exports : LoadExport(d, e)) \/ Refuse(d) \/ DeleteFiles(d)
    BY <2>2 DEF LoadExport, Refuse, DeleteFiles, Life
  <2> QED
    BY <1>6, <2>1, <2>2 DEF DeleteStep
<1>7. CASE ServerStep
  <2>1. CASE CleanUp \/ RestartServer
    <3>1. UNCHANGED <<portfolio, record, api, run, copied, tries>>
      BY <2>1 DEF CleanUp, RestartServer
    <3> QED
      BY <2>1, <3>1, CleanUpTasks DEF Life
  <2>2. CASE KillServer
    BY <2>2 DEF KillServer, All, Life
  <2> QED
    BY <1>7, <2>1, <2>2 DEF ServerStep
<1>8. CASE FolioStep
  BY <1>8 DEF FolioStep, DeleteFolio, DeleteFolioFiles, PurgeImage, Present, ExportsTypeOK, Life
<1> QED
  BY <1>1, <1>2, <1>3, <1>4, <1>5, <1>6, <1>7, <1>8 DEF ExportsNext

LEMMA NextKnown ==
  ASSUME ExportsTypeOK, LifeInv, [ExportsNext]_exportVars, NEW y \in Deleters
  PROVE  Known(y)'
<1>0. Known(y) /\ (dels[y] # Idle => dels[y].of \in Exports /\ dels[y].zip \in Nat)
  BY Deleting DEF LifeInv
<1> USE <1>0 DEF exportVars, portfolio, record, work, files, history
<1>1. CASE UNCHANGED <<row, zipOf, dels>>
  BY <1>1 DEF Known
<1>2. ASSUME NEW e \in Exports, RecordExport(e) PROVE Known(y)'
  <2>1. row[e] = "none" /\ zipOf[e] = 0
    BY <1>2 DEF RecordExport, LifeInv, Life
  <2> QED
    BY <1>2, <2>1 DEF RecordExport, ExportsTypeOK, Known
<1>3. ASSUME NEW e \in Exports, RunSave(e) PROVE Known(y)'
  <2>1. zipOf[e] = 0
    BY <1>3 DEF RunSave, LifeInv, Life, Writing
  <2>2. /\ dels' = dels
        /\ \A x \in Exports : /\ row'[x] \in {row[x], "present"}
                              /\ x # e => row'[x] = row[x] /\ zipOf'[x] = zipOf[x]
    BY <1>3 DEF RunSave, ExportsTypeOK
  <2> QED
    BY <2>1, <2>2 DEF Known
<1>4. ASSUME NEW d \in Deleters, NEW e \in Exports, LoadExport(d, e) PROVE Known(y)'
  BY <1>4 DEF LoadExport, ExportsTypeOK, Known, Idle, Present
<1>5. ASSUME NEW d \in Deleters, Refuse(d) \/ DeleteFiles(d) PROVE Known(y)'
  BY <1>5 DEF Refuse, DeleteFiles, ExportsTypeOK, Known
<1>6. ASSUME NEW d \in Deleters, DeleteRecord(d) PROVE Known(y)'
  <2>1. dels[d] # Idle /\ dels[d] \in Deletion /\ dels[d].of \in Exports
    BY <1>6, Deleting, NotIdle DEF DeleteRecord
  <2>2. CASE y = d /\ folio = "live"
    <3>1. /\ dels'[y] = [dels[y] EXCEPT !.at = "files"] /\ row'[dels[y].of] = "gone"
          /\ zipOf' = zipOf
      BY <1>6, <2>1, <2>2 DEF DeleteRecord, ExportsTypeOK
    <3>2. dels'[y].of = dels[y].of /\ dels'[y].zip = dels[y].zip
      BY <2>1, <2>2, <3>1 DEF Deletion
    <3> QED
      BY <2>1, <2>2, <3>1, <3>2 DEF Known
  <2>3. CASE y = d /\ folio # "live"
    BY <1>6, <2>3 DEF DeleteRecord, ExportsTypeOK, Known
  <2>4. CASE y # d
    BY <1>6, <2>1, <2>4 DEF DeleteRecord, ExportsTypeOK, Known
  <2> QED
    BY <2>2, <2>3, <2>4
<1>7. CASE DeleteFolio
  BY <1>7 DEF DeleteFolio, Known, Present, ExportsTypeOK
<1>8. CASE UNCHANGED <<row, zipOf, dels>> \/ (\E e \in Exports : RecordExport(e) \/ RunSave(e))
           \/ (\E d \in Deleters : DeleteStep(d)) \/ DeleteFolio
  BY <1>1, <1>2, <1>3, <1>4, <1>5, <1>6, <1>7, <1>8 DEF DeleteStep
<1> QED
  BY <1>8 DEF ExportsNext, PostStep, TaskStep, RunStep, ServerStep, EditStep, FolioStep, PostTask, NameTask,
              StartTask, EndTask, KeepExpires, RunStart, RunLoad, RunImages, RunMove, CleanUp,
              RestartServer, KillServer, StampEdit, CommitEdit, DeleteFolioFiles, PurgeImage

----------------------------------------------------------------------------
(* The files *)

\* The actions that change the files, and those that change a record.
LEMMA FilesChange ==
  ASSUME [ExportsNext]_exportVars
  PROVE  \/ zips' = zips
         \/ \E e \in Exports : RunMove(e)
         \/ \E d \in Deleters : DeleteFiles(d)
         \/ DeleteFolioFiles
BY DEF ExportsNext, exportVars, portfolio, record, work, files, history,
       PostStep, TaskStep, RunStep, ServerStep, EditStep, FolioStep, DeleteStep,
       RecordExport, PostTask, NameTask, StartTask, EndTask, KeepExpires, RunStart, RunLoad,
       RunImages, RunSave, CleanUp, RestartServer, KillServer, StampEdit, CommitEdit,
       LoadExport, Refuse, DeleteRecord, DeleteFolio, PurgeImage

LEMMA RecordsAppear ==
  ASSUME ExportsTypeOK, [ExportsNext]_exportVars, NEW e \in Exports, row'[e] = "present"
  PROVE  \/ row[e] = "present" /\ zipOf'[e] = zipOf[e]
         \/ RecordExport(e)
         \/ RunSave(e) /\ zipOf'[e] = tries[e]
<1> USE DEF exportVars, portfolio, record, work, files, history, ExportsTypeOK
<1>1. CASE UNCHANGED <<row, zipOf>>
  BY <1>1
<1>2. ASSUME NEW x \in Exports, RecordExport(x)
      PROVE  RecordExport(e) \/ (row[e] = "present" /\ zipOf'[e] = zipOf[e])
  BY <1>2 DEF RecordExport
<1>3. ASSUME NEW x \in Exports, RunSave(x)
      PROVE  \/ RunSave(e) /\ zipOf'[e] = tries[e]
             \/ row[e] = "present" /\ zipOf'[e] = zipOf[e]
  BY <1>3 DEF RunSave, RunGoes, Stray, Present
<1>4. ASSUME NEW d \in Deleters, DeleteRecord(d)
      PROVE  row[e] = "present" /\ zipOf'[e] = zipOf[e]
  <2>1. dels[d].of \in Exports
    BY <1>4, Deleting, NotIdle DEF DeleteRecord
  <2> QED
    BY <1>4, <2>1 DEF DeleteRecord
<1>5. CASE DeleteFolio
  BY <1>5 DEF DeleteFolio, Present
<1>6. \/ UNCHANGED <<row, zipOf>>
      \/ \E x \in Exports : RecordExport(x) \/ RunSave(x)
      \/ \E d \in Deleters : DeleteRecord(d)
      \/ DeleteFolio
  BY DEF ExportsNext, PostStep, TaskStep, RunStep, ServerStep, EditStep, FolioStep, DeleteStep, PostTask,
         NameTask, StartTask, EndTask, KeepExpires, RunStart, RunLoad, RunImages, RunMove, CleanUp,
         RestartServer, KillServer, StampEdit, CommitEdit, LoadExport, Refuse, DeleteFiles,
         DeleteFolioFiles, PurgeImage
<1> QED
  BY <1>1, <1>2, <1>3, <1>4, <1>5, <1>6

\* A run that is about to save was so before, or has just moved its file.
LEMMA RunsMove ==
  ASSUME ExportsTypeOK, [ExportsNext]_exportVars, NEW e \in Exports, run'[e] = "save"
  PROVE  \/ run[e] = "save" /\ tries'[e] = tries[e]
         \/ RunMove(e) /\ [of |-> e, try |-> tries'[e], has |-> copied[e]] \in zips'
<1> USE DEF exportVars, portfolio, record, work, files, history, ExportsTypeOK, RunGoes, Stray
<1>1. CASE UNCHANGED <<run, tries>>
  BY <1>1
<1>2. ASSUME NEW x \in Exports, RunMove(x)
      PROVE  \/ run[e] = "save" /\ tries'[e] = tries[e]
             \/ RunMove(e) /\ [of |-> e, try |-> tries'[e], has |-> copied[e]] \in zips'
  BY <1>2 DEF RunMove
<1>3. CASE tries' = tries /\ ~UNCHANGED run
  <2>1. ASSUME NEW x \in Exports, StartTask(x) \/ EndTask(x) \/ RunStart(x) \/ RunLoad(x)
                                  \/ RunImages(x) \/ RunSave(x)
        PROVE  run[e] = "save"
    BY <2>1 DEF StartTask, EndTask, RunStart, RunLoad, RunImages, RunSave
  <2>2. ASSUME KillServer PROVE FALSE
    BY <2>2 DEF KillServer, All
  <2>3. \/ KillServer
        \/ \E x \in Exports : \/ StartTask(x) \/ EndTask(x) \/ RunStart(x) \/ RunLoad(x)
                               \/ RunImages(x) \/ RunSave(x) \/ RunMove(x)
    BY <1>3 DEF ExportsNext, PostStep, TaskStep, RunStep, ServerStep, EditStep, FolioStep, DeleteStep,
         RecordExport, PostTask, NameTask, KeepExpires, CleanUp, RestartServer, StampEdit, CommitEdit,
         LoadExport, Refuse, DeleteRecord, DeleteFiles, DeleteFolio, DeleteFolioFiles, PurgeImage
  <2> QED
    BY <1>2, <1>3, <2>1, <2>2, <2>3
<1>4. tries' = tries \/ \E x \in Exports : RunMove(x)
  BY DEF ExportsNext, PostStep, TaskStep, RunStep, ServerStep, EditStep, FolioStep, DeleteStep,
         RecordExport, PostTask, NameTask, StartTask, EndTask, KeepExpires, RunStart, RunLoad,
         RunImages, RunSave, CleanUp, RestartServer, KillServer, StampEdit, CommitEdit,
         LoadExport, Refuse, DeleteRecord, DeleteFiles, DeleteFolio, DeleteFolioFiles, PurgeImage
<1> QED
  BY <1>1, <1>2, <1>3, <1>4

LEMMA FolioGoes == [ExportsNext]_exportVars /\ folio' = "live" => folio = "live"
BY DEF ExportsNext, exportVars, portfolio, record, work, files, history,
       PostStep, TaskStep, RunStep, ServerStep, EditStep, FolioStep, DeleteStep, DeleteFolioFiles, PurgeImage,
       RecordExport, PostTask, NameTask, StartTask, EndTask, KeepExpires, RunStart, RunLoad,
       RunImages, RunMove, RunSave, CleanUp, RestartServer, KillServer, StampEdit, CommitEdit,
       LoadExport, Refuse, DeleteRecord, DeleteFiles, DeleteFolio

\* A file is removed by a deletion that knows of it, or with the portfolio.
LEMMA FileStays ==
  ASSUME ExportsTypeOK, [ExportsNext]_exportVars, NEW e, NEW n, ZipOf(e, n) # {},
         \A d \in Deleters : dels[d].at = "files" => dels[d].of # e \/ dels[d].zip # n,
         folio = "live"
  PROVE  ZipOf(e, n)' # {}
<1>1. PICK z \in zips : z.of = e /\ z.try = n
  BY DEF ZipOf
<1>2. z \in zips'
  <2>1. ASSUME NEW d \in Deleters, DeleteFiles(d) PROVE z \in zips'
    BY <1>1, <2>1 DEF DeleteFiles, Remaining, ZipOf
  <2>2. ASSUME NEW x \in Exports, RunMove(x) PROVE z \in zips'
    BY <2>2 DEF RunMove
  <2>3. ~DeleteFolioFiles
    BY DEF DeleteFolioFiles
  <2> QED
    BY <2>1, <2>2, <2>3, FilesChange
<1> QED
  BY <1>1, <1>2 DEF ZipOf

LEMMA NextFiles ==
  ASSUME ExportsTypeOK, LifeInv, FileInv, [ExportsNext]_exportVars
  PROVE  FileInv'
<1>1. ASSUME NEW e \in Exports, run'[e] = "save", folio' = "live"
      PROVE  ZipOf(e, tries[e])' # {}
  <2>1. CASE run[e] = "save" /\ tries'[e] = tries[e]
    <3>1. ZipOf(e, tries[e]) # {} /\ folio = "live" /\ zipOf[e] = 0 /\ tries[e] # 0
      BY <1>1, <2>1, FolioGoes DEF FileInv, Moved, LifeInv, Life, Writing
    <3>2. \A d \in Deleters : dels[d].at = "files" => dels[d].of # e \/ dels[d].zip # tries[e]
      BY <3>1, NotIdle DEF LifeInv, Known
    <3>3. ZipOf(e, tries[e])' # {} \/ tries'[e] # tries[e]
      <4>1. PICK n : n = tries[e]
        OBVIOUS
      <4>2. ZipOf(e, n)' # {}
        BY <3>1, <3>2, <4>1, FileStays
      <4> QED
        BY <4>1, <4>2 DEF ZipOf
    <3> QED
      BY <2>1, <3>3
  <2>2. CASE RunMove(e) /\ [of |-> e, try |-> tries'[e], has |-> copied[e]] \in zips'
    BY <2>2 DEF ZipOf
  <2> QED
    BY <1>1, <2>1, <2>2, RunsMove
<1>2. ASSUME NEW e \in Exports, row'[e] = "present", zipOf'[e] # 0
      PROVE  ZipOf(e, zipOf[e])' # {}
  <2>1. CASE row[e] = "present" /\ zipOf'[e] = zipOf[e]
    <3>1. ZipOf(e, zipOf[e]) # {} /\ folio = "live"
      BY <1>2, <2>1 DEF FileInv, VisibleZipExists, Present, LifeInv, Life
    <3>2. \A d \in Deleters : dels[d].at = "files" => dels[d].of # e \/ dels[d].zip # zipOf[e]
      BY <1>2, <2>1, NotIdle DEF LifeInv, Known
    <3>3. PICK n : n = zipOf[e]
      OBVIOUS
    <3>4. ZipOf(e, n)' # {}
      BY <3>1, <3>2, <3>3, FileStays
    <3> QED
      BY <2>1, <3>3, <3>4 DEF ZipOf
  <2>2. CASE RecordExport(e)
    BY <1>2, <2>2 DEF RecordExport, LifeInv, Life, record
  <2>3. CASE RunSave(e) /\ zipOf'[e] = tries[e]
    <3>1. run[e] = "save" /\ folio = "live" /\ zips' = zips
      BY <1>2, <2>3 DEF RunSave, files, LifeInv, Life, Present
    <3>2. ZipOf(e, tries[e]) # {}
      BY <3>1 DEF FileInv, Moved
    <3> QED
      BY <2>3, <3>1, <3>2 DEF ZipOf
  <2> QED
    BY <1>2, <2>1, <2>2, <2>3, RecordsAppear
<1> QED
  BY <1>1, <1>2 DEF FileInv, Moved, VisibleZipExists, Present

----------------------------------------------------------------------------
(* What the files have, and who knows of them *)

\* A record is inserted by the call that publishes the export, and only then.
LEMMA RowsStay ==
  ASSUME ExportsTypeOK, LifeInv, [ExportsNext]_exportVars, NEW e \in Exports
  PROVE  /\ row'[e] = "none" => row[e] = "none"
         /\ row[e] = "none" /\ row'[e] # "none" /\ ~RecordExport(e) => RunSave(e)
<1> USE DEF exportVars, portfolio, record, work, files, history, ExportsTypeOK
<1>1. CASE UNCHANGED row
  BY <1>1
<1>2. ASSUME NEW x \in Exports, RecordExport(x) \/ RunSave(x)
      PROVE  /\ row'[e] = "none" => row[e] = "none"
             /\ row[e] = "none" /\ row'[e] # "none" /\ ~RecordExport(e) => RunSave(e)
  BY <1>2 DEF RecordExport, RunSave
<1>3. ASSUME NEW d \in Deleters, DeleteRecord(d)
      PROVE  row'[e] = row[e] \/ (row'[e] = "gone" /\ row[e] # "none")
  <2>1. dels[d].of \in Exports /\ row[dels[d].of] # "none"
    BY <1>3, Deleting, NotIdle DEF DeleteRecord, LifeInv, Known
  <2> QED
    BY <1>3, <2>1 DEF DeleteRecord
<1>4. CASE DeleteFolio
  BY <1>4 DEF DeleteFolio, Present
<1>5. \/ UNCHANGED row
      \/ \E x \in Exports : RecordExport(x) \/ RunSave(x)
      \/ \E d \in Deleters : DeleteRecord(d)
      \/ DeleteFolio
  BY DEF ExportsNext, PostStep, TaskStep, RunStep, ServerStep, EditStep, FolioStep, DeleteStep, PostTask,
         NameTask, StartTask, EndTask, KeepExpires, RunStart, RunLoad, RunImages, RunMove, CleanUp,
         RestartServer, KillServer, StampEdit, CommitEdit, LoadExport, Refuse, DeleteFiles,
         DeleteFolioFiles, PurgeImage
<1> QED
  BY <1>1, <1>2, <1>3, <1>4, <1>5

\* Before its record, an export has no run, and afterwards no first one.
LEMMA NoRunBefore ==
  ASSUME ExportsTypeOK, LifeInv, NEW e \in Exports, row[e] = "none"
  PROVE  run[e] = "none" /\ task[e] = "absent"
BY DEF LifeInv, Life

LEMMA NextZips ==
  ASSUME ExportsTypeOK, LifeInv, ZipsOfExports, [ExportsNext]_exportVars
  PROVE  ZipsOfExports'
<1> SUFFICES ASSUME NEW z \in zips' PROVE z.try # 0 /\ row'[z.of] # "none"
  BY DEF ZipsOfExports
<1>1. CASE z \in zips
  <2>1. z.of \in Exports
    BY <1>1 DEF ExportsTypeOK, Zip
  <2> QED
    BY <1>1, <2>1, RowsStay DEF ZipsOfExports
<1>2. CASE z \notin zips
  <2>1. PICK e \in Exports : RunMove(e) /\ z = [of |-> e, try |-> tries[e] + 1, has |-> copied[e]]
    <3>1. ASSUME NEW d \in Deleters, DeleteFiles(d) PROVE FALSE
      BY <1>2, <3>1 DEF DeleteFiles, Remaining
    <3>2. ~DeleteFolioFiles
      BY <1>2 DEF DeleteFolioFiles
    <3>3. PICK e \in Exports : RunMove(e)
      BY <1>2, <3>1, <3>2, FilesChange
    <3> QED
      BY <1>2, <3>3 DEF RunMove
  <2>2. row[e] # "none" /\ row' = row
    BY <2>1, NoRunBefore DEF RunMove, record
  <2>3. tries[e] + 1 # 0
    BY DEF ExportsTypeOK
  <2> QED
    BY <2>1, <2>2, <2>3
<1> QED
  BY <1>1, <1>2

\* What an action that is no edit does to what an export has.
LEMMA NextCurrent ==
  ASSUME ExportsTypeOK, LifeInv, ZipsOfExports, [ExportsNext]_exportVars, NEW x \in Exports, Current(x)
  PROVE  Current(x)'
<1> USE DEF exportVars, portfolio, record, work, files, history
<1> SUFFICES ASSUME row'[x] # "none", x \notin raced'
             PROVE  /\ \A c \in Editors : edits'[c] # Idle => x \in edits'[c].older
                    /\ folio' = "live" /\ x \notin outdated' \cup purged' =>
                           /\ run'[x] \in {"images", "move", "save"} => copied'[x] = edition'
                           /\ \A z \in zips' : z.of = x => z.has = edition'
  BY DEF Current
<1>1. CASE RecordExport(x)
  <2>1. run[x] = "none" /\ \A z \in zips : z.of # x
    BY <1>1, NoRunBefore DEF RecordExport, ZipsOfExports
  <2>2. \A c \in Editors : edits[c] = Idle
    BY <1>1 DEF RecordExport
  <2> QED
    BY <1>1, <2>1, <2>2 DEF RecordExport
<1>2. CASE ~RecordExport(x)
  <2>0. row[x] # "none" /\ x \notin raced
    <3>1. ~(row[x] = "none" /\ RunSave(x))
      BY NoRunBefore DEF RunSave
    <3>2. raced \subseteq raced'
      BY DEF ExportsNext, PostStep, TaskStep, RunStep, ServerStep, EditStep, FolioStep, DeleteStep,
             RecordExport, PostTask, NameTask, StartTask, EndTask, KeepExpires, RunStart, RunLoad,
             RunImages, RunMove, RunSave, CleanUp, RestartServer, KillServer, StampEdit, CommitEdit,
             LoadExport, Refuse, DeleteRecord, DeleteFiles, DeleteFolio, DeleteFolioFiles, PurgeImage
    <3> QED
      BY <1>2, <3>1, <3>2, RowsStay
  <2>1. /\ \A c \in Editors : edits[c] # Idle => x \in edits[c].older
        /\ folio = "live" /\ x \notin outdated \cup purged =>
               /\ run[x] \in {"images", "move", "save"} => copied[x] = edition
               /\ \A z \in zips : z.of = x => z.has = edition
    BY <2>0 DEF Current
  <2>2. ASSUME NEW c \in Editors, StampEdit(c)
        PROVE  \A k \in Editors : edits'[k] # Idle => x \in edits'[k].older
    BY <2>0, <2>1, <2>2 DEF StampEdit, Recorded, ExportsTypeOK
  <2>3. ASSUME NEW c \in Editors, CommitEdit(c)
        PROVE  /\ \A k \in Editors : edits'[k] # Idle => x \in edits'[k].older
               /\ folio' = "live" => x \in outdated'
    BY <2>1, <2>3 DEF CommitEdit, Flag, ExportsTypeOK
  <2>4. ASSUME NEW e \in Exports, RunLoad(e) \/ RunImages(e) \/ RunMove(e) \/ RunSave(e) \/ RunStart(e)
                                  \/ StartTask(e) \/ EndTask(e)
        PROVE  /\ (run'[x] \in {"images", "move", "save"} /\ folio = "live"
                    /\ x \notin outdated \cup purged) => copied'[x] = edition
               /\ UNCHANGED portfolio /\ outdated' = outdated /\ purged' = purged
    BY <2>1, <2>4 DEF RunLoad, RunImages, RunMove, RunSave, RunStart, StartTask, EndTask,
                      RunGoes, Stray, ExportsTypeOK
  <2>5. CASE UNCHANGED <<portfolio, outdated, purged>>
    <3>1. \A c \in Editors : edits'[c] # Idle => x \in edits'[c].older
      BY <2>1, <2>5
    <3>2. ASSUME run'[x] \in {"images", "move", "save"}, folio = "live",
                 x \notin outdated \cup purged
          PROVE  copied'[x] = edition
      <4>1. CASE KillServer
        BY <3>2, <4>1 DEF KillServer, All
      <4>2. CASE UNCHANGED <<run, copied>>
        BY <2>1, <3>2, <4>2
      <4>3. \/ KillServer \/ UNCHANGED <<run, copied>>
            \/ \E e \in Exports : \/ RunLoad(e) \/ RunImages(e) \/ RunMove(e) \/ RunSave(e)
                                   \/ RunStart(e) \/ StartTask(e) \/ EndTask(e)
        BY DEF ExportsNext, PostStep, TaskStep, RunStep, ServerStep, EditStep, FolioStep, DeleteStep,
             RecordExport, PostTask, NameTask, KeepExpires, CleanUp, RestartServer, StampEdit,
             CommitEdit, LoadExport, Refuse, DeleteRecord, DeleteFiles, DeleteFolio, DeleteFolioFiles, PurgeImage
      <4> QED
        BY <2>4, <3>2, <4>1, <4>2, <4>3
    <3>3. ASSUME NEW z \in zips', z.of = x, folio = "live", x \notin outdated \cup purged
          PROVE  z.has = edition
      <4>1. CASE z \in zips
        BY <2>1, <3>3, <4>1
      <4>2. CASE z \notin zips
        <5>1. ASSUME NEW d \in Deleters PROVE ~DeleteFiles(d)
          BY <4>2 DEF DeleteFiles, Remaining
        <5>2. ~DeleteFolioFiles
          BY <4>2 DEF DeleteFolioFiles
        <5>3. PICK e \in Exports : RunMove(e)
          BY <4>2, <5>1, <5>2, FilesChange
        <5>4. z = [of |-> e, try |-> tries[e] + 1, has |-> copied[e]] /\ run[e] = "move"
          BY <4>2, <5>3 DEF RunMove
        <5> QED
          BY <2>1, <3>3, <5>4
      <4> QED
        BY <4>1, <4>2
    <3> QED
      BY <2>5, <3>1, <3>2, <3>3
  <2>6. \/ UNCHANGED <<portfolio, outdated, purged>>
        \/ folio' # "live" /\ edits' = edits
        \/ PurgeImage
        \/ \E c \in Editors : StampEdit(c) \/ CommitEdit(c)
    BY DEF ExportsNext, PostStep, TaskStep, RunStep, ServerStep, EditStep, FolioStep, DeleteStep,
           RecordExport, PostTask, NameTask, StartTask, EndTask, KeepExpires, RunStart, RunLoad,
           RunImages, RunMove, RunSave, CleanUp, RestartServer, KillServer,
           LoadExport, Refuse, DeleteRecord, DeleteFiles, DeleteFolio, DeleteFolioFiles
  <2>7. CASE folio' # "live" /\ edits' = edits
    BY <2>1, <2>7
  <2>8. ASSUME NEW c \in Editors, StampEdit(c)
        PROVE  UNCHANGED <<folio, edition, outdated, purged, run, copied, zips>>
    BY <2>8 DEF StampEdit
  <2>9. CASE PurgeImage
    <3>1. \A c \in Editors : edits'[c] # Idle => x \in edits'[c].older
      BY <2>1, <2>9 DEF PurgeImage
    <3>2. UNCHANGED <<run, zips>>
      BY <2>9 DEF PurgeImage
    <3>3. x \notin purged' => /\ run[x] \notin {"images", "move", "save"}
                              /\ \A z \in zips : z.of # x
      BY <2>9 DEF PurgeImage, Loaded
    <3> QED
      BY <3>1, <3>2, <3>3
  <2> QED
    BY <2>1, <2>2, <2>3, <2>5, <2>6, <2>7, <2>8, <2>9
<1> QED
  BY <1>1, <1>2

\* The ways in which a zip file is accounted for.
Saved(z)    == row[z.of] = "present" /\ z.try = zipOf[z.of]
InSave(z)   == run[z.of] = "save" /\ z.try = tries[z.of]
Removed(z)  == \E d \in Deleters : dels[d].at = "files" /\ dels[d].of = z.of /\ dels[d].zip = z.try
Excused(z)  == folio = "clearing" \/ z.of \in broken \cup unseen
Account(z)  == Saved(z) \/ InSave(z) \/ Removed(z) \/ Excused(z)

LEMMA AccountIsAll ==
  ASSUME ExportsTypeOK
  PROVE  EveryZipIsAccountedFor <=> \A z \in zips : Account(z)
<1>1. \A z \in zips : z.of \in Exports
  BY DEF ExportsTypeOK, Zip
<1> QED
  BY <1>1 DEF EveryZipIsAccountedFor, Account, Saved, InSave, Removed, Excused, Present

\* A deletion that is no longer at the files has removed the one it knew of.
LEMMA RemovalGoesOn ==
  ASSUME ExportsTypeOK, [ExportsNext]_exportVars, NEW z \in zips, z \in zips', Removed(z)
  PROVE  Removed(z)'
<1>1. PICK d \in Deleters : dels[d].at = "files" /\ dels[d].of = z.of /\ dels[d].zip = z.try
  BY DEF Removed
<1> SUFFICES dels'[d] = dels[d]
  BY <1>1 DEF Removed
<1>2. dels[d] # Idle /\ ~DeleteFiles(d)
  BY <1>1, NotIdle DEF DeleteFiles, Remaining, ZipOf, Idle
<1>3. ASSUME NEW y \in Deleters, DeleteStep(y) PROVE dels'[d] = dels[d]
  <2>1. y # d
    BY <1>1, <1>2, <1>3 DEF DeleteStep, LoadExport, Refuse, DeleteRecord
  <2> QED
    BY <1>3, <2>1 DEF DeleteStep, LoadExport, Refuse, DeleteRecord, DeleteFiles, ExportsTypeOK
<1>4. dels' = dels \/ \E y \in Deleters : DeleteStep(y)
  BY DEF ExportsNext, exportVars, PostStep, TaskStep, RunStep, ServerStep, EditStep, FolioStep, RecordExport,
         PostTask, NameTask, StartTask, EndTask, KeepExpires, RunStart, RunLoad, RunImages, RunMove,
         RunSave, CleanUp, RestartServer, KillServer, StampEdit, CommitEdit, DeleteFolio,
         DeleteFolioFiles, PurgeImage
<1> QED
  BY <1>3, <1>4

\* So do the excuses, until the portfolio's files are removed altogether.
LEMMA ExcusesStay ==
  ASSUME [ExportsNext]_exportVars, NEW z, z \in zips', Excused(z)
  PROVE  Excused(z)'
<1>1. ~DeleteFolioFiles
  BY DEF DeleteFolioFiles
<1> QED
  BY <1>1 DEF Excused, ExportsNext, exportVars, portfolio, record, work, files, history,
         PostStep, TaskStep, RunStep, ServerStep, EditStep, FolioStep, DeleteStep,
         RecordExport, PostTask, NameTask, StartTask, EndTask, KeepExpires, RunStart, RunLoad,
         RunImages, RunMove, RunSave, CleanUp, RestartServer, KillServer, StampEdit, CommitEdit,
         LoadExport, Refuse, DeleteRecord, DeleteFiles, DeleteFolio, PurgeImage

\* What the record names is named until a deletion takes it over.
LEMMA SavedGoesOn ==
  ASSUME ExportsTypeOK, LifeInv, [ExportsNext]_exportVars, NEW z \in zips, z.try # 0, Saved(z)
  PROVE  Account(z)'
<1>0. z.of \in Exports /\ row[z.of] = "present" /\ zipOf[z.of] = z.try
  BY DEF Saved, ExportsTypeOK, Zip
<1> USE <1>0 DEF exportVars, portfolio, record, work, files, history
<1>1. CASE UNCHANGED <<row, zipOf>>
  BY <1>1 DEF Account, Saved
<1>2. ASSUME NEW e \in Exports, RecordExport(e) PROVE Saved(z)'
  BY <1>2 DEF RecordExport, Saved, ExportsTypeOK
<1>3. ASSUME NEW e \in Exports, RunSave(e) PROVE Saved(z)'
  <2>1. zipOf[e] = 0
    BY <1>3 DEF RunSave, LifeInv, Life, Writing
  <2>2. e # z.of
    BY <2>1
  <2> QED
    BY <1>3, <2>2 DEF RunSave, Saved, ExportsTypeOK
<1>4. ASSUME NEW d \in Deleters, DeleteRecord(d) PROVE Account(z)'
  <2>1. dels[d] # Idle /\ dels[d] \in Deletion /\ dels[d].of \in Exports
    BY <1>4, Deleting, NotIdle DEF DeleteRecord
  <2>2. CASE dels[d].of # z.of \/ folio # "live"
    BY <1>4, <2>1, <2>2 DEF DeleteRecord, Account, Saved, ExportsTypeOK
  <2>3. CASE dels[d].of = z.of /\ folio = "live" /\ dels[d].zip = 0
    <3>1. z.of \in unseen'
      BY <1>4, <2>3 DEF DeleteRecord
    <3> QED
      BY <3>1 DEF Account, Excused
  <2>4. CASE dels[d].of = z.of /\ folio = "live" /\ dels[d].zip # 0
    <3>1. dels[d].zip = z.try
      BY <2>1, <2>4 DEF LifeInv, Known
    <3>2. dels'[d] = [dels[d] EXCEPT !.at = "files"]
      BY <1>4, <2>4 DEF DeleteRecord, ExportsTypeOK
    <3>3. dels'[d].at = "files" /\ dels'[d].of = z.of /\ dels'[d].zip = z.try
      BY <2>1, <2>4, <3>1, <3>2 DEF Deletion
    <3> QED
      BY <3>3 DEF Account, Removed
  <2> QED
    BY <2>2, <2>3, <2>4
<1>5. CASE DeleteFolio
  BY <1>5 DEF DeleteFolio, Account, Excused
<1>6. \/ UNCHANGED <<row, zipOf>>
      \/ \E e \in Exports : RecordExport(e) \/ RunSave(e)
      \/ \E d \in Deleters : DeleteRecord(d)
      \/ DeleteFolio
  BY DEF ExportsNext, PostStep, TaskStep, RunStep, ServerStep, EditStep, FolioStep, DeleteStep, PostTask,
         NameTask, StartTask, EndTask, KeepExpires, RunStart, RunLoad, RunImages, RunMove, CleanUp,
         RestartServer, KillServer, StampEdit, CommitEdit, LoadExport, Refuse, DeleteFiles,
         DeleteFolioFiles, PurgeImage
<1> QED
  BY <1>1, <1>2, <1>3, <1>4, <1>5, <1>6 DEF Account

\* What a run is about to save is saved, or the run is broken off.
LEMMA InSaveGoesOn ==
  ASSUME ExportsTypeOK, LifeInv, [ExportsNext]_exportVars, NEW z \in zips, InSave(z)
  PROVE  Account(z)'
<1>0. z.of \in Exports /\ run[z.of] = "save" /\ z.try = tries[z.of]
  BY DEF InSave, ExportsTypeOK, Zip
<1> USE <1>0 DEF exportVars, portfolio, record, work, files, history
<1>1. CASE UNCHANGED <<run, tries>>
  BY <1>1 DEF Account, InSave
<1>2. ASSUME NEW e \in Exports, RunSave(e) PROVE Account(z)'
  <2>1. CASE e = z.of
    BY <1>2, <2>1 DEF RunSave, Account, Saved, Excused, ExportsTypeOK
  <2>2. CASE e # z.of
    <3>1. run'[z.of] = "save" /\ tries' = tries
      BY <1>2, <2>2 DEF RunSave, RunGoes, Stray, ExportsTypeOK
    <3> QED
      BY <3>1 DEF Account, InSave
  <2> QED
    BY <2>1, <2>2
<1>3. ASSUME NEW e \in Exports, RunStart(e) \/ RunLoad(e) \/ RunImages(e) \/ RunMove(e) \/ EndTask(e)
      PROVE  Account(z)'
  <2>1. e # z.of
    BY <1>3 DEF RunStart, RunLoad, RunImages, RunMove, EndTask
  <2>2. run'[z.of] = "save" /\ tries'[z.of] = tries[z.of]
    BY <1>3, <2>1 DEF RunStart, RunLoad, RunImages, RunMove, EndTask, RunGoes, Stray, ExportsTypeOK
  <2> QED
    BY <2>2 DEF Account, InSave
<1>4. ASSUME NEW e \in Exports, StartTask(e) PROVE Account(z)'
  <2>1. e # z.of
    BY <1>4 DEF StartTask, LifeInv, Life
  <2> QED
    BY <1>4, <2>1 DEF StartTask, Account, InSave, ExportsTypeOK
<1>5. CASE KillServer
  BY <1>5 DEF KillServer, Account, Excused
<1>6. \/ UNCHANGED <<run, tries>>
      \/ \E e \in Exports : \/ RunSave(e) \/ RunStart(e) \/ RunLoad(e) \/ RunImages(e) \/ RunMove(e)
                             \/ StartTask(e) \/ EndTask(e)
      \/ KillServer
  BY DEF ExportsNext, PostStep, TaskStep, RunStep, ServerStep, EditStep, FolioStep, DeleteStep, RecordExport,
         PostTask, NameTask, KeepExpires, CleanUp, RestartServer, StampEdit, CommitEdit, LoadExport,
         Refuse, DeleteRecord, DeleteFiles, DeleteFolio, DeleteFolioFiles, PurgeImage
<1> QED
  BY <1>1, <1>2, <1>3, <1>4, <1>5, <1>6

LEMMA NextAccounts ==
  ASSUME ExportsTypeOK, ExportsTypeOK', LifeInv, ZipsOfExports, EveryZipIsAccountedFor, [ExportsNext]_exportVars
  PROVE  EveryZipIsAccountedFor'
<1>1. ASSUME NEW z \in zips' PROVE Account(z)'
  <2>1. CASE z \in zips
    <3>1. Account(z) /\ z.try # 0
      BY <2>1, AccountIsAll DEF ZipsOfExports
    <3>2. CASE Saved(z)
      BY <2>1, <3>1, <3>2, SavedGoesOn
    <3>3. CASE InSave(z)
      BY <2>1, <3>3, InSaveGoesOn
    <3>4. CASE Removed(z)
      BY <1>1, <2>1, <3>4, RemovalGoesOn DEF Account
    <3>5. CASE Excused(z)
      BY <1>1, <3>5, ExcusesStay DEF Account
    <3> QED
      BY <3>1, <3>2, <3>3, <3>4, <3>5 DEF Account
  <2>2. CASE z \notin zips
    <3>1. ASSUME NEW d \in Deleters PROVE ~DeleteFiles(d)
      BY <1>1, <2>2 DEF DeleteFiles, Remaining
    <3>2. ~DeleteFolioFiles
      BY <1>1 DEF DeleteFolioFiles
    <3>3. PICK e \in Exports : RunMove(e)
      BY <1>1, <2>2, <3>1, <3>2, FilesChange
    <3>4. z = [of |-> e, try |-> tries[e] + 1, has |-> copied[e]]
      BY <1>1, <2>2, <3>3 DEF RunMove
    <3>5. dir
      BY <1>1, <2>2, <3>3 DEF RunMove
    <3>6. run'[e] = "save" /\ tries'[e] = tries[e] + 1
      BY <3>3, <3>5 DEF RunMove, RunGoes, ExportsTypeOK
    <3> QED
      BY <3>4, <3>6 DEF Account, InSave
  <2> QED
    BY <2>1, <2>2
<1>2. \A z \in zips' : z.of \in Exports
  BY DEF ExportsTypeOK, Zip
<1> QED
  BY <1>1, <1>2 DEF EveryZipIsAccountedFor, Account, Saved, InSave, Removed, Excused, Present

----------------------------------------------------------------------------
(* How a run and a task end *)

LEMMA NextEnded ==
  ASSUME ExportsTypeOK, LifeInv, [ExportsNext]_exportVars, NEW x \in Exports, Ended(x)
  PROVE  Ended(x)'
<1>0. Life(x)
  BY DEF LifeInv
<1> USE <1>0 DEF exportVars, portfolio, record, work, files, history
<1>1. CASE UNCHANGED exportVars
  BY <1>1 DEF Ended
<1>2. ASSUME NEW e \in Exports, PostStep(e) PROVE Ended(x)'
  <2>1. CASE RecordExport(e)
    BY <2>1, NoRunBefore DEF RecordExport, ExportsTypeOK, Ended
  <2>2. CASE PostTask(e)
    BY <2>2 DEF PostTask, ExportsTypeOK, Ended
  <2>3. CASE NameTask(e)
    BY <2>3 DEF NameTask, Over, ExportsTypeOK, Ended
  <2> QED
    BY <1>2, <2>1, <2>2, <2>3 DEF PostStep
<1>3. ASSUME NEW e \in Exports, TaskStep(e) PROVE Ended(x)'
  <2>1. CASE StartTask(e)
    BY <2>1 DEF StartTask, ExportsTypeOK, Ended
  <2>2. CASE EndTask(e)
    BY <2>2 DEF EndTask, ExportsTypeOK, Ended
  <2>3. CASE KeepExpires(e)
    BY <2>3 DEF KeepExpires, ExportsTypeOK, Ended
  <2> QED
    BY <1>3, <2>1, <2>2, <2>3 DEF TaskStep
<1>4. ASSUME NEW e \in Exports, RunStep(e) PROVE Ended(x)'
  <2> USE DEF RunGoes, Stray
  <2>1. CASE RunStart(e)
    <3>1. row[e] # "none"
      BY <2>1, NoRunBefore DEF RunStart
    <3> QED
      BY <2>1, <3>1 DEF RunStart, Present, ExportsTypeOK, Ended
  <2>2. CASE RunLoad(e)
    BY <2>2 DEF RunLoad, ExportsTypeOK, Ended
  <2>3. CASE RunImages(e)
    BY <2>3 DEF RunImages, ExportsTypeOK, Ended
  <2>4. CASE RunMove(e)
    BY <2>4 DEF RunMove, ExportsTypeOK, Ended
  <2>5. CASE RunSave(e)
    <3>1. tries[e] # 0 /\ task[e] = "active" /\ run[e] = "save"
      BY <2>5 DEF RunSave, LifeInv, Life
    <3> QED
      BY <2>5, <3>1 DEF RunSave, Unname, ExportsTypeOK, Ended
  <2> QED
    BY <1>4, <2>1, <2>2, <2>3, <2>4, <2>5 DEF RunStep
<1>5. ASSUME NEW c \in Editors, EditStep(c) PROVE Ended(x)'
  BY <1>5 DEF EditStep, StampEdit, CommitEdit, Ended
<1>6. ASSUME NEW d \in Deleters, DeleteStep(d) PROVE Ended(x)'
  <2>1. CASE DeleteRecord(d)
    <3>1. dels[d].of \in Exports
      BY <2>1, Deleting, NotIdle DEF DeleteRecord
    <3>2. /\ task'[x] \in {task[x], "absent"} /\ row'[x] \in {row[x], "gone"}
          /\ named' \subseteq named
          /\ UNCHANGED <<run, zipOf, strayed>>
      BY <2>1, <3>1 DEF DeleteRecord, ExportsTypeOK
    <3> QED
      BY <3>2 DEF Ended
  <2>2. CASE (\E e \in Exports : LoadExport(d, e)) \/ Refuse(d) \/ DeleteFiles(d)
    BY <2>2 DEF LoadExport, Refuse, DeleteFiles, Ended
  <2> QED
    BY <1>6, <2>1, <2>2 DEF DeleteStep
<1>7. CASE ServerStep
  <2>1. CASE CleanUp \/ RestartServer
    <3>1. UNCHANGED <<record, run, strayed>>
      BY <2>1 DEF CleanUp, RestartServer
    <3> QED
      BY <2>1, <3>1, CleanUpTasks DEF Ended
  <2>2. CASE KillServer
    BY <2>2 DEF KillServer, All, Ended
  <2> QED
    BY <1>7, <2>1, <2>2 DEF ServerStep
<1>8. CASE FolioStep
  BY <1>8 DEF FolioStep, DeleteFolio, DeleteFolioFiles, PurgeImage, Present, ExportsTypeOK, Ended
<1> QED
  BY <1>1, <1>2, <1>3, <1>4, <1>5, <1>6, <1>7, <1>8 DEF ExportsNext

\* The clean-up fails for a task that a record still names.
LEMMA NextFails ==
  ASSUME ExportsTypeOK, EndInv, [ExportsNext]_exportVars
  PROVE  CleanUpFailsForStraysOnly'
<1> USE DEF exportVars, portfolio, record, work, files, history
<1>1. strayed \subseteq strayed'
  BY DEF ExportsNext, PostStep, TaskStep, RunStep, ServerStep, EditStep, FolioStep, DeleteStep, Stray,
         RecordExport, PostTask, NameTask, StartTask, EndTask, KeepExpires, RunStart, RunLoad,
         RunImages, RunMove, RunSave, CleanUp, RestartServer, KillServer, StampEdit, CommitEdit,
         LoadExport, Refuse, DeleteRecord, DeleteFiles, DeleteFolio, DeleteFolioFiles, PurgeImage
<1>2. CASE CleanUp \/ RestartServer
  <2>1. ASSUME NEW e \in Expired, Referenced(e) PROVE e \in strayed
    BY <2>1 DEF Expired, Referenced, Present, EndInv, Ended
  <2>2. server' = "failed" => \E e \in Expired : Referenced(e)
    BY <1>2 DEF CleanUp, RestartServer, DeleteCompleted
  <2> QED
    BY <1>1, <2>1, <2>2 DEF CleanUpFailsForStraysOnly
<1>3. CASE KillServer
  BY <1>3 DEF KillServer, CleanUpFailsForStraysOnly
<1>4. CASE server' = server
  BY <1>1, <1>4 DEF EndInv, CleanUpFailsForStraysOnly
<1>5. server' = server \/ CleanUp \/ RestartServer \/ KillServer
  BY DEF ExportsNext, PostStep, TaskStep, RunStep, ServerStep, EditStep, FolioStep, DeleteStep,
         RecordExport, PostTask, NameTask, StartTask, EndTask, KeepExpires, RunStart, RunLoad,
         RunImages, RunMove, RunSave, StampEdit, CommitEdit,
         LoadExport, Refuse, DeleteRecord, DeleteFiles, DeleteFolio, DeleteFolioFiles, PurgeImage
<1> QED
  BY <1>2, <1>3, <1>4, <1>5

----------------------------------------------------------------------------
(* The theorems *)

IInv == ExportsTypeOK /\ LifeInv /\ FileInv /\ ZipInv /\ EndInv

LEMMA NextInv == IInv /\ [ExportsNext]_exportVars => IInv'
<1> SUFFICES ASSUME IInv, [ExportsNext]_exportVars PROVE IInv'
  OBVIOUS
<1>1. ExportsTypeOK'
  BY NextTypes DEF IInv
<1>2. LifeInv'
  BY NextLife, NextKnown DEF IInv, LifeInv
<1>3. FileInv'
  BY NextFiles DEF IInv
<1>4. ZipInv'
  BY <1>1, NextZips, NextCurrent, NextAccounts DEF IInv, ZipInv
<1>5. EndInv'
  BY NextEnded, NextFails DEF IInv, EndInv
<1> QED
  BY <1>1, <1>2, <1>3, <1>4, <1>5 DEF IInv

\* All of the above holds of publishing, exporting, editing and deleting, with
\* kills, errors and clean-ups at any point.
THEOREM Invariant == ExportsSpec => []IInv
<1>1. ExportsInit => IInv
  BY InitTypes, InitInv DEF IInv
<1> QED
  BY <1>1, NextInv, PTL DEF ExportsSpec

\* Records, tasks, runs, files and deletions keep their types.
THEOREM ExportsTypeCorrect == ExportsSpec => []ExportsTypeOK
<1>1. IInv => ExportsTypeOK
  BY DEF IInv
<1> QED
  BY <1>1, Invariant, PTL

\* portfolio_download finds the file of every record with a filename, whatever
\* is deleted, cut off or failing, and however often a run is tried.
THEOREM VisibleZipsExist == ExportsSpec => []VisibleZipExists
<1>1. IInv => VisibleZipExists
  BY DEF IInv, FileInv
<1> QED
  BY <1>1, Invariant, PTL

\* is_outdated() tells the truth of every zip file whose export was recorded
\* while no edit was in flight, as long as no image in it is purged.
THEOREM UnflaggedZipsAreCurrent == ExportsSpec => []UnflaggedZipIsCurrent
<1>1. ASSUME IInv PROVE UnflaggedZipIsCurrent
  <2> SUFFICES ASSUME NEW z \in zips, z.of \in Present, z.of \notin outdated \cup raced \cup purged,
                      folio = "live"
               PROVE  z.has = edition
    BY DEF UnflaggedZipIsCurrent
  <2>1. z.of \in Exports /\ row[z.of] # "none"
    BY DEF Present
  <2> QED
    BY <1>1, <2>1 DEF IInv, ZipInv, Current
<1> QED
  BY <1>1, Invariant, PTL

\* No zip file is left behind but by a run that was cut off between its move
\* and its save, or by a deletion that had loaded the record too early.
THEOREM NoZipIsForgotten == ExportsSpec => []EveryZipIsAccountedFor
<1>1. IInv => EveryZipIsAccountedFor
  BY DEF IInv, ZipInv
<1> QED
  BY <1>1, Invariant, PTL

\* The clean-up stops the task server only after the run of an export ended
\* without its zip file, or before its record named the task.
THEOREM OnlyStraysStopTheServer == ExportsSpec => []CleanUpFailsForStraysOnly
<1>1. IInv => CleanUpFailsForStraysOnly
  BY DEF IInv, EndInv
<1> QED
  BY <1>1, Invariant, PTL
=============================================================================
