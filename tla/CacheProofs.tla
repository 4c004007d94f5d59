---------------------------- MODULE CacheProofs ----------------------------
(***************************************************************************)
(* Theorems about the cache and its control database, for every value of   *)
(* the constants: the objects that get, put, delete and clear handle       *)
(* (ManagedCache), and the start of the processes, which set up the control *)
(* database and the management database under the universal lock (Startup). *)
(***************************************************************************)
EXTENDS ManagedCache, Startup, FiniteSetTheorems, TLAPS

(***************************************************************************)
(*                             ManagedCache                                *)
(***************************************************************************)

\* What memcached holds has been put, so that it fits, and no slot is filled
\* that its object does not have.
Whole(h) == \A i \in Slots : h[i] # NoObject => FitsIn(h[i]) /\ i <= SlotsOf[h[i]]

\* Of the object that is being stored the chunks to do exist.
StoresChunks == \A t \in Threads :
    at[t] = "storing" => /\ object[t] \in Objects /\ FitsIn(object[t])
                         /\ todo[t] \subseteq 1..SlotsOf[object[t]]

\* A get() has the first chunk, and every other that it does not have is
\* either still to be read or was not there.
GetsChunks == \A t \in Threads :
    /\ at[t] \in {"getting", "returned"} => got[t][1] # NoObject /\ 1 \notin todo[t]
    /\ at[t] = "returned" => AllChunks(got[t])

LocalsFit ==
    /\ at \in [Threads -> Steps] /\ object \in [Threads -> Objects \cup {NoObject}]
    /\ todo \in [Threads -> SUBSET Slots] /\ got \in [Threads -> Held]
    /\ intact \in [Threads -> BOOLEAN]
    /\ (\A t \in Threads : Whole(got[t])) /\ StoresChunks /\ GetsChunks

ChunkInv == TypeOK /\ Whole(chunk) /\ LocalsFit

LEMMA FirstSlot == 1 \in Slots
BY ManagedAssumption DEF ManagedAssumption, Slots

LEMMA FitsSlots ==
  ASSUME NEW o \in Objects, FitsIn(o)
  PROVE  1..SlotsOf[o] \subseteq Slots /\ 2..SlotsOf[o] \subseteq Slots /\ 1 \in 1..SlotsOf[o]
BY ManagedAssumption DEF ManagedAssumption, FitsIn, Slots

LEMMA EmptyIsWhole == Empty \in Held /\ Whole(Empty)
BY DEF Empty, Held, Whole

\* Filling one slot with a chunk that is its object's keeps the rest as it was.
LEMMA FillSlot ==
  ASSUME NEW h \in Held, Whole(h), NEW i \in Slots, NEW o \in Objects \cup {NoObject},
         o # NoObject => FitsIn(o) /\ i <= SlotsOf[o]
  PROVE  [h EXCEPT ![i] = o] \in Held /\ Whole([h EXCEPT ![i] = o])
BY DEF Held, Whole

\* One thread moves on, with the locals given.
LEMMA LocalsInv ==
  ASSUME ChunkInv, NEW t \in Threads, NEW place \in Steps, NEW obj \in Objects \cup {NoObject},
         NEW slots \in SUBSET Slots, NEW answer \in Held, NEW ok \in BOOLEAN,
         Locals(t, place, obj, slots, answer, ok), Whole(answer),
         place = "storing" => obj \in Objects /\ FitsIn(obj) /\ slots \subseteq 1..SlotsOf[obj],
         place \in {"getting", "returned"} => answer[1] # NoObject /\ 1 \notin slots,
         place = "returned" => AllChunks(answer)
  PROVE  LocalsFit'
<1> USE DEF ChunkInv, LocalsFit, Locals
<1>1. /\ at' \in [Threads -> Steps] /\ object' \in [Threads -> Objects \cup {NoObject}]
      /\ todo' \in [Threads -> SUBSET Slots] /\ got' \in [Threads -> Held]
  OBVIOUS
<1>2. intact' \in [Threads -> BOOLEAN]
  BY Zenon
<1>3. /\ \A u \in Threads \ {t} : /\ at'[u] = at[u] /\ object'[u] = object[u]
                                  /\ todo'[u] = todo[u] /\ got'[u] = got[u]
      /\ at'[t] = place /\ object'[t] = obj /\ todo'[t] = slots /\ got'[t] = answer
  OBVIOUS
<1> HIDE DEF Locals
<1>4. \A u \in Threads : Whole(got'[u])
  BY <1>3
<1>5. StoresChunks'
  BY <1>3 DEF StoresChunks
<1>6. GetsChunks'
  BY <1>3 DEF GetsChunks
<1>7. QED
  BY <1>1, <1>2, <1>4, <1>5, <1>6

LEMMA EndInv ==
  ASSUME ChunkInv, NEW t \in Threads, End(t)
  PROVE  LocalsFit'
<1>1. "idle" \in Steps
  BY DEF Steps
<1>2. QED
  BY <1>1, EmptyIsWhole, LocalsInv DEF End

LEMMA RemovalInv ==
  ASSUME ChunkInv, NEW t \in Threads, NEW o \in Objects \cup {NoObject}, Removal(t, o)
  PROVE  LocalsFit'
<1>1. "removing" \in Steps
  BY DEF Steps
<1>2. QED
  BY <1>1, EmptyIsWhole, LocalsInv DEF Removal

LEMMA ChunkInit == Init => ChunkInv
<1> SUFFICES ASSUME Init PROVE ChunkInv
  OBVIOUS
<1>1. /\ chunk \in Held /\ recorded \in BOOLEAN
      /\ marred \in BOOLEAN /\ torn \in BOOLEAN /\ met \in [Threads -> BOOLEAN]
  BY EmptyIsWhole DEF Init
<1>2. faults \in 0..MaxFaults
  BY ManagedAssumption DEF ManagedAssumption, Init
<1>3. /\ at \in [Threads -> Steps] /\ object \in [Threads -> Objects \cup {NoObject}]
      /\ todo \in [Threads -> SUBSET Slots] /\ intact \in [Threads -> BOOLEAN]
  BY DEF Init, Steps
<1>4. got \in [Threads -> Held] /\ (\A t \in Threads : Whole(got[t])) /\ Whole(chunk)
  BY EmptyIsWhole DEF Init
<1>5. StoresChunks /\ GetsChunks
  BY DEF Init, StoresChunks, GetsChunks
<1>6. QED
  BY <1>1, <1>2, <1>3, <1>4, <1>5 DEF TypeOK, ChunkInv, LocalsFit

LEMMA FaultType == ASSUME ChunkInv, Fault PROVE faults' \in 0..MaxFaults
BY ManagedAssumption DEF ManagedAssumption, ChunkInv, TypeOK, Fault

\* What a place of a get() has in memory.
LEMMA GetRestInv ==
  ASSUME ChunkInv, NEW t \in Threads, GetRest(t) PROVE LocalsFit'
<1>1. PICK i \in todo[t] :
         LET answer == [got[t] EXCEPT ![i] = chunk[i]] IN
         IF todo[t] # {i} THEN Locals(t, "getting", NoObject, todo[t] \ {i}, answer, TRUE)
         ELSE IF AllChunks(answer) THEN Locals(t, "returned", NoObject, {}, answer, TRUE)
         ELSE Removal(t, NoObject)
  BY DEF GetRest
<1> DEFINE answer == [got[t] EXCEPT ![i] = chunk[i]]
<1>2. i \in Slots /\ todo[t] \subseteq Slots /\ chunk[i] \in Objects \cup {NoObject}
  BY DEF ChunkInv, TypeOK, Held
<1>3. answer \in Held /\ Whole(answer)
  <2>1. got[t] \in Held /\ Whole(got[t])
    BY DEF ChunkInv, LocalsFit
  <2>2. chunk[i] # NoObject => FitsIn(chunk[i]) /\ i <= SlotsOf[chunk[i]]
    BY <1>2 DEF ChunkInv, Whole
  <2>3. QED
    BY <1>2, <2>1, <2>2, FillSlot
<1>4. answer[1] # NoObject /\ i # 1
  <2>1. got[t][1] # NoObject /\ got[t] \in [Slots -> Objects \cup {NoObject}] /\ 1 \notin todo[t]
    BY DEF GetRest, ChunkInv, LocalsFit, GetsChunks, Held
  <2>2. QED
    BY <2>1
<1> HIDE DEF answer
<1>5. "getting" \in Steps /\ "returned" \in Steps
  BY DEF Steps
<1>6. CASE todo[t] # {i}
  <2>1. Locals(t, "getting", NoObject, todo[t] \ {i}, answer, TRUE)
    BY <1>1, <1>6 DEF answer
  <2>2. 1 \notin todo[t] \ {i} /\ todo[t] \ {i} \in SUBSET Slots
    BY <1>2 DEF GetRest, ChunkInv, LocalsFit, GetsChunks
  <2>3. QED
    BY <1>3, <1>4, <1>5, <2>1, <2>2, LocalsInv
<1>7. CASE todo[t] = {i} /\ AllChunks(answer)
  <2>1. Locals(t, "returned", NoObject, {}, answer, TRUE)
    BY <1>1, <1>7 DEF answer
  <2>2. QED
    BY <1>3, <1>4, <1>5, <1>7, <2>1, LocalsInv
<1>8. CASE todo[t] = {i} /\ ~AllChunks(answer)
  BY <1>1, <1>8, RemovalInv DEF answer
<1>9. QED
  BY <1>6, <1>7, <1>8

\* A put() stores a chunk, or fails to, and goes on to the next, to the record
\* or to the removal.
LEMMA StoreChunkInv ==
  ASSUME ChunkInv, NEW t \in Threads, StoreChunk(t)
  PROVE  chunk' \in Held /\ Whole(chunk') /\ faults' \in 0..MaxFaults /\ LocalsFit'
<1>1. PICK i \in todo[t], stored \in BOOLEAN :
         /\ IF stored
            THEN chunk' = [chunk EXCEPT ![i] = object[t]] /\ UNCHANGED faults
            ELSE UNCHANGED chunk /\ Fault
         /\ IF todo[t] # {i}
            THEN Locals(t, "storing", object[t], todo[t] \ {i}, Empty, intact[t] /\ stored)
            ELSE AfterStore(t, intact[t] /\ stored)
  BY DEF StoreChunk
<1>2. /\ object[t] \in Objects /\ FitsIn(object[t]) /\ todo[t] \subseteq 1..SlotsOf[object[t]]
      /\ todo[t] \subseteq Slots
  BY DEF StoreChunk, ChunkInv, LocalsFit, StoresChunks
<1>3. chunk' \in Held /\ Whole(chunk')
  <2>1. i <= SlotsOf[object[t]] /\ i \in Slots
    BY <1>2
  <2>2. chunk \in Held /\ Whole(chunk)
    BY DEF ChunkInv, TypeOK
  <2>3. [chunk EXCEPT ![i] = object[t]] \in Held /\ Whole([chunk EXCEPT ![i] = object[t]])
    BY <1>2, <2>1, <2>2, FillSlot
  <2>4. QED
    BY <1>1, <2>2, <2>3
<1>4. faults' \in 0..MaxFaults
  BY <1>1, FaultType DEF ChunkInv, TypeOK
<1>5. LocalsFit'
  <2>1. "storing" \in Steps /\ "merging" \in Steps /\ (intact[t] /\ stored) \in BOOLEAN
    BY DEF Steps
  <2>2. CASE todo[t] # {i}
    <3>1. Locals(t, "storing", object[t], todo[t] \ {i}, Empty, intact[t] /\ stored)
      BY <1>1, <2>2
    <3>2. QED
      BY <1>2, <2>1, <3>1, EmptyIsWhole, LocalsInv
  <2>3. CASE todo[t] = {i}
    <3>1. AfterStore(t, intact[t] /\ stored)
      BY <1>1, <2>3
    <3>2. Locals(t, "merging", NoObject, {}, Empty, TRUE) \/ Removal(t, object[t])
      BY <3>1 DEF AfterStore
    <3>3. QED
      BY <1>2, <2>1, <3>2, EmptyIsWhole, LocalsInv, RemovalInv
  <2>4. QED
    BY <2>2, <2>3
<1>6. QED
  BY <1>3, <1>4, <1>5

\* A removal goes on to the next chunk or to the record.
LEMMA RemovingInv ==
  ASSUME ChunkInv, NEW t \in Threads, NEW i \in todo[t], Removed(t, i)
  PROVE  LocalsFit'
<1>1. /\ todo[t] \ {i} \in SUBSET Slots /\ {"forgetting", "removing"} \subseteq Steps
      /\ object[t] \in Objects \cup {NoObject}
  BY DEF ChunkInv, LocalsFit, Steps
<1>2. \/ Locals(t, "forgetting", NoObject, {}, Empty, TRUE)
      \/ Locals(t, "removing", object[t], todo[t] \ {i}, Empty, TRUE)
  BY DEF Removed
<1>3. QED
  BY <1>1, <1>2, EmptyIsWhole, LocalsInv

LEMMA ClearedSlot ==
  ASSUME ChunkInv, NEW i \in Slots, chunk' = [chunk EXCEPT ![i] = NoObject]
  PROVE  chunk' \in Held /\ Whole(chunk')
BY FillSlot DEF ChunkInv, TypeOK

LEMMA ChunkStep == ChunkInv /\ [Next]_vars => ChunkInv'
<1> SUFFICES ASSUME ChunkInv, [Next]_vars PROVE ChunkInv'
  OBVIOUS
<1> USE DEF storage
<1>a. {"returned", "getting", "forgetting", "storing", "inserting", "flushing"} \subseteq Steps
  BY DEF Steps
<1>b. TypeOK /\ chunk \in Held /\ Whole(chunk) /\ recorded \in BOOLEAN /\ faults \in 0..MaxFaults
  BY DEF ChunkInv, TypeOK
<1>c. marred' \in BOOLEAN /\ torn' \in BOOLEAN /\ met' \in [Threads -> BOOLEAN]
  <2>1. ASSUME Meet PROVE met' \in [Threads -> BOOLEAN]
    BY <2>1, Zenon DEF Meet
  <2>2. ASSUME NEW failed, Mar(failed) PROVE marred' \in BOOLEAN
    BY <2>2, Zenon DEF Mar
  <2>3. ASSUME NEW cut, Tear(cut) PROVE torn' \in BOOLEAN
    BY <2>3, Zenon DEF Tear
  <2>4. CASE UNCHANGED vars
    BY <1>b, <2>4 DEF vars, history, TypeOK
  <2>5. CASE Next
    BY <2>1, <2>2, <2>3, <2>5 DEF Next
  <2>6. QED
    BY <2>4, <2>5
<1>d. ASSUME chunk' \in Held, Whole(chunk'), recorded' \in BOOLEAN, faults' \in 0..MaxFaults,
             LocalsFit'
      PROVE  ChunkInv'
  BY <1>c, <1>d DEF ChunkInv, TypeOK, LocalsFit
<1>1. ASSUME NEW t \in Threads, GetFirst(t) PROVE ChunkInv'
  <2> DEFINE c == chunk[1]
             answer == [Empty EXCEPT ![1] = c]
  <2>1. c \in Objects /\ FitsIn(c) /\ 1 <= SlotsOf[c]
    BY <1>1, <1>b, FirstSlot DEF GetFirst, Held, Whole
  <2>2. answer \in Held /\ Whole(answer) /\ answer[1] # NoObject
    <3>1. answer \in Held /\ Whole(answer)
      BY <2>1, EmptyIsWhole, FirstSlot, FillSlot
    <3>2. answer[1] = c
      BY FirstSlot DEF Empty
    <3>3. QED
      BY <1>1, <3>1, <3>2 DEF GetFirst
  <2>3. 2..SlotsOf[c] \in SUBSET Slots /\ 1 \notin 2..SlotsOf[c]
    BY <2>1, FitsSlots
  <2>4. SlotsOf[c] = 1 => AllChunks(answer)
    BY <2>2, FirstSlot DEF AllChunks, Empty
  <2>5. Locals(t, IF SlotsOf[c] = 1 THEN "returned" ELSE "getting", NoObject, 2..SlotsOf[c],
               answer, TRUE)
    BY <1>1 DEF GetFirst
  <2> HIDE DEF c, answer
  <2>6. LocalsFit'
    BY <1>a, <2>2, <2>3, <2>4, <2>5, LocalsInv
  <2>7. QED
    BY <1>1, <1>b, <1>d, <2>6 DEF GetFirst
<1>2. ASSUME NEW t \in Threads, MissFirst(t) \/ FailFirst(t) PROVE ChunkInv'
  <2>1. LocalsFit'
    BY <1>2, <1>a, EmptyIsWhole, LocalsInv DEF MissFirst, FailFirst
  <2>2. faults' \in 0..MaxFaults
    BY <1>2, <1>b, FaultType DEF MissFirst, FailFirst
  <2>3. QED
    BY <1>2, <1>b, <1>d, <2>1, <2>2 DEF MissFirst, FailFirst
<1>3. ASSUME NEW t \in Threads, GetRest(t) PROVE ChunkInv'
  <2>1. UNCHANGED <<storage, faults>>
    BY <1>3 DEF GetRest
  <2>2. QED
    BY <1>3, <1>b, <1>d, <2>1, GetRestInv
<1>4. ASSUME NEW t \in Threads, NEW o \in Objects, Put(t, o) PROVE ChunkInv'
  <2>1. FitsIn(o) /\ 1..SlotsOf[o] \in SUBSET Slots
    BY <1>4, FitsSlots DEF Put
  <2>2. LocalsFit'
    BY <1>4, <1>a, <2>1, EmptyIsWhole, LocalsInv DEF Put
  <2>3. QED
    BY <1>4, <1>b, <1>d, <2>2 DEF Put
<1>5. ASSUME NEW t \in Threads, StoreChunk(t) PROVE ChunkInv'
  BY <1>5, <1>b, <1>d, StoreChunkInv DEF StoreChunk
<1>6. ASSUME NEW t \in Threads, Merge(t) PROVE ChunkInv'
  <2>1. End(t) \/ Locals(t, "inserting", NoObject, {}, Empty, TRUE)
    BY <1>6 DEF Merge
  <2>3. LocalsFit'
    BY <1>a, <2>1, EmptyIsWhole, EndInv, LocalsInv
  <2>4. QED
    BY <1>6, <1>b, <1>d, <2>3 DEF Merge
<1>7. ASSUME NEW t \in Threads, Insert(t) \/ DeleteRecord(t) PROVE ChunkInv'
  BY <1>7, <1>b, <1>d, EndInv DEF Insert, DeleteRecord
<1>8. ASSUME NEW t \in Threads, Delete(t) PROVE ChunkInv'
  BY <1>8, <1>b, <1>d, RemovalInv DEF Delete
<1>9. ASSUME NEW t \in Threads, RemoveChunk(t) PROVE ChunkInv'
  <2>1. PICK i \in todo[t] : Removed(t, i) /\ chunk' = [chunk EXCEPT ![i] = NoObject]
    BY <1>9 DEF RemoveChunk
  <2>2. i \in Slots
    BY DEF ChunkInv, LocalsFit
  <2>3. QED
    BY <1>9, <1>b, <1>d, <2>1, <2>2, RemovingInv, ClearedSlot DEF RemoveChunk
<1>10. ASSUME NEW t \in Threads, RemoveFails(t) PROVE ChunkInv'
  <2>1. LocalsFit'
    BY <1>10, RemovingInv DEF RemoveFails
  <2>2. faults' \in 0..MaxFaults
    BY <1>10, FaultType DEF RemoveFails
  <2>3. QED
    BY <1>10, <1>b, <1>d, <2>1, <2>2 DEF RemoveFails
<1>11. ASSUME NEW t \in Threads, Clear(t) PROVE ChunkInv'
  <2>1. LocalsFit'
    BY <1>11, <1>a, EmptyIsWhole, LocalsInv DEF Clear
  <2>2. QED
    BY <1>11, <1>b, <1>d, <2>1 DEF Clear
<1>12. ASSUME NEW t \in Threads, Flush(t) PROVE ChunkInv'
  BY <1>12, <1>b, <1>d, EndInv, EmptyIsWhole DEF Flush
<1>13. ASSUME NEW t \in Threads, Fail(t) PROVE ChunkInv'
  <2>1. faults' \in 0..MaxFaults
    BY <1>13, FaultType DEF Fail
  <2>2. QED
    BY <1>13, <1>b, <1>d, <2>1, EndInv DEF Fail
<1>14. ASSUME UNCHANGED locals PROVE LocalsFit'
  BY <1>14 DEF locals, ChunkInv, LocalsFit, StoresChunks, GetsChunks
<1>15. CASE Evict
  <2>1. LocalsFit'
    BY <1>15, <1>14 DEF Evict
  <2>2. chunk' \in Held /\ Whole(chunk')
    BY <1>15, ClearedSlot DEF Evict
  <2>3. QED
    BY <1>15, <1>b, <1>d, <2>1, <2>2 DEF Evict
<1>16. CASE UNCHANGED vars
  BY <1>16, <1>14, <1>b, <1>d DEF vars
<1>17. QED
  BY <1>1, <1>2, <1>3, <1>4, <1>5, <1>6, <1>7, <1>8, <1>9, <1>10, <1>11, <1>12, <1>13, <1>15,
     <1>16 DEF Next, Step, FaultStep

THEOREM ChunksFit == Spec => []ChunkInv
BY ChunkInit, ChunkStep, PTL DEF Spec

\* The types hold, with any sizes of objects: nothing is ever written beyond the
\* slots that an object may have.
THEOREM TypeCorrect == Spec => []TypeOK
<1>1. ChunkInv => TypeOK
  BY DEF ChunkInv
<1>2. QED
  BY <1>1, ChunksFit, PTL

-----------------------------------------------------------------------------
(* One object *)

\* What a put() has stored so far, if nothing failed, is there or is gone.
Uniform == \A t \in Threads : Storing(t) /\ intact[t] =>
    \A i \in 1..SlotsOf[object[t]] : i \notin todo[t] => chunk[i] \in {object[t], NoObject}

Alike == \A t, u \in Threads : Storing(t) /\ Storing(u) => object[t] = object[u]

\* A get() of now would join chunk j to the first, and they do not belong together.
Mixed(j) == chunk[1] # NoObject /\ chunk[j] \notin {chunk[1], NoObject} /\ j <= SlotsOf[chunk[1]]

\* When nobody stores, such chunks are about to be removed by a put() that failed.
Cleaned == (\A t \in Threads : ~Storing(t)) =>
    \A j \in Slots : Mixed(j) =>
        \E k \in Threads : /\ at[k] = "removing" /\ object[k] # NoObject
                           /\ 1 \in todo[k] \/ j \in todo[k]

\* A get() that has met nothing has chunks of one object, and will find no others.
Reads(u) == ~met[u] =>
    /\ at[u] \in {"getting", "returned"} =>
         \A i \in Slots : got[u][i] \in {got[u][1], NoObject}
    /\ at[u] = "getting" =>
         /\ (\E w \in Threads : Writing(w)) => Around \subseteq {got[u][1]}
         /\ \A i \in todo[u] : chunk[i] \in {got[u][1], NoObject}

Unmixed == Uniform /\ Alike /\ Cleaned
MixInv == (~torn => Unmixed) /\ \A u \in Threads : Reads(u)

\* Thread u does nothing.
Still(u) == /\ at'[u] = at[u] /\ object'[u] = object[u] /\ todo'[u] = todo[u]
            /\ got'[u] = got[u] /\ intact'[u] = intact[u]

\* What a step of t may do to the cache: remove chunks, or store one.
Touches(t) == \A i \in Slots :
    chunk'[i] \in {chunk[i], NoObject} \/ (Storing(t) /\ chunk'[i] = object[t])

LEMMA LocalsStill ==
  ASSUME ChunkInv, NEW t \in Threads, NEW place, NEW obj, NEW slots, NEW answer, NEW ok,
         Locals(t, place, obj, slots, answer, ok)
  PROVE  /\ at'[t] = place /\ object'[t] = obj /\ todo'[t] = slots /\ got'[t] = answer
         /\ \A u \in Threads \ {t} : Still(u)
<1>1. /\ at'[t] = place /\ object'[t] = obj /\ todo'[t] = slots /\ got'[t] = answer
      /\ \A u \in Threads \ {t} : /\ at'[u] = at[u] /\ object'[u] = object[u]
                                  /\ todo'[u] = todo[u] /\ got'[u] = got[u]
  BY DEF ChunkInv, LocalsFit, Locals
<1>2. \A u \in Threads \ {t} : intact'[u] = intact[u]
  BY Zenon DEF ChunkInv, LocalsFit, Locals
<1>3. QED
  BY <1>1, <1>2 DEF Still

\* Thread t comes to a place, with some locals; with no object to store.
Becomes(t, place) == \E obj, slots, answer, ok : Locals(t, place, obj, slots, answer, ok)
Settles(t, place) == \E slots, answer, ok : Locals(t, place, NoObject, slots, answer, ok)

LEMMA BecomesStill ==
  ASSUME ChunkInv, NEW t \in Threads, NEW place, Becomes(t, place)
  PROVE  at'[t] = place /\ \A u \in Threads \ {t} : Still(u)
<1>1. PICK obj, slots, answer, ok : Locals(t, place, obj, slots, answer, ok)
  BY DEF Becomes
<1>2. QED
  BY <1>1, LocalsStill

LEMMA SettlesStill ==
  ASSUME ChunkInv, NEW t \in Threads, NEW place, Settles(t, place)
  PROVE  at'[t] = place /\ object'[t] = NoObject /\ \A u \in Threads \ {t} : Still(u)
<1>1. PICK slots, answer, ok : Locals(t, place, NoObject, slots, answer, ok)
  BY DEF Settles
<1>2. QED
  BY <1>1, LocalsStill

LEMMA TornFacts ==
  ASSUME NEW cut, Tear(cut), ~torn', ~Gone' PROVE ~torn /\ ~Contended' /\ ~cut
BY DEF Tear

LEMMA MeetFacts ==
  ASSUME Meet, NEW u \in Threads, ~met'[u]
  PROVE  /\ at'[u] = at[u] \/ at'[u] = "returned" => ~met[u]
         /\ at'[u] = "getting" => ~torn' /\ ~Overwritten(got[u][1])'
BY Zenon DEF Meet

\* With nothing that get() can see and no writer, nothing is mixed.
LEMMA GoneIsUnmixed == ASSUME Gone PROVE Unmixed
BY DEF Gone, Writing, Unmixed, Uniform, Alike, Cleaned, Mixed

\* Of Reads(u), what does not depend on the history.
LEMMA ReadsAgain ==
  ASSUME NEW u \in Threads, Meet,
         ~met'[u] /\ at'[u] \in {"getting", "returned"} =>
             \A i \in Slots : got'[u][i] \in {got'[u][1], NoObject},
         ~met'[u] /\ at'[u] = "getting" => \A i \in todo'[u] : chunk'[i] \in {got'[u][1], NoObject}
  PROVE  Reads(u)'
<1>1. ASSUME ~met'[u], at'[u] = "getting", \E w \in Threads : Writing(w)'
      PROVE  Around' \subseteq {got'[u][1]}
  BY <1>1, MeetFacts DEF Overwritten
<1>2. QED
  BY <1>1 DEF Reads

\* The get() of a thread that does nothing is disturbed by no step that it does
\* not meet.
LEMMA OthersRead ==
  ASSUME ChunkInv, MixInv, NEW u \in Threads, NEW t \in Threads, Still(u), Touches(t), Meet
  PROVE  Reads(u)'
<1>1. ~met'[u] => ~met[u]
  BY MeetFacts DEF Still
<1>2. todo[u] \subseteq Slots
  BY DEF ChunkInv, LocalsFit
<1>3. ASSUME ~met'[u], at[u] = "getting", NEW i \in todo[u]
      PROVE  chunk'[i] \in {got[u][1], NoObject}
  <2>1. chunk[i] \in {got[u][1], NoObject}
    BY <1>1, <1>3 DEF MixInv, Reads
  <2>2. CASE Storing(t) /\ chunk'[i] = object[t]
    <3>1. Around \subseteq {got[u][1]}
      BY <1>1, <1>3, <2>2 DEF MixInv, Reads, Writing
    <3>2. object[t] \in Around
      BY <2>2 DEF Around
    <3>3. QED
      BY <2>2, <3>1, <3>2
  <2>3. QED
    BY <1>2, <2>1, <2>2 DEF Touches
<1>4. QED
  BY <1>1, <1>3, ReadsAgain DEF Still, MixInv, Reads

\* What is stored remains uniform: the others, if any, store the same object.
LEMMA OthersStore ==
  ASSUME ChunkInv, Uniform, Alike, NEW t \in Threads, Touches(t),
         \A u \in Threads \ {t} : Still(u),
         Storing(t)' /\ intact'[t] =>
            \A i \in 1..SlotsOf[object'[t]] : i \notin todo'[t] => chunk'[i] \in {object'[t], NoObject}
  PROVE  Uniform'
<1>1. ASSUME NEW u \in Threads \ {t}, Storing(u), intact[u], NEW i \in 1..SlotsOf[object[u]],
             i \notin todo[u]
      PROVE  chunk'[i] \in {object[u], NoObject}
  <2>1. chunk[i] \in {object[u], NoObject}
    BY <1>1 DEF Uniform
  <2>2. Storing(t) => object[t] = object[u]
    BY <1>1 DEF Alike
  <2>3. i \in Slots
    <3>1. object[u] \in Objects /\ FitsIn(object[u])
      BY <1>1 DEF ChunkInv, LocalsFit, StoresChunks, Storing
    <3>2. QED
      BY <1>1, <3>1, FitsSlots
  <2>4. QED
    BY <2>1, <2>2, <2>3 DEF Touches
<1>2. ASSUME NEW u \in Threads, Storing(u)', intact'[u], NEW i \in 1..SlotsOf[object'[u]],
             i \notin todo'[u]
      PROVE  chunk'[i] \in {object'[u], NoObject}
  <2>1. CASE u = t
    BY <1>2, <2>1
  <2>2. CASE u # t
    BY <1>1, <1>2, <2>2 DEF Still, Storing
  <2>3. QED
    BY <2>1, <2>2
<1>3. QED
  BY <1>2 DEF Uniform

\* A pair of chunks that do not belong together was so before, unless one is stored.
LEMMA MixedBefore ==
  ASSUME ChunkInv, NEW t \in Threads, Touches(t), ~Storing(t), NEW j \in Slots, Mixed(j)'
  PROVE  Mixed(j) /\ chunk'[1] = chunk[1] /\ chunk'[j] = chunk[j]
<1>1. /\ chunk'[1] # NoObject /\ chunk'[j] # NoObject
  BY DEF Mixed
<1>2. chunk'[1] = chunk[1] /\ chunk'[j] = chunk[j]
  BY <1>1, FirstSlot DEF Touches
<1>3. QED
  BY <1>2 DEF Mixed

\* With a writer whose objects are all the same there is no such pair.
LEMMA NotReplacing ==
  ASSUME NEW t \in Threads, Writing(t), ~Replacing(t), NEW j \in Slots PROVE ~Mixed(j)
<1>1. SUFFICES ASSUME Mixed(j) PROVE FALSE
  OBVIOUS
<1>2. chunk[1] \in Around /\ chunk[j] \in Around /\ chunk[1] # chunk[j]
  BY <1>1, FirstSlot DEF Mixed, Around
<1>3. QED
  BY <1>2 DEF Replacing

\* A step of a thread that is writing neither before nor after it, and that is in
\* no get() after it: it may remove chunks.
LEMMA QuietKeepsMixInv ==
  ASSUME ChunkInv, MixInv, NEW t \in Threads, ~Writing(t), ~Writing(t)', Touches(t),
         at'[t] \notin {"getting", "returned"}, \A u \in Threads \ {t} : Still(u),
         NEW cut, Tear(cut), Meet
  PROVE  MixInv'
<1>1. \A u \in Threads : Reads(u)'
  BY OthersRead, ReadsAgain
<1>2. ASSUME ~torn', ~Gone' PROVE Unmixed'
  <2>1. Unmixed /\ ~Contended'
    BY <1>2, TornFacts DEF MixInv
  <2>2. Uniform'
    BY <2>1, OthersStore DEF Unmixed, Writing
  <2>3. Alike'
    BY <2>1 DEF Alike, Contended
  <2>4. ASSUME \A u \in Threads : ~Storing(u)', NEW j \in Slots, Mixed(j)'
        PROVE  \E k \in Threads : /\ at'[k] = "removing" /\ object'[k] # NoObject
                                  /\ 1 \in todo'[k] \/ j \in todo'[k]
    <3>1. \A u \in Threads : ~Storing(u)
      BY <2>4 DEF Still, Storing, Writing
    <3>2. Mixed(j)
      BY <2>4, <3>1, MixedBefore
    <3>3. PICK k \in Threads : /\ at[k] = "removing" /\ object[k] # NoObject
                               /\ 1 \in todo[k] \/ j \in todo[k]
      BY <2>1, <3>1, <3>2 DEF Unmixed, Cleaned
    <3>4. k # t
      BY <3>3 DEF Writing
    <3>5. QED
      BY <3>3, <3>4 DEF Still
  <2>5. QED
    BY <2>2, <2>3, <2>4 DEF Unmixed, Cleaned
<1>3. Gone' => Unmixed'
  BY GoneIsUnmixed DEF Gone, Writing, Unmixed, Uniform, Alike, Cleaned, Mixed
<1>4. QED
  BY <1>1, <1>2, <1>3 DEF MixInv

\* A step that changes nothing in the cache, nor the writing of any thread.
LEMMA UnmixedByStill ==
  ASSUME ChunkInv, MixInv, NEW t \in Threads, ~Writing(t), ~Writing(t)', chunk' = chunk,
         \A u \in Threads \ {t} : Still(u), Tear(FALSE), ~torn', ~Gone'
  PROVE  Unmixed'
<1>1. Unmixed /\ ~Contended'
  BY TornFacts DEF MixInv
<1>2. Touches(t)
  BY DEF Touches
<1>3. Uniform'
  BY <1>1, <1>2, OthersStore DEF Unmixed, Writing
<1>4. Alike'
  BY <1>1 DEF Alike, Contended
<1>5. ASSUME \A u \in Threads : ~Storing(u)', NEW j \in Slots, Mixed(j)'
      PROVE  \E k \in Threads : /\ at'[k] = "removing" /\ object'[k] # NoObject
                                /\ 1 \in todo'[k] \/ j \in todo'[k]
  <2>1. (\A u \in Threads : ~Storing(u)) /\ Mixed(j)
    BY <1>5 DEF Still, Storing, Writing, Mixed
  <2>2. PICK k \in Threads : /\ at[k] = "removing" /\ object[k] # NoObject
                             /\ 1 \in todo[k] \/ j \in todo[k]
    BY <1>1, <2>1 DEF Unmixed, Cleaned
  <2>3. k # t
    BY <2>2 DEF Writing
  <2>4. QED
    BY <2>2, <2>3 DEF Still
<1>6. QED
  BY <1>3, <1>4, <1>5 DEF Unmixed, Cleaned

\* A get() reads its first chunk.
LEMMA GetFirstKeepsMixInv ==
  ASSUME ChunkInv, MixInv, NEW t \in Threads, GetFirst(t), Tear(FALSE), Meet
  PROVE  MixInv'
<1> DEFINE c == chunk[1]
           answer == [Empty EXCEPT ![1] = c]
<1>1. /\ at'[t] = (IF SlotsOf[c] = 1 THEN "returned" ELSE "getting")
      /\ todo'[t] = 2..SlotsOf[c] /\ got'[t] = answer
      /\ \A u \in Threads \ {t} : Still(u)
  <2> DEFINE place == IF SlotsOf[c] = 1 THEN "returned" ELSE "getting"
             rest == 2..SlotsOf[c]
  <2>1. Locals(t, place, NoObject, rest, answer, TRUE)
    BY DEF GetFirst
  <2> HIDE DEF answer, place, rest
  <2>2. /\ at'[t] = place /\ todo'[t] = rest /\ got'[t] = answer
        /\ \A u \in Threads \ {t} : Still(u)
    BY <2>1, LocalsStill
  <2>3. QED
    BY <2>2 DEF place, rest
<1>2. chunk' = chunk /\ c # NoObject /\ Touches(t)
  BY DEF GetFirst, storage, Touches
<1>3. answer[1] = c /\ \A i \in Slots : answer[i] \in {c, NoObject}
  BY FirstSlot DEF Empty
<1> HIDE DEF answer
<1>4. ~Writing(t) /\ ~Writing(t)'
  BY <1>1 DEF GetFirst, Free, Writing, Storing
<1>5. \A u \in Threads : Writing(u)' <=> Writing(u)
  BY <1>1, <1>4 DEF Still, Writing, Storing
<1>6. ~Gone'
  BY <1>2 DEF Gone
\* Nobody writes: what is in the cache belongs together.
<1>7. ASSUME ~torn', \A u \in Threads : ~Writing(u), NEW i \in 2..SlotsOf[c]
      PROVE  chunk[i] \in {c, NoObject}
  <2>1. Unmixed
    BY <1>6, <1>7, TornFacts DEF MixInv
  <2>2. c \in Objects /\ FitsIn(c)
    BY <1>2, FirstSlot DEF ChunkInv, TypeOK, Held, Whole
  <2>3. i \in Slots /\ i <= SlotsOf[c]
    BY <1>7, <2>2, FitsSlots, ManagedAssumption DEF ManagedAssumption
  <2>4. ~Mixed(i)
    BY <1>7, <2>1, <2>3 DEF Unmixed, Cleaned, Writing
  <2>5. QED
    BY <1>2, <2>3, <2>4 DEF Mixed
<1>8. ASSUME ~met'[t], at'[t] = "getting", NEW i \in todo'[t]
      PROVE  chunk'[i] \in {got'[t][1], NoObject}
  <2>1. ~torn' /\ ~Overwritten(got[t][1])'
    BY <1>8, MeetFacts
  <2>2. i \in 2..SlotsOf[c]
    BY <1>1, <1>8
  <2>3. CASE \A u \in Threads : ~Writing(u)
    BY <1>1, <1>2, <1>3, <1>7, <2>1, <2>2, <2>3
  <2>4. CASE \E u \in Threads : Writing(u)
    <3>1. Around' \subseteq {c}
      BY <1>1, <1>3, <1>5, <2>1, <2>4 DEF Overwritten
    <3>2. i \in Slots
      <4>1. c \in Objects /\ FitsIn(c)
        BY <1>2, FirstSlot DEF ChunkInv, TypeOK, Held, Whole
      <4>2. QED
        BY <2>2, <4>1, FitsSlots
    <3>3. chunk'[i] # NoObject => chunk'[i] \in Around'
      BY <3>2 DEF Around
    <3>4. QED
      BY <1>1, <1>3, <3>1, <3>3
  <2>5. QED
    BY <2>3, <2>4
<1>9. \A u \in Threads : Reads(u)'
  <2>1. Reads(t)'
    BY <1>1, <1>3, <1>8, ReadsAgain
  <2>2. QED
    BY <1>1, <1>2, <2>1, OthersRead
<1>10. ASSUME ~torn' PROVE Unmixed'
  BY <1>1, <1>2, <1>4, <1>6, <1>10, UnmixedByStill
<1>11. QED
  BY <1>9, <1>10 DEF MixInv

\* A get() reads another chunk.
LEMMA GetRestKeepsMixInv ==
  ASSUME ChunkInv, MixInv, NEW t \in Threads, GetRest(t), Tear(FALSE), Meet
  PROVE  MixInv'
<1>1. PICK i \in todo[t] :
         LET answer == [got[t] EXCEPT ![i] = chunk[i]] IN
         IF todo[t] # {i} THEN Locals(t, "getting", NoObject, todo[t] \ {i}, answer, TRUE)
         ELSE IF AllChunks(answer) THEN Locals(t, "returned", NoObject, {}, answer, TRUE)
         ELSE Removal(t, NoObject)
  BY DEF GetRest
<1> DEFINE answer == [got[t] EXCEPT ![i] = chunk[i]]
<1>2. \/ Removal(t, NoObject)
      \/ \E place \in {"getting", "returned"} :
            Locals(t, place, NoObject, todo[t] \ {i}, answer, TRUE)
  BY <1>1
<1>3. /\ at[t] = "getting" /\ chunk' = chunk /\ Touches(t) /\ ~Writing(t)
  BY DEF GetRest, storage, Touches, Writing, Storing
<1>4. CASE Removal(t, NoObject)
  <2>1. /\ at'[t] = "removing" /\ object'[t] = NoObject
        /\ \A u \in Threads \ {t} : Still(u)
    BY <1>4, LocalsStill DEF Removal
  <2>2. ~Writing(t)'
    BY <2>1 DEF Writing, Storing
  <2>3. QED
    BY <1>3, <2>1, <2>2, QuietKeepsMixInv
<1>5. CASE \E place \in {"getting", "returned"} :
              Locals(t, place, NoObject, todo[t] \ {i}, answer, TRUE)
  <2>1. /\ at'[t] \in {"getting", "returned"} /\ todo'[t] = todo[t] \ {i} /\ got'[t] = answer
        /\ \A u \in Threads \ {t} : Still(u)
    <3> HIDE DEF answer
    <3>1. PICK place \in {"getting", "returned"} :
             Locals(t, place, NoObject, todo[t] \ {i}, answer, TRUE)
      BY <1>5
    <3>2. /\ at'[t] = place /\ todo'[t] = todo[t] \ {i} /\ got'[t] = answer
          /\ \A u \in Threads \ {t} : Still(u)
      BY <3>1, LocalsStill
    <3>3. QED
      BY <3>2
  <2>2. got[t] \in [Slots -> Objects \cup {NoObject}] /\ i \in Slots /\ i # 1
    BY <1>3 DEF ChunkInv, LocalsFit, GetsChunks, Held
  <2>3. ASSUME ~met'[t]
        PROVE  /\ \A j \in Slots : got'[t][j] \in {got'[t][1], NoObject}
               /\ \A j \in todo'[t] : chunk'[j] \in {got'[t][1], NoObject}
    <3>1. ~met[t]
      BY <1>3, <2>1, <2>3, MeetFacts
    <3>2. /\ \A j \in Slots : got[t][j] \in {got[t][1], NoObject}
          /\ \A j \in todo[t] : chunk[j] \in {got[t][1], NoObject}
      BY <1>3, <3>1 DEF MixInv, Reads
    <3>3. got'[t][1] = got[t][1] /\ \A j \in Slots : got'[t][j] \in {got[t][j], chunk[i]}
      BY <2>1, <2>2, FirstSlot
    <3>4. QED
      BY <1>3, <2>1, <3>2, <3>3
  <2>4. \A u \in Threads : Reads(u)'
    <3>1. Reads(t)'
      BY <2>3, ReadsAgain
    <3>2. QED
      BY <1>3, <2>1, <3>1, OthersRead
  <2>5. ~Writing(t)'
    BY <2>1 DEF Writing, Storing
  <2>6. ASSUME ~torn' PROVE Unmixed'
    <3>1. CASE Gone'
      BY <3>1, GoneIsUnmixed DEF Gone, Writing, Unmixed, Uniform, Alike, Cleaned, Mixed
    <3>2. CASE ~Gone'
      BY <1>3, <2>1, <2>5, <2>6, <3>2, UnmixedByStill
    <3>3. QED
      BY <3>1, <3>2
  <2>7. QED
    BY <2>4, <2>6 DEF MixInv
<1>6. QED
  BY <1>2, <1>4, <1>5

\* put() begins: another writer of the same object at most.
LEMMA PutKeepsMixInv ==
  ASSUME ChunkInv, MixInv, NEW t \in Threads, NEW o \in Objects, Put(t, o), Tear(FALSE), Meet
  PROVE  MixInv'
<1>1. /\ at'[t] = "storing" /\ object'[t] = o /\ todo'[t] = 1..SlotsOf[o]
      /\ \A u \in Threads \ {t} : Still(u)
  BY LocalsStill DEF Put
<1>2. chunk' = chunk /\ Touches(t)
  BY DEF Put, storage, Touches
<1>3. \A u \in Threads : Reads(u)'
  BY <1>1, <1>2, OthersRead, ReadsAgain
<1>4. Storing(t)' /\ ~Gone'
  BY <1>1 DEF Gone, Writing, Storing
<1>5. ASSUME ~torn' PROVE Unmixed'
  <2>1. Unmixed /\ ~Contended'
    BY <1>4, <1>5, TornFacts DEF MixInv
  <2>2. Uniform'
    BY <1>1, <1>2, <2>1, OthersStore DEF Unmixed
  <2>3. QED
    BY <1>4, <2>1, <2>2 DEF Unmixed, Alike, Contended, Cleaned
<1>6. QED
  BY <1>3, <1>5 DEF MixInv

\* put() stores a chunk or fails to; after the last the chunks are all its
\* object's, or will be removed.
LEMMA StoreChunkKeepsMixInv ==
  ASSUME ChunkInv, MixInv, NEW t \in Threads, StoreChunk(t), Tear(FALSE), Meet
  PROVE  MixInv'
<1>1. PICK i \in todo[t], stored \in BOOLEAN :
         /\ IF stored
            THEN chunk' = [chunk EXCEPT ![i] = object[t]] /\ UNCHANGED faults
            ELSE UNCHANGED chunk /\ Fault
         /\ IF todo[t] # {i}
            THEN Locals(t, "storing", object[t], todo[t] \ {i}, Empty, intact[t] /\ stored)
            ELSE AfterStore(t, intact[t] /\ stored)
  BY DEF StoreChunk
<1> DEFINE o == object[t]
           ok == intact[t] /\ stored
<1>2. /\ o \in Objects /\ FitsIn(o) /\ i \in 1..SlotsOf[o] /\ i \in Slots /\ Storing(t)
      /\ 1..SlotsOf[o] \subseteq Slots
  <2>1. o \in Objects /\ FitsIn(o) /\ todo[t] \subseteq 1..SlotsOf[o] /\ Storing(t)
    BY DEF StoreChunk, ChunkInv, LocalsFit, StoresChunks, Storing
  <2>2. QED
    BY <2>1, FitsSlots
<1>3. /\ \A j \in Slots : j # i => chunk'[j] = chunk[j]
      /\ chunk'[i] = IF stored THEN o ELSE chunk[i]
  BY <1>1, <1>2 DEF ChunkInv, TypeOK, Held
<1>4. Touches(t)
  BY <1>2, <1>3 DEF Touches
<1>5. \/ todo[t] # {i} /\ Locals(t, "storing", o, todo[t] \ {i}, Empty, ok)
      \/ todo[t] = {i} /\ ok /\ Locals(t, "merging", NoObject, {}, Empty, TRUE)
      \/ todo[t] = {i} /\ Locals(t, "removing", o, Slots, Empty, TRUE)
  BY <1>1 DEF AfterStore, Removal
<1>6. /\ at'[t] \notin {"getting", "returned"}
      /\ \A u \in Threads \ {t} : Still(u)
  <2> HIDE DEF o, ok
  <2>1. Becomes(t, "storing") \/ Becomes(t, "merging") \/ Becomes(t, "removing")
    BY <1>5 DEF Becomes
  <2>2. /\ at'[t] \in {"storing", "merging", "removing"}
        /\ \A u \in Threads \ {t} : Still(u)
    BY <2>1, BecomesStill
  <2>3. QED
    BY <2>2
<1>7. \A u \in Threads : Reads(u)'
  BY <1>4, <1>6, OthersRead, ReadsAgain
<1>8. ASSUME Unmixed, intact[t], stored, NEW j \in 1..SlotsOf[o], j = i \/ j \notin todo[t]
      PROVE  chunk'[j] \in {o, NoObject}
  BY <1>2, <1>3, <1>8 DEF Unmixed, Uniform
<1>9. ASSUME ~torn', ~Gone' PROVE Unmixed'
  <2>1. Unmixed /\ ~Contended'
    BY <1>9, TornFacts DEF MixInv
  <2>2. Alike'
    BY <2>1 DEF Alike, Contended
  <2>3. CASE todo[t] # {i} /\ Locals(t, "storing", o, todo[t] \ {i}, Empty, ok)
    <3>1. /\ at'[t] = "storing" /\ object'[t] = o /\ todo'[t] = todo[t] \ {i}
      BY <2>3, LocalsStill
    <3>2. intact'[t] => intact[t] /\ stored
      BY <2>3, Zenon DEF Locals, ChunkInv, LocalsFit
    <3>3. Uniform'
      BY <1>4, <1>6, <1>8, <2>1, <3>1, <3>2, OthersStore DEF Unmixed
    <3>4. Storing(t)'
      BY <3>1 DEF Storing
    <3>5. QED
      BY <2>2, <3>3, <3>4 DEF Unmixed, Cleaned
  <2>4. CASE todo[t] = {i} /\ ok /\ Locals(t, "merging", NoObject, {}, Empty, TRUE)
    <3>1. at'[t] = "merging"
      BY <2>4, LocalsStill
    <3>2. Uniform'
      BY <1>4, <1>6, <2>1, <3>1, OthersStore DEF Unmixed, Storing
    <3>3. \A j \in 1..SlotsOf[o] : chunk'[j] \in {o, NoObject}
      BY <1>8, <2>1, <2>4
    <3>4. \A j \in Slots : ~Mixed(j)'
      <4>1. SUFFICES ASSUME NEW j \in Slots, Mixed(j)' PROVE FALSE
        OBVIOUS
      <4>2. chunk'[1] = o
        BY <1>2, <3>3, <4>1, FitsSlots DEF Mixed
      <4>3. j \in 1..SlotsOf[o]
        BY <1>2, <4>1, <4>2, ManagedAssumption DEF Mixed, Slots, ManagedAssumption
      <4>4. QED
        BY <3>3, <4>1, <4>2, <4>3 DEF Mixed
    <3>5. QED
      BY <2>2, <3>2, <3>4 DEF Unmixed, Cleaned
  <2>5. CASE todo[t] = {i} /\ Locals(t, "removing", o, Slots, Empty, TRUE)
    <3>1. at'[t] = "removing" /\ object'[t] = o /\ todo'[t] = Slots
      BY <2>5, LocalsStill
    <3>2. Uniform'
      BY <1>4, <1>6, <2>1, <3>1, OthersStore DEF Unmixed, Storing
    <3>3. 1 \in todo'[t] /\ object'[t] # NoObject
      BY <1>2, <3>1, FirstSlot, ManagedAssumption DEF ManagedAssumption
    <3>4. QED
      BY <2>2, <3>1, <3>2, <3>3 DEF Unmixed, Cleaned
  <2>6. QED
    BY <1>5, <2>3, <2>4, <2>5
<1>10. Gone' => Unmixed'
  BY GoneIsUnmixed DEF Gone, Writing, Unmixed, Uniform, Alike, Cleaned, Mixed
<1>11. QED
  BY <1>7, <1>9, <1>10 DEF MixInv

\* A put() that failed removes what it may have left, chunk by chunk.
LEMMA RemovingKeepsMixInv ==
  ASSUME ChunkInv, MixInv, NEW t \in Threads, RemoveChunk(t), Tear(FALSE), Meet
  PROVE  MixInv'
<1>1. PICK i \in todo[t] : Removed(t, i) /\ chunk' = [chunk EXCEPT ![i] = NoObject]
  BY DEF RemoveChunk
<1>2. /\ i \in Slots /\ chunk'[i] = NoObject
      /\ \A j \in Slots : j # i => chunk'[j] = chunk[j]
  BY <1>1 DEF ChunkInv, LocalsFit, TypeOK, Held
<1>3. Touches(t) /\ ~Storing(t) /\ at[t] = "removing"
  BY <1>2 DEF Touches, RemoveChunk, Storing
<1>4. /\ \/ todo[t] = {i} /\ at'[t] = "forgetting"
         \/ at'[t] = "removing" /\ object'[t] = object[t] /\ todo'[t] = todo[t] \ {i}
      /\ \A u \in Threads \ {t} : Still(u)
  <2>1. CASE todo[t] = {i} /\ Locals(t, "forgetting", NoObject, {}, Empty, TRUE)
    BY <2>1, LocalsStill
  <2>2. CASE todo[t] # {i} /\ Locals(t, "removing", object[t], todo[t] \ {i}, Empty, TRUE)
    BY <2>2, LocalsStill
  <2>3. QED
    BY <1>1, <2>1, <2>2 DEF Removed
<1>5. at'[t] \notin {"getting", "returned", "storing"}
  BY <1>4
<1>6. \A u \in Threads : Reads(u)'
  BY <1>3, <1>4, <1>5, OthersRead, ReadsAgain
<1>7. ASSUME ~torn', ~Gone' PROVE Unmixed'
  <2>1. Unmixed /\ ~Contended'
    BY <1>7, TornFacts DEF MixInv
  <2>2. Uniform'
    BY <1>3, <1>4, <1>5, <2>1, OthersStore DEF Unmixed, Storing
  <2>3. Alike'
    BY <2>1 DEF Alike, Contended
  <2>4. ASSUME \A u \in Threads : ~Storing(u)', NEW j \in Slots, Mixed(j)'
        PROVE  \E k \in Threads : /\ at'[k] = "removing" /\ object'[k] # NoObject
                                  /\ 1 \in todo'[k] \/ j \in todo'[k]
    <3>1. \A u \in Threads : ~Storing(u)
      BY <1>3, <1>4, <2>4 DEF Still, Storing
    <3>2. Mixed(j)
      BY <1>3, <2>4, MixedBefore
    <3>3. PICK k \in Threads : /\ at[k] = "removing" /\ object[k] # NoObject
                               /\ 1 \in todo[k] \/ j \in todo[k]
      BY <2>1, <3>1, <3>2 DEF Unmixed, Cleaned
    <3>4. i # 1 /\ i # j
      BY <1>2, <2>4 DEF Mixed
    <3>5. CASE k # t
      BY <1>4, <3>3, <3>5 DEF Still
    <3>6. CASE k = t
      BY <1>4, <3>3, <3>4, <3>6
    <3>7. QED
      BY <3>5, <3>6
  <2>5. QED
    BY <2>2, <2>3, <2>4 DEF Unmixed, Cleaned
<1>8. Gone' => Unmixed'
  BY GoneIsUnmixed DEF Gone, Writing, Unmixed, Uniform, Alike, Cleaned, Mixed
<1>9. QED
  BY <1>6, <1>7, <1>8 DEF MixInv

\* A writer that is cut short, or cannot remove a chunk, leaves no mix unless it
\* was about to replace another object.
LEMMA CutKeepsMixInv ==
  ASSUME ChunkInv, MixInv, NEW t \in Threads, Writing(t), chunk' = chunk,
         at'[t] \notin {"getting", "returned", "storing"}, \A u \in Threads \ {t} : Still(u),
         Tear(Replacing(t)), Meet
  PROVE  MixInv'
<1>1. Touches(t)
  BY DEF Touches
<1>2. \A u \in Threads : Reads(u)'
  BY <1>1, OthersRead, ReadsAgain
<1>3. ASSUME ~torn', ~Gone' PROVE Unmixed'
  <2>1. Unmixed /\ ~Contended' /\ ~Replacing(t)
    BY <1>3, TornFacts DEF MixInv
  <2>2. Uniform'
    BY <1>1, <2>1, OthersStore DEF Unmixed, Storing
  <2>3. Alike'
    BY <2>1 DEF Alike, Contended
  <2>4. \A j \in Slots : ~Mixed(j)'
    BY <2>1, NotReplacing DEF Mixed
  <2>5. QED
    BY <2>2, <2>3, <2>4 DEF Unmixed, Cleaned
<1>4. Gone' => Unmixed'
  BY GoneIsUnmixed DEF Gone, Writing, Unmixed, Uniform, Alike, Cleaned, Mixed
<1>5. QED
  BY <1>2, <1>3, <1>4 DEF MixInv

\* Steps in which no put() takes part.
LEMMA OthersKeepMixInv ==
  ASSUME ChunkInv, MixInv, NEW t \in Threads, NEW cut, Tear(cut), Meet,
         \/ MissFirst(t) \/ FailFirst(t) \/ Merge(t) \/ Insert(t) \/ Delete(t)
         \/ DeleteRecord(t) \/ Clear(t) \/ Flush(t) \/ (Fail(t) /\ ~Writing(t))
         \/ (RemoveFails(t) /\ ~Writing(t))
  PROVE  MixInv'
<1>1. ~Writing(t)
  BY DEF MissFirst, FailFirst, Merge, Insert, Delete, DeleteRecord, Clear, Flush, Free,
         Writing, Storing
<1>2. \E place \in {"forgetting", "idle", "inserting", "removing", "flushing"} : Settles(t, place)
  <2>1. CASE RemoveFails(t) /\ ~Writing(t)
    <3>1. object[t] = NoObject
      BY <2>1 DEF RemoveFails, Writing
    <3>2. PICK i \in todo[t] : Removed(t, i)
      BY <2>1 DEF RemoveFails
    <3>3. Settles(t, "forgetting") \/ Settles(t, "removing")
      BY <3>1, <3>2 DEF Removed, Settles
    <3>4. QED
      BY <3>3
  <2>2. CASE MissFirst(t) \/ FailFirst(t)
    <3>1. Settles(t, "forgetting")
      BY <2>2 DEF MissFirst, FailFirst, Settles
    <3>2. QED
      BY <3>1
  <2>3. CASE Merge(t) \/ Insert(t) \/ DeleteRecord(t) \/ Flush(t) \/ Fail(t)
    <3>1. End(t) \/ Locals(t, "inserting", NoObject, {}, Empty, TRUE)
      BY <2>3 DEF Merge, Insert, DeleteRecord, Flush, Fail
    <3>2. Settles(t, "idle") \/ Settles(t, "inserting")
      BY <3>1 DEF End, Settles
    <3>3. QED
      BY <3>2
  <2>4. CASE Delete(t) \/ Clear(t)
    <3>1. Settles(t, "removing") \/ Settles(t, "flushing")
      BY <2>4 DEF Delete, Clear, Removal, Settles
    <3>2. QED
      BY <3>1
  <2>5. QED
    BY <2>1, <2>2, <2>3, <2>4
<1>3. /\ at'[t] \in {"forgetting", "idle", "inserting", "removing", "flushing"}
      /\ object'[t] = NoObject /\ \A u \in Threads \ {t} : Still(u)
  BY <1>2, SettlesStill
<1>4. ~Writing(t)' /\ at'[t] \notin {"getting", "returned"}
  BY <1>3 DEF Writing, Storing
<1>5. Touches(t)
  BY DEF MissFirst, FailFirst, Merge, Insert, Delete, DeleteRecord, Clear, Flush, Fail,
         RemoveFails, storage, Touches, Empty
<1>6. QED
  BY <1>1, <1>3, <1>4, <1>5, QuietKeepsMixInv

\* memcached removes a chunk.
LEMMA EvictKeepsMixInv ==
  ASSUME ChunkInv, MixInv, Evict, Tear(FALSE), Meet
  PROVE  MixInv'
<1>1. /\ \A i \in Slots : chunk'[i] \in {chunk[i], NoObject}
      /\ \A u \in Threads : Still(u)
  BY DEF Evict, locals, Still, ChunkInv, TypeOK, Held
<1>2. \A t \in Threads : Touches(t)
  BY <1>1 DEF Touches
<1>3. \A u \in Threads : Reads(u)'
  BY <1>1, <1>2, OthersRead
<1>4. ASSUME ~torn', ~Gone' PROVE Unmixed'
  <2>1. Unmixed /\ ~Contended'
    BY <1>4, TornFacts DEF MixInv
  <2>2. Uniform'
    <3>1. ASSUME NEW u \in Threads, Storing(u), intact[u], NEW i \in 1..SlotsOf[object[u]],
                 i \notin todo[u]
          PROVE  chunk'[i] \in {object[u], NoObject}
      <4>1. object[u] \in Objects /\ FitsIn(object[u])
        BY <3>1 DEF ChunkInv, LocalsFit, StoresChunks, Storing
      <4>2. i \in Slots
        BY <3>1, <4>1, FitsSlots
      <4>3. QED
        BY <1>1, <2>1, <3>1, <4>2 DEF Unmixed, Uniform
    <3>2. QED
      BY <1>1, <3>1 DEF Still, Uniform, Storing
  <2>3. Alike'
    BY <2>1 DEF Alike, Contended
  <2>4. ASSUME \A u \in Threads : ~Storing(u)', NEW j \in Slots, Mixed(j)'
        PROVE  \E k \in Threads : /\ at'[k] = "removing" /\ object'[k] # NoObject
                                  /\ 1 \in todo'[k] \/ j \in todo'[k]
    <3>1. Mixed(j)
      BY <1>1, <2>4, FirstSlot DEF Mixed
    <3>2. \A u \in Threads : ~Storing(u)
      BY <1>1, <2>4 DEF Still, Storing
    <3>3. QED
      BY <1>1, <2>1, <3>1, <3>2 DEF Unmixed, Cleaned, Still
  <2>5. QED
    BY <2>2, <2>3, <2>4 DEF Unmixed, Cleaned
<1>5. Gone' => Unmixed'
  BY GoneIsUnmixed DEF Gone, Writing, Unmixed, Uniform, Alike, Cleaned, Mixed
<1>6. QED
  BY <1>3, <1>4, <1>5 DEF MixInv

LEMMA FaultKeepsMixInv ==
  ASSUME ChunkInv, MixInv, NEW t \in Threads, FaultStep(t), Tear(Replacing(t)), Meet
  PROVE  MixInv'
<1>1. CASE FailFirst(t) \/ ~Writing(t)
  BY <1>1, OthersKeepMixInv DEF FaultStep
<1>2. CASE Fail(t) /\ Writing(t)
  <2>1. at'[t] = "idle" /\ \A u \in Threads \ {t} : Still(u)
    BY <1>2, LocalsStill DEF Fail, End
  <2>2. chunk' = chunk
    BY <1>2 DEF Fail, storage
  <2>3. QED
    BY <1>2, <2>1, <2>2, CutKeepsMixInv
<1>3. CASE RemoveFails(t) /\ Writing(t)
  <2>1. PICK i \in todo[t] : Removed(t, i)
    BY <1>3 DEF RemoveFails
  <2>2. Becomes(t, "forgetting") \/ Becomes(t, "removing")
    BY <2>1 DEF Removed, Becomes
  <2>3. /\ at'[t] \in {"forgetting", "removing"}
        /\ \A u \in Threads \ {t} : Still(u)
    BY <2>2, BecomesStill
  <2>4. chunk' = chunk
    BY <1>3 DEF RemoveFails, storage
  <2>5. QED
    BY <1>3, <2>3, <2>4, CutKeepsMixInv
<1>4. QED
  BY <1>1, <1>2, <1>3 DEF FaultStep

LEMMA MixStep == ChunkInv /\ MixInv /\ [Next]_vars => MixInv'
<1> SUFFICES ASSUME ChunkInv, MixInv, [Next]_vars PROVE MixInv'
  OBVIOUS
<1>1. CASE \E t \in Threads : FaultStep(t) /\ Tear(Replacing(t)) /\ Meet
  BY <1>1, FaultKeepsMixInv
<1>2. CASE Evict /\ Tear(FALSE) /\ Meet
  BY <1>2, EvictKeepsMixInv
<1>3. ASSUME NEW t \in Threads, Step(t), Tear(FALSE), Meet PROVE MixInv'
  BY <1>3, GetFirstKeepsMixInv, GetRestKeepsMixInv, PutKeepsMixInv, StoreChunkKeepsMixInv,
     RemovingKeepsMixInv, OthersKeepMixInv DEF Step
<1>4. CASE UNCHANGED vars
  BY <1>4 DEF vars, storage, locals, history, MixInv, Unmixed, Uniform, Alike, Cleaned, Mixed,
              Reads, Around, Writing, Storing
<1>5. QED
  BY <1>1, <1>2, <1>3, <1>4 DEF Next

LEMMA MixInit == Init => MixInv
BY FirstSlot DEF Init, MixInv, Unmixed, Uniform, Alike, Cleaned, Mixed, Reads, Storing, Empty

\* What get() returns is one object and the whole of it, unless it met the writing
\* of another or what two writers or one that was cut short have left: with any
\* number of threads, objects, chunks and failures.
THEOREM OneObject == Spec => []GetReturnsOneObject
<1>1. ASSUME ChunkInv, MixInv, NEW t \in Threads, at[t] = "returned", ~met[t]
      PROVE  \E o \in Objects : got[t] = [i \in Slots |-> IF i <= SlotsOf[o] THEN o ELSE NoObject]
  <2> DEFINE o == got[t][1]
  <2>1. /\ got[t] \in Held /\ Whole(got[t]) /\ got[t][1] # NoObject
        /\ \A i \in 1..SlotsOf[o] : got[t][i] # NoObject
    BY <1>1 DEF ChunkInv, LocalsFit, GetsChunks, AllChunks
  <2>2. o \in Objects /\ \A i \in Slots : got[t][i] \in {o, NoObject}
    BY <1>1, <2>1, FirstSlot DEF Held, MixInv, Reads
  <2>3. SlotsOf[o] \in Nat
    BY <2>2, ManagedAssumption DEF ManagedAssumption
  <2>4. ASSUME NEW i \in Slots
        PROVE  got[t][i] = IF i <= SlotsOf[o] THEN o ELSE NoObject
    <3>1. got[t][i] # NoObject => got[t][i] = o /\ i <= SlotsOf[o]
      BY <2>1, <2>2 DEF Whole
    <3>2. i <= SlotsOf[o] => got[t][i] # NoObject
      BY <2>1, <2>3 DEF Slots
    <3>3. QED
      BY <2>2, <3>1, <3>2
  <2>5. got[t] = [i \in Slots |-> IF i <= SlotsOf[o] THEN o ELSE NoObject]
    BY <2>1, <2>4 DEF Held
  <2>6. QED
    BY <2>2, <2>5
<1>2. ChunkInv /\ MixInv => GetReturnsOneObject
  BY <1>1 DEF GetReturnsOneObject
<1>3. QED
  BY <1>2, MixInit, MixStep, ChunksFit, PTL DEF Spec

-----------------------------------------------------------------------------
(* Records *)

\* A removal that has nothing left to do with the first chunk.
PastFirst(t) == at[t] = "forgetting" \/ (at[t] = "removing" /\ 1 \notin todo[t])

\* While nothing has gone wrong: nobody stores while another removes, so that
\* the first chunk is gone when its record is deleted, and what is there at
\* rest has one.
RecordInv ==
    ~marred =>
        /\ ~(Putting /\ Removing)
        /\ \A t \in Threads : PastFirst(t) => chunk[1] = NoObject
        /\ ~Putting /\ ~Removing /\ ~Flushing => chunk[1] = NoObject \/ recorded

LEMMA LocalsMove ==
  ASSUME ChunkInv, NEW t \in Threads, NEW place, NEW obj, NEW slots, NEW answer, NEW ok,
         Locals(t, place, obj, slots, answer, ok)
  PROVE  /\ at'[t] = place /\ todo'[t] = slots
         /\ \A u \in Threads \ {t} : at'[u] = at[u] /\ todo'[u] = todo[u]
BY DEF ChunkInv, LocalsFit, Locals

LEMMA RecordStep == ChunkInv /\ RecordInv /\ [Next]_vars => RecordInv'
<1> SUFFICES ASSUME ChunkInv, RecordInv, [Next]_vars, ~marred' PROVE RecordInv'
  BY DEF RecordInv
<1> USE DEF storage
<1>1. CASE UNCHANGED vars
  BY <1>1 DEF vars, history, locals, RecordInv, Putting, Removing, Flushing, PastFirst
<1>a. CASE Next /\ chunk'[1] = NoObject
  BY <1>a DEF Next, Mar, RecordInv
<1> SUFFICES ASSUME Next, chunk'[1] # NoObject PROVE RecordInv'
  BY <1>1, <1>a
<1>2. /\ ~marred /\ ~(Putting /\ Removing)' /\ chunk'[1] # NoObject
      /\ (\E t \in Threads : Step(t)) \/ Evict
  BY DEF Next, Mar
<1>3. /\ ~(Putting /\ Removing)
      /\ \A u \in Threads : PastFirst(u) => chunk[1] = NoObject
      /\ ~Putting /\ ~Removing /\ ~Flushing => chunk[1] = NoObject \/ recorded
  BY <1>2 DEF RecordInv
<1>4. ASSUME \A u \in Threads : ~PastFirst(u)',
             (~Putting /\ ~Removing /\ ~Flushing)' => recorded'
      PROVE  RecordInv'
  BY <1>2, <1>4 DEF RecordInv
\* A place that leaves storage and the removals of others alone.
<1>5. ASSUME NEW t \in Threads, NEW place, NEW obj, NEW slots, NEW answer, NEW ok,
             Locals(t, place, obj, slots, answer, ok), UNCHANGED storage,
             place # "forgetting", place = "removing" => 1 \in slots,
             at[t] \notin {"storing", "merging", "inserting", "removing", "forgetting", "flushing"}
               \/ place \in {"merging", "inserting", "removing"}
      PROVE  RecordInv'
  <2>1. /\ at'[t] = place /\ todo'[t] = slots
        /\ \A u \in Threads \ {t} : at'[u] = at[u] /\ todo'[u] = todo[u]
    BY <1>5, LocalsMove
  <2>2. \A u \in Threads : ~PastFirst(u)'
    BY <1>2, <1>3, <1>5, <2>1 DEF PastFirst
  <2>3. ASSUME (~Putting /\ ~Removing /\ ~Flushing)' PROVE recorded'
    <3>1. ~Putting /\ ~Removing /\ ~Flushing
      BY <1>5, <2>1, <2>3 DEF Putting, Removing, Flushing
    <3>2. QED
      BY <1>2, <1>3, <1>5, <3>1
  <2>4. QED
    BY <1>4, <2>2, <2>3
<1>6. 1 \in Slots
  BY FirstSlot
<1>7. ASSUME NEW t \in Threads, GetFirst(t) \/ MissFirst(t) \/ GetRest(t) PROVE RecordInv'
  <2>1. CASE GetFirst(t)
    BY <1>5, <2>1 DEF GetFirst, Free
  <2>2. CASE MissFirst(t)
    BY <1>2, <2>2 DEF MissFirst
  <2>3. CASE GetRest(t)
    BY <1>5, <1>6, <2>3 DEF GetRest, Removal
  <2>4. QED
    BY <1>7, <2>1, <2>2, <2>3
<1>8. ASSUME NEW t \in Threads, NEW o \in Objects, Put(t, o) PROVE RecordInv'
  BY <1>5, <1>8 DEF Put, Free
\* While a put() is in progress nobody removes.
<1>9. ASSUME NEW t \in Threads, at[t] \in {"storing", "merging", "inserting"}
      PROVE  \A u \in Threads : at[u] \notin {"removing", "forgetting"}
  BY <1>3, <1>9 DEF Putting, Removing
<1>10. ASSUME NEW t \in Threads, StoreChunk(t) PROVE RecordInv'
  <2>1. PICK i \in todo[t], stored \in BOOLEAN :
           \/ Locals(t, "storing", object[t], todo[t] \ {i}, Empty, intact[t] /\ stored)
           \/ Locals(t, "merging", NoObject, {}, Empty, TRUE)
           \/ Locals(t, "removing", object[t], Slots, Empty, TRUE)
    <3>1. PICK i \in todo[t], stored \in BOOLEAN :
             IF todo[t] # {i}
             THEN Locals(t, "storing", object[t], todo[t] \ {i}, Empty, intact[t] /\ stored)
             ELSE AfterStore(t, intact[t] /\ stored)
      BY <1>10 DEF StoreChunk
    <3>2. QED
      BY <3>1 DEF AfterStore, Removal
  <2>2. /\ at'[t] \in {"storing", "merging"} \/ (at'[t] = "removing" /\ todo'[t] = Slots)
        /\ \A u \in Threads \ {t} : at'[u] = at[u] /\ todo'[u] = todo[u]
    <3>1. CASE Locals(t, "storing", object[t], todo[t] \ {i}, Empty, intact[t] /\ stored)
      <4>1. at' = [at EXCEPT ![t] = "storing"] /\ todo' = [todo EXCEPT ![t] = todo[t] \ {i}]
        BY <3>1, Zenon DEF Locals
      <4>2. QED
        BY <4>1 DEF ChunkInv, LocalsFit
    <3>2. CASE Locals(t, "merging", NoObject, {}, Empty, TRUE)
      BY <3>2, LocalsMove
    <3>3. CASE Locals(t, "removing", object[t], Slots, Empty, TRUE)
      BY <3>3 DEF Locals, ChunkInv, LocalsFit
    <3>4. QED
      BY <2>1, <3>1, <3>2, <3>3
  <2>3. \A u \in Threads : at[u] \notin {"removing", "forgetting"}
    BY <1>9, <1>10 DEF StoreChunk
  <2>4. \A u \in Threads : ~PastFirst(u)'
    BY <1>6, <2>1, <2>2, <2>3 DEF PastFirst
  <2>5. (Putting \/ Removing)'
    BY <2>1, <2>2 DEF Putting, Removing
  <2>6. QED
    BY <1>4, <2>4, <2>5
<1>11. ASSUME NEW t \in Threads, Merge(t) \/ Insert(t) PROVE RecordInv'
  <2>1. \/ Locals(t, "inserting", NoObject, {}, Empty, TRUE)
        \/ Locals(t, "idle", NoObject, {}, Empty, TRUE) /\ recorded'
    <3>1. CASE Merge(t)
      BY <3>1 DEF Merge, End
    <3>2. CASE Insert(t)
      BY <3>2 DEF Insert, End
    <3>3. QED
      BY <1>11, <3>1, <3>2
  <2>2. /\ at'[t] = "inserting" \/ (at'[t] = "idle" /\ recorded')
        /\ \A u \in Threads \ {t} : at'[u] = at[u] /\ todo'[u] = todo[u]
    <3>1. CASE Locals(t, "inserting", NoObject, {}, Empty, TRUE)
      BY <3>1, LocalsMove
    <3>2. CASE Locals(t, "idle", NoObject, {}, Empty, TRUE) /\ recorded'
      BY <3>2, LocalsMove
    <3>3. QED
      BY <2>1, <3>1, <3>2
  <2>3. \A u \in Threads : at[u] \notin {"removing", "forgetting"}
    BY <1>9, <1>11 DEF Merge, Insert
  <2>4. \A u \in Threads : ~PastFirst(u)'
    BY <2>1, <2>2, <2>3 DEF PastFirst
  <2>5. Putting' \/ recorded'
    BY <2>1, <2>2 DEF Putting
  <2>6. QED
    BY <1>4, <2>4, <2>5
<1>12. ASSUME NEW t \in Threads, Delete(t) PROVE RecordInv'
  BY <1>5, <1>6, <1>12 DEF Delete, Removal, Free
\* A removal that is past the first chunk has removed it, and no put() has come
\* since.
<1>13. ASSUME NEW t \in Threads, RemoveChunk(t) PROVE RecordInv'
  <2>1. PICK i \in todo[t] : Removed(t, i) /\ chunk' = [chunk EXCEPT ![i] = NoObject]
    BY <1>13 DEF RemoveChunk
  <2>2. /\ todo[t] = {i} => at'[t] = "forgetting"
        /\ todo[t] # {i} => at'[t] = "removing"
        /\ todo'[t] = todo[t] \ {i}
        /\ \A u \in Threads \ {t} : at'[u] = at[u] /\ todo'[u] = todo[u]
    BY <2>1 DEF Removed, Locals, ChunkInv, LocalsFit
  <2>3. i # 1 /\ chunk'[1] = chunk[1]
    BY <1>2, <1>6, <2>1 DEF ChunkInv, TypeOK, Held
  <2>4. 1 \in todo[t]
    BY <1>2, <1>3, <1>13, <2>3 DEF PastFirst, RemoveChunk
  <2>5. \A u \in Threads : ~PastFirst(u)'
    BY <1>2, <1>3, <2>2, <2>3, <2>4 DEF PastFirst
  <2>6. Removing'
    BY <2>2 DEF Removing
  <2>7. QED
    BY <1>4, <2>5, <2>6
<1>14. ASSUME NEW t \in Threads, DeleteRecord(t) PROVE RecordInv'
  <2>1. chunk' = chunk
    BY <1>14 DEF DeleteRecord
  <2>2. PastFirst(t)
    BY <1>14 DEF DeleteRecord, PastFirst
  <2>3. QED
    BY <1>2, <1>3, <2>1, <2>2
<1>15. ASSUME NEW t \in Threads, Clear(t) PROVE RecordInv'
  <2>1. /\ at'[t] = "flushing"
        /\ \A u \in Threads \ {t} : at'[u] = at[u] /\ todo'[u] = todo[u]
    BY <1>15, LocalsMove DEF Clear
  <2>2. \A u \in Threads : ~PastFirst(u)'
    BY <1>2, <1>3, <1>15, <2>1 DEF PastFirst, Clear
  <2>3. Flushing'
    BY <2>1 DEF Flushing
  <2>4. QED
    BY <1>4, <2>2, <2>3
<1>16. ASSUME NEW t \in Threads, Flush(t) PROVE RecordInv'
  BY <1>2, <1>6, <1>16 DEF Flush, Empty
<1>17. CASE Evict
  <2>1. chunk'[1] = chunk[1]
    BY <1>2, <1>6, <1>17 DEF Evict, ChunkInv, TypeOK, Held
  <2>2. \A u \in Threads : ~PastFirst(u)'
    BY <1>2, <1>3, <1>17, <2>1 DEF PastFirst, Evict, locals
  <2>3. (~Putting /\ ~Removing /\ ~Flushing)' => recorded'
    BY <1>2, <1>3, <1>17, <2>1 DEF Evict, locals, Putting, Removing, Flushing
  <2>4. QED
    BY <1>4, <2>2, <2>3
<1>18. QED
  BY <1>2, <1>7, <1>8, <1>10, <1>11, <1>12, <1>13, <1>14, <1>15, <1>16, <1>17 DEF Step

\* An object has a record while nobody stores or removes, unless a put()
\* overlapped a removal or a removal failed half way: with any number of threads,
\* objects, chunks and failures.
THEOREM NoSilentOrphans == Spec => []OrphansNeedARace
<1>1. Init => RecordInv
  BY FirstSlot DEF Init, RecordInv, Putting, Removing, PastFirst, Empty
<1>2. RecordInv => OrphansNeedARace
  BY DEF RecordInv, OrphansNeedARace
<1>3. QED
  BY <1>1, <1>2, RecordStep, ChunksFit, PTL DEF Spec

(***************************************************************************)
(*                                Startup                                  *)
(***************************************************************************)

Section == CacheSection \cup DataSection

(***************************************************************************)
(* The lock.  What is inductive counts the lock itself: a section that is  *)
(* entered takes it from FALSE to TRUE, one that ends may free the lock of *)
(* another but is itself one less, and a lock that goes away is a loss.    *)
(***************************************************************************)
LockCount == IF locked THEN 1 ELSE 0

LockInv == /\ pc \in [Procs -> Places]
           /\ locked \in BOOLEAN
           /\ losses \in Nat
           /\ Cardinality(Inside) <= losses + LockCount

LEMMA InsideIsFinite ==
  /\ IsFiniteSet(Inside) /\ Cardinality(Inside) \in Nat
  /\ Cardinality(Inside') \in Nat
<1>1. Inside \subseteq Procs /\ Inside' \subseteq Procs
  BY DEF Inside
<1>2. IsFiniteSet(Inside) /\ IsFiniteSet(Inside')
  BY <1>1, ProcsAssumption, FS_Subset
<1>3. QED
  BY <1>2, FS_CardinalityType

LEMMA LockCountValues == /\ locked => LockCount = 1
                         /\ ~locked => LockCount = 0
                         /\ locked' => LockCount' = 1
                         /\ ~locked' => LockCount' = 0
                         /\ locked' = locked => LockCount' = LockCount
                         /\ LockCount \in {0, 1} /\ LockCount' \in {0, 1}
BY DEF LockCount

\* A process that moves out of the sections leaves them, one that moves into
\* one enters them.
LEMMA MoveChangesInside ==
  ASSUME NEW p \in Procs, NEW place, pc \in [Procs -> Places], Move(p, place)
  PROVE  Inside' = IF place \in Section THEN Inside \cup {p} ELSE Inside \ {p}
BY DEF Move, Inside, Section

LEMMA EnterCounts ==
  ASSUME NEW p \in Procs, NEW place \in Section, pc \in [Procs -> Places], Move(p, place)
  PROVE  /\ Cardinality(Inside') <= Cardinality(Inside) + 1
         /\ p \in Inside => Cardinality(Inside') = Cardinality(Inside)
<1>1. Inside' = Inside \cup {p}
  BY MoveChangesInside
<1>2. Cardinality(Inside \cup {p}) = IF p \in Inside THEN Cardinality(Inside) ELSE Cardinality(Inside) + 1
  BY InsideIsFinite, FS_AddElement
<1>3. QED
  BY <1>1, <1>2, InsideIsFinite

LEMMA LeaveCounts ==
  ASSUME NEW p \in Procs, NEW place, place \notin Section, pc \in [Procs -> Places], Move(p, place)
  PROVE  /\ Cardinality(Inside') <= Cardinality(Inside)
         /\ p \in Inside => Cardinality(Inside') = Cardinality(Inside) - 1
<1>1. Inside' = Inside \ {p}
  BY MoveChangesInside
<1>2. Cardinality(Inside \ {p}) = IF p \in Inside THEN Cardinality(Inside) - 1 ELSE Cardinality(Inside)
  BY InsideIsFinite, FS_RemoveElement
<1>3. QED
  BY <1>1, <1>2, InsideIsFinite

LEMMA MoveKeepsType ==
  ASSUME NEW p \in Procs, NEW place \in Places, pc \in [Procs -> Places], Move(p, place)
  PROVE  pc' \in [Procs -> Places]
BY DEF Move

LEMMA PlacesFacts ==
  /\ Section \subseteq Places /\ Running \subseteq Places /\ Waiting \subseteq Places
  /\ Section \cap Running = {} /\ Section \cap Waiting = {}
  /\ \A x \in {"off", "cacheWait", "dbWait", "up", "recording"} : x \in Places /\ x \notin Section
  /\ \A x \in {"check", "query", "drop", "create", "tables", "data", "upgrade"} : x \in Section
BY DEF Section, CacheSection, DataSection, Running, Waiting, Places

\* The three ways in which a process takes part: it stays where it counts or
\* does not, it takes the lock, or it leaves its section and frees it.
Stays(p)  == \E place \in Places : /\ Move(p, place)
                                   /\ (place \in Section => p \in Inside)
                                   /\ locked' = locked /\ losses' = losses
Enters(p) == \E place \in Section : Move(p, place) /\ ~locked /\ locked' = TRUE /\ losses' = losses
Leaves(p) == \E place \in Places \ Section : /\ p \in Inside /\ Move(p, place)
                                            /\ locked' = FALSE /\ losses' = losses

LEMMA TakingPartKeepsLockInv ==
  ASSUME LockInv, NEW p \in Procs, Stays(p) \/ Enters(p) \/ Leaves(p)
  PROVE  LockInv'
<1>1. CASE Stays(p)
  <2>1. PICK place \in Places : /\ Move(p, place)
                                /\ (place \in Section => p \in Inside)
                                /\ locked' = locked /\ losses' = losses
    BY <1>1 DEF Stays
  <2>2. pc' \in [Procs -> Places]
    BY <2>1, MoveKeepsType DEF LockInv
  <2>3. Cardinality(Inside') <= Cardinality(Inside)
    BY <2>1, EnterCounts, LeaveCounts, InsideIsFinite DEF LockInv
  <2>4. Cardinality(Inside') <= losses' + LockCount'
    BY <2>1, <2>3, InsideIsFinite, LockCountValues DEF LockInv
  <2>5. QED
    BY <2>1, <2>2, <2>4 DEF LockInv
<1>2. CASE Enters(p)
  <2>1. PICK place \in Section : Move(p, place) /\ ~locked /\ locked' = TRUE /\ losses' = losses
    BY <1>2 DEF Enters
  <2>2. pc' \in [Procs -> Places]
    BY <2>1, MoveKeepsType, PlacesFacts DEF LockInv
  <2>3. Cardinality(Inside') <= Cardinality(Inside) + 1
    BY <2>1, EnterCounts DEF LockInv
  <2>4. Cardinality(Inside') <= losses' + LockCount'
    BY <2>1, <2>3, InsideIsFinite, LockCountValues DEF LockInv
  <2>5. QED
    BY <2>1, <2>2, <2>4 DEF LockInv
<1>3. CASE Leaves(p)
  <2>1. PICK place \in Places \ Section : /\ p \in Inside /\ Move(p, place)
                                          /\ locked' = FALSE /\ losses' = losses
    BY <1>3 DEF Leaves
  <2>2. pc' \in [Procs -> Places]
    BY <2>1, MoveKeepsType DEF LockInv
  <2>3. Cardinality(Inside') = Cardinality(Inside) - 1
    BY <2>1, LeaveCounts DEF LockInv
  <2>4. Cardinality(Inside') <= losses' + LockCount'
    BY <2>1, <2>3, InsideIsFinite, LockCountValues DEF LockInv
  <2>5. QED
    BY <2>1, <2>2, <2>4 DEF LockInv
<1>4. QED
  BY <1>1, <1>2, <1>3

\* A step that leaves the processes where they are, and may lose the lock.
LEMMA OthersKeepLockInv ==
  ASSUME LockInv, UNCHANGED pc,
         \/ locked' = locked /\ losses' = losses
         \/ locked /\ locked' = FALSE /\ losses' = losses + 1
  PROVE  LockInv'
<1>1. Inside' = Inside
  BY DEF Inside
<1>2. Cardinality(Inside') <= losses' + LockCount' /\ losses' \in Nat
  BY <1>1, InsideIsFinite, LockCountValues DEF LockInv
<1>3. QED
  BY <1>2 DEF LockInv

LEMMA LockInvIsInductive ==
  ASSUME LockInv, [StartupNext]_startupVars
  PROVE  LockInv'
<1> DEFINE Goal == LockInv'
<1>1. ASSUME NEW p \in Procs, Start(p) PROVE Goal
  <2>1. Move(p, "cacheWait") /\ locked' = locked /\ losses' = losses
    BY <1>1 DEF Start
  <2>2. Stays(p)
    BY <2>1, PlacesFacts DEF Stays
  <2>3. QED
    BY <2>2, TakingPartKeepsLockInv
<1>2. ASSUME NEW p \in Procs, Acquire(p) PROVE Goal
  <2>1. PICK place \in {"check", "tables"} : Move(p, place) /\ ~locked /\ locked' = TRUE /\ losses' = losses
    BY <1>2 DEF Acquire
  <2>2. Enters(p)
    BY <2>1, PlacesFacts DEF Enters
  <2>3. QED
    BY <2>2, TakingPartKeepsLockInv
<1>3. ASSUME NEW p \in Procs, GoOn(p) PROVE Goal
  <2>1. PICK place \in {"dbWait", "up"} : Move(p, place) /\ locked' = locked /\ losses' = losses
    BY <1>3 DEF GoOn
  <2>2. Stays(p)
    BY <2>1, PlacesFacts DEF Stays
  <2>3. QED
    BY <2>2, TakingPartKeepsLockInv
<1>4. ASSUME NEW p \in Procs, CheckControl(p) PROVE Goal
  <2>1. p \in Inside
    BY <1>4 DEF CheckControl, Inside, CacheSection
  <2>2. losses' = losses
    BY <1>4 DEF CheckControl
  <2>3. CASE Leave(p, "dbWait")
    <3>1. Leaves(p)
      BY <2>1, <2>2, <2>3, PlacesFacts DEF Leaves, Leave
    <3>2. QED
      BY <3>1, TakingPartKeepsLockInv
  <2>4. CASE Move(p, "query") /\ locked' = locked
    <3>1. "query" \in Places
      BY PlacesFacts
    <3>2. Stays(p)
      BY <2>1, <2>2, <2>4, <3>1 DEF Stays
    <3>3. QED
      BY <3>2, TakingPartKeepsLockInv
  <2>5. QED
    BY <1>4, <2>3, <2>4 DEF CheckControl
<1>4a. ASSUME NEW p \in Procs, CountFails(p) PROVE Goal
  <2>1. /\ p \in Inside /\ Move(p, "query") /\ locked' = locked /\ losses' = losses
        /\ "query" \in Places
    BY <1>4a, PlacesFacts DEF CountFails, Inside, CacheSection
  <2>2. Stays(p)
    BY <2>1 DEF Stays
  <2>3. QED
    BY <2>2, TakingPartKeepsLockInv
<1>4b. ASSUME NEW p \in Procs, QueryRows(p) PROVE Goal
  <2>1. p \in Inside /\ losses' = losses /\ "drop" \in Places
    BY <1>4b, PlacesFacts DEF QueryRows, Inside, CacheSection
  <2>2. CASE Leave(p, "dbWait")
    <3>1. Leaves(p)
      BY <2>1, <2>2, PlacesFacts DEF Leaves, Leave
    <3>2. QED
      BY <3>1, TakingPartKeepsLockInv
  <2>3. CASE Move(p, "drop") /\ locked' = locked
    <3>1. Stays(p)
      BY <2>1, <2>3 DEF Stays
    <3>2. QED
      BY <3>1, TakingPartKeepsLockInv
  <2>4. QED
    BY <1>4b, <2>2, <2>3 DEF QueryRows
<1>5. ASSUME NEW p \in Procs, DropControl(p) PROVE Goal
  <2>1. p \in Inside /\ Move(p, "create") /\ locked' = locked /\ losses' = losses
    BY <1>5 DEF DropControl, Inside, CacheSection
  <2>2. "create" \in Places
    BY PlacesFacts
  <2>3. Stays(p)
    BY <2>1, <2>2 DEF Stays
  <2>4. QED
    BY <2>3, TakingPartKeepsLockInv
<1>6. ASSUME NEW p \in Procs, CreateControl(p) PROVE Goal
  <2>1. p \in Inside /\ Leave(p, "dbWait") /\ losses' = losses
    BY <1>6 DEF CreateControl, Inside, CacheSection
  <2>2. Leaves(p)
    BY <2>1, PlacesFacts DEF Leaves, Leave
  <2>3. QED
    BY <2>2, TakingPartKeepsLockInv
<1>7. ASSUME NEW p \in Procs, CreateTable(p) PROVE Goal
  <2>1. p \in Inside /\ locked' = locked /\ losses' = losses
    BY <1>7 DEF CreateTable, Inside, DataSection, cacheVars
  <2>2. CASE Move(p, "data")
    <3>1. "data" \in Places
      BY PlacesFacts
    <3>2. Stays(p)
      BY <2>1, <2>2, <3>1 DEF Stays
    <3>3. QED
      BY <3>2, TakingPartKeepsLockInv
  <2>3. CASE UNCHANGED pc
    BY <2>1, <2>3, OthersKeepLockInv
  <2>4. QED
    BY <1>7, <2>2, <2>3 DEF CreateTable
<1>8. ASSUME NEW p \in Procs, CreateRow(p) PROVE Goal
  <2>1. p \in Inside /\ locked' = locked /\ losses' = losses
    BY <1>8 DEF CreateRow, Inside, DataSection, cacheVars
  <2>2. CASE Move(p, "upgrade")
    <3>1. "upgrade" \in Places
      BY PlacesFacts
    <3>2. Stays(p)
      BY <2>1, <2>2, <3>1 DEF Stays
    <3>3. QED
      BY <3>2, TakingPartKeepsLockInv
  <2>3. CASE UNCHANGED pc
    BY <2>1, <2>3, OthersKeepLockInv
  <2>4. QED
    BY <1>8, <2>2, <2>3 DEF CreateRow
<1>9. ASSUME NEW p \in Procs, Upgrade(p) PROVE Goal
  <2>1. p \in Inside /\ Leave(p, "up") /\ losses' = losses
    BY <1>9 DEF Upgrade, Inside, DataSection
  <2>2. Leaves(p)
    BY <2>1, PlacesFacts DEF Leaves, Leave
  <2>3. QED
    BY <2>2, TakingPartKeepsLockInv
<1>10. ASSUME NEW p \in Procs, Abort(p) PROVE Goal
  <2>1. p \in Inside /\ Leave(p, "off") /\ losses' = losses
    BY <1>10 DEF Abort
  <2>2. Leaves(p)
    BY <2>1, PlacesFacts DEF Leaves, Leave
  <2>3. QED
    BY <2>2, TakingPartKeepsLockInv
<1>11. ASSUME NEW p \in Procs, Kill(p) PROVE Goal
  <2>1. Move(p, "off") /\ locked' = locked /\ losses' = losses
    BY <1>11 DEF Kill
  <2>2. Stays(p)
    BY <2>1, PlacesFacts DEF Stays
  <2>3. QED
    BY <2>2, TakingPartKeepsLockInv
<1>12. ASSUME NEW p \in Procs, CacheImage(p) PROVE Goal
  <2>1. /\ Move(p, "recording") /\ locked' = locked /\ losses' = losses
    BY <1>12 DEF CacheImage
  <2>2. Stays(p)
    BY <2>1, PlacesFacts DEF Stays
  <2>3. QED
    BY <2>2, TakingPartKeepsLockInv
<1>12a. ASSUME NEW p \in Procs, RecordImage(p) PROVE Goal
  <2>1. /\ Move(p, "up") /\ locked' = locked /\ losses' = losses
    BY <1>12a DEF RecordImage
  <2>2. Stays(p)
    BY <2>1, PlacesFacts DEF Stays
  <2>3. QED
    BY <2>2, TakingPartKeepsLockInv
<1>13. CASE LoseLock
  BY <1>13, OthersKeepLockInv DEF LoseLock
<1>14. CASE RestartCache
  <2>1. UNCHANGED pc /\ locked' = FALSE /\ losses' = losses + (IF locked THEN 1 ELSE 0)
    BY <1>14 DEF RestartCache
  <2>2. CASE locked
    BY <2>1, <2>2, OthersKeepLockInv
  <2>3. CASE ~locked
    <3>1. losses' = losses
      BY <2>1, <2>3 DEF LockInv
    <3>2. locked' = locked
      BY <2>1, <2>3 DEF LockInv
    <3>3. QED
      BY <2>1, <3>1, <3>2, OthersKeepLockInv
  <2>4. QED
    BY <2>2, <2>3
<1>14a. CASE LoseItem
  BY <1>14a, OthersKeepLockInv DEF LoseItem
<1>15. CASE UNCHANGED startupVars
  BY <1>15, OthersKeepLockInv DEF startupVars
<1>16. QED
  BY <1>1, <1>2, <1>3, <1>4, <1>5, <1>6, <1>7, <1>8, <1>9, <1>10, <1>11, <1>4a, <1>4b, <1>12,
     <1>12a, <1>13, <1>14, <1>14a, <1>15 DEF StartupNext, Advance

LEMMA LockInvAtTheStart == StartupInit => LockInv
<1>1. SUFFICES ASSUME StartupInit PROVE LockInv
  OBVIOUS
<1>2. pc = [p \in Procs |-> "off"] /\ locked = FALSE /\ losses = 0
  BY <1>1 DEF StartupInit
<1>3. Inside = {}
  BY <1>2, PlacesFacts DEF Inside, Section
<1>4. Cardinality(Inside) = 0
  BY <1>3, FS_EmptySet
<1>5. pc \in [Procs -> Places]
  BY <1>2, PlacesFacts
<1>6. LockCount = 0
  BY <1>2, LockCountValues
<1>7. Cardinality(Inside) <= losses + LockCount /\ losses \in Nat
  BY <1>2, <1>4, <1>6
<1>8. locked \in BOOLEAN
  BY <1>2
<1>9. QED
  BY <1>5, <1>7, <1>8 DEF LockInv

\* For any number of processes: no more are in the sections of the universal
\* lock than locks were lost, and one (get_global_lock and free_global_lock,
\* which checks no ownership).
THEOREM FewAreInside == StartupSpec => []FewInside
<1>1. LockInv => FewInside
  BY InsideIsFinite, LockCountValues DEF LockInv, FewInside
<1>2. QED
  BY <1>1, LockInvAtTheStart, LockInvIsInductive, PTL DEF StartupSpec

(***************************************************************************)
(* The rows.  What is inductive says by whom a missing row is owed: by the *)
(* maker of its table, which is still at the tables, or not yet past it.   *)
(***************************************************************************)
Count == 10
TableAt(i) == DefaultRows[i][1]
RowAt(i)   == DefaultRows[i][2]

Owes(p, i) == /\ TableAt(i) \in created[p]
              /\ \/ pc[p] = "tables"
                 \/ pc[p] = "data" /\ step[p] <= i

Owed(i) == TableAt(i) \in tables =>
             \/ RowAt(i) \in data \cup Migrated
             \/ TableAt(i) \in abandoned
             \/ \E p \in Procs : Owes(p, i)

TypeInv == /\ pc \in [Procs -> Places]
           /\ step \in [Procs -> Nat \ {0}]
           /\ created = [p \in Procs |-> created[p]]

Ahead(p) == pc[p] = "data" /\ step[p] > 9 /\ "properties" \in created[p]
              => "foliop_version" \in data

DataInv == /\ TypeInv
           /\ MigratedMeansMigrated
           /\ \A p \in Procs : Ahead(p)
           /\ \A i \in 1..Count : Owed(i)

LEMMA RowFacts ==
  /\ Len(DefaultRows) = Count /\ DOMAIN DefaultRows = 1..Count
  /\ TableAt(9) = "properties" /\ RowAt(9) = "foliop_version"
  /\ TableAt(10) = "properties"
  /\ \A i \in 1..Count : RowAt(i) = "db_migration_version" => i = 10
BY DEF DefaultRows, Count, TableAt, RowAt

\* A step in which only one process moves, the tables stay, nothing is deleted
\* and what the process owed is there or given up.
LEMMA OwedIsKept ==
  ASSUME \A i \in 1..Count : Owed(i),
         tables' = tables, data \subseteq data', abandoned \subseteq abandoned',
         NEW p \in Procs,
         \A q \in Procs \ {p} : \A i \in 1..Count : Owes(q, i) => Owes(q, i)',
         \A i \in 1..Count : Owes(p, i) =>
             Owes(p, i)' \/ TableAt(i) \in abandoned' \/ RowAt(i) \in data'
  PROVE  \A i \in 1..Count : Owed(i)'
<1>1. SUFFICES ASSUME NEW i \in 1..Count, TableAt(i) \in tables'
               PROVE  \/ RowAt(i) \in data' \cup Migrated
                      \/ TableAt(i) \in abandoned'
                      \/ \E q \in Procs : Owes(q, i)'
  BY DEF Owed
<1>2. CASE RowAt(i) \in data \cup Migrated \/ TableAt(i) \in abandoned
  BY <1>2
<1>3. CASE \E q \in Procs : Owes(q, i)
  <2>1. PICK q \in Procs : Owes(q, i)
    BY <1>3
  <2>2. CASE q = p
    BY <2>1, <2>2
  <2>3. CASE q # p
    BY <2>1, <2>3
  <2>4. QED
    BY <2>2, <2>3
<1>4. Owed(i) /\ TableAt(i) \in tables
  BY <1>1
<1>5. QED
  BY <1>2, <1>3, <1>4 DEF Owed

\* A process other than the one that moves owes what it owed.
LEMMA OthersOwe ==
  ASSUME TypeInv, NEW p \in Procs, NEW q \in Procs \ {p}, NEW i \in 1..Count,
         pc'[q] = pc[q], step'[q] = step[q], created'[q] = created[q]
  PROVE  Owes(q, i) <=> Owes(q, i)'
BY DEF Owes

\* A step that leaves the rows and the tables alone, and in which no process
\* comes to the tables or the rows with tables of its own.
LEMMA QuietStep ==
  ASSUME DataInv, NEW p \in Procs, NEW place \in Places, Move(p, place),
         tables' = tables, data \subseteq data', abandoned \subseteq abandoned',
         "db_migration_version" \in data' => "foliop_version" \in data',
         \/ UNCHANGED <<step, created>> /\ place \notin {"tables", "data"}
         \/ UNCHANGED <<step, created>> /\ place = "tables"
         \/ Forget(p) /\ place \notin {"tables", "data"},
         \/ pc[p] \notin {"tables", "data"}
         \/ created[p] \subseteq abandoned'
         \/ \A i \in 1..Count : step[p] > i /\ pc[p] = "data"
  PROVE  DataInv'
<1>1. /\ \A q \in Procs \ {p} : pc'[q] = pc[q] /\ step'[q] = step[q] /\ created'[q] = created[q]
      /\ pc'[p] = place
  BY DEF DataInv, TypeInv, Move, Forget
<1>2. TypeInv'
  BY DEF DataInv, TypeInv, Move, Forget
<1>3. \A q \in Procs : Ahead(q)'
  <2>1. ASSUME NEW q \in Procs \ {p} PROVE Ahead(q)'
    BY <1>1, <2>1 DEF DataInv, Ahead
  <2>2. Ahead(p)'
    BY <1>1 DEF Ahead
  <2>3. QED
    BY <2>1, <2>2
<1>4. \A i \in 1..Count : Owed(i)'
  <2>1. \A q \in Procs \ {p} : \A i \in 1..Count : Owes(q, i) => Owes(q, i)'
    BY <1>1, OthersOwe DEF DataInv
  <2>2. \A i \in 1..Count : Owes(p, i) =>
             Owes(p, i)' \/ TableAt(i) \in abandoned' \/ RowAt(i) \in data'
    <3>1. ASSUME NEW i \in 1..Count, Owes(p, i) PROVE TableAt(i) \in abandoned'
      <4>1. pc[p] \in {"tables", "data"} /\ TableAt(i) \in created[p]
        BY <3>1 DEF Owes
      <4>2. ~(step[p] > i /\ pc[p] = "data")
        BY <3>1 DEF Owes, DataInv, TypeInv
      <4>3. QED
        BY <4>1, <4>2
    <3>2. QED
      BY <3>1
  <2>3. QED
    BY <2>1, <2>2, OwedIsKept DEF DataInv
<1>5. QED
  BY <1>2, <1>3, <1>4 DEF DataInv, MigratedMeansMigrated

LEMMA CreateTableKeepsDataInv ==
  ASSUME DataInv, NEW p \in Procs, CreateTable(p)
  PROVE  DataInv'
<1> DEFINE t == Tables[step[p]]
<1>1. /\ pc[p] = "tables"
      /\ tables' = tables \cup {t}
      /\ created' = [created EXCEPT ![p] = IF t \in tables THEN created[p] ELSE created[p] \cup {t}]
      /\ data' = data /\ abandoned' = abandoned
  BY DEF CreateTable
<1>2. \/ step' = [step EXCEPT ![p] = step[p] + 1] /\ pc' = pc
      \/ step' = [step EXCEPT ![p] = 1] /\ pc' = [pc EXCEPT ![p] = "data"]
  BY DEF CreateTable, Move
<1> HIDE DEF t
<1>4. TypeInv'
  <2>1. "data" \in Places
    BY PlacesFacts
  <2>2. pc' \in [Procs -> Places] /\ step' \in [Procs -> Nat \ {0}]
    BY <1>2, <2>1 DEF DataInv, TypeInv
  <2>3. created' = [q \in Procs |-> created'[q]]
    BY <1>1 DEF DataInv, TypeInv
  <2>4. QED
    BY <2>2, <2>3 DEF TypeInv
<1>5. \A q \in Procs \ {p} : pc'[q] = pc[q] /\ step'[q] = step[q] /\ created'[q] = created[q]
  BY <1>1, <1>2 DEF DataInv, TypeInv
<1>6. \/ pc'[p] = "tables"
      \/ pc'[p] = "data" /\ step'[p] = 1
  BY <1>1, <1>2 DEF DataInv, TypeInv
<1>7. created'[p] = IF t \in tables THEN created[p] ELSE created[p] \cup {t}
  BY <1>1 DEF DataInv, TypeInv
<1>8. \A q \in Procs : Ahead(q)'
  <2>1. ASSUME NEW q \in Procs \ {p} PROVE Ahead(q)'
    BY <1>1, <1>5 DEF DataInv, Ahead
  <2>2. Ahead(p)'
    BY <1>6 DEF Ahead
  <2>3. QED
    BY <2>1, <2>2
<1>9. ASSUME NEW i \in 1..Count PROVE Owed(i)'
  <2>1. i \in Nat /\ i >= 1
    BY DEF Count
  <2>2. TableAt(i) \in created'[p] => Owes(p, i)'
    BY <1>6, <2>1 DEF Owes
  <2>3. CASE TableAt(i) \in tables
    <3>1. CASE \E q \in Procs : Owes(q, i)
      <4>1. PICK q \in Procs : Owes(q, i)
        BY <3>1
      <4>2. CASE q = p
        <5>1. TableAt(i) \in created'[p]
          BY <4>1, <4>2, <1>7 DEF Owes
        <5>2. QED
          BY <5>1, <2>2 DEF Owed
      <4>3. CASE q # p
        <5>1. Owes(q, i)'
          BY <4>1, <4>3, <1>5, OthersOwe DEF DataInv
        <5>2. QED
          BY <5>1 DEF Owed
      <4>4. QED
        BY <4>2, <4>3
    <3>2. CASE RowAt(i) \in data \cup Migrated \/ TableAt(i) \in abandoned
      BY <3>2, <1>1 DEF Owed
    <3>3. QED
      BY <2>3, <3>1, <3>2 DEF DataInv, Owed
  <2>4. CASE TableAt(i) \notin tables
    <3>1. CASE TableAt(i) = t
      BY <3>1, <2>4, <1>7, <2>2 DEF Owed
    <3>2. CASE TableAt(i) # t
      BY <3>2, <2>4, <1>1 DEF Owed
    <3>3. QED
      BY <3>1, <3>2
  <2>5. QED
    BY <2>3, <2>4
<1>10. QED
  BY <1>1, <1>4, <1>8, <1>9 DEF DataInv, MigratedMeansMigrated

LEMMA CreateRowKeepsDataInv ==
  ASSUME DataInv, NEW p \in Procs, CreateRow(p)
  PROVE  DataInv'
<1> DEFINE s == step[p]
<1>1. /\ pc[p] = "data" /\ s \in Nat \ {0}
      /\ tables' = tables /\ abandoned' = abandoned /\ created' = created
  BY DEF CreateRow, DataInv, TypeInv
<1>2. CASE s > Count
  <2>1. Move(p, "upgrade") /\ data' = data /\ step' = step
    BY <1>1, <1>2, RowFacts DEF CreateRow, Count
  <2>2. "upgrade" \in Places
    BY PlacesFacts
  <2>3. \A i \in 1..Count : step[p] > i /\ pc[p] = "data"
    BY <1>1, <1>2 DEF Count
  <2>4. "db_migration_version" \in data' => "foliop_version" \in data'
    BY <2>1 DEF DataInv, MigratedMeansMigrated
  <2>5. QED
    BY <1>1, <2>1, <2>2, <2>3, <2>4, QuietStep
<1>3. CASE s \in 1..Count
  <2>1. /\ data' = IF TableAt(s) \in created[p] THEN data \cup {RowAt(s)} ELSE data
        /\ step' = [step EXCEPT ![p] = s + 1]
        /\ pc' = pc
    BY <1>1, <1>3, RowFacts DEF CreateRow, Count, TableAt, RowAt
  <2>2. TypeInv'
    BY <1>1, <2>1 DEF DataInv, TypeInv
  <2>3. /\ \A q \in Procs \ {p} : pc'[q] = pc[q] /\ step'[q] = step[q] /\ created'[q] = created[q]
        /\ step'[p] = s + 1 /\ pc'[p] = "data" /\ created'[p] = created[p]
    BY <1>1, <2>1 DEF DataInv, TypeInv
  <2> HIDE DEF s
  <2>4. data \subseteq data'
    BY <2>1
  <2>5. MigratedMeansMigrated'
    <3>1. ASSUME RowAt(s) = "db_migration_version", TableAt(s) \in created[p]
          PROVE  "foliop_version" \in data
      <4>1. s = 10
        BY <1>3, <3>1, RowFacts
      <4>2. step[p] > 9 /\ "properties" \in created[p]
        BY <4>1, <3>1, RowFacts DEF s
      <4>3. QED
        BY <1>1, <4>2 DEF DataInv, Ahead
    <3>2. QED
      BY <2>1, <3>1 DEF DataInv, MigratedMeansMigrated
  <2>6. \A q \in Procs : Ahead(q)'
    <3>1. ASSUME NEW q \in Procs \ {p} PROVE Ahead(q)'
      BY <2>3, <2>4 DEF DataInv, Ahead
    <3>2. ASSUME s = 9 PROVE Ahead(p)'
      <4>1. TableAt(s) = "properties" /\ RowAt(s) = "foliop_version"
        BY <3>2, RowFacts
      <4>2. "properties" \in created[p] => "foliop_version" \in data'
        BY <4>1, <2>1
      <4>3. "properties" \in created'[p] => "foliop_version" \in data'
        BY <4>2, <2>3
      <4>4. QED
        BY <4>3 DEF Ahead
    <3>3. ASSUME s # 9 PROVE Ahead(p)'
      <4>1. s \in Nat /\ s + 1 > 9 => s > 9
        BY <1>3, <3>3 DEF Count
      <4>2. s > 9 /\ "properties" \in created[p] => "foliop_version" \in data'
        <5>1. Ahead(p)
          BY DEF DataInv
        <5>2. QED
          BY <5>1, <1>1, <2>4 DEF Ahead, s
      <4>3. step'[p] > 9 /\ "properties" \in created'[p] => "foliop_version" \in data'
        BY <1>3, <2>3, <4>1, <4>2 DEF Count
      <4>4. QED
        BY <4>3 DEF Ahead
    <3>4. Ahead(p)'
      BY <3>2, <3>3
    <3>5. QED
      BY <3>1, <3>4
  <2>7. \A i \in 1..Count : Owed(i)'
    <3>1. \A q \in Procs \ {p} : \A i \in 1..Count : Owes(q, i) => Owes(q, i)'
      BY <2>3, OthersOwe DEF DataInv
    <3>2. ASSUME NEW i \in 1..Count, Owes(p, i)
          PROVE  Owes(p, i)' \/ RowAt(i) \in data'
      <4>1. TableAt(i) \in created[p] /\ s <= i
        BY <1>1, <3>2 DEF Owes, s
      <4>2. CASE s = i
        BY <4>1, <4>2, <2>1
      <4>3. CASE s # i
        <5>1. s + 1 <= i
          BY <4>1, <4>3, <1>3 DEF Count
        <5>2. QED
          BY <5>1, <4>1, <2>3 DEF Owes
      <4>4. QED
        BY <4>2, <4>3
    <3>3. QED
      BY <1>1, <2>4, <3>1, <3>2, OwedIsKept DEF DataInv
  <2>8. QED
    BY <2>2, <2>5, <2>6, <2>7 DEF DataInv
<1>4. QED
  BY <1>1, <1>2, <1>3 DEF Count

LEMMA SameDataKeepsDataInv ==
  ASSUME DataInv, UNCHANGED <<pc, step, created, tables, data, abandoned>>
  PROVE  DataInv'
BY DEF DataInv, TypeInv, Ahead, Owed, Owes, MigratedMeansMigrated

LEMMA DataInvIsInductive ==
  ASSUME DataInv, [StartupNext]_startupVars
  PROVE  DataInv'
<1> DEFINE Goal == DataInv'
<1> USE DEF dbVars, Leave
<1>0. "db_migration_version" \in data => "foliop_version" \in data
  BY DEF DataInv, MigratedMeansMigrated
<1>1. ASSUME NEW p \in Procs, Start(p) PROVE Goal
  <2>1. "cacheWait" \in Places
    BY PlacesFacts
  <2>2. pc[p] \notin {"tables", "data"}
    BY <1>1 DEF Start
  <2>3. QED
    BY <1>0, <1>1, <2>1, <2>2, QuietStep DEF Start
<1>2. ASSUME NEW p \in Procs, Acquire(p) PROVE Goal
  <2>1. PICK place \in {"check", "tables"} : Move(p, place)
    BY <1>2 DEF Acquire
  <2>2. place \in Places /\ place # "data"
    BY <2>1, PlacesFacts
  <2>3. pc[p] \notin {"tables", "data"}
    BY <1>2 DEF Acquire, Waiting
  <2>4. UNCHANGED <<step, created, tables, data, abandoned>>
    BY <1>2 DEF Acquire
  <2>5. QED
    BY <1>0, <2>1, <2>2, <2>3, <2>4, QuietStep
<1>3. ASSUME NEW p \in Procs, GoOn(p) PROVE Goal
  <2>1. PICK place \in {"dbWait", "up"} : Move(p, place)
    BY <1>3 DEF GoOn
  <2>2. place \in Places /\ place \notin {"tables", "data"}
    BY <2>1, PlacesFacts
  <2>3. pc[p] \notin {"tables", "data"}
    BY <1>3 DEF GoOn, Waiting
  <2>4. UNCHANGED <<step, created, tables, data, abandoned>>
    BY <1>3 DEF GoOn
  <2>5. QED
    BY <1>0, <2>1, <2>2, <2>3, <2>4, QuietStep
<1>4. ASSUME NEW p \in Procs, CheckControl(p) PROVE Goal
  <2>1. PICK place \in {"dbWait", "query"} : Move(p, place)
    BY <1>4 DEF CheckControl
  <2>2. place \in Places /\ place \notin {"tables", "data"}
    BY <2>1, PlacesFacts
  <2>3. pc[p] \notin {"tables", "data"}
    BY <1>4 DEF CheckControl
  <2>4. UNCHANGED <<step, created, tables, data, abandoned>>
    BY <1>4 DEF CheckControl
  <2>5. QED
    BY <1>0, <2>1, <2>2, <2>3, <2>4, QuietStep
<1>4a. ASSUME NEW p \in Procs, CountFails(p) \/ QueryRows(p) PROVE Goal
  <2>1. PICK place \in {"dbWait", "query", "drop"} : Move(p, place)
    BY <1>4a DEF CountFails, QueryRows, Leave
  <2>2. place \in Places /\ place \notin {"tables", "data"}
    BY <2>1, PlacesFacts
  <2>3. pc[p] \notin {"tables", "data"}
    BY <1>4a DEF CountFails, QueryRows
  <2>4. UNCHANGED <<step, created, tables, data, abandoned>>
    BY <1>4a DEF CountFails, QueryRows
  <2>5. QED
    BY <1>0, <2>1, <2>2, <2>3, <2>4, QuietStep
<1>5. ASSUME NEW p \in Procs, DropControl(p) PROVE Goal
  <2>1. "create" \in Places
    BY PlacesFacts
  <2>2. pc[p] \notin {"tables", "data"}
    BY <1>5 DEF DropControl
  <2>3. QED
    BY <1>0, <1>5, <2>1, <2>2, QuietStep DEF DropControl
<1>6. ASSUME NEW p \in Procs, CreateControl(p) PROVE Goal
  <2>1. "dbWait" \in Places
    BY PlacesFacts
  <2>2. pc[p] \notin {"tables", "data"}
    BY <1>6 DEF CreateControl
  <2>3. QED
    BY <1>0, <1>6, <2>1, <2>2, QuietStep DEF CreateControl
<1>7. ASSUME NEW p \in Procs, CreateTable(p) PROVE Goal
  BY <1>7, CreateTableKeepsDataInv
<1>8. ASSUME NEW p \in Procs, CreateRow(p) PROVE Goal
  BY <1>8, CreateRowKeepsDataInv
<1>9. ASSUME NEW p \in Procs, Upgrade(p) PROVE Goal
  <2>1. pc[p] \notin {"tables", "data"} /\ "up" \in Places
    BY <1>9, PlacesFacts DEF Upgrade
  <2>2. Move(p, "up") /\ Forget(p) /\ tables' = tables
    BY <1>9 DEF Upgrade
  <2>3. abandoned \subseteq abandoned'
    BY <1>9 DEF Upgrade
  <2>4. data' = data \/ data' = data \cup Migrated
    BY <1>9 DEF Upgrade
  <2>5. data \subseteq data' /\ ("db_migration_version" \in data' => "foliop_version" \in data')
    BY <1>0, <2>4 DEF Migrated
  <2>6. QED
    BY <2>1, <2>2, <2>3, <2>5, QuietStep
<1>10. ASSUME NEW p \in Procs, Abort(p) PROVE Goal
  <2>1. "off" \in Places
    BY PlacesFacts
  <2>2. /\ Move(p, "off") /\ Forget(p) /\ tables' = tables /\ data' = data
        /\ abandoned' = abandoned \cup created[p]
    BY <1>10 DEF Abort
  <2>3. QED
    BY <1>0, <2>1, <2>2, QuietStep
<1>11. ASSUME NEW p \in Procs, Kill(p) PROVE Goal
  <2>1. "off" \in Places
    BY PlacesFacts
  <2>2. Move(p, "off") /\ Forget(p) /\ tables' = tables /\ data' = data
    BY <1>11 DEF Kill
  <2>3. pc[p] \in {"tables", "data"} => p \in Inside
    BY DEF Inside, DataSection
  <2>4. abandoned \subseteq abandoned' /\ (p \in Inside => created[p] \subseteq abandoned')
    BY <1>11 DEF Kill
  <2>5. QED
    BY <1>0, <2>1, <2>2, <2>3, <2>4, QuietStep
<1>12. ASSUME NEW p \in Procs, CacheImage(p) \/ RecordImage(p) PROVE Goal
  <2>1. PICK place \in {"up", "recording"} : Move(p, place)
    BY <1>12 DEF CacheImage, RecordImage
  <2>2. place \in Places /\ place \notin {"tables", "data"}
    BY <2>1, PlacesFacts
  <2>3. pc[p] \notin {"tables", "data"}
    BY <1>12 DEF CacheImage, RecordImage
  <2>4. UNCHANGED <<step, created, tables, data, abandoned>>
    BY <1>12 DEF CacheImage, RecordImage
  <2>5. QED
    BY <1>0, <2>1, <2>2, <2>3, <2>4, QuietStep
<1>13. CASE LoseLock
  BY <1>13, SameDataKeepsDataInv DEF LoseLock
<1>14. CASE RestartCache
  BY <1>14, SameDataKeepsDataInv DEF RestartCache
<1>14a. CASE LoseItem
  BY <1>14a, SameDataKeepsDataInv DEF LoseItem
<1>15. CASE UNCHANGED startupVars
  BY <1>15, SameDataKeepsDataInv DEF startupVars
<1>16. QED
  BY <1>1, <1>2, <1>3, <1>4, <1>5, <1>6, <1>7, <1>8, <1>9, <1>10, <1>11, <1>4a, <1>12,
     <1>13, <1>14, <1>14a, <1>15 DEF StartupNext, Advance

LEMMA DataInvAtTheStart == StartupInit => DataInv
<1>1. SUFFICES ASSUME StartupInit PROVE DataInv
  OBVIOUS
<1>2. /\ pc = [p \in Procs |-> "off"] /\ step = [p \in Procs |-> 1]
      /\ created = [p \in Procs |-> {}]
      /\ \/ tables = {} /\ data = {}
         \/ data = AllRows \ Migrated
  BY <1>1 DEF StartupInit
<1>3. TypeInv
  BY <1>2, PlacesFacts DEF TypeInv
<1>4. MigratedMeansMigrated
  BY <1>2 DEF MigratedMeansMigrated, Migrated
<1>5. \A p \in Procs : Ahead(p)
  BY <1>2 DEF Ahead
<1>6. ASSUME NEW i \in 1..Count PROVE Owed(i)
  <2>1. RowAt(i) \in AllRows
    BY RowFacts DEF AllRows, RowAt
  <2>2. QED
    BY <1>2, <2>1 DEF Owed
<1>7. QED
  BY <1>3, <1>4, <1>5, <1>6 DEF DataInv

LEMMA DataInvHolds == StartupSpec => []DataInv
BY DataInvAtTheStart, DataInvIsInductive, PTL DEF StartupSpec

\* At any number of starts, errors and crashes, the version number never claims
\* a migration that was not made (_init_db and _upgrade_db).
THEOREM MigrationsAreMade == StartupSpec => []MigratedMeansMigrated
<1>1. DataInv => MigratedMeansMigrated
  BY DEF DataInv
<1>2. QED
  BY <1>1, DataInvHolds, PTL

\* A default row that is missing is owed by the maker of its table, or its
\* maker ended before (the create_default_* flags of _init_db).
THEOREM MissingRowsAreOwed == StartupSpec => []RowsAreOwed
<1>1. DataInv => RowsAreOwed
  <2>1. SUFFICES ASSUME DataInv, NEW t \in tables, t \notin abandoned,
                        ~ \E p \in Inside : t \in created[p]
                 PROVE  RowsOf(t) \subseteq data \cup Migrated
    BY DEF RowsAreOwed
  <2>2. ASSUME NEW i \in 1..Count, TableAt(i) = t PROVE RowAt(i) \in data \cup Migrated
    <3>1. Owed(i)
      BY <2>1 DEF DataInv
    <3>2. \A p \in Procs : Owes(p, i) => p \in Inside /\ t \in created[p]
      BY <2>2 DEF Owes, Inside, DataSection
    <3>3. QED
      BY <2>1, <2>2, <3>1, <3>2 DEF Owed
  <2>3. QED
    BY <2>2, RowFacts DEF RowsOf, TableAt, RowAt
<1>2. QED
  BY <1>1, DataInvHolds, PTL

(***************************************************************************)
(* The images.  As long as no lock has been lost, whoever is in a section  *)
(* holds the lock, so that the check of the control database discounts the *)
(* right item and goes on to a reset only if the cache is empty; from then *)
(* on an image can be in the cache only if it raced the reset.             *)
(***************************************************************************)
\* An image is in the cache, and nothing that is excepted has happened.
Clean == losses = 0 /\ ~raced /\ "image" \in values

Listing == \E p \in Procs : pc[p] = "recording"

ListInv == /\ values \subseteq {"image", "reset"} /\ raced \in BOOLEAN
           /\ Clean => ("image" \in rows \/ Listing) /\ ctl /\ ~Resetting

LEMMA InsideHoldsTheLock ==
  ASSUME LockInv, losses = 0, NEW p \in Inside
  PROVE  locked
<1>1. Cardinality(Inside) # 0
  BY InsideIsFinite, FS_EmptySet
<1>2. QED
  BY <1>1, InsideIsFinite, LockCountValues DEF LockInv

\* A step that neither caches, lists nor resets, and takes nobody to a reset.
LEMMA NoResetKeepsListInv ==
  ASSUME LockInv, ListInv, UNCHANGED rows, values' \subseteq values,
         raced' \in BOOLEAN, raced => raced', ctl => ctl',
         losses' = losses \/ losses' = losses + 1,
         \/ UNCHANGED pc
         \/ \E p \in Procs, place \in Places \ {"query", "drop", "create"} :
              Move(p, place) /\ (pc[p] # "recording" \/ "image" \in rows \/ raced')
  PROVE  ListInv'
<1>1. Clean' => Clean
  BY DEF Clean, LockInv
<1>2. Resetting' => Resetting
  BY DEF LockInv, Move, Resetting
<1>3. Clean' /\ Listing => "image" \in rows \/ Listing'
  BY DEF LockInv, Move, Listing, Clean
<1>4. QED
  BY <1>1, <1>2, <1>3 DEF ListInv

LEMMA CountedNothing ==
  ASSUME LockInv, ListInv, NEW p \in Inside, losses = 0, Uncounted <= 0
  PROVE  values = {}
<1>1. locked
  BY InsideHoldsTheLock
<1>2. IsFiniteSet({"image", "reset"})
  <2>1. IsFiniteSet({"image"})
    BY FS_Singleton
  <2>2. IsFiniteSet({"image"} \cup {"reset"})
    BY <2>1, FS_AddElement
  <2>3. {"image"} \cup {"reset"} = {"image", "reset"}
    OBVIOUS
  <2>4. QED
    BY <2>2, <2>3
<1>3. IsFiniteSet(values) /\ Cardinality(values) \in Nat
  BY <1>2, FS_Subset, FS_CardinalityType DEF ListInv
<1>4. Cardinality(values) <= 0
  BY <1>1, <1>3 DEF Uncounted
<1>5. QED
  BY <1>3, <1>4, FS_EmptySet

LEMMA ListInvIsInductive ==
  ASSUME LockInv, ListInv, [StartupNext]_startupVars
  PROVE  ListInv'
<1> DEFINE Goal == ListInv'
<1> USE DEF cacheVars
<1>0. /\ \A place \in {"off", "cacheWait", "dbWait", "check", "tables", "data", "upgrade", "up"} :
            place \in Places \ {"query", "drop", "create"}
      /\ raced \in BOOLEAN
  BY DEF Places, CacheSection, DataSection, Running, ListInv
\* The steps that are of no consequence here.
<1>1. ASSUME NEW p \in Procs, Start(p) PROVE Goal
  BY <1>0, <1>1, NoResetKeepsListInv DEF Start
<1>2. ASSUME NEW p \in Procs, Acquire(p) PROVE Goal
  <2>1. PICK place \in {"check", "tables"} : Move(p, place)
    BY <1>2 DEF Acquire
  <2>2. UNCHANGED <<values, ctl, rows, raced, losses>> /\ pc[p] # "recording"
    BY <1>2 DEF Acquire, Waiting
  <2>3. QED
    BY <1>0, <2>1, <2>2, NoResetKeepsListInv
<1>3. ASSUME NEW p \in Procs, GoOn(p) PROVE Goal
  <2>1. PICK place \in {"dbWait", "up"} : Move(p, place)
    BY <1>3 DEF GoOn
  <2>2. UNCHANGED <<values, ctl, rows, raced, losses>> /\ pc[p] # "recording"
    BY <1>3 DEF GoOn, Waiting
  <2>3. QED
    BY <1>0, <2>1, <2>2, NoResetKeepsListInv
<1>4. ASSUME NEW p \in Procs, CheckControl(p) PROVE Goal
  <2>1. UNCHANGED <<values, rows, raced, losses>> /\ pc[p] = "check" /\ (ctl => ctl')
    BY <1>4 DEF CheckControl
  <2>2. CASE Leave(p, "dbWait")
    <3>1. Move(p, "dbWait")
      BY <2>2 DEF Leave
    <3>2. QED
      BY <1>0, <2>1, <3>1, NoResetKeepsListInv
  <2>3. CASE Uncounted <= 0
    <3>1. p \in Inside
      BY <2>1 DEF Inside, CacheSection
    <3>2. ~Clean'
      BY <2>1, <2>3, <3>1, CountedNothing DEF Clean
    <3>3. QED
      BY <2>1, <3>2 DEF ListInv
  <2>4. QED
    BY <1>4, <2>2, <2>3 DEF CheckControl
<1>4a. ASSUME NEW p \in Procs, CountFails(p) PROVE Goal
  BY <1>4a DEF CountFails, ListInv, Clean
\* Nobody gets past the count with an image in the cache.
<1>5. ASSUME NEW p \in Procs, QueryRows(p) \/ DropControl(p) \/ CreateControl(p) PROVE Goal
  <2>1. ~Clean
    BY <1>5 DEF QueryRows, DropControl, CreateControl, ListInv, Resetting
  <2>2. UNCHANGED <<raced, losses>> /\ (values' = values \/ values' = values \cup {"reset"})
    BY <1>5 DEF QueryRows, DropControl, CreateControl
  <2>3. QED
    BY <2>1, <2>2 DEF ListInv, Clean
<1>7. ASSUME NEW p \in Procs, CreateTable(p) PROVE Goal
  <2>1. UNCHANGED <<values, ctl, rows, raced, losses>> /\ pc[p] = "tables"
    BY <1>7 DEF CreateTable
  <2>2. UNCHANGED pc \/ Move(p, "data")
    BY <1>7 DEF CreateTable
  <2>3. QED
    BY <1>0, <2>1, <2>2, NoResetKeepsListInv
<1>8. ASSUME NEW p \in Procs, CreateRow(p) PROVE Goal
  <2>1. UNCHANGED <<values, ctl, rows, raced, losses>> /\ pc[p] = "data"
    BY <1>8 DEF CreateRow
  <2>2. UNCHANGED pc \/ Move(p, "upgrade")
    BY <1>8 DEF CreateRow
  <2>3. QED
    BY <1>0, <2>1, <2>2, NoResetKeepsListInv
<1>9. ASSUME NEW p \in Procs, Upgrade(p) PROVE Goal
  <2>1. /\ UNCHANGED <<values, ctl, rows, raced, losses>> /\ Move(p, "up")
        /\ pc[p] # "recording"
    BY <1>9 DEF Upgrade, Leave
  <2>2. QED
    BY <1>0, <2>1, NoResetKeepsListInv
<1>10. ASSUME NEW p \in Procs, Abort(p) PROVE Goal
  <2>1. /\ UNCHANGED <<values, ctl, rows, raced, losses>> /\ Move(p, "off")
        /\ pc[p] # "recording"
    BY <1>10 DEF Abort, Leave, Inside, CacheSection, DataSection
  <2>2. QED
    BY <1>0, <2>1, NoResetKeepsListInv
<1>11. ASSUME NEW p \in Procs, Kill(p) PROVE Goal
  <2>1. /\ UNCHANGED <<values, ctl, rows, losses>> /\ Move(p, "off")
        /\ raced' = (raced \/ (pc[p] = "recording" /\ "image" \notin rows))
    BY <1>11 DEF Kill
  <2>2. QED
    BY <1>0, <2>1, NoResetKeepsListInv
<1>12. ASSUME NEW p \in Procs, CacheImage(p) PROVE Goal
  <2>1. /\ values' = values \cup {"image"} /\ UNCHANGED ctl /\ Move(p, "recording")
        /\ raced' = (raced \/ Resetting \/ ~ctl)
    BY <1>12 DEF CacheImage
  <2>2. Listing' /\ (Resetting' => Resetting)
    BY <2>1 DEF Listing, Resetting, Move, LockInv
  <2>3. raced' \in BOOLEAN
    BY <2>1, Zenon DEF Resetting
  <2>4. QED
    BY <2>1, <2>2, <2>3 DEF ListInv, Clean
<1>12a. ASSUME NEW p \in Procs, RecordImage(p) PROVE Goal
  <2>1. /\ UNCHANGED <<values, ctl, raced, losses>> /\ Move(p, "up")
        /\ rows' = IF ctl THEN rows \cup {"image"} ELSE rows
    BY <1>12a DEF RecordImage
  <2>2. Resetting' => Resetting
    BY <2>1 DEF Resetting, Move, LockInv
  <2>3. Clean' => Clean /\ "image" \in rows'
    BY <2>1 DEF ListInv, Clean
  <2>4. QED
    BY <2>1, <2>2, <2>3 DEF ListInv
<1>13. CASE LoseLock
  <2>1. UNCHANGED <<values, ctl, rows, raced, pc>> /\ losses' = losses + 1
    BY <1>13 DEF LoseLock
  <2>2. QED
    BY <1>0, <2>1, NoResetKeepsListInv
<1>14. CASE RestartCache
  <2>1. values' = {} /\ raced' = raced
    BY <1>14 DEF RestartCache
  <2>2. QED
    BY <2>1 DEF ListInv, Clean
<1>14a. CASE LoseItem
  <2>1. /\ UNCHANGED <<ctl, rows, raced, pc, losses>> /\ values' \subseteq values
    BY <1>14a DEF LoseItem
  <2>2. QED
    BY <1>0, <2>1, NoResetKeepsListInv
<1>15. CASE UNCHANGED startupVars
  <2>1. UNCHANGED <<values, ctl, rows, raced, pc, losses>>
    BY <1>15 DEF startupVars
  <2>2. QED
    BY <1>0, <2>1, NoResetKeepsListInv
<1>16. QED
  BY <1>1, <1>2, <1>3, <1>4, <1>4a, <1>5, <1>7, <1>8, <1>9, <1>10, <1>11, <1>12, <1>12a,
     <1>13, <1>14, <1>14a, <1>15 DEF StartupNext, Advance

\* An image in the cache is listed in the control database or about to be, for any
\* number of processes and mishaps, unless a lock was lost, the count had failed,
\* the image was cached during a reset of the database or while there was no
\* table, or its process was killed before it was listed (CacheManager._init_db
\* and put).
THEOREM CachedIsListed == StartupSpec => []ImagesAreListed
<1>1. StartupInit => ListInv
  BY DEF StartupInit, ListInv, Clean
<1>2. LockInv /\ ListInv => ImagesAreListed
  <2>1. SUFFICES ASSUME LockInv, ListInv, "image" \in values, ~(losses > 0), ~raced
                 PROVE  "image" \in rows \/ Listing
    BY DEF ImagesAreListed, Listing
  <2>2. losses = 0
    BY <2>1 DEF LockInv
  <2>3. QED
    BY <2>1, <2>2 DEF ListInv, Clean
<1>3. QED
  BY <1>1, <1>2, LockInvAtTheStart, LockInvIsInductive, ListInvIsInductive, PTL DEF StartupSpec
=============================================================================
