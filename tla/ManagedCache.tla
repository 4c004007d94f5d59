---------------------------- MODULE ManagedCache ----------------------------
(***************************************************************************)
(* The managed objects of cache_manager.py.                               *)
(*                                                                         *)
(* An object of any size is cut into chunks, each a memcached entry of its *)
(* own, with the number of chunks in the header of the first.  A record   *)
(* in the cache control database makes the object searchable, which is    *)
(* how the cached variations of an image are found to be deleted.  Chunks  *)
(* and record are written and removed one after the other, with nothing   *)
(* to keep other threads, of any process or host, from coming in between. *)
(*                                                                         *)
(* One key stands for all: only clear() goes over several, and does the   *)
(* same to each.  Of the record only its existence counts.                *)
(***************************************************************************)
EXTENDS Naturals

CONSTANTS Threads,
          Objects, NoObject,
          SlotsOf,          \* _slots_for_size of each object
          MaxObjectSlots,
          Calls,            \* what the threads call
          MaxFaults         \* bound on errors of memcached or the database, and on kills

ASSUME ManagedAssumption ==
    /\ NoObject \notin Objects
    /\ SlotsOf \in [Objects -> Nat \ {0}]
    /\ MaxObjectSlots \in Nat \ {0} /\ MaxFaults \in Nat
    /\ Calls \subseteq {"get", "put", "delete", "clear"}

VARIABLES
    chunk,                      \* memcached: the object whose chunk each slot holds
    recorded,                   \* the control database: whether the key has a record
    at, object, todo, got, intact,  \* per thread
    faults,
    marred,                     \* history: see OrphansNeedARace
    torn, met                   \* history: see GetReturnsOneObject; met per thread

storage == <<chunk, recorded>>
locals  == <<at, object, todo, got, intact>>
history == <<marred, torn, met>>
vars    == <<storage, locals, faults, history>>

Slots == 1..MaxObjectSlots
Held  == [Slots -> Objects \cup {NoObject}]
Empty == [i \in Slots |-> NoObject]
Steps == {"idle", "returned", "getting", "storing", "merging", "inserting",
          "removing", "forgetting", "flushing"}

TypeOK ==
    /\ chunk \in Held /\ recorded \in BOOLEAN
    /\ at \in [Threads -> Steps] /\ object \in [Threads -> Objects \cup {NoObject}]
    /\ todo \in [Threads -> SUBSET Slots] /\ got \in [Threads -> Held]
    /\ intact \in [Threads -> BOOLEAN]
    /\ faults \in 0..MaxFaults
    /\ marred \in BOOLEAN /\ torn \in BOOLEAN /\ met \in [Threads -> BOOLEAN]

Init ==
    /\ chunk = Empty /\ recorded = FALSE
    /\ at = [t \in Threads |-> "idle"] /\ object = [t \in Threads |-> NoObject]
    /\ todo = [t \in Threads |-> {}] /\ got = [t \in Threads |-> Empty]
    /\ intact = [t \in Threads |-> TRUE]
    /\ faults = 0
    /\ marred = FALSE /\ torn = FALSE /\ met = [t \in Threads |-> FALSE]

\* A thread that may call next, the answer of its last get() still at hand.
Free(t) == at[t] \in {"idle", "returned"}

Locals(t, step, obj, slots, answer, ok) ==
    /\ at' = [at EXCEPT ![t] = step]
    /\ object' = [object EXCEPT ![t] = obj]
    /\ todo' = [todo EXCEPT ![t] = slots]
    /\ got' = [got EXCEPT ![t] = answer]
    /\ intact' = [intact EXCEPT ![t] = ok]

End(t) == Locals(t, "idle", NoObject, {}, Empty, TRUE)

\* delete(key), from its beginning; `obj` is the object that a failed put() has
\* begun to store.
Removal(t, obj) == Locals(t, "removing", obj, Slots, Empty, TRUE)

\* An error that the code meets; what it does to the call is up to the action.
Fault == faults < MaxFaults /\ faults' = faults + 1

-----------------------------------------------------------------------------
(* get *)

\* The first chunk says how many there are.
GetFirst(t) ==
    /\ "get" \in Calls /\ Free(t) /\ chunk[1] # NoObject
    /\ LET n == SlotsOf[chunk[1]] IN
       Locals(t, IF n = 1 THEN "returned" ELSE "getting", NoObject, 2..n,
              [Empty EXCEPT ![1] = chunk[1]], TRUE)
    /\ UNCHANGED <<storage, faults>>

\* No first chunk: the record is deleted in the next step.
MissFirst(t) ==
    /\ "get" \in Calls /\ Free(t) /\ chunk[1] = NoObject
    /\ Locals(t, "forgetting", NoObject, {}, Empty, TRUE)
    /\ UNCHANGED <<storage, faults>>

\* raw_get answers an error of memcached with None, as if the key was missing.
FailFirst(t) ==
    /\ "get" \in Calls /\ Free(t) /\ Fault
    /\ Locals(t, "forgetting", NoObject, {}, Empty, TRUE)
    /\ UNCHANGED storage

\* Mutant: no comparison of the number of chunks found.
SomeChunks(answer) == TRUE

\* len(chunks) == len(chunk_keys)
AllChunks(answer) == \A i \in 1..SlotsOf[answer[1]] : answer[i] # NoObject

\* get_multi: the servers answer one after the other.  When all have, the
\* chunks are joined, or what there is of them removed.
GetRest(t) ==
    /\ at[t] = "getting"
    /\ \E i \in todo[t] :
         LET answer == [got[t] EXCEPT ![i] = chunk[i]] IN
         IF todo[t] # {i} THEN Locals(t, "getting", NoObject, todo[t] \ {i}, answer, TRUE)
         ELSE IF AllChunks(answer) THEN Locals(t, "returned", NoObject, {}, answer, TRUE)
         ELSE Removal(t, NoObject)
    /\ UNCHANGED <<storage, faults>>

-----------------------------------------------------------------------------
(* put *)

FitsIn(o) == SlotsOf[o] <= MaxObjectSlots

\* An object that is too large is refused, with no effect.
Put(t, o) ==
    /\ "put" \in Calls /\ Free(t) /\ FitsIn(o)
    /\ Locals(t, "storing", o, 1..SlotsOf[o], Empty, TRUE)
    /\ UNCHANGED <<storage, faults>>

\* Mutant: a put that has failed just says so.
GiveUp(t, ok) ==
    IF ok THEN Locals(t, "merging", NoObject, {}, Empty, TRUE) ELSE End(t)

\* After set_multi: the record is added if all chunks were; otherwise the key,
\* which may hold a mix of chunks, is deleted.
AfterStore(t, ok) ==
    IF ok THEN Locals(t, "merging", NoObject, {}, Empty, TRUE) ELSE Removal(t, object[t])

\* set_multi: the servers store one after the other, or fail to.
StoreChunk(t) ==
    /\ at[t] = "storing"
    /\ \E i \in todo[t], stored \in BOOLEAN :
         LET ok == intact[t] /\ stored IN
         /\ IF stored
            THEN chunk' = [chunk EXCEPT ![i] = object[t]] /\ UNCHANGED faults
            ELSE UNCHANGED chunk /\ Fault
         /\ IF todo[t] # {i}
            THEN Locals(t, "storing", object[t], todo[t] \ {i}, Empty, ok)
            ELSE AfterStore(t, ok)
    /\ UNCHANGED recorded

\* merge() looks for the record.  If there is one the commit updates it at
\* most, and does not create it again should it have been deleted.
Merge(t) ==
    /\ at[t] = "merging"
    /\ IF recorded THEN End(t) ELSE Locals(t, "inserting", NoObject, {}, Empty, TRUE)
    /\ UNCHANGED <<storage, faults>>

\* The insertion; on a duplicate key the existing record is updated.
Insert(t) ==
    /\ at[t] = "inserting"
    /\ recorded' = TRUE
    /\ End(t)
    /\ UNCHANGED <<chunk, faults>>

-----------------------------------------------------------------------------
(* delete and clear *)

Delete(t) ==
    /\ "delete" \in Calls /\ Free(t)
    /\ Removal(t, NoObject)
    /\ UNCHANGED <<storage, faults>>

Removed(t, i) ==
    IF todo[t] = {i} THEN Locals(t, "forgetting", NoObject, {}, Empty, TRUE)
    ELSE Locals(t, "removing", object[t], todo[t] \ {i}, Empty, TRUE)

\* delete_multi; whether it has worked is not looked at.
RemoveChunk(t) ==
    /\ at[t] = "removing"
    /\ \E i \in todo[t] :
         /\ Removed(t, i)
         /\ chunk' = [chunk EXCEPT ![i] = NoObject]
    /\ UNCHANGED <<recorded, faults>>

RemoveFails(t) ==
    /\ at[t] = "removing" /\ Fault
    /\ \E i \in todo[t] : Removed(t, i)
    /\ UNCHANGED storage

DeleteRecord(t) ==
    /\ at[t] = "forgetting"
    /\ recorded' = FALSE
    /\ End(t)
    /\ UNCHANGED <<chunk, faults>>

\* clear() deletes the records and then empties memcached.
Clear(t) ==
    /\ "clear" \in Calls /\ Free(t)
    /\ recorded' = FALSE
    /\ Locals(t, "flushing", NoObject, {}, Empty, TRUE)
    /\ UNCHANGED <<chunk, faults>>

Flush(t) ==
    /\ at[t] = "flushing"
    /\ chunk' = Empty
    /\ End(t)
    /\ UNCHANGED <<recorded, faults>>

\* A call that ends half way: the query fails, or the process is killed.
Fail(t) ==
    /\ ~Free(t) /\ Fault
    /\ End(t)
    /\ UNCHANGED storage

\* memcached drops an entry for want of space.
Evict ==
    /\ \E i \in Slots : chunk[i] # NoObject /\ chunk' = [chunk EXCEPT ![i] = NoObject]
    /\ UNCHANGED <<recorded, locals, faults>>

-----------------------------------------------------------------------------

Putting  == \E t \in Threads : at[t] \in {"storing", "merging", "inserting"}
Removing == \E t \in Threads : at[t] \in {"removing", "forgetting"}
Flushing == \E t \in Threads : at[t] = "flushing"

Step(t) ==
    \/ GetFirst(t) \/ MissFirst(t) \/ GetRest(t)
    \/ (\E o \in Objects : Put(t, o)) \/ StoreChunk(t) \/ Merge(t) \/ Insert(t)
    \/ Delete(t) \/ RemoveChunk(t) \/ DeleteRecord(t)
    \/ Clear(t) \/ Flush(t)

FaultStep(t) == FailFirst(t) \/ RemoveFails(t) \/ Fail(t)

Storing(t) == at[t] = "storing"

\* The put() of t has begun and what it wrote is neither all there nor removed.
Writing(t) == Storing(t) \/ (at[t] = "removing" /\ object[t] # NoObject)

\* The objects that have a chunk in the cache or are being stored.
Around ==
    {chunk[i] : i \in {j \in Slots : chunk[j] # NoObject}}
        \cup {object[t] : t \in {u \in Threads : Storing(u)}}

\* The write of t mixes two objects, or may.
Replacing(t) == Writing(t) /\ (\E o1, o2 \in Around : o1 # o2)

\* Two puts store different objects.
Contended ==
    \E t, u \in Threads : Storing(t) /\ Storing(u) /\ object[t] # object[u]

\* While t reads the object `first`, another is written.
Overwritten(first) == (\E u \in Threads : Writing(u)) /\ (\E o \in Around : o # first)

\* Nothing is left of what has been written before, as far as get() can see.
Gone == chunk[1] = NoObject /\ \A t \in Threads : ~Writing(t)

\* Whether something has happened that may leave an object without a record,
\* since its first chunk was last gone with no put in progress (marred); whether
\* chunks of two objects may be left in the cache (torn); and whether each
\* thread's get() has met such a mix, or the writing of another object (met).
Mar(failed) ==
    marred' = (failed \/ (/\ marred \/ (Putting /\ Removing)'
                          /\ chunk'[1] # NoObject \/ Putting'))

Tear(cut) == torn' = ((torn \/ Contended' \/ cut) /\ ~Gone')

Meet ==
    met' = [t \in Threads |->
              \/ met[t] /\ at'[t] \in {at[t], "returned"}
              \/ at'[t] = "getting" /\ (torn' \/ Overwritten(got[t][1])')]

Next ==
    \/ /\ (\E t \in Threads : Step(t)) \/ Evict
       /\ Mar(FALSE) /\ Tear(FALSE) /\ Meet
    \/ /\ \E t \in Threads : FaultStep(t) /\ Tear(Replacing(t))
       /\ Mar(TRUE) /\ Meet

Spec == Init /\ [][Next]_vars

-----------------------------------------------------------------------------
(* Properties *)

\* What get() returns is one object and the whole of it ("Return correctly
\* ordered, re-constituted object"), whatever is put, evicted, removed or fails
\* meanwhile - unless a put() of another object under the key overlapped the
\* get(), or two puts of different objects overlapped each other, or a put() that
\* replaces an object was killed, or could not remove what it had begun.  A put()
\* that fails otherwise never leaves the chunks of two objects behind.
GetReturnsOneObject ==
    \A t \in Threads : at[t] = "returned" /\ ~met[t] =>
        \E o \in Objects : got[t] = [i \in Slots |-> IF i <= SlotsOf[o] THEN o ELSE NoObject]

\* An object has a record while nobody is storing or removing, so that search()
\* finds what get() would return - unless a put() overlapped a removal of the
\* same key, or a step of a removal failed, or a call was cut short.  A put()
\* that fails, evictions and clear() alone never leave an object unrecorded.
\* Without the first chunk the others are out of reach of get(), and remain
\* until memcached drops them.
OrphansNeedARace ==
    ~marred /\ ~Putting /\ ~Removing /\ ~Flushing => chunk[1] = NoObject \/ recorded
=============================================================================
