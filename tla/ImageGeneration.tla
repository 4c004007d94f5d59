-------------------------- MODULE ImageGeneration --------------------------
(***************************************************************************)
(* get_image and reset_image of image_manager.py, for the variations       *)
(* (sizes, tiles) of one image file that are wanted by several threads of  *)
(* any number of processes.                                                *)
(*                                                                         *)
(* A request answers from the cache, waits for another that generates the *)
(* same variation, or generates it itself: from a variation that is cached *)
(* or from the file.  A tile is generated from the untiled image of its    *)
(* size, which is generated first by the same request.  Uploads, deletions *)
(* and refreshes remove all variations from the cache.                    *)
(*                                                                         *)
(* An image is the version of the file it was made from, or an error       *)
(* message about it.  The cache is that of ManagedCache with objects of    *)
(* one chunk; only the steps of get(), put() and delete() are kept that    *)
(* come between data and record.                                          *)
(***************************************************************************)
EXTENDS Naturals, FiniteSets

CONSTANTS Threads,
          Variants,         \* cache keys of the image
          Tiles, BaseOf,    \* those with a tile_spec, and the same without it
          Suits,            \* <<b, v>>: suitable_for_base, and found by the search for v
          Plain,            \* the variant without attributes, with which uploads reset
          NoVariant,
          RaiseTooBusy,     \* IMAGE_GENERATION_RAISE_TOO_BUSY
          SlowGeneration,   \* whether a generation may outlast its lock
          MayFail,          \* whether making an image may raise ImageError
          MayBeTooLarge,    \* whether an image may exceed the slots of the cache
          MaxRows,          \* search() returns that many at most
          MaxChanges, MaxKills  \* bounds

ASSUME GenerationAssumption ==
    /\ Tiles \subseteq Variants /\ BaseOf \in [Tiles -> Variants \ Tiles]
    /\ Suits \subseteq Variants \X Variants
    /\ Plain \in Variants /\ NoVariant \notin Variants
    /\ {RaiseTooBusy, SlowGeneration, MayFail, MayBeTooLarge} \subseteq BOOLEAN
    /\ {MaxRows, MaxChanges, MaxKills} \subseteq Nat

VARIABLES
    file, changes,               \* the disk: version of the file, or 0 for none; versions so far
    cached, recorded,            \* memcached and the control database, per variant
    lock, flag,                  \* memcached: LOCK_ and TILE_BASE_ entries
    at, want, outer, options, current, held, after,  \* per thread
    marred, kills                \* history

disk    == <<file, changes>>
memory  == <<cached, recorded>>
locals  == <<at, want, outer, options, current, held, after>>
vars    == <<disk, memory, lock, flag, locals, marred, kills>>

Image == [file : 1..(MaxChanges + 1), error : BOOLEAN]

Generating == {"search", "trying", "dropping", "tilebase", "flagged", "basegone", "reading",
               "adjusting", "storing", "recording"}
Resetting  == {"removing", "forgetting", "searching", "clearing", "cleared"}
Steps      == Generating \cup Resetting \cup
              {"idle", "lookup", "missing", "ask", "waiting", "retry", "missed", "busy",
               "claim", "locking", "unlocking", "flagging", "failing"}

\* A slot of the cache, and what a thread holds, is a set of at most one image.
TypeOK ==
    /\ file \in 0..(MaxChanges + 1) /\ changes \in 0..MaxChanges
    /\ cached \in [Variants -> SUBSET Image] /\ recorded \in [Variants -> BOOLEAN]
    /\ lock \in [Variants -> BOOLEAN] /\ flag \in [Variants -> BOOLEAN]
    /\ at \in [Threads -> Steps]
    /\ want \in [Threads -> Variants \cup {NoVariant}]
    /\ outer \in [Threads -> Tiles \cup {NoVariant}]
    /\ options \in [Threads -> SUBSET Variants]
    /\ current \in [Threads -> Variants \cup {NoVariant}]
    /\ held \in [Threads -> SUBSET Image]
    /\ after \in [Threads -> {"idle", "lookup"}]
    /\ marred \in BOOLEAN /\ kills \in 0..MaxKills

Init ==
    /\ file = 1 /\ changes = 0
    /\ cached = [v \in Variants |-> {}] /\ recorded = [v \in Variants |-> FALSE]
    /\ lock = [v \in Variants |-> FALSE] /\ flag = [v \in Variants |-> FALSE]
    /\ at = [t \in Threads |-> "idle"] /\ want = [t \in Threads |-> NoVariant]
    /\ outer = [t \in Threads |-> NoVariant] /\ options = [t \in Threads |-> {}]
    /\ current = [t \in Threads |-> NoVariant] /\ held = [t \in Threads |-> {}]
    /\ after = [t \in Threads |-> "idle"]
    /\ marred = FALSE /\ kills = 0

Goto(t, step) == at' = [at EXCEPT ![t] = step]
Hold(t, images) == held' = [held EXCEPT ![t] = images]

\* The request ends, and its local variables with it.
End(t) ==
    /\ Goto(t, "idle")
    /\ want' = [want EXCEPT ![t] = NoVariant] /\ outer' = [outer EXCEPT ![t] = NoVariant]
    /\ options' = [options EXCEPT ![t] = {}] /\ current' = [current EXCEPT ![t] = NoVariant]
    /\ Hold(t, {}) /\ after' = [after EXCEPT ![t] = "idle"]

-----------------------------------------------------------------------------
(* get_image: from the cache, or by waiting *)

Request(t, v) ==
    /\ at[t] = "idle"
    /\ Goto(t, "lookup") /\ want' = [want EXCEPT ![t] = v]
    /\ UNCHANGED <<disk, memory, lock, flag, outer, options, current, held, after>>

\* get_image returns, or raises, to the request or to _get_tile_base_image.
Answer(t) ==
    IF outer[t] = NoVariant THEN End(t)
    ELSE /\ Goto(t, "flagging") /\ Hold(t, cached[want[t]])
         /\ UNCHANGED <<want, outer, options, current, after>>

LookUp(t) ==
    /\ at[t] \in {"lookup", "retry"}
    /\ \/ cached[want[t]] # {} /\ Answer(t)
       \/ /\ cached[want[t]] = {}
          /\ Goto(t, IF at[t] = "lookup" THEN "missing" ELSE "missed")
          /\ UNCHANGED <<want, outer, options, current, held, after>>
    /\ UNCHANGED <<disk, memory, lock, flag>>

\* A cache miss deletes the record.
Forget(t) ==
    /\ at[t] \in {"missing", "missed"}
    /\ recorded' = [recorded EXCEPT ![want[t]] = FALSE]
    /\ Goto(t, IF at[t] = "missing" THEN "ask" ELSE IF RaiseTooBusy THEN "busy" ELSE "claim")
    /\ UNCHANGED <<disk, cached, lock, flag, want, outer, options, current, held, after>>

Ask(t) ==
    /\ at[t] = "ask"
    /\ Goto(t, IF lock[want[t]] THEN "waiting" ELSE "claim")
    /\ UNCHANGED <<disk, memory, lock, flag, want, outer, options, current, held, after>>

WaitOver(t) ==
    /\ at[t] = "waiting" /\ ~lock[want[t]]
    /\ Goto(t, "retry")
    /\ UNCHANGED <<disk, memory, lock, flag, want, outer, options, current, held, after>>

\* Mutant: no timeout.
WaitOn(t) ==
    /\ at[t] = "waiting" /\ lock[want[t]]
    /\ UNCHANGED <<disk, memory, lock, flag, locals>>

WaitTimesOut(t) ==
    /\ at[t] = "waiting" /\ lock[want[t]]
    /\ Goto(t, "retry")
    /\ UNCHANGED <<disk, memory, lock, flag, want, outer, options, current, held, after>>

\* raise ServerTooBusyError.  It leaves _get_tile_base_image too, which sets
\* its flag, and then the request for the tile, which clears its lock.
Raise(t) ==
    /\ at[t] = "busy"
    /\ IF outer[t] = NoVariant THEN End(t)
       ELSE Goto(t, "failing") /\ UNCHANGED <<want, outer, options, current, held, after>>
    /\ UNCHANGED <<disk, memory, lock, flag>>

-----------------------------------------------------------------------------
(* get_image: by generating *)

\* The lock is not set if there is one, and the generation goes on all the same.
Claim(t) ==
    /\ at[t] = "claim"
    /\ Goto(t, IF lock[want[t]] THEN "search" ELSE "locking")
    /\ UNCHANGED <<disk, memory, lock, flag, want, outer, options, current, held, after>>

\* raw_atomic_add, the result of which is not looked at.
SetLock(t) ==
    /\ at[t] = "locking"
    /\ lock' = [lock EXCEPT ![want[t]] = TRUE]
    /\ Goto(t, "search")
    /\ UNCHANGED <<disk, memory, flag, want, outer, options, current, held, after>>

\* _get_base_image: the candidates are found in the control database.
Search(t) ==
    /\ at[t] = "search"
    /\ options' = [options EXCEPT ![t] = {b \in Variants : recorded[b] /\ <<b, want[t]>> \in Suits}]
    /\ Goto(t, "trying")
    /\ UNCHANGED <<disk, memory, lock, flag, want, outer, current, held, after>>

\* A cached error message is no base.
Usable(images) == {i \in images : ~i.error}

\* Whether b has the size of tile v.
SameSize(b, v) == b \in {v, BaseOf[v]}

\* What is generated next without a base of the right size.
WithoutBase(v) == IF v \in Tiles THEN "tilebase" ELSE "reading"

TryBase(t) ==
    /\ at[t] = "trying"
    /\ \E b \in options[t] :
         /\ options' = [options EXCEPT ![t] = IF Usable(cached[b]) = {} THEN @ \ {b} ELSE {}]
         /\ \/ /\ cached[b] = {}
               /\ Goto(t, "dropping") /\ current' = [current EXCEPT ![t] = b]
               /\ UNCHANGED held
            \/ /\ cached[b] # {}
               /\ Hold(t, Usable(cached[b]))
               /\ Goto(t, IF Usable(cached[b]) = {} THEN "trying"
                          ELSE IF want[t] \in Tiles /\ ~SameSize(b, want[t]) THEN "tilebase"
                          ELSE "adjusting")
               /\ UNCHANGED current
    /\ UNCHANGED <<disk, memory, lock, flag, want, outer, after>>

\* The cache miss of a candidate deletes its record.
DropBase(t) ==
    /\ at[t] = "dropping"
    /\ recorded' = [recorded EXCEPT ![current[t]] = FALSE]
    /\ Goto(t, "trying") /\ current' = [current EXCEPT ![t] = NoVariant]
    /\ UNCHANGED <<disk, cached, lock, flag, want, outer, options, held, after>>

NoBase(t) ==
    /\ at[t] = "trying" /\ options[t] = {}
    /\ Goto(t, WithoutBase(want[t]))
    /\ UNCHANGED <<disk, memory, lock, flag, want, outer, options, current, held, after>>

\* _get_tile_base_image: calls get_image unless the flag says the base exists.
TileBase(t) ==
    /\ at[t] = "tilebase"
    /\ Hold(t, {})
    /\ IF flag[BaseOf[want[t]]]
       THEN Goto(t, "flagged") /\ UNCHANGED <<want, outer>>
       ELSE /\ Goto(t, "lookup")
            /\ outer' = [outer EXCEPT ![t] = want[t]]
            /\ want' = [want EXCEPT ![t] = BaseOf[want[t]]]
    /\ UNCHANGED <<disk, memory, lock, flag, options, current, after>>

\* The base that should exist: if it does not, or is an error, the file is used.
FlaggedBase(t) ==
    /\ at[t] = "flagged"
    /\ LET images == cached[BaseOf[want[t]]] IN
       /\ Hold(t, Usable(images))
       /\ Goto(t, IF images = {} THEN "basegone"
                  ELSE IF Usable(images) = {} THEN "reading" ELSE "adjusting")
    /\ UNCHANGED <<disk, memory, lock, flag, want, outer, options, current, after>>

DropFlaggedBase(t) ==
    /\ at[t] = "basegone"
    /\ recorded' = [recorded EXCEPT ![BaseOf[want[t]]] = FALSE]
    /\ Goto(t, "reading")
    /\ UNCHANGED <<disk, cached, lock, flag, want, outer, options, current, held, after>>

\* Back in _get_tile_base_image, whose finally clause sets the flag whatever
\* the outcome: an image, an error message (ImageError), nothing (no file) or
\* ServerTooBusyError.
SetFlag(t) ==
    /\ at[t] \in {"flagging", "failing"}
    /\ flag' = [flag EXCEPT ![want[t]] = TRUE]
    /\ want' = [want EXCEPT ![t] = outer[t]] /\ outer' = [outer EXCEPT ![t] = NoVariant]
    /\ Hold(t, Usable(held[t]))
    /\ Goto(t, IF at[t] = "failing" THEN "unlocking"
               ELSE IF Usable(held[t]) = {} THEN "reading" ELSE "adjusting")
    /\ UNCHANGED <<disk, memory, lock, options, current, after>>

ReadFile(t) ==
    /\ at[t] = "reading"
    /\ IF file = 0
       THEN Goto(t, "unlocking") /\ Hold(t, {})
       ELSE Goto(t, "adjusting") /\ Hold(t, {[file |-> file, error |-> FALSE]})
    /\ UNCHANGED <<disk, memory, lock, flag, want, outer, options, current, after>>

\* _adjust_image; an ImageError becomes the data that is cached.
Adjust(t) ==
    /\ at[t] = "adjusting"
    /\ \E fails \in {FALSE, MayFail} :
         Hold(t, {[i EXCEPT !.error = fails] : i \in held[t]})
    /\ Goto(t, "storing")
    /\ UNCHANGED <<disk, memory, lock, flag, want, outer, options, current, after>>

\* _cache_image: the data, then the record.
Store(t) ==
    /\ at[t] = "storing"
    /\ \/ cached' = [cached EXCEPT ![want[t]] = held[t]] /\ Goto(t, "recording")
       \/ MayBeTooLarge /\ Goto(t, "unlocking") /\ UNCHANGED cached
    /\ UNCHANGED <<disk, recorded, lock, flag, want, outer, options, current, held, after>>

Record(t) ==
    /\ at[t] = "recording"
    /\ recorded' = [recorded EXCEPT ![want[t]] = TRUE]
    /\ Goto(t, "unlocking")
    /\ UNCHANGED <<disk, cached, lock, flag, want, outer, options, current, held, after>>

\* Mutant: the lock is cleared only once there is an image.
UnlockWithImage(t) ==
    /\ at[t] = "unlocking"
    /\ lock' = [lock EXCEPT ![want[t]] = @ /\ held[t] = {}]
    /\ IF outer[t] = NoVariant THEN End(t)
       ELSE Goto(t, "flagging") /\ UNCHANGED <<want, outer, options, current, held, after>>
    /\ UNCHANGED <<disk, memory, flag>>

\* The finally clause, reached with or without an image.
Unlock(t) ==
    /\ at[t] = "unlocking"
    /\ lock' = [lock EXCEPT ![want[t]] = FALSE]
    /\ IF outer[t] = NoVariant THEN End(t)
       ELSE Goto(t, "flagging") /\ UNCHANGED <<want, outer, options, current, held, after>>
    /\ UNCHANGED <<disk, memory, flag>>

-----------------------------------------------------------------------------
(* Changes of the file, and reset_image *)

\* put_image: the new file is in place before the reset begins.
Upload(t) ==
    /\ at[t] = "idle" /\ changes < MaxChanges
    /\ changes' = changes + 1 /\ file' = changes + 2
    /\ Goto(t, "removing") /\ want' = [want EXCEPT ![t] = Plain]
    /\ UNCHANGED <<memory, lock, flag, outer, options, current, held, after>>

\* ImageFileAPI.delete: as a reset, without the exact image.
DeleteFile(t) ==
    /\ at[t] = "idle" /\ file # 0 /\ changes < MaxChanges
    /\ changes' = changes + 1 /\ file' = 0
    /\ Goto(t, "searching")
    /\ UNCHANGED <<memory, lock, flag, want, outer, options, current, held, after>>

\* get_image with cache_result 'refresh' resets the image first.
Refresh(t, v) ==
    /\ at[t] = "idle"
    /\ Goto(t, "removing") /\ want' = [want EXCEPT ![t] = v]
    /\ after' = [after EXCEPT ![t] = "lookup"]
    /\ UNCHANGED <<disk, memory, lock, flag, outer, options, current, held>>

\* _uncache_image: the exact image, always.
RemoveExact(t) ==
    /\ at[t] = "removing"
    /\ cached' = [cached EXCEPT ![want[t]] = {}]
    /\ Goto(t, "forgetting")
    /\ UNCHANGED <<disk, recorded, lock, flag, want, outer, options, current, held, after>>

ForgetExact(t) ==
    /\ at[t] = "forgetting"
    /\ recorded' = [recorded EXCEPT ![want[t]] = FALSE]
    /\ Goto(t, "searching")
    /\ UNCHANGED <<disk, cached, lock, flag, want, outer, options, current, held, after>>

\* Mutant: only the images that are not tiles.
UntiledMatches == {{v \in Variants \ Tiles : recorded[v]}}

\* What search(searchfield1__eq=image_id) may return: MaxRows of the records,
\* any of them if there are more.
Matches ==
    LET all == {v \in Variants : recorded[v]} IN
    {m \in SUBSET all : \/ Cardinality(m) = MaxRows
                        \/ m = all /\ Cardinality(m) < MaxRows}

\* _uncache_image_id
SearchVariants(t) ==
    /\ at[t] = "searching"
    /\ \E m \in Matches : options' = [options EXCEPT ![t] = m]
    /\ Goto(t, "clearing")
    /\ UNCHANGED <<disk, memory, lock, flag, want, outer, current, held, after>>

ClearVariant(t) ==
    /\ at[t] = "clearing"
    /\ \E v \in options[t] :
         /\ cached' = [cached EXCEPT ![v] = {}]
         /\ current' = [current EXCEPT ![t] = v]
         /\ options' = [options EXCEPT ![t] = @ \ {v}]
    /\ Goto(t, "cleared")
    /\ UNCHANGED <<disk, recorded, lock, flag, want, outer, held, after>>

\* The record, the lock and the flag of the variant, in one step.
ForgetVariant(t) ==
    /\ at[t] = "cleared"
    /\ recorded' = [recorded EXCEPT ![current[t]] = FALSE]
    /\ lock' = [lock EXCEPT ![current[t]] = FALSE]
    /\ flag' = [flag EXCEPT ![current[t]] = FALSE]
    /\ current' = [current EXCEPT ![t] = NoVariant]
    /\ Goto(t, "clearing")
    /\ UNCHANGED <<disk, cached, want, outer, options, held, after>>

ResetDone(t) ==
    /\ at[t] = "clearing" /\ options[t] = {}
    /\ IF after[t] = "idle" THEN End(t)
       ELSE /\ Goto(t, "lookup") /\ after' = [after EXCEPT ![t] = "idle"]
            /\ UNCHANGED <<want, outer, options, current, held>>
    /\ UNCHANGED <<disk, memory, lock, flag>>

-----------------------------------------------------------------------------
(* The environment *)

Kill(t) ==
    /\ at[t] # "idle" /\ kills < MaxKills /\ kills' = kills + 1
    /\ End(t)
    /\ UNCHANGED <<disk, memory, lock, flag>>

\* memcached drops entries when they expire or for want of space.
Evict ==
    /\ \/ \E v \in Variants : /\ cached[v] # {}
                              /\ cached' = [cached EXCEPT ![v] = {}]
          /\ UNCHANGED <<lock, flag>>
       \/ \E v \in Variants : /\ flag[v]
                              /\ flag' = [flag EXCEPT ![v] = FALSE]
          /\ UNCHANGED <<cached, lock>>
       \/ \E v \in Variants : /\ SlowGeneration /\ lock[v]
                              /\ lock' = [lock EXCEPT ![v] = FALSE]
          /\ UNCHANGED <<cached, flag>>
    /\ UNCHANGED <<disk, recorded, locals>>

RequestStep(t) ==
    \/ LookUp(t) \/ Forget(t) \/ Ask(t) \/ WaitOver(t) \/ WaitTimesOut(t) \/ Raise(t)
    \/ Claim(t) \/ SetLock(t) \/ Search(t) \/ TryBase(t) \/ DropBase(t) \/ NoBase(t)
    \/ TileBase(t) \/ FlaggedBase(t) \/ DropFlaggedBase(t) \/ SetFlag(t)
    \/ ReadFile(t) \/ Adjust(t) \/ Store(t) \/ Record(t) \/ Unlock(t)

ResetStep(t) ==
    \/ RemoveExact(t) \/ ForgetExact(t) \/ SearchVariants(t)
    \/ ClearVariant(t) \/ ForgetVariant(t) \/ ResetDone(t)

Begin(t) ==
    \/ \E v \in Variants : Request(t, v) \/ Refresh(t, v)
    \/ Upload(t) \/ DeleteFile(t)

\* What lets an image outlive a change of its file: it is stored after the
\* change, or it has no record when the reset looks for it, or there are more
\* records than the search returns, or the reset is cut short.
StoresLate(t)   == at[t] = "storing" /\ \E i \in held[t] : i.file # file
MissesOrphan(t) == at[t] = "searching" /\ \E v \in Variants : cached[v] # {} /\ ~recorded[v]
BeyondLimit(t)  == at[t] = "searching" /\ Cardinality({v \in Variants : recorded[v]}) > MaxRows
CutShort(t)     == at[t] \in Resetting /\ at'[t] = "idle" /\ kills' # kills

Mark ==
    marred' = /\ \/ marred
                 \/ \E t \in Threads :
                      /\ at'[t] # at[t]
                      /\ StoresLate(t) \/ MissesOrphan(t) \/ BeyondLimit(t) \/ CutShort(t)
              /\ \E v \in Variants : cached'[v] # {}

ThreadStep(t) == (RequestStep(t) \/ ResetStep(t)) /\ UNCHANGED kills /\ Mark

Next ==
    \/ \E t \in Threads : ThreadStep(t) \/ (Begin(t) /\ UNCHANGED kills /\ Mark)
                                        \/ (Kill(t) /\ Mark)
    \/ Evict /\ UNCHANGED kills /\ Mark

Spec == Init /\ [][Next]_vars

\* Threads run, and a request that waits times out.
Fairness == \A t \in Threads : WF_vars(ThreadStep(t))

LiveSpec == Spec /\ Fairness

-----------------------------------------------------------------------------
(* Properties *)

Changing == \E t \in Threads : at[t] \in Resetting

\* While nobody is resetting, what is cached was made from the file as it is -
\* unless a generation that had begun before the change stored its image after
\* it, or the reset met an image without a record, or more records than its
\* search returns, or was cut short.  There is no other way for an old image to
\* stay, however requests, tiles, refreshes, uploads and deletions interleave.
StaleNeedsARace ==
    ~marred /\ ~Changing => \A v \in Variants : \A i \in cached[v] : i.file = file

\* When all requests have ended, however they ended, no lock is left to make
\* the next ones wait for nobody.  Only a process that was killed leaves one.
LocksAreReleased ==
    kills = 0 /\ (\A t \in Threads : at[t] = "idle") => \A v \in Variants : ~lock[v]

\* Every request and every reset comes to an end.
EveryRequestEnds == \A t \in Threads : at[t] # "idle" ~> at[t] = "idle"
=============================================================================
