---------------------------- MODULE ImageProofs ----------------------------
(***************************************************************************)
(* Theorems about ImageGeneration for any threads, variations, changes of  *)
(* the file and kills, and for every setting; and about ImageRequests for  *)
(* any file, requests, exports and templates.                              *)
(***************************************************************************)
EXTENDS ImageGeneration, ImageRequests, FiniteSetTheorems, WellFoundedInduction, TLAPS

(***************************************************************************)
(* What each thread knows where, and that no other thread changes it.      *)
(***************************************************************************)
Resting == Resetting \cup {"idle"}

Typed ==
    /\ file \in 0..(MaxChanges + 1) /\ changes \in 0..MaxChanges
    /\ cached \in [Variants -> SUBSET Image] /\ recorded \in [Variants -> BOOLEAN]
    /\ lock \in [Variants -> BOOLEAN] /\ flag \in [Variants -> BOOLEAN]
    /\ at \in [Threads -> Steps]
    /\ want \in [Threads -> Variants \cup {NoVariant}]
    /\ outer \in [Threads -> Tiles \cup {NoVariant}]
    /\ options \in [Threads -> SUBSET Variants]
    /\ current \in [Threads -> Variants \cup {NoVariant}]
    /\ held \in [Threads -> SUBSET Image]
    /\ after \in [Threads -> {"idle", "lookup"}]

\* The base of a tile is generated while the request for the tile waits.
Shape(t) ==
    /\ \/ at[t] \notin Resting
       \/ at[t] \in {"removing", "forgetting"}
       \/ after[t] = "lookup"
       => want[t] \in Variants
    /\ after[t] = "lookup" => at[t] \in Resetting
    /\ at[t] \in {"dropping", "cleared"} => current[t] \in Variants
    /\ at[t] \in Resting => outer[t] = NoVariant
    /\ outer[t] # NoVariant => want[t] \notin Tiles
    /\ at[t] \in {"tilebase", "flagged", "basegone"} => want[t] \in Tiles
    /\ at[t] \in {"flagging", "failing"} => outer[t] # NoVariant

Shaped == \A t \in Threads : Shape(t)

OthersStay(t) ==
    \A q \in Threads \ {t} :
        /\ at'[q] = at[q] /\ want'[q] = want[q] /\ outer'[q] = outer[q]
        /\ options'[q] = options[q] /\ current'[q] = current[q] /\ after'[q] = after[q]

LEMMA ReadGivesImages ==
  ASSUME Typed, NEW t \in Threads, ReadFile(t)
  PROVE  \E images \in SUBSET Image : Hold(t, images)
<1> DEFINE read == IF file = 0 THEN {} ELSE {[file |-> file, error |-> FALSE]}
<1>1. file # 0 => file \in 1..(MaxChanges + 1)
  BY GenerationAssumption DEF GenerationAssumption, Typed
<1>2. read \in SUBSET Image
  BY <1>1 DEF Image
<1>3. Hold(t, read)
  BY DEF ReadFile
<1> HIDE DEF read
<1>4. QED
  BY <1>2, <1>3

LEMMA AdjustGivesImages ==
  ASSUME Typed, NEW t \in Threads, Adjust(t)
  PROVE  \E images \in SUBSET Image : Hold(t, images)
<1>1. PICK fails \in {FALSE, MayFail} : Hold(t, {[i EXCEPT !.error = fails] : i \in held[t]})
  BY DEF Adjust
<1> DEFINE made == {[i EXCEPT !.error = fails] : i \in held[t]}
<1>2. fails \in BOOLEAN
  BY GenerationAssumption DEF GenerationAssumption
<1>3. held[t] \subseteq Image
  BY DEF Typed
<1>4. made \in SUBSET Image
  BY <1>2, <1>3 DEF Image
<1>5. Hold(t, made)
  BY <1>1
<1> HIDE DEF made
<1>6. QED
  BY <1>4, <1>5

LEMMA TypeStep ==
  ASSUME Typed, NEW t \in Threads, Shape(t),
         RequestStep(t) \/ ResetStep(t) \/ Begin(t) \/ Kill(t)
  PROVE  Typed' /\ Shape(t)' /\ OthersStay(t)
<1> DEFINE Goal == Typed' /\ Shape(t)' /\ OthersStay(t)
<1> USE GenerationAssumption DEF GenerationAssumption, Typed, Shape, OthersStay, Resting, Steps,
        Resetting, Generating, disk, memory, locals, Goto, Hold
<1>1. CASE LookUp(t)
  BY <1>1 DEF LookUp, Answer, End
<1>2. CASE Forget(t)
  BY <1>2 DEF Forget
<1>3. CASE Ask(t)
  BY <1>3 DEF Ask
<1>4. CASE WaitOver(t)
  BY <1>4 DEF WaitOver
<1>5. CASE WaitTimesOut(t)
  BY <1>5 DEF WaitTimesOut
<1>6. CASE Raise(t)
  BY <1>6 DEF Raise, End
<1>7. CASE Claim(t)
  BY <1>7 DEF Claim
<1>8. CASE SetLock(t)
  BY <1>8 DEF SetLock
<1>9. CASE Search(t)
  BY <1>9 DEF Search
<1>10. CASE TryBase(t)
  BY <1>10 DEF TryBase, Usable
<1>11. CASE DropBase(t)
  BY <1>11 DEF DropBase
<1>12. CASE NoBase(t)
  BY <1>12 DEF NoBase, WithoutBase
<1>13. CASE TileBase(t)
  BY <1>13 DEF TileBase
<1>14. CASE FlaggedBase(t)
  BY <1>14 DEF FlaggedBase, Usable
<1>15. CASE DropFlaggedBase(t)
  BY <1>15 DEF DropFlaggedBase
<1>16. CASE SetFlag(t)
  BY <1>16 DEF SetFlag, Usable
<1>17. CASE ReadFile(t)
  <2>1. PICK images \in SUBSET Image : Hold(t, images)
    BY <1>17, ReadGivesImages
  <2>2. UNCHANGED <<disk, memory, lock, flag, want, outer, options, current, after>>
    BY <1>17 DEF ReadFile
  <2>3. at[t] = "reading" /\ (Goto(t, "unlocking") \/ Goto(t, "adjusting"))
    BY <1>17 DEF ReadFile
  <2>4. QED
    BY <2>1, <2>2, <2>3
<1>18. CASE Adjust(t)
  <2>1. PICK images \in SUBSET Image : Hold(t, images)
    BY <1>18, AdjustGivesImages
  <2>2. UNCHANGED <<disk, memory, lock, flag, want, outer, options, current, after>>
    BY <1>18 DEF Adjust
  <2>3. at[t] = "adjusting" /\ Goto(t, "storing")
    BY <1>18 DEF Adjust
  <2>4. QED
    BY <2>1, <2>2, <2>3
<1>19. CASE Store(t)
  BY <1>19 DEF Store
<1>20. CASE Record(t)
  BY <1>20 DEF Record
<1>21. CASE Unlock(t)
  <2>1. CASE outer[t] = NoVariant
    <3>1. UNCHANGED <<disk, memory, flag>> /\ lock' = [lock EXCEPT ![want[t]] = FALSE] /\ End(t)
      BY <1>21, <2>1 DEF Unlock
    <3>2. QED
      BY <3>1 DEF End
  <2>2. CASE outer[t] # NoVariant
    BY <1>21, <2>2 DEF Unlock
  <2>3. QED
    BY <2>1, <2>2
<1>22. CASE RemoveExact(t)
  BY <1>22 DEF RemoveExact
<1>23. CASE ForgetExact(t)
  BY <1>23 DEF ForgetExact
<1>24. CASE SearchVariants(t)
  BY <1>24 DEF SearchVariants, Matches
<1>25. CASE ClearVariant(t)
  BY <1>25 DEF ClearVariant
<1>26. CASE ForgetVariant(t)
  BY <1>26 DEF ForgetVariant
<1>27. CASE ResetDone(t)
  BY <1>27 DEF ResetDone, End
<1>28. CASE Upload(t)
  BY <1>28 DEF Upload
<1>29. CASE DeleteFile(t)
  BY <1>29 DEF DeleteFile
<1>30. CASE Kill(t)
  BY <1>30 DEF Kill, End
<1>31. ASSUME NEW v \in Variants, Request(t, v) PROVE Goal
  BY <1>31 DEF Request
<1>32. ASSUME NEW v \in Variants, Refresh(t, v) PROVE Goal
  BY <1>32 DEF Refresh
<1>33. QED
  BY <1>1, <1>2, <1>3, <1>4, <1>5, <1>6, <1>7, <1>8, <1>9, <1>10, <1>11, <1>12, <1>13, <1>14, <1>15, <1>16, <1>17, <1>18, <1>19, <1>20, <1>21, <1>22, <1>23, <1>24, <1>25, <1>26, <1>27, <1>28, <1>29, <1>30, <1>31, <1>32 DEF RequestStep, ResetStep, Begin

(***************************************************************************)
(* The locks.  Whoever finds a lock goes on generating all the same, and   *)
(* whoever ends clears it for all: so a lock is not owned by one thread,   *)
(* but as long as there is one somebody is there who will clear it.        *)
(***************************************************************************)
Working == Generating \cup {"unlocking"}

Owner(t, v) == outer[t] = v \/ (want[t] = v /\ at[t] \in Working)

LockInv == kills = 0 => \A v \in Variants : lock[v] => \E t \in Threads : Owner(t, v)

LEMMA OwnerStep ==
  ASSUME Typed, NEW t \in Threads, Shape(t),
         RequestStep(t) \/ ResetStep(t) \/ Begin(t),
         NEW v \in Variants, lock'[v], lock[v] => Owner(t, v)
  PROVE  Owner(t, v)'
<1> DEFINE Goal == Owner(t, v)'
<1> USE GenerationAssumption DEF GenerationAssumption, Typed, Shape, Owner, Working, Resting, Steps,
        Resetting, Generating, disk, memory, locals, Goto, Hold
<1>1. CASE LookUp(t)
  BY <1>1 DEF LookUp, Answer, End
<1>2. CASE Forget(t)
  BY <1>2 DEF Forget
<1>3. CASE Ask(t)
  BY <1>3 DEF Ask
<1>4. CASE WaitOver(t)
  BY <1>4 DEF WaitOver
<1>5. CASE WaitTimesOut(t)
  BY <1>5 DEF WaitTimesOut
<1>6. CASE Raise(t)
  BY <1>6 DEF Raise, End
<1>7. CASE Claim(t)
  BY <1>7 DEF Claim
<1>8. CASE SetLock(t)
  BY <1>8 DEF SetLock
<1>9. CASE Search(t)
  BY <1>9 DEF Search
<1>10. CASE TryBase(t)
  BY <1>10 DEF TryBase
<1>11. CASE DropBase(t)
  BY <1>11 DEF DropBase
<1>12. CASE NoBase(t)
  BY <1>12 DEF NoBase, WithoutBase
<1>13. CASE TileBase(t)
  BY <1>13 DEF TileBase
<1>14. CASE FlaggedBase(t)
  BY <1>14 DEF FlaggedBase
<1>15. CASE DropFlaggedBase(t)
  BY <1>15 DEF DropFlaggedBase
<1>16. CASE SetFlag(t)
  BY <1>16 DEF SetFlag
<1>17. CASE ReadFile(t)
  BY <1>17 DEF ReadFile
<1>18. CASE Adjust(t)
  BY <1>18 DEF Adjust
<1>19. CASE Store(t)
  BY <1>19 DEF Store
<1>20. CASE Record(t)
  BY <1>20 DEF Record
<1>21. CASE Unlock(t)
  BY <1>21 DEF Unlock, End
<1>22. CASE RemoveExact(t)
  BY <1>22 DEF RemoveExact
<1>23. CASE ForgetExact(t)
  BY <1>23 DEF ForgetExact
<1>24. CASE SearchVariants(t)
  BY <1>24 DEF SearchVariants
<1>25. CASE ClearVariant(t)
  BY <1>25 DEF ClearVariant
<1>26. CASE ForgetVariant(t)
  BY <1>26 DEF ForgetVariant
<1>27. CASE ResetDone(t)
  BY <1>27 DEF ResetDone, End
<1>28. CASE Upload(t)
  BY <1>28 DEF Upload
<1>29. CASE DeleteFile(t)
  BY <1>29 DEF DeleteFile
<1>30. ASSUME NEW w \in Variants, Request(t, w) PROVE Goal
  BY <1>30 DEF Request
<1>31. ASSUME NEW w \in Variants, Refresh(t, w) PROVE Goal
  BY <1>31 DEF Refresh
<1>32. QED
  BY <1>1, <1>2, <1>3, <1>4, <1>5, <1>6, <1>7, <1>8, <1>9, <1>10, <1>11, <1>12, <1>13, <1>14, <1>15, <1>16, <1>17, <1>18, <1>19, <1>20, <1>21, <1>22, <1>23, <1>24, <1>25, <1>26, <1>27, <1>28, <1>29, <1>30, <1>31 DEF RequestStep, ResetStep, Begin

(***************************************************************************)
(* The images.  A reset that has begun removes every image that is older   *)
(* than the file: it will search, or has found and not yet removed it.     *)
(* What escapes it marks the history.                                      *)
(***************************************************************************)
Rows == {v \in Variants : recorded[v]}

Removes(t, v) == \/ at[t] \in {"removing", "forgetting", "searching"}
                 \/ at[t] \in {"clearing", "cleared"} /\ v \in options[t]

Fresh(v) == \A i \in cached[v] : i.file = file

FreshInv == ~marred => \A v \in Variants : Fresh(v) \/ \E t \in Threads : Removes(t, v)

\* A search that is not cut off by MaxRows finds all records.
LEMMA SearchFindsAll ==
  ASSUME IsFiniteSet(Rows), ~(Cardinality(Rows) > MaxRows), NEW m \in Matches
  PROVE  m = Rows
<1>1. m \subseteq Rows /\ (Cardinality(m) = MaxRows \/ m = Rows)
  BY DEF Matches, Rows
<1>2. CASE Cardinality(m) = MaxRows
  <2>1. Cardinality(m) <= Cardinality(Rows) /\ (Cardinality(m) = Cardinality(Rows) => m = Rows)
    BY <1>1, FS_Subset
  <2>2. Cardinality(Rows) \in Nat /\ MaxRows \in Nat
    BY FS_CardinalityType, GenerationAssumption DEF GenerationAssumption
  <2>3. QED
    BY <1>2, <2>1, <2>2
<1>3. QED
  BY <1>1, <1>2

LEMMA RowsStayFinite ==
  ASSUME Typed, IsFiniteSet(Rows),
         \/ recorded' = recorded
         \/ \E v \in Variants, b \in BOOLEAN : recorded' = [recorded EXCEPT ![v] = b]
  PROVE  IsFiniteSet(Rows')
<1>1. CASE recorded' = recorded
  BY <1>1 DEF Rows
<1>2. ASSUME NEW v \in Variants, NEW b \in BOOLEAN, recorded' = [recorded EXCEPT ![v] = b]
      PROVE  IsFiniteSet(Rows')
  <2>1. Rows' \subseteq Rows \cup {v}
    BY <1>2 DEF Rows, Typed
  <2>2. IsFiniteSet(Rows \cup {v})
    BY FS_AddElement
  <2>3. QED
    BY <2>1, <2>2, FS_Subset
<1>3. QED
  BY <1>1, <1>2

\* What the reset of t is to remove it still is to remove after a step of t,
\* or has removed.
LEMMA RemovesStep ==
  ASSUME Typed, NEW t \in Threads, Shape(t), IsFiniteSet(Rows),
         RequestStep(t) \/ ResetStep(t), UNCHANGED kills, Mark, ~marred',
         NEW v \in Variants, ~Fresh(v)',
         Fresh(v) \/ Removes(t, v)
  PROVE  Removes(t, v)'
<1> DEFINE Goal == Removes(t, v)'
<1>0. /\ cached'[v] # {}
      /\ at'[t] # at[t] => ~StoresLate(t) /\ ~MissesOrphan(t) /\ ~BeyondLimit(t)
  BY DEF Mark, Fresh
<1>1. CASE Store(t)
  <2>1. ASSUME cached'[v] # cached[v] PROVE FALSE
    <3>1. v = want[t] /\ cached'[v] = held[t] /\ at[t] = "storing" /\ at'[t] = "recording"
      BY <1>1, <2>1 DEF Store, Typed, Goto
    <3>2. file' = file
      BY <1>1 DEF Store, disk
    <3>3. QED
      BY <1>0, <3>1, <3>2 DEF StoresLate, Fresh
  <2>2. at[t] = "storing" /\ file' = file
    BY <1>1 DEF Store, disk
  <2>3. QED
    BY <2>1, <2>2 DEF Fresh, Removes
<1>2. CASE SearchVariants(t)
  <2>1. PICK m \in Matches : options' = [options EXCEPT ![t] = m]
    BY <1>2 DEF SearchVariants
  <2>2. /\ at[t] = "searching" /\ at' = [at EXCEPT ![t] = "clearing"]
        /\ cached' = cached
    BY <1>2 DEF SearchVariants, Goto, memory
  <2>3. at'[t] = "clearing" /\ options'[t] = m
    BY <2>1, <2>2 DEF Typed
  <2>4. ~MissesOrphan(t) /\ ~BeyondLimit(t)
    BY <1>0, <2>2, <2>3
  <2>5. m = Rows
    BY <2>2, <2>4, SearchFindsAll DEF BeyondLimit, Rows
  <2>6. v \in Rows
    BY <1>0, <2>2, <2>4 DEF MissesOrphan, Rows
  <2>7. QED
    BY <2>3, <2>5, <2>6 DEF Removes
<1> USE DEF Typed, Shape, Removes, Resting, Fresh,
        Resetting, disk, memory, locals, Goto, Hold
<1>3. CASE LookUp(t)
  BY <1>0, <1>3 DEF LookUp, Answer, End
<1>4. CASE Forget(t)
  BY <1>0, <1>4 DEF Forget
<1>5. CASE Ask(t)
  BY <1>0, <1>5 DEF Ask
<1>6. CASE WaitOver(t)
  BY <1>0, <1>6 DEF WaitOver
<1>7. CASE WaitTimesOut(t)
  BY <1>0, <1>7 DEF WaitTimesOut
<1>8. CASE Raise(t)
  BY <1>0, <1>8 DEF Raise, End
<1>9. CASE Claim(t)
  BY <1>0, <1>9 DEF Claim
<1>10. CASE SetLock(t)
  BY <1>0, <1>10 DEF SetLock
<1>11. CASE Search(t)
  BY <1>0, <1>11 DEF Search
<1>12. CASE TryBase(t)
  BY <1>0, <1>12 DEF TryBase
<1>13. CASE DropBase(t)
  BY <1>0, <1>13 DEF DropBase
<1>14. CASE NoBase(t)
  BY <1>0, <1>14 DEF NoBase, WithoutBase
<1>15. CASE TileBase(t)
  BY <1>0, <1>15 DEF TileBase
<1>16. CASE FlaggedBase(t)
  BY <1>0, <1>16 DEF FlaggedBase
<1>17. CASE DropFlaggedBase(t)
  BY <1>0, <1>17 DEF DropFlaggedBase
<1>18. CASE SetFlag(t)
  BY <1>0, <1>18 DEF SetFlag
<1>19. CASE ReadFile(t)
  BY <1>0, <1>19 DEF ReadFile
<1>20. CASE Adjust(t)
  BY <1>0, <1>20 DEF Adjust
<1>21. CASE Record(t)
  BY <1>0, <1>21 DEF Record
<1>22. CASE Unlock(t)
  BY <1>0, <1>22 DEF Unlock, End
<1>23. CASE RemoveExact(t)
  BY <1>0, <1>23 DEF RemoveExact
<1>24. CASE ForgetExact(t)
  BY <1>0, <1>24 DEF ForgetExact
<1>25. CASE ClearVariant(t)
  BY <1>0, <1>25 DEF ClearVariant
<1>26. CASE ForgetVariant(t)
  BY <1>0, <1>26 DEF ForgetVariant
<1>27. CASE ResetDone(t)
  BY <1>0, <1>27 DEF ResetDone, End
<1>28. QED
  BY <1>1, <1>2, <1>3, <1>4, <1>5, <1>6, <1>7, <1>8, <1>9, <1>10, <1>11, <1>12, <1>13, <1>14, <1>15, <1>16, <1>17, <1>18, <1>19, <1>20, <1>21, <1>22, <1>23, <1>24, <1>25, <1>26, <1>27 DEF RequestStep, ResetStep

\* A step writes at most one record.
LEMMA RecordStep ==
  ASSUME Typed, NEW t \in Threads, Shape(t), RequestStep(t) \/ ResetStep(t) \/ Begin(t)
  PROVE  \/ recorded' = recorded
         \/ \E v \in Variants, b \in BOOLEAN : recorded' = [recorded EXCEPT ![v] = b]
<1> DEFINE Goal == \/ recorded' = recorded
                   \/ \E v \in Variants, b \in BOOLEAN : recorded' = [recorded EXCEPT ![v] = b]
<1> USE GenerationAssumption DEF GenerationAssumption, Typed, Shape, Resting, Resetting, memory
<1>1. CASE LookUp(t)
  BY <1>1 DEF LookUp
<1>2. CASE Ask(t)
  BY <1>2 DEF Ask
<1>3. CASE WaitOver(t)
  BY <1>3 DEF WaitOver
<1>4. CASE WaitTimesOut(t)
  BY <1>4 DEF WaitTimesOut
<1>5. CASE Raise(t)
  BY <1>5 DEF Raise
<1>6. CASE Claim(t)
  BY <1>6 DEF Claim
<1>7. CASE SetLock(t)
  BY <1>7 DEF SetLock
<1>8. CASE Search(t)
  BY <1>8 DEF Search
<1>9. CASE TryBase(t)
  BY <1>9 DEF TryBase
<1>10. CASE NoBase(t)
  BY <1>10 DEF NoBase
<1>11. CASE TileBase(t)
  BY <1>11 DEF TileBase
<1>12. CASE FlaggedBase(t)
  BY <1>12 DEF FlaggedBase
<1>13. CASE SetFlag(t)
  BY <1>13 DEF SetFlag
<1>14. CASE ReadFile(t)
  BY <1>14 DEF ReadFile
<1>15. CASE Adjust(t)
  BY <1>15 DEF Adjust
<1>16. CASE Store(t)
  BY <1>16 DEF Store
<1>17. CASE Unlock(t)
  BY <1>17 DEF Unlock
<1>18. CASE RemoveExact(t)
  BY <1>18 DEF RemoveExact
<1>19. CASE SearchVariants(t)
  BY <1>19 DEF SearchVariants
<1>20. CASE ClearVariant(t)
  BY <1>20 DEF ClearVariant
<1>21. CASE ResetDone(t)
  BY <1>21 DEF ResetDone
<1>22. CASE Upload(t)
  BY <1>22 DEF Upload
<1>23. CASE DeleteFile(t)
  BY <1>23 DEF DeleteFile
<1>24. CASE Forget(t)
  BY <1>24 DEF Forget
<1>25. CASE DropBase(t)
  BY <1>25 DEF DropBase
<1>26. CASE Record(t)
  BY <1>26 DEF Record
<1>27. CASE ForgetExact(t)
  BY <1>27 DEF ForgetExact
<1>28. CASE ForgetVariant(t)
  BY <1>28 DEF ForgetVariant
<1>29. CASE DropFlaggedBase(t)
  BY <1>29 DEF DropFlaggedBase
<1>30. ASSUME NEW w \in Variants, Request(t, w) PROVE Goal
  BY <1>30 DEF Request
<1>31. ASSUME NEW w \in Variants, Refresh(t, w) PROVE Goal
  BY <1>31 DEF Refresh
<1>32. QED
  BY <1>1, <1>2, <1>3, <1>4, <1>5, <1>6, <1>7, <1>8, <1>9, <1>10, <1>11, <1>12, <1>13, <1>14, <1>15, <1>16, <1>17, <1>18, <1>19, <1>20, <1>21, <1>22, <1>23, <1>24, <1>25, <1>26, <1>27, <1>28, <1>29, <1>30, <1>31 DEF RequestStep, ResetStep, Begin

(***************************************************************************)
(* The inductive invariant.                                                *)
(***************************************************************************)
IInv == /\ Typed /\ marred \in BOOLEAN /\ kills \in 0..MaxKills
        /\ Shaped /\ LockInv /\ FreshInv /\ IsFiniteSet(Rows)

LEMMA InvAtTheStart == Init => IInv
<1>1. SUFFICES ASSUME Init PROVE IInv
  OBVIOUS
<1>2. Typed /\ marred \in BOOLEAN /\ kills \in 0..MaxKills
  <2>1. 1 \in 0..(MaxChanges + 1) /\ 0 \in 0..MaxChanges /\ 0 \in 0..MaxKills
    BY GenerationAssumption DEF GenerationAssumption
  <2>2. "idle" \in Steps
    BY DEF Steps
  <2>3. Typed
    BY <1>1, <2>1, <2>2 DEF Init, Typed
  <2>4. QED
    BY <1>1, <2>1, <2>3 DEF Init
<1>3. Shaped
  BY <1>1 DEF Init, Shaped, Shape, Resting, Resetting
<1>4. LockInv /\ FreshInv
  BY <1>1 DEF Init, LockInv, FreshInv, Fresh
<1>5. Rows = {}
  BY <1>1 DEF Init, Rows
<1>6. QED
  BY <1>2, <1>3, <1>4, <1>5, FS_EmptySet DEF IInv

LEMMA ShapedStep ==
  ASSUME Shaped, NEW t \in Threads, Shape(t)', OthersStay(t)
  PROVE  Shaped'
<1>1. ASSUME NEW q \in Threads \ {t} PROVE Shape(q)'
  BY DEF Shaped, Shape, OthersStay
<1>2. QED
  BY <1>1 DEF Shaped

\* The other threads own, and are to remove, what they did before.
LEMMA OthersOwnAndRemove ==
  ASSUME NEW t \in Threads, OthersStay(t), NEW q \in Threads \ {t}, NEW v \in Variants
  PROVE  (Owner(q, v) => Owner(q, v)') /\ (Removes(q, v) => Removes(q, v)')
BY DEF OthersStay, Owner, Removes

\* A step of a request or a reset.
LEMMA ThreadStepKeepsInv ==
  ASSUME IInv, NEW t \in Threads, ThreadStep(t)
  PROVE  IInv'
<1>1. (RequestStep(t) \/ ResetStep(t)) /\ kills' = kills /\ Mark
  BY DEF ThreadStep
<1>2. Typed /\ Shape(t) /\ IsFiniteSet(Rows)
  BY DEF IInv, Shaped
<1>3. Typed' /\ Shape(t)' /\ OthersStay(t)
  BY <1>1, <1>2, TypeStep
<1>4. Shaped'
  BY <1>3, ShapedStep DEF IInv
<1>5. marred' \in BOOLEAN
  BY <1>1 DEF Mark
<1>6. LockInv'
  <2>1. SUFFICES ASSUME kills' = 0, NEW v \in Variants, lock'[v]
                 PROVE  \E q \in Threads : Owner(q, v)'
    BY DEF LockInv
  <2>2. CASE \E q \in Threads \ {t} : Owner(q, v)
    BY <1>3, <2>2, OthersOwnAndRemove
  <2>3. CASE ~ \E q \in Threads \ {t} : Owner(q, v)
    <3>1. lock[v] => Owner(t, v)
      BY <1>1, <2>1, <2>3 DEF IInv, LockInv
    <3>2. QED
      BY <1>1, <1>2, <2>1, <3>1, OwnerStep
  <2>4. QED
    BY <2>2, <2>3
<1>7. FreshInv'
  <2>1. SUFFICES ASSUME ~marred', NEW v \in Variants, ~Fresh(v)'
                 PROVE  \E q \in Threads : Removes(q, v)'
    BY DEF FreshInv
  <2>2. ~marred
    BY <1>1, <2>1 DEF Mark, Fresh
  <2>3. CASE \E q \in Threads \ {t} : Removes(q, v)
    BY <1>3, <2>3, OthersOwnAndRemove
  <2>4. CASE ~ \E q \in Threads \ {t} : Removes(q, v)
    <3>1. Fresh(v) \/ Removes(t, v)
      BY <2>2, <2>4 DEF IInv, FreshInv
    <3>2. QED
      BY <1>1, <1>2, <2>1, <3>1, RemovesStep
  <2>5. QED
    BY <2>3, <2>4
<1>8. IsFiniteSet(Rows')
  BY <1>1, <1>2, RecordStep, RowsStayFinite
<1>9. QED
  BY <1>1, <1>3, <1>4, <1>5, <1>6, <1>7, <1>8 DEF IInv, Rows

\* A request or a change begins.  A change makes every image old at once, and
\* begins the reset in the same step.
LEMMA BeginKeepsInv ==
  ASSUME IInv, NEW t \in Threads, Begin(t), kills' = kills, Mark
  PROVE  IInv'
<1>1. Typed /\ Shape(t) /\ IsFiniteSet(Rows)
  BY DEF IInv, Shaped
<1>2. Typed' /\ Shape(t)' /\ OthersStay(t)
  BY <1>1, TypeStep
<1>3. Shaped'
  BY <1>2, ShapedStep DEF IInv
<1>4. marred' \in BOOLEAN
  BY DEF Mark
<1>5. LockInv'
  <2>1. SUFFICES ASSUME kills' = 0, NEW v \in Variants, lock'[v]
                 PROVE  \E q \in Threads : Owner(q, v)'
    BY DEF LockInv
  <2>2. CASE \E q \in Threads \ {t} : Owner(q, v)
    BY <1>2, <2>2, OthersOwnAndRemove
  <2>3. CASE ~ \E q \in Threads \ {t} : Owner(q, v)
    <3>1. lock[v] => Owner(t, v)
      BY <2>1, <2>3 DEF IInv, LockInv
    <3>2. QED
      BY <1>1, <2>1, <3>1, OwnerStep
  <2>4. QED
    BY <2>2, <2>3
<1>6. FreshInv'
  <2>1. SUFFICES ASSUME ~marred', NEW v \in Variants, ~Fresh(v)'
                 PROVE  \E q \in Threads : Removes(q, v)'
    BY DEF FreshInv
  <2>2. ~marred
    BY <2>1 DEF Mark, Fresh
  <2>3. cached' = cached
    BY DEF Begin, Request, Refresh, Upload, DeleteFile, memory
  <2>4. at[t] = "idle"
    BY DEF Begin, Request, Refresh, Upload, DeleteFile
  <2>5. CASE file' = file
    <3>1. PICK q \in Threads : Removes(q, v)
      BY <2>1, <2>2, <2>3, <2>5 DEF IInv, FreshInv, Fresh
    <3>2. q # t
      BY <2>4, <3>1 DEF Removes
    <3>3. QED
      BY <1>2, <3>1, <3>2, OthersOwnAndRemove
  <2>6. CASE file' # file
    <3>1. Upload(t) \/ DeleteFile(t)
      BY <2>6 DEF Begin, Request, Refresh, disk
    <3>2. at'[t] \in {"removing", "searching"}
      BY <1>1, <3>1 DEF Upload, DeleteFile, Goto, Typed
    <3>3. QED
      BY <3>2 DEF Removes
  <2>7. QED
    BY <2>5, <2>6
<1>7. IsFiniteSet(Rows')
  BY <1>1, RecordStep, RowsStayFinite
<1>8. QED
  BY <1>2, <1>3, <1>4, <1>5, <1>6, <1>7 DEF IInv, Rows

LEMMA KillKeepsInv ==
  ASSUME IInv, NEW t \in Threads, Kill(t), Mark
  PROVE  IInv'
<1>1. Typed /\ Shape(t)
  BY DEF IInv, Shaped
<1>2. Typed' /\ Shape(t)' /\ OthersStay(t)
  BY <1>1, TypeStep
<1>3. Shaped'
  BY <1>2, ShapedStep DEF IInv
<1>4. marred' \in BOOLEAN
  BY DEF Mark
<1>5. kills' = kills + 1 /\ kills' \in 0..MaxKills /\ kills' # 0
  BY GenerationAssumption DEF GenerationAssumption, Kill, IInv
<1>6. LockInv'
  BY <1>5 DEF LockInv
<1>7. FreshInv'
  <2>1. SUFFICES ASSUME ~marred', NEW v \in Variants, ~Fresh(v)'
                 PROVE  \E q \in Threads : Removes(q, v)'
    BY DEF FreshInv
  <2>2. UNCHANGED <<cached, file>> /\ at[t] # "idle" /\ at'[t] = "idle"
    BY <1>1 DEF Kill, End, Goto, memory, disk, Typed
  <2>3. ~marred /\ ~CutShort(t)
    BY <2>1, <2>2 DEF Mark, Fresh
  <2>4. at[t] \notin Resetting
    BY <1>5, <2>2, <2>3 DEF CutShort, IInv
  <2>5. PICK q \in Threads : Removes(q, v)
    BY <2>1, <2>2, <2>3 DEF IInv, FreshInv, Fresh
  <2>6. q # t
    BY <2>4, <2>5 DEF Removes, Resetting
  <2>7. QED
    BY <1>2, <2>5, <2>6, OthersOwnAndRemove
<1>8. Rows' = Rows
  BY DEF Rows, Kill, memory
<1>9. QED
  BY <1>2, <1>3, <1>4, <1>5, <1>6, <1>7, <1>8 DEF IInv

LEMMA EvictKeepsInv ==
  ASSUME IInv, Evict, kills' = kills, Mark
  PROVE  IInv'
<1>1. UNCHANGED <<file, changes, recorded, at, want, outer, options, current, held, after>>
  BY DEF Evict, disk, locals
<1>2. /\ cached' \in [Variants -> SUBSET Image]
      /\ \A v \in Variants : cached'[v] \subseteq cached[v]
  BY DEF Evict, IInv, Typed
<1>3. /\ lock' \in [Variants -> BOOLEAN] /\ flag' \in [Variants -> BOOLEAN]
      /\ \A v \in Variants : lock'[v] => lock[v]
  BY DEF Evict, IInv, Typed
<1>4. Typed' /\ marred' \in BOOLEAN
  BY <1>1, <1>2, <1>3 DEF IInv, Typed, Mark
<1>5. Shaped'
  BY <1>1 DEF IInv, Shaped, Shape
<1>6. LockInv'
  BY <1>1, <1>3 DEF IInv, LockInv, Owner
<1>7. FreshInv'
  <2>1. SUFFICES ASSUME ~marred', NEW v \in Variants, ~Fresh(v)'
                 PROVE  \E q \in Threads : Removes(q, v)'
    BY DEF FreshInv
  <2>2. ~marred /\ ~Fresh(v)
    BY <1>1, <1>2, <2>1 DEF Mark, Fresh
  <2>3. PICK q \in Threads : Removes(q, v)
    BY <2>2 DEF IInv, FreshInv
  <2>4. QED
    BY <1>1, <2>3 DEF Removes
<1>8. Rows' = Rows
  BY <1>1 DEF Rows
<1>9. QED
  BY <1>4, <1>5, <1>6, <1>7, <1>8 DEF IInv

THEOREM Invariant == Spec => []IInv
<1>1. ASSUME IInv, [Next]_vars PROVE IInv'
  <2>1. CASE UNCHANGED vars
    BY <1>1, <2>1 DEF IInv, vars, disk, memory, locals, Typed, Shaped, Shape, LockInv, Owner, FreshInv,
       Fresh, Removes, Rows
  <2>2. QED
    BY <1>1, <2>1, ThreadStepKeepsInv, BeginKeepsInv, KillKeepsInv, EvictKeepsInv DEF Next
<1>2. QED
  BY <1>1, InvAtTheStart, PTL DEF Spec

\* The cache, the locks and what each thread knows keep their types, whatever
\* interleaves.
THEOREM TypeCorrect == Spec => []TypeOK
<1>1. IInv => TypeOK
  BY DEF IInv, Typed, TypeOK
<1>2. QED
  BY <1>1, Invariant, PTL

\* However requests, tiles, refreshes, uploads, deletions and evictions
\* interleave, an image that is older than its file stays in the cache only if
\* it was stored after the change, had no record when the reset searched for it,
\* was beyond the search's limit, or the reset was killed (reset_image).
THEOREM StaleImagesRaced == Spec => []StaleNeedsARace
<1>1. IInv => StaleNeedsARace
  <2>1. SUFFICES ASSUME IInv, ~marred, ~Changing, NEW v \in Variants PROVE Fresh(v)
    BY DEF StaleNeedsARace, Fresh
  <2>2. \A t \in Threads : ~Removes(t, v)
    BY <2>1 DEF Changing, Removes, Resetting
  <2>3. QED
    BY <2>1, <2>2 DEF IInv, FreshInv
<1>2. QED
  BY <1>1, Invariant, PTL

\* Whatever way the requests ended, when all have no lock is left behind
\* (the finally clause of get_image), unless a process was killed.
THEOREM NoLockIsLeft == Spec => []LocksAreReleased
<1>1. IInv => LocksAreReleased
  <2>1. SUFFICES ASSUME IInv, kills = 0, \A t \in Threads : at[t] = "idle",
                        NEW v \in Variants, lock[v]
                 PROVE  FALSE
    BY DEF LocksAreReleased
  <2>2. PICK t \in Threads : Owner(t, v)
    BY <2>1 DEF IInv, LockInv
  <2>3. outer[t] = NoVariant
    BY <2>1 DEF IInv, Shaped, Shape, Resting
  <2>4. QED
    BY <2>1, <2>2, <2>3, GenerationAssumption DEF GenerationAssumption, Owner, Working, Generating
<1>2. QED
  BY <1>1, Invariant, PTL

(***************************************************************************)
(* ImageRequests.  First the numbers: square roots, quotients, the tiles of *)
(* a grid and fitted crops.  The least number of a set takes the place of  *)
(* an induction.                                                           *)
(***************************************************************************)
\* A set of numbers that is not empty has a least one.
LEMMA LeastNumber ==
  ASSUME NEW S \in SUBSET Nat, S # {}
  PROVE  \E n \in S : \A m \in S : n <= m
<1> DEFINE R == {ss \in Nat \X Nat : ss[1] < ss[2]}
<1>1. IsWellFoundedOn(R, Nat)
  BY NatLessThanWellFounded DEF OpToRel
<1>2. \A m, n \in Nat : m < n => <<m, n>> \in R
  OBVIOUS
<1> HIDE DEF R
<1>3. PICK n \in S : \A m \in S : <<m, n>> \notin R
  BY <1>1, WFMin, Zenon
<1>4. ASSUME NEW m \in S
      PROVE  n <= m
  <2>1. m \in Nat /\ n \in Nat
    OBVIOUS
  <2>2. ~(m < n)
    BY <1>2, <1>3, <2>1
  <2>3. QED
    BY <2>1, <2>2
<1>5. QED
  BY <1>4

\* AxisLength chooses a number that exists: the first whose successor is too large.
LEMMA AxisIsSquareRoot ==
  ASSUME NEW g \in Nat
  PROVE  /\ AxisLength(g) \in 0..g
         /\ AxisLength(g) * AxisLength(g) <= g
         /\ g < (AxisLength(g) + 1) * (AxisLength(g) + 1)
<1> DEFINE S == {n \in Nat : g < (n + 1) * (n + 1)}
<1>1. g \in S
  OBVIOUS
<1>2. PICK n \in S : \A m \in S : n <= m
  BY <1>1, LeastNumber
<1>3. n <= g
  BY <1>1, <1>2
<1>4. n * n <= g
  <2>1. CASE n = 0
    BY <2>1
  <2>2. CASE n # 0
    <3>1. n - 1 \in Nat /\ n - 1 \notin S
      BY <1>2, <2>2
    <3>2. ~(g < n * n)
      BY <3>1
    <3>3. QED
      BY <3>2
  <2>3. QED
    BY <2>1, <2>2
<1>5. \E m \in 0..g : m * m <= g /\ g < (m + 1) * (m + 1)
  BY <1>2, <1>3, <1>4
<1>6. QED
  BY <1>5 DEF AxisLength

LEMMA SmallerSquareRoot ==
  ASSUME NEW m \in Nat, NEW n \in Nat, m * m < (n + 1) * (n + 1)
  PROVE  m <= n
OBVIOUS

\* The grids that are valid have sides for which the property is worked out.
LEMMA AxisOfAGrid ==
  ASSUME MaxTiles \in Nat, NEW g \in Squares
  PROVE  AxisLength(g) \in 1..AxisLength(MaxTiles)
<1> DEFINE side == AxisLength(g)
           most == AxisLength(MaxTiles)
<1>1. PICK n \in 1..MaxTiles : g = n * n
  BY DEF Squares
<1>2. n * n \in 1..MaxTiles
  BY <1>1 DEF Squares
<1>0. g \in Nat
  BY <1>1, <1>2
<1>3. /\ side \in 0..g /\ side * side <= g /\ g < (side + 1) * (side + 1)
      /\ most \in 0..MaxTiles /\ MaxTiles < (most + 1) * (most + 1)
  BY <1>0, AxisIsSquareRoot
<1> HIDE DEF side, most
<1>4. n <= side
  BY <1>1, <1>3, SmallerSquareRoot
<1>5. side * side < (most + 1) * (most + 1)
  BY <1>0, <1>1, <1>2, <1>3
<1>6. side <= most
  BY <1>3, <1>5, SmallerSquareRoot
<1>7. QED
  BY <1>3, <1>4, <1>6 DEF side, most

LEMMA Division ==
  ASSUME NEW n \in Nat, NEW a \in Nat \ {0}
  PROVE  /\ n \div a \in Nat /\ n % a \in 0..(a - 1)
         /\ n = a * (n \div a) + (n % a)
OBVIOUS

LEMMA Quotient ==
  ASSUME NEW a \in Nat \ {0}, NEW q \in Nat, NEW r \in 0..(a - 1)
  PROVE  (a * q + r) \div a = q /\ (a * q + r) % a = r
OBVIOUS

\* Every strip of a side begins where the one before ends.
LEMMA StripsOfASideMeet ==
  ASSUME NEW length \in Nat, NEW axis \in Nat \ {0}
  PROVE  StripsMeet(length, axis)
<1> DEFINE q == length \div axis
           r == length % axis
<1>1. q \in Nat /\ r \in Nat /\ length = axis * q + r
  BY Division
<1>2. \A i : StripStart(length, axis, i) = i * q
  BY DEF StripStart
<1>3. \A i : StripEnd(length, axis, i) = i * q + q + (IF i = axis - 1 THEN r ELSE 0)
  BY DEF StripEnd, StripStart
<1> HIDE DEF q, r
<1>4. (axis - 1) * q + q + r = axis * q + r
  BY <1>1
<1>5. \A i \in 1..(axis - 1) : i * q = (i - 1) * q + q
  BY <1>1
<1>6. QED
  BY <1>1, <1>2, <1>3, <1>4, <1>5 DEF StripsMeet

\* Every place of a grid has the number of one tile.
LEMMA PlacesOfAGridAreUnique ==
  ASSUME NEW axis \in Nat \ {0}
  PROVE  PlacesAreUnique(axis)
<1> SUFFICES ASSUME NEW x \in 0..(axis - 1), NEW y \in 0..(axis - 1)
             PROVE  {n \in 1..(axis * axis) : TileColumn(n, axis) = x /\ TileRow(n, axis) = y} = {y * axis + x + 1}
  BY DEF PlacesAreUnique
<1>1. ASSUME NEW n \in 1..(axis * axis), TileColumn(n, axis) = x, TileRow(n, axis) = y
      PROVE  n = y * axis + x + 1
  <2> DEFINE q == n \div axis
             r == n % axis
  <2>1. q \in Nat /\ r \in 0..(axis - 1) /\ n = axis * q + r
    BY Division
  <2>2. /\ r = 0 => x = axis - 1 /\ y = q - 1
        /\ r # 0 => x = r - 1 /\ y = q
    BY <1>1 DEF TileColumn, TileRow
  <2> HIDE DEF q, r
  <2>3. CASE r = 0
    <3>1. y * axis + x + 1 = (q - 1) * axis + axis
      BY <2>1, <2>2, <2>3
    <3>2. (q - 1) * axis + axis = axis * q
      BY <2>1
    <3>3. QED
      BY <2>1, <2>3, <3>1, <3>2
  <2>4. CASE r # 0
    BY <2>1, <2>2, <2>4
  <2>5. QED
    BY <2>3, <2>4
<1> DEFINE n == y * axis + x + 1
<1>3. n \in 1..(axis * axis)
  <2>1. y * axis <= (axis - 1) * axis /\ y * axis \in Nat
    OBVIOUS
  <2>2. (axis - 1) * axis = axis * axis - axis
    OBVIOUS
  <2>3. QED
    BY <2>1, <2>2
<1>4. TileColumn(n, axis) = x /\ TileRow(n, axis) = y
  <2>1. CASE x = axis - 1
    <3>1. n = axis * (y + 1)
      BY <2>1
    <3>2. n % axis = 0 /\ n \div axis = y + 1
      BY <3>1, Quotient
    <3>3. QED
      BY <2>1, <3>2 DEF TileColumn, TileRow
  <2>2. CASE x # axis - 1
    <3>1. n = axis * y + (x + 1) /\ x + 1 \in 0..(axis - 1)
      BY <2>2
    <3>2. n % axis = x + 1 /\ n \div axis = y
      BY <3>1, Quotient
    <3>3. QED
      BY <2>2, <3>2 DEF TileColumn, TileRow
  <2>3. QED
    BY <2>1, <2>2
<1>5. QED
  BY <1>1, <1>3, <1>4

LEMMA WidenedCropsFit == CropsFit
<1> SUFFICES ASSUME NEW length \in 1..12, NEW more \in -2..12, NEW low \in 0..(length - 1), NEW high \in (low + 1)..length
             PROVE  FittedCrop(low, high, length, more, Widen(low, high, length, more))
  BY DEF CropsFit
<1>1. QED
  BY DEF FittedCrop, Widen, Least

(***************************************************************************)
(* Normalised attributes.  Each step of NormaliseValues settles one thing  *)
(* and leaves settled what the steps before it did.                        *)
(***************************************************************************)
\* What each step of NormaliseValues leaves behind.
EffectiveSettled(a) == a = Effective(a)
SizeFitSettled(a) == ~(Truthy(a, "size_fit") /\ (~Given(a, "width") \/ ~Given(a, "height")))
CropFitSettled(a) == ~(Truthy(a, "crop_fit") /\ ~Cropped(a))
TurnSettled(a) == ~(a.rotation = 180 /\ Given(a, "flip"))
FillSettled(a) == NotStretched(a) /\ ~Given(a, "rotation") => ~Given(a, "fill")
AlignSettled(a) == NotStretched(a) => ~Given(a, "align_h") /\ ~Given(a, "align_v")
ColourSettled(a) == a.colorspace \notin {"srgb", "grey"}
OverlaySettled(a) ==
  ~Given(a, "overlay_src") \/ a.overlay_opacity = 0 \/ a.overlay_size = 0 =>
    \A f \in {"overlay_src", "overlay_pos", "overlay_size", "overlay_opacity"} : ~Given(a, f)
ProfileSettled(a) == ~Given(a, "icc_profile") => ~Given(a, "icc_intent") /\ ~Given(a, "icc_bpc")

\* A function on the fields.
Ranged(a) == a = [f \in Fields |-> a[f]]

\* What normalised attributes look like.
Normal(a) ==
  /\ Ranged(a) /\ EffectiveSettled(a) /\ SizeFitSettled(a) /\ CropFitSettled(a) /\ TurnSettled(a)
  /\ FillSettled(a) /\ AlignSettled(a) /\ ColourSettled(a) /\ OverlaySettled(a) /\ ProfileSettled(a)

LEMMA FieldNames ==
  Fields = {"page", "format", "template", "width", "height", "align_h", "align_v", "rotation", "flip",
            "top", "left", "bottom", "right", "crop_fit", "size_fit", "fill", "quality", "sharpen",
            "overlay_src", "overlay_size", "overlay_pos", "overlay_opacity",
            "icc_profile", "icc_intent", "icc_bpc", "colorspace", "strip", "dpi", "tile"}
BY DEF Fields, NoAttrs

LEMMA EffectiveFields ==
  ASSUME NEW a
  PROVE  Ranged(Effective(a)) /\ \A f \in Fields : Effective(a)[f] = EffectiveValue(a, f)
BY DEF Effective, Ranged

LEMMA EffectiveFormat ==
  ASSUME NEW a
  PROVE  EffectiveValue(a, "format") = IF FormatName(a.format) = Ext THEN None ELSE FormatName(a.format)
BY DEF EffectiveValue, NoEffect

LEMMA EffectiveIsSettled ==
  ASSUME NEW a
  PROVE  EffectiveSettled(Effective(a))
<1> DEFINE b == Effective(a)
<1>1. ASSUME NEW f \in Fields
      PROVE  b[f] = Effective(b)[f]
  <2>1. CASE f = "format"
    BY <2>1, EffectiveFields, EffectiveFormat, FieldNames, NoneAssumption DEF FormatName
  <2>2. CASE f = "tile"
    BY <2>2, EffectiveFields, FieldNames DEF EffectiveValue, NoEffect, Given
  <2>3. CASE f \notin {"format", "tile"}
    BY <2>3, EffectiveFields DEF EffectiveValue, NoEffect
  <2>4. QED
    BY <2>1, <2>2, <2>3
<1>2. QED
  BY <1>1, EffectiveFields DEF EffectiveSettled, Ranged
\* Taking values away, as the later steps do, gives no other value an effect.
LEMMA BlanksStaySettled ==
  ASSUME NEW a, NEW b, Ranged(a), Ranged(b), EffectiveSettled(a),
         \A f \in Fields \ {"flip", "colorspace"} : b[f] \in {a[f], None}
  PROVE  EffectiveSettled(b)
<1>1. \A f \in Fields : a[f] = EffectiveValue(a, f)
  BY EffectiveFields DEF EffectiveSettled
<1>2. ASSUME NEW f \in Fields
      PROVE  b[f] = EffectiveValue(b, f)
  <2>1. CASE f = "format"
    <3>1. a.format = EffectiveValue(a, "format") /\ b.format \in {a.format, None}
      BY <1>1, <2>1, FieldNames
    <3>2. b.format = EffectiveValue(b, "format")
      BY <3>1, EffectiveFormat, NoneAssumption DEF FormatName
    <3>3. QED
      BY <2>1, <3>2
  <2>2. CASE f = "tile"
    BY <1>1, <2>2 DEF EffectiveValue, NoEffect, Given
  <2>3. CASE f \in {"flip", "colorspace"}
    BY <2>3 DEF EffectiveValue, NoEffect
  <2>4. CASE f \notin {"format", "tile", "flip", "colorspace"}
    BY <1>1, <2>4 DEF EffectiveValue, NoEffect
  <2>5. QED
    BY <2>1, <2>2, <2>3, <2>4
<1>3. QED
  BY <1>2, EffectiveFields DEF EffectiveSettled, Ranged

LEMMA SizeFitStep ==
  ASSUME NEW a, Ranged(a), EffectiveSettled(a)
  PROVE  LET b == SizeFitOnly(a) IN Ranged(b) /\ EffectiveSettled(b) /\ SizeFitSettled(b)
<1> DEFINE b == SizeFitOnly(a)
           unsized == Truthy(a, "size_fit") /\ (~Given(a, "width") \/ ~Given(a, "height"))
<1>1. Ranged(b) /\ \A f \in Fields : b[f] = IF unsized /\ f = "size_fit" THEN None ELSE a[f]
  BY DEF Clear, Ranged, SizeFitOnly
<1> HIDE DEF b
<1>2. EffectiveSettled(b)
  BY <1>1, BlanksStaySettled
<1>3. SizeFitSettled(b)
  BY <1>1, FieldNames, NoneAssumption DEF SizeFitSettled, Truthy, Given
<1>4. QED
  BY <1>1, <1>2, <1>3 DEF b

LEMMA CropFitStep ==
  ASSUME NEW a, Ranged(a), EffectiveSettled(a), SizeFitSettled(a)
  PROVE  LET b == CropFitOnly(a)
         IN  Ranged(b) /\ EffectiveSettled(b) /\ SizeFitSettled(b) /\ CropFitSettled(b)
<1> DEFINE b == CropFitOnly(a)
           whole == Truthy(a, "crop_fit") /\ ~Cropped(a)
<1>1. Ranged(b) /\ \A f \in Fields : b[f] = IF whole /\ f = "crop_fit" THEN None ELSE a[f]
  BY DEF Clear, Ranged, CropFitOnly
<1> HIDE DEF b
<1>2. EffectiveSettled(b)
  BY <1>1, BlanksStaySettled
<1>3. SizeFitSettled(b)
  BY <1>1, FieldNames DEF SizeFitSettled, Truthy, Given
<1>4. CropFitSettled(b)
  BY <1>1, FieldNames, NoneAssumption DEF CropFitSettled, Truthy, Given, Cropped, CropSides
<1>5. QED
  BY <1>1, <1>2, <1>3, <1>4 DEF b

LEMMA TurnStep ==
  ASSUME NEW a, Ranged(a), EffectiveSettled(a), SizeFitSettled(a), CropFitSettled(a)
  PROVE  LET b == HalfTurn(a)
         IN  /\ Ranged(b) /\ EffectiveSettled(b) /\ SizeFitSettled(b) /\ CropFitSettled(b) /\ TurnSettled(b)
<1> DEFINE b == HalfTurn(a)
           turned == a.rotation = 180 /\ Given(a, "flip")
<1>1. Ranged(b)
  BY DEF Ranged, HalfTurn
<1>2. \A f \in Fields \ {"flip"} : b[f] = IF turned /\ f = "rotation" THEN None ELSE a[f]
  BY FieldNames DEF HalfTurn, Ranged
<1>3. ~turned => b = a
  BY DEF HalfTurn
<1> HIDE DEF b
<1>4. EffectiveSettled(b)
  BY <1>1, <1>2, BlanksStaySettled
<1>5. SizeFitSettled(b) /\ CropFitSettled(b)
  BY <1>2, FieldNames DEF SizeFitSettled, CropFitSettled, Cropped, CropSides, Truthy, Given
<1>6. TurnSettled(b)
  <2>1. CASE turned
    BY <1>2, <2>1, FieldNames, NoneAssumption DEF TurnSettled
  <2>2. CASE ~turned
    BY <1>3, <2>2 DEF TurnSettled
  <2>3. QED
    BY <2>1, <2>2
<1>7. QED
  BY <1>1, <1>4, <1>5, <1>6 DEF b

LEMMA OnlySteps ==
  ASSUME NEW a, Ranged(a), EffectiveSettled(a), SizeFitSettled(a), CropFitSettled(a), TurnSettled(a)
  PROVE  Normal(ProfileOnly(OverlayOnly(ColourNames(AlignOnly(FillOnly(a))))))
<1> DEFINE b == FillOnly(a)
           c == AlignOnly(b)
           d == ColourNames(c)
           e == OverlayOnly(d)
           g == ProfileOnly(e)
           turnless == NotStretched(a) /\ ~Given(a, "rotation")
<1>1. Ranged(b) /\ \A f \in Fields : b[f] = IF turnless /\ f = "fill" THEN None ELSE a[f]
  BY DEF Clear, Ranged, FillOnly
<1> HIDE DEF b
<1>2. Ranged(c) /\ \A f \in Fields : c[f] = IF NotStretched(b) /\ f \in {"align_h", "align_v"} THEN None ELSE b[f]
  BY <1>1 DEF Clear, Ranged, AlignOnly
<1> HIDE DEF c
<1>3. /\ Ranged(d) /\ d.colorspace = CASE c.colorspace = "srgb" -> "rgb" [] c.colorspace = "grey" -> "gray" [] OTHER -> c.colorspace
      /\ \A f \in Fields \ {"colorspace"} : d[f] = c[f]
  BY <1>2, FieldNames DEF ColourNames, Ranged
<1> HIDE DEF d
<1> DEFINE plain == ~Given(d, "overlay_src") \/ d.overlay_opacity = 0 \/ d.overlay_size = 0
<1>4. /\ Ranged(e)
      /\ \A f \in Fields :
           e[f] = IF plain /\ f \in {"overlay_src", "overlay_pos", "overlay_size", "overlay_opacity"} THEN None ELSE d[f]
  BY <1>3 DEF Clear, Ranged, OverlayOnly
<1> HIDE DEF e
<1>5. /\ Ranged(g)
      /\ \A f \in Fields :
           g[f] = IF ~Given(e, "icc_profile") /\ f \in {"icc_intent", "icc_bpc"} THEN None ELSE e[f]
  BY <1>4 DEF Clear, Ranged, ProfileOnly
<1> HIDE DEF g
<1>6. /\ \A f \in {"width", "height", "size_fit", "crop_fit", "rotation", "flip", "top", "left", "bottom", "right"} :
            g[f] = a[f] /\ b[f] = a[f]
      /\ g.fill = b.fill
  BY <1>1, <1>2, <1>3, <1>4, <1>5, FieldNames
<1>7. /\ \A f \in {"align_h", "align_v"} : g[f] = c[f]
      /\ g.colorspace = d.colorspace
      /\ \A f \in {"overlay_src", "overlay_pos", "overlay_size", "overlay_opacity"} : g[f] = e[f]
      /\ g.icc_profile = e.icc_profile
  BY <1>2, <1>3, <1>4, <1>5, FieldNames
<1>8. EffectiveSettled(g)
  <2>1. \A f \in Fields \ {"flip", "colorspace"} : g[f] \in {a[f], None}
    BY <1>1, <1>2, <1>3, <1>4, <1>5
  <2>2. QED
    BY <1>5, <2>1, BlanksStaySettled
<1>9. SizeFitSettled(g) /\ CropFitSettled(g) /\ TurnSettled(g)
  BY <1>6 DEF SizeFitSettled, CropFitSettled, TurnSettled, Cropped, CropSides, Truthy, Given
<1>10. NotStretched(g) = NotStretched(a) /\ NotStretched(b) = NotStretched(a)
  BY <1>6 DEF NotStretched, Truthy, Given
<1>11. FillSettled(g) /\ AlignSettled(g)
  BY <1>1, <1>2, <1>6, <1>7, <1>10, FieldNames DEF FillSettled, AlignSettled, Given
<1>12. ColourSettled(g)
  BY <1>3, <1>7 DEF ColourSettled
<1>13. OverlaySettled(g)
  BY <1>4, <1>7, FieldNames, NoneAssumption DEF OverlaySettled, Given
<1>14. ProfileSettled(g)
  BY <1>5, <1>7, FieldNames DEF ProfileSettled, Given
<1>15. QED
  BY <1>5, <1>8, <1>9, <1>11, <1>12, <1>13, <1>14 DEF Normal, b, c, d, e, g

LEMMA NormalisedIsNormal ==
  ASSUME NEW a
  PROVE  Normal(NormaliseValues(a))
BY EffectiveIsSettled, EffectiveFields, SizeFitStep, CropFitStep, TurnStep, OnlySteps DEF NormaliseValues

LEMMA NormalIsNormalised ==
  ASSUME NEW a, Normal(a)
  PROVE  NormaliseValues(a) = a
<1> DEFINE same == \A fields : Clear(a, fields, FALSE) = a
<1>1. Effective(a) = a
  BY DEF Normal, EffectiveSettled
<1>2. SizeFitOnly(a) = a /\ CropFitOnly(a) = a /\ HalfTurn(a) = a
  BY DEF Normal, SizeFitSettled, CropFitSettled, TurnSettled, SizeFitOnly, CropFitOnly, HalfTurn, Clear
<1>3. FillOnly(a) = a
  BY FieldNames DEF Normal, FillSettled, FillOnly, Clear, Ranged, Given
<1>4. AlignOnly(a) = a
  BY FieldNames DEF Normal, AlignSettled, AlignOnly, Clear, Ranged, Given
<1>5. ColourNames(a) = a
  BY FieldNames DEF Normal, ColourSettled, ColourNames, Ranged
<1>6. OverlayOnly(a) = a
  BY FieldNames DEF Normal, OverlaySettled, OverlayOnly, Clear, Ranged, Given
<1>7. ProfileOnly(a) = a
  BY FieldNames DEF Normal, ProfileSettled, ProfileOnly, Clear, Ranged, Given
<1>8. QED
  BY <1>1, <1>2, <1>3, <1>4, <1>5, <1>6, <1>7 DEF NormaliseValues

\* normalise_values() a second time changes nothing, so that a key that is built
\* from attributes that were normalised before is the same.
THEOREM NormalisingIsIdempotent ==
  ASSUME NEW a
  PROVE  NormaliseValues(NormaliseValues(a)) = NormaliseValues(a)
BY NormalisedIsNormal, NormalIsNormalised

(***************************************************************************)
(* Sizes.  What adjust_image does to the size of an image that is not a    *)
(* tile: it stays positive, and within what is asked for.                  *)
(***************************************************************************)
\* An image of some pixels.
ImageFields == {"width", "height", "inner", "mirrored", "turn", "ok", "steps", "colour", "mode", "page",
                "quality", "dpi", "stripped"}

Solid(image) ==
  /\ image = [f \in ImageFields |-> image[f]]
  /\ image.width \in Nat \ {0} /\ image.height \in Nat \ {0}

LEMMA CeilIsPositive ==
  ASSUME NEW x \in Nat \ {0}, NEW b \in Nat \ {0}
  PROVE  Ceil(x, b) \in Nat \ {0}
BY DEF Ceil

LEMMA CeilAtMost ==
  ASSUME NEW x \in Nat, NEW b \in Nat \ {0}, NEW n \in Nat, x <= n * b
  PROVE  Ceil(x, b) <= n
<1>1. b * Ceil(x, b) < x + b /\ Ceil(x, b) \in Int
  BY DEF Ceil
<1>2. b * Ceil(x, b) < b * (n + 1)
  BY <1>1
<1>3. QED
  BY <1>1, <1>2

LEMMA ProductsArePositive ==
  ASSUME NEW a \in Nat \ {0}, NEW b \in Nat \ {0}
  PROVE  a * b \in Nat \ {0}
OBVIOUS

\* If the width does not fit, the height does: the two quotients are inverse.
LEMMA FittedSizes ==
  ASSUME NEW image, Solid(image), NEW w \in Nat \ {0}, NEW h \in Nat \ {0}
  PROVE  /\ FitWidth(image, w).width = w /\ FitWidth(image, w).height \in Nat \ {0}
         /\ FitHeight(image, h).height = h /\ FitHeight(image, h).width \in Nat \ {0}
         /\ FitWidth(image, w).height > h => FitHeight(image, h).width <= w
<1> DEFINE iw == image.width
           ih == image.height
<1>1. iw \in Nat \ {0} /\ ih \in Nat \ {0}
  BY DEF Solid
<1>2. /\ FitWidth(image, w).width = w /\ FitWidth(image, w).height = Ceil(w * ih, iw)
      /\ FitHeight(image, h).height = h /\ FitHeight(image, h).width = Ceil(h * iw, ih)
  BY DEF FitWidth, FitHeight, Size
<1> HIDE DEF iw, ih
<1>3. w * ih \in Nat \ {0} /\ h * iw \in Nat \ {0}
  BY <1>1, ProductsArePositive
<1>4. Ceil(w * ih, iw) \in Nat \ {0} /\ Ceil(h * iw, ih) \in Nat \ {0}
  BY <1>1, <1>3, CeilIsPositive
<1>5. ASSUME Ceil(w * ih, iw) > h
      PROVE  Ceil(h * iw, ih) <= w
  <2>1. ~(w * ih <= h * iw)
    BY <1>1, <1>3, <1>4, <1>5, CeilAtMost
  <2>2. h * iw <= w * ih
    BY <1>3, <2>1
  <2>3. QED
    BY <1>1, <1>3, <2>2, CeilAtMost
<1>6. QED
  BY <1>2, <1>4, <1>5

LEMMA BestFitIsInside ==
  ASSUME NEW image, Solid(image), NEW w \in Nat \ {0}, NEW h \in Nat \ {0}
  PROVE  BestFit(image, w, h).width \in 1..w /\ BestFit(image, w, h).height \in 1..h
BY FittedSizes DEF BestFit

LEMMA ScaledIsSolid ==
  ASSUME NEW image, Solid(image), NEW size, size.width \in Nat \ {0}, size.height \in Nat \ {0}
  PROVE  /\ Solid(Scale(image, size))
         /\ Scale(image, size).width = size.width /\ Scale(image, size).height = size.height
<1> DEFINE inner == Size(Ceil(image.inner.width * size.width, image.width), Ceil(image.inner.height * size.height, image.height))
<1>1. Scale(image, size) = [image EXCEPT !.width = size.width, !.height = size.height, !.inner = inner]
  BY DEF Scale
<1> HIDE DEF inner
<1>2. QED
  BY <1>1 DEF Solid, ImageFields

LEMMA ResizedIsInside ==
  ASSUME NEW image, Solid(image), NEW w \in Nat, NEW h \in Nat, NEW fit
  PROVE  /\ Solid(Resize(image, w, h, fit))
         /\ w # 0 => Resize(image, w, h, fit).width <= w
         /\ h # 0 => Resize(image, w, h, fit).height <= h
<1> DEFINE result == Resize(image, w, h, fit)
<1>1. CASE w = 0 /\ h = 0
  BY <1>1 DEF Resize
<1>2. CASE w # 0 /\ h = 0
  <2>1. result = Scale(image, FitWidth(image, w))
    BY <1>2 DEF Resize
  <2>2. QED
    BY <1>2, <2>1, FittedSizes, ScaledIsSolid
<1>3. CASE w = 0 /\ h # 0
  <2>1. result = Scale(image, FitHeight(image, h))
    BY <1>3 DEF Resize
  <2>2. QED
    BY <1>3, <2>1, FittedSizes, ScaledIsSolid
<1>4. CASE w # 0 /\ h # 0 /\ fit
  <2> DEFINE best == BestFit(image, w, h)
  <2>1. result = Scale(image, best)
    BY <1>4 DEF Resize
  <2>2. best.width \in 1..w /\ best.height \in 1..h
    BY <1>4, BestFitIsInside
  <2> HIDE DEF best
  <2>3. /\ Solid(Scale(image, best))
        /\ Scale(image, best).width = best.width /\ Scale(image, best).height = best.height
    BY <2>2, ScaledIsSolid
  <2>4. w # 0 /\ h # 0
    BY <1>4
  <2>5. QED
    BY <2>1, <2>2, <2>3, <2>4
<1>5. CASE w # 0 /\ h # 0 /\ ~fit
  <2> DEFINE scaled == Scale(image, InCanvas(image, w, h))
  <2>1. scaled = [f \in ImageFields |-> scaled[f]]
    BY DEF Scale, Solid, ImageFields
  <2>2. result = [scaled EXCEPT !.width = w, !.height = h, !.ok = @ /\ ~NothingToPaste(image, w, h)]
    BY <1>5 DEF Resize
  <2> HIDE DEF scaled, result
  <2>3. result = [f \in ImageFields |-> result[f]] /\ result.width = w /\ result.height = h
    BY <2>1, <2>2 DEF ImageFields
  <2>4. QED
    BY <1>5, <2>3 DEF Solid, result
<1>6. QED
  BY <1>1, <1>2, <1>3, <1>4, <1>5

LEMMA RotatedIsSolid ==
  ASSUME NEW image, Solid(image), NEW angle
  PROVE  Solid(Rotate(image, angle))
<1> DEFINE rotated == RotatedSize(image.width, image.height, angle)
           inner == RotatedSize(image.inner.width, image.inner.height, angle)
           turn == (image.turn + (angle \div 90)) % 4
<1>1. rotated.width \in Nat \ {0} /\ rotated.height \in Nat \ {0}
  BY DEF RotatedSize, Size, Solid
<1>2. Rotate(image, angle) = [image EXCEPT !.width = rotated.width, !.height = rotated.height,
                                           !.inner = inner, !.turn = turn]
  BY DEF Rotate
<1> HIDE DEF rotated, inner, turn
<1>3. QED
  BY <1>1, <1>2 DEF Solid, ImageFields

LEMMA FlippedIsSolid ==
  ASSUME NEW image, Solid(image), NEW flip
  PROVE  Solid(Flip(image, flip))
<1>1. CASE flip = None
  BY <1>1 DEF Flip
<1>2. CASE flip # None
  <2> DEFINE flipped == Flip(image, flip)
  <2>1. /\ flipped = [f \in ImageFields |-> flipped[f]]
        /\ flipped.width = image.width /\ flipped.height = image.height
    BY <1>2 DEF Flip, Solid, ImageFields
  <2> HIDE DEF flipped
  <2>2. QED
    BY <2>1 DEF Solid, flipped
<1>3. QED
  BY <1>1, <1>2

Bounds(crop) == crop.top \in Int /\ crop.left \in Int /\ crop.bottom \in Int /\ crop.right \in Int

LEMMA WidenedBounds ==
  ASSUME NEW low \in Int, NEW high \in Int, NEW length \in Int, NEW more \in Int
  PROVE  Widen(low, high, length, more)[1] \in Int /\ Widen(low, high, length, more)[2] \in Int
BY DEF Widen

LEMMA CropBounds ==
  ASSUME NEW image, Solid(image), NEW spec, Bounds(spec)
  PROVE  Bounds(CropPixels(image, spec))
<1>1. \A n \in Int : Ceil(n, Unit) \in Int
  BY UnitAssumption DEF Ceil
<1>2. QED
  BY <1>1 DEF CropPixels, Bounds, Solid

LEMMA FittedCropBounds ==
  ASSUME NEW image, Solid(image), NEW crop, Bounds(crop), crop = [f \in CropSides |-> crop[f]],
         NEW target, target.width \in Nat, target.height \in Nat
  PROVE  Bounds(AutoCropFit(image, crop, target))
<1> DEFINE width == crop.right - crop.left
           height == crop.bottom - crop.top
           fitted == AutoCropFit(image, crop, target)
           more == Ceil(width * target.height, target.width) - height
           broader == Ceil(height * target.width, target.height) - width
           higher == Widen(crop.top, crop.bottom, image.height, more)
           wider == Widen(crop.left, crop.right, image.width, broader)
<1>1. CASE width <= 0 \/ height <= 0 \/ target.width = 0 \/ target.height = 0
  BY <1>1 DEF AutoCropFit
<1>2. CASE width > 0 /\ height > 0 /\ target.width # 0 /\ target.height # 0
  <2>1. \/ fitted = [crop EXCEPT !.top = higher[1], !.bottom = higher[2]]
        \/ fitted = [crop EXCEPT !.left = wider[1], !.right = wider[2]]
    BY <1>2 DEF AutoCropFit, Bounds
  <2>2. more \in Int /\ broader \in Int
    BY <1>2 DEF Ceil, Bounds
  <2> HIDE DEF more, broader
  <2>3. higher[1] \in Int /\ higher[2] \in Int /\ wider[1] \in Int /\ wider[2] \in Int
    BY <2>2, WidenedBounds DEF Bounds, Solid
  <2> HIDE DEF higher, wider, fitted
  <2>4. Bounds(fitted)
    BY <2>1, <2>3 DEF Bounds, CropSides
  <2>5. QED
    BY <2>4 DEF fitted
<1>3. QED
  BY <1>1, <1>2 DEF Bounds

LEMMA PartIsSolid ==
  ASSUME NEW image, Solid(image), NEW crop, NEW w \in Int, NEW h \in Int
  PROVE  Solid(Part(image, crop, w, h))
<1>1. CASE w > 0 /\ h > 0
  <2> DEFINE part == Part(image, crop, w, h)
             done == Done(image, <<"crop", crop>>)
             inner == Size(Least(done.inner.width, w), Least(done.inner.height, h))
  <2>1. part = [done EXCEPT !.width = w, !.height = h, !.inner = inner]
    BY <1>1 DEF Part
  <2>2. done = [f \in ImageFields |-> done[f]]
    BY DEF Done, Solid, ImageFields
  <2> HIDE DEF part, done, inner
  <2>3. part = [f \in ImageFields |-> part[f]] /\ part.width = w /\ part.height = h
    BY <2>1, <2>2 DEF ImageFields
  <2>4. QED
    BY <1>1, <2>3 DEF Solid, part
<1>2. CASE ~(w > 0 /\ h > 0)
  BY <1>2 DEF Part
<1>3. QED
  BY <1>1, <1>2

LEMMA CroppedIsSolid ==
  ASSUME NEW image, Solid(image), NEW spec, Bounds(spec),
         NEW target, target.width \in Nat, target.height \in Nat
  PROVE  Solid(Crop(image, spec, target))
<1> DEFINE asked == CropPixels(image, spec)
           fitted == AutoCropFit(image, asked, target)
<1>1. Bounds(asked)
  BY CropBounds
<1>2. asked = [f \in CropSides |-> asked[f]]
  BY DEF CropPixels, CropSides
<1> HIDE DEF asked
<1>3. Bounds(fitted)
  BY <1>1, <1>2, FittedCropBounds
<1> HIDE DEF fitted
<1>4. Solid(CutOut(image, asked)) /\ Solid(CutOut(image, fitted))
  BY <1>1, <1>3, PartIsSolid DEF CutOut, Bounds
<1>5. QED
  BY <1>4 DEF Crop, CropTo, asked, fitted

\* Most operations leave the size as it is.
SizedLike(image, other) ==
  /\ image = [f \in ImageFields |-> image[f]]
  /\ image.width = other.width /\ image.height = other.height

LEMMA NotesKeepTheSize ==
  ASSUME NEW image, Solid(image), NEW name, NEW value
  PROVE  SizedLike(Special(image, name, value), image) /\ SizedLike(Convert(image, name, value), image)
BY DEF Special, Convert, Done, Solid, ImageFields, SizedLike

LEMMA PlainIsSolid ==
  ASSUME NEW image, NEW other, SizedLike(image, other), Solid(other)
  PROVE  Solid(image)
BY DEF SizedLike, Solid

LEMMA SavedKeepsTheSize ==
  ASSUME NEW image, Solid(image), NEW spec
  PROVE  SizedLike(Save(image, spec), image)
<1> DEFINE mode == SaveMode(image.mode, spec.format)
           quality == IF spec.format \in JpegFormats THEN Least(image.quality, spec.quality) ELSE image.quality
           dpi == IF spec.dpi # 0 THEN spec.dpi ELSE image.dpi
           ok == image.ok /\ ~(spec.format \in Progressive /\ Alpha(image.mode))
           saved == Save(image, spec)
<1>1. saved = [image EXCEPT !.mode = mode, !.ok = ok, !.quality = quality, !.dpi = dpi, !.stripped = @ \/ spec.strip]
  BY DEF Save
<1> HIDE DEF mode, ok, quality, dpi, saved
<1>2. SizedLike(saved, image)
  BY <1>1 DEF Solid, SizedLike, ImageFields
<1>3. QED
  BY <1>2 DEF saved

LEMMA PagedKeepsTheSize ==
  ASSUME NEW image, Solid(image), NEW mode, NEW page
  PROVE  SizedLike([image EXCEPT !.mode = mode, !.page = page], image)
BY DEF Solid, SizedLike, ImageFields

LEMMA NewSizeIsInside ==
  ASSUME NEW image, Solid(image), NEW spec, spec.width \in Nat, spec.height \in Nat
  PROVE  LET size == NewSize(image, spec)
         IN  /\ size.width \in 0..spec.width /\ (spec.width # 0 => size.width # 0)
             /\ size.height \in 0..spec.height /\ (spec.height # 0 => size.height # 0)
<1> DEFINE rotated == RotatedSize(image.width, image.height, spec.rotation)
           slack == IF spec.rotation = 0 THEN 0 ELSE 2
<1>1. rotated.width \in Nat \ {0} /\ rotated.height \in Nat \ {0}
  BY DEF RotatedSize, Size, Solid
<1>2. slack \in Nat
  OBVIOUS
<1>3. NewSize(image, spec) = Size(Limit(spec.width, 0, rotated.width + slack), Limit(spec.height, 0, rotated.height + slack))
  BY DEF NewSize
<1> HIDE DEF rotated, slack
<1>4. QED
  BY <1>1, <1>2, <1>3 DEF Size, Limit

\* The operations of an image that is not a tile.
Asks(spec) == spec.width \in Nat /\ spec.height \in Nat /\ Bounds(spec) /\ spec.tile = None

\* adjust_image makes no image that is larger than it was asked for.
LEMMA AdjustedIsInside ==
  ASSUME NEW image, Solid(image), NEW spec, Asks(spec)
  PROVE  /\ Solid(AdjustImage(image, spec))
         /\ spec.width # 0 => AdjustImage(image, spec).width <= spec.width
         /\ spec.height # 0 => AdjustImage(image, spec).height <= spec.height
<1> DEFINE size == NewSize(image, spec)
           page == IF spec.page = 1 THEN image.page ELSE spec.page
           paged == [image EXCEPT !.mode = WorkingMode(image, spec), !.page = page]
           flipped == Flip(paged, spec.flip)
           rotated == Rotate(flipped, spec.rotation)
           cropped == Crop(rotated, spec, size)
           resized == Resize(cropped, size.width, size.height, spec.size_fit)
           sharpened == Special(resized, "sharpen", spec.sharpen)
           overlaid == Special(sharpened, "overlay", spec.overlay)
           profiled == Convert(overlaid, "icc", spec.icc)
           coloured == Convert(profiled, "colorspace", spec.colorspace)
           saved == Save(coloured, spec)
<1>1. AdjustImage(image, spec) = saved
  BY DEF AdjustImage, Tile, Asks
<1>2. /\ size.width \in 0..spec.width /\ (spec.width # 0 => size.width # 0)
      /\ size.height \in 0..spec.height /\ (spec.height # 0 => size.height # 0)
  BY NewSizeIsInside DEF Asks
<1>3. spec.width \in Nat /\ spec.height \in Nat /\ Bounds(spec)
  BY DEF Asks
<1> HIDE DEF size
<1>4. Solid(paged)
  BY PagedKeepsTheSize, PlainIsSolid
<1> HIDE DEF paged
<1>5. Solid(flipped)
  BY <1>4, FlippedIsSolid
<1> HIDE DEF flipped
<1>6. Solid(rotated)
  BY <1>5, RotatedIsSolid
<1> HIDE DEF rotated
<1>7. Solid(cropped)
  BY <1>2, <1>3, <1>6, CroppedIsSolid
<1> HIDE DEF cropped
<1>8. /\ Solid(resized)
      /\ size.width # 0 => resized.width <= size.width
      /\ size.height # 0 => resized.height <= size.height
  BY <1>2, <1>3, <1>7, ResizedIsInside
<1> HIDE DEF resized
<1>9. SizedLike(sharpened, resized) /\ Solid(sharpened)
  BY <1>8, NotesKeepTheSize, PlainIsSolid
<1> HIDE DEF sharpened
<1>10. SizedLike(overlaid, sharpened) /\ Solid(overlaid)
  BY <1>9, NotesKeepTheSize, PlainIsSolid
<1> HIDE DEF overlaid
<1>11. SizedLike(profiled, overlaid) /\ Solid(profiled)
  BY <1>10, NotesKeepTheSize, PlainIsSolid
<1> HIDE DEF profiled
<1>12. SizedLike(coloured, profiled) /\ Solid(coloured)
  BY <1>11, NotesKeepTheSize, PlainIsSolid
<1> HIDE DEF coloured
<1>13. SizedLike(saved, coloured) /\ Solid(saved)
  BY <1>12, SavedKeepsTheSize, PlainIsSolid
<1> HIDE DEF saved
<1>14. saved.width = resized.width /\ saved.height = resized.height
  BY <1>9, <1>10, <1>11, <1>12, <1>13 DEF SizedLike
<1>15. QED
  BY <1>1, <1>2, <1>3, <1>8, <1>13, <1>14 DEF Solid

(***************************************************************************)
(* Finalised attributes are normal, and their numbers are in range.        *)
(***************************************************************************)
\* The fields that only the first step changes.
Untouched == {"width", "height", "top", "left", "bottom", "right", "tile", "template", "quality", "page", "dpi", "strip"}

LEMMA NormalisedFields ==
  ASSUME NEW a, NEW f \in Untouched
  PROVE  NormaliseValues(a)[f] = EffectiveValue(a, f)
<1> DEFINE b == Effective(a)
           c == SizeFitOnly(b)
           d == CropFitOnly(c)
           e == HalfTurn(d)
           g == FillOnly(e)
           h == AlignOnly(g)
           i == ColourNames(h)
           j == OverlayOnly(i)
           k == ProfileOnly(j)
<1>1. Ranged(b) /\ b[f] = EffectiveValue(a, f)
  BY EffectiveFields, FieldNames DEF Untouched
<1> HIDE DEF b
<1>2. Ranged(c) /\ c[f] = b[f]
  BY <1>1, FieldNames DEF SizeFitOnly, Clear, Ranged, Untouched
<1> HIDE DEF c
<1>3. Ranged(d) /\ d[f] = c[f]
  BY <1>2, FieldNames DEF CropFitOnly, Clear, Ranged, Untouched
<1> HIDE DEF d
<1>4. Ranged(e) /\ e[f] = d[f]
  BY <1>3, FieldNames DEF HalfTurn, Ranged, Untouched
<1> HIDE DEF e
<1>5. Ranged(g) /\ g[f] = e[f]
  BY <1>4, FieldNames DEF FillOnly, Clear, Ranged, Untouched
<1> HIDE DEF g
<1>6. Ranged(h) /\ h[f] = g[f]
  BY <1>5, FieldNames DEF AlignOnly, Clear, Ranged, Untouched
<1> HIDE DEF h
<1>7. Ranged(i) /\ i[f] = h[f]
  BY <1>6, FieldNames DEF ColourNames, Ranged, Untouched
<1> HIDE DEF i
<1>8. Ranged(j) /\ j[f] = i[f]
  BY <1>7, FieldNames DEF OverlayOnly, Clear, Ranged, Untouched
<1> HIDE DEF j
<1>9. k[f] = j[f]
  BY <1>8, FieldNames DEF ProfileOnly, Clear, Ranged, Untouched
<1>10. NormaliseValues(a) = k
  BY DEF NormaliseValues, b, c, d, e, g, h, i, j
<1>11. QED
  BY <1>1, <1>2, <1>3, <1>4, <1>5, <1>6, <1>7, <1>8, <1>9, <1>10

LEMMA NormalisedSizes ==
  ASSUME NEW a
  PROVE  LET n == NormaliseValues(a)
         IN  /\ \A f \in {"width", "height"} : n[f] = IF a[f] = 0 THEN None ELSE a[f]
             /\ \A f \in CropSides : n[f] = IF a[f] \in {0, Unit} THEN None ELSE a[f]
             /\ n.tile = IF Given(a, "tile") /\ a.tile[2] < 2 THEN None ELSE a.tile
             /\ n.template = a.template
<1>1. \A f \in {"width", "height"} : EffectiveValue(a, f) = IF a[f] = 0 THEN None ELSE a[f]
  BY DEF EffectiveValue, NoEffect
<1>2. \A f \in CropSides : EffectiveValue(a, f) = IF a[f] \in {0, Unit} THEN None ELSE a[f]
  BY DEF EffectiveValue, NoEffect, CropSides
<1>3. EffectiveValue(a, "tile") = IF Given(a, "tile") /\ a.tile[2] < 2 THEN None ELSE a.tile
  BY DEF EffectiveValue, NoEffect
<1>4. EffectiveValue(a, "template") = a.template
  BY DEF EffectiveValue, NoEffect
<1>5. QED
  BY <1>1, <1>2, <1>3, <1>4, NormalisedFields DEF Untouched, CropSides

\* The numbers of finalised attributes.
Measured(a) ==
  /\ \A f \in {"width", "height"} : Given(a, f) => a[f] \in Nat \ {0}
  /\ \A f \in CropSides : Given(a, f) => a[f] \in Nat
  /\ Given(a, "tile") => a.tile \in TileSpecs

LEMMA ValidValues ==
  ASSUME NEW a, Valid(a)
  PROVE  /\ \A f \in {"width", "height"} \cup CropSides : Given(a, f) => a[f] \in Nat
         /\ Given(a, "tile") => a.tile \in TileSpecs
<1>1. /\ "width" \in DOMAIN Limits /\ Limits["width"] = 0..MaxDimension
      /\ "height" \in DOMAIN Limits /\ Limits["height"] = 0..MaxDimension
  BY DEF Limits
<1>2. /\ "top" \in DOMAIN Limits /\ Limits["top"] = 0..Unit
      /\ "left" \in DOMAIN Limits /\ Limits["left"] = 0..Unit
  BY DEF Limits
<1>3. /\ "bottom" \in DOMAIN Limits /\ Limits["bottom"] = 0..Unit
      /\ "right" \in DOMAIN Limits /\ Limits["right"] = 0..Unit
  BY DEF Limits
<1>4. "tile" \in DOMAIN Limits /\ Limits["tile"] = TileSpecs
  BY DEF Limits
<1>5. \A f \in {"width", "height"} \cup CropSides : Given(a, f) => a[f] \in 0..MaxDimension \cup 0..Unit
  BY <1>1, <1>2, <1>3 DEF Valid, CropSides
<1>6. Given(a, "tile") => a.tile \in TileSpecs
  BY <1>4 DEF Valid
<1>7. QED
  BY <1>5, <1>6, SettingsAssumption, UnitAssumption

LEMMA ReadyTemplate ==
  ASSUME NEW a, Ready(a)
  PROVE  Valid(TemplateOf(a))
BY TemplatesAssumption DEF Ready, TemplateOf, OrElse, Accepted, Given

LEMMA AppliedValues ==
  ASSUME NEW a, NEW dict, NEW override
  PROVE  /\ Ranged(ApplyDict(a, dict, override))
         /\ \A f \in Fields : \/ ApplyDict(a, dict, override)[f] = a[f]
                              \/ Given(dict, f) /\ ApplyDict(a, dict, override)[f] = dict[f]
BY DEF ApplyDict, Ranged

LEMMA FilledIn ==
  ASSUME NEW a, NEW dict, NEW f \in Fields
  PROVE  ApplyDict(a, dict, FALSE)[f] = IF Given(a, f) THEN a[f] ELSE dict[f]
BY DEF ApplyDict, Given

\* The quality of the default template is all that finalising takes back.
LEMMA FinalisedValues ==
  ASSUME NEW a
  PROVE  LET merged == NormaliseValues(ApplyDict(a, TemplateOf(a), FALSE))
         IN  \/ Finalised(a) = merged
             \/ Finalised(a) = [merged EXCEPT !.quality = None]
BY DEF Finalised, FinaliseImageAttrs, WithoutQuality, KeepOriginal

LEMMA BlankKeepsNormal ==
  ASSUME NEW a, Normal(a), NEW name \in {"quality", "tile"}
  PROVE  Normal([a EXCEPT ![name] = None])
<1> DEFINE b == [a EXCEPT ![name] = None]
<1>1. Ranged(a) /\ EffectiveSettled(a)
  BY DEF Normal
<1>2. Ranged(b) /\ \A f \in Fields : b[f] = IF f = name THEN None ELSE a[f]
  BY <1>1, FieldNames DEF Ranged
<1> HIDE DEF b
<1>3. EffectiveSettled(b)
  BY <1>1, <1>2, BlanksStaySettled
<1>4. \A f \in Fields \ {"quality", "tile"} : b[f] = a[f]
  BY <1>2
<1>5. NotStretched(b) = NotStretched(a)
  BY <1>4, FieldNames DEF NotStretched, Truthy, Given
<1>6. SizeFitSettled(b) /\ CropFitSettled(b) /\ TurnSettled(b)
  BY <1>4, FieldNames DEF Normal, SizeFitSettled, CropFitSettled, TurnSettled, Cropped, CropSides, Truthy, Given
<1>7. FillSettled(b) /\ AlignSettled(b) /\ ColourSettled(b)
  BY <1>4, <1>5, FieldNames DEF Normal, FillSettled, AlignSettled, ColourSettled, Given
<1>8. OverlaySettled(b) /\ ProfileSettled(b)
  BY <1>4, FieldNames DEF Normal, OverlaySettled, ProfileSettled, Given
<1>9. QED
  BY <1>2, <1>3, <1>6, <1>7, <1>8 DEF Normal, b

LEMMA FinalisedIsMeasured ==
  ASSUME NEW a, Ready(a)
  PROVE  Normal(Finalised(a)) /\ Measured(Finalised(a))
<1> DEFINE template == TemplateOf(a)
           merged == ApplyDict(a, template, FALSE)
           normal == NormaliseValues(merged)
           final == Finalised(a)
<1>1. /\ Normal(normal)
      /\ \A f \in {"width", "height"} : normal[f] = IF merged[f] = 0 THEN None ELSE merged[f]
      /\ \A f \in CropSides : normal[f] = IF merged[f] \in {0, Unit} THEN None ELSE merged[f]
      /\ normal.tile = IF Given(merged, "tile") /\ merged.tile[2] < 2 THEN None ELSE merged.tile
  BY NormalisedIsNormal, NormalisedSizes
<1>2. final = normal \/ final = [normal EXCEPT !["quality"] = None]
  BY FinalisedValues
<1>3. Valid(a) /\ Valid(template)
  BY ReadyTemplate DEF Ready
<1>4. \A f \in Fields : merged[f] = IF Given(a, f) THEN a[f] ELSE template[f]
  BY FilledIn
<1> HIDE DEF template, merged, normal, final
<1>5. Normal(final)
  BY <1>1, <1>2, BlankKeepsNormal
<1>6. \A f \in Fields \ {"quality"} : final[f] = normal[f]
  BY <1>1, <1>2 DEF Normal, Ranged
<1>7. /\ \A f \in {"width", "height"} \cup CropSides : Given(merged, f) => merged[f] \in Nat
      /\ Given(merged, "tile") => merged.tile \in TileSpecs
  BY <1>3, <1>4, ValidValues, FieldNames DEF Given, CropSides
<1>8. Measured(normal)
  BY <1>1, <1>7 DEF Measured, Given
<1>9. Measured(final)
  BY <1>6, <1>8, FieldNames DEF Measured, CropSides, Given
<1>10. QED
  BY <1>5, <1>9 DEF final

(***************************************************************************)
(* Every image in the cache: its attributes are normal, and without a tile *)
(* it is no larger than they say, whatever it was made from.               *)
(***************************************************************************)
\* An image within the size of its attributes.
Fits(image, a) ==
  /\ Solid(image)
  /\ Given(a, "width") => image.width <= a.width
  /\ Given(a, "height") => image.height <= a.height

\* The invariant of an image in the cache.
Made(e) ==
  /\ e = [attrs |-> e.attrs, image |-> e.image, exact |-> e.exact]
  /\ Normal(e.attrs) /\ Measured(e.attrs)
  /\ ~Given(e.attrs, "tile") => Fits(e.image, e.attrs)

LEMMA OperationsAsk ==
  ASSUME NEW base, NEW a, Measured(a), ~Given(a, "tile")
  PROVE  LET spec == Operations(base, a)
         IN  Asks(spec) /\ spec.width = OrElse(a.width, 0) /\ spec.height = OrElse(a.height, 0)
<1> DEFINE spec == Operations(base, a)
<1>1. spec.width = OrElse(a.width, 0) /\ spec.height = OrElse(a.height, 0)
  BY DEF Operations
<1>2. /\ spec.top \in {OrElse(a.top, 0), 0} /\ spec.left \in {OrElse(a.left, 0), 0}
      /\ spec.bottom \in {OrElse(a.bottom, Unit), Unit} /\ spec.right \in {OrElse(a.right, Unit), Unit}
  BY DEF Operations, Unless
<1>3. spec.tile \in {a.tile, None}
  BY DEF Operations, Unless
<1> HIDE DEF spec
<1>4. spec.width \in Nat /\ spec.height \in Nat
  BY <1>1 DEF Measured, OrElse, Given
<1>5. Bounds(spec)
  BY <1>2, UnitAssumption DEF Measured, OrElse, Given, CropSides, Bounds
<1>6. QED
  BY <1>1, <1>3, <1>4, <1>5 DEF Asks, Given, spec

LEMMA AdjustedFits ==
  ASSUME NEW base, Solid(base.image), NEW a, Measured(a), ~Given(a, "tile")
  PROVE  Fits(Adjusted(base, a), a)
<1> DEFINE spec == Operations(base.attrs, a)
<1>1. Asks(spec) /\ spec.width = OrElse(a.width, 0) /\ spec.height = OrElse(a.height, 0)
  BY OperationsAsk
<1> HIDE DEF spec
<1>2. CASE ~AttributesChangeImage(a)
  BY <1>2 DEF Adjusted, Fits, AttributesChangeImage
<1>3. CASE AttributesChangeImage(a)
  <2> DEFINE image == AdjustImage(base.image, spec)
  <2>1. Adjusted(base, a) = image
    BY <1>1, <1>3 DEF Adjusted, Performed, ValidSpec, Asks, spec
  <2>2. /\ Solid(image)
        /\ spec.width # 0 => image.width <= spec.width
        /\ spec.height # 0 => image.height <= spec.height
    BY <1>1, AdjustedIsInside
  <2> HIDE DEF image
  <2>3. QED
    BY <1>1, <2>1, <2>2 DEF Fits, Measured, OrElse, Given
<1>4. QED
  BY <1>2, <1>3

LEMMA FileIsSolid == Solid(FileEntry.image)
BY OriginalAssumption DEF FileEntry, Entry, File, Picture, Solid, ImageFields

\* What get_image answers and leaves in the cache.
Good(answer, a) ==
  /\ \A e \in answer.cache : Made(e)
  /\ ~Given(a, "tile") => Fits(answer.image, a)

LEMMA StoredIsGood ==
  ASSUME NEW images, \A e \in images : Made(e), NEW a, Normal(a), Measured(a), NEW base,
         ~Given(a, "tile") => Solid(base.image)
  PROVE  Good(Stored(images, a, base), a)
<1> DEFINE image == Adjusted(base, a)
           exact == base.exact /\ ~TurnsSized(base.attrs, a) /\ ~EnlargesCrop(base.attrs, a)
           entry == Entry(a, image, exact)
           answer == Stored(images, a, base)
<1>1. ~Given(a, "tile") => Fits(image, a)
  BY AdjustedFits
<1>2. answer.image = image /\ answer.cache = images \cup {entry}
  BY DEF Stored, Answered
<1> HIDE DEF image, exact
<1>3. Made(entry)
  BY <1>1 DEF Made, Entry
<1> HIDE DEF entry, answer
<1>4. Good(answer, a)
  BY <1>1, <1>2, <1>3 DEF Good
<1>5. QED
  BY <1>4 DEF answer

LEMMA BasesAreSolid ==
  ASSUME NEW images, \A e \in images : Made(e), NEW a, ~Given(a, "tile"), NEW b \in BaseImages(images, a)
  PROVE  Solid(b.image)
<1>1. b \in images /\ SuitableForBase(b.attrs, a)
  BY DEF BaseImages, Candidates
<1>2. TileFits(b.attrs, a)
  BY <1>1 DEF SuitableForBase
<1>3. ~Given(b.attrs, "tile")
  BY <1>2 DEF TileFits, Agree, Given
<1>4. QED
  BY <1>1, <1>3 DEF Made, Fits

LEMMA HitsFit ==
  ASSUME NEW images, \A e \in images : Made(e), NEW a, Normal(a), Measured(a), NEW e \in Hits(images, a)
  PROVE  ~Given(a, "tile") => Fits(e.image, a)
<1>1. e \in images /\ CacheKey(e.attrs) = CacheKey(a) /\ Made(e)
  BY DEF Hits
<1> DEFINE b == e.attrs
<1>2. \A f \in Fields \ {"template"} : CacheKey(b)[f] = CacheKey(a)[f]
  BY <1>1
<1>3. \A f \in Fields \ {"template"} :
        (IF b[f] \in FalseValues(f) THEN None ELSE b[f]) = (IF a[f] \in FalseValues(f) THEN None ELSE a[f])
  BY <1>2 DEF CacheKey
<1>4. FalseValues("tile") = {} /\ FalseValues("width") = {0} /\ FalseValues("height") = {0}
  BY DEF FalseValues
<1>5. b.tile = a.tile
  BY <1>3, <1>4, FieldNames
<1>6. Measured(b)
  BY <1>1 DEF Made
<1> HIDE DEF b
<1>7. b.width = a.width /\ b.height = a.height
  BY <1>3, <1>4, <1>6, FieldNames, NoneAssumption DEF Measured, Given
<1>8. QED
  BY <1>1, <1>5, <1>7 DEF Made, Fits, Given, b

LEMMA WholeIsGood ==
  ASSUME NEW images, \A e \in images : Made(e), NEW a, Normal(a), Measured(a), ~Given(a, "tile"),
         NEW answer \in Whole(images, a)
  PROVE  Good(answer, a)
<1>1. CASE Hits(images, a) # {}
  <2>1. PICK e \in Hits(images, a) : answer = [image |-> e.image, exact |-> e.exact, cache |-> images]
    BY <1>1 DEF Whole
  <2>2. QED
    BY <2>1, HitsFit DEF Good
<1>2. CASE Hits(images, a) = {}
  <2> DEFINE bases == IF BaseImages(images, a) = {} THEN {FileEntry} ELSE BaseImages(images, a)
  <2>1. PICK b \in bases : answer = Stored(images, a, b)
    BY <1>2 DEF Whole
  <2>2. Solid(b.image)
    BY BasesAreSolid, FileIsSolid
  <2>3. QED
    BY <2>1, <2>2, StoredIsGood
<1>3. QED
  BY <1>1, <1>2

LEMMA TileOfIsGood ==
  ASSUME NEW images, \A e \in images : Made(e), NEW a, Normal(a), Measured(a), Given(a, "tile"),
         NEW answer \in TileOf(images, a)
  PROVE  Good(answer, a)
<1> DEFINE untiled == [a EXCEPT !["tile"] = None]
           Base(whole) == IF whole.image.ok THEN Entry(untiled, whole.image, whole.exact) ELSE FileEntry
<1>1. Normal(untiled)
  BY BlankKeepsNormal
<1>2. \A f \in Fields : untiled[f] = IF f = "tile" THEN None ELSE a[f]
  BY FieldNames DEF Normal, Ranged
<1>3. Measured(untiled) /\ ~Given(untiled, "tile")
  BY <1>2, FieldNames DEF Measured, Given, CropSides
<1>4. \/ \E b \in BaseImages(images, a) : answer = Stored(images, a, b)
      \/ \E whole \in Whole(images, untiled) : answer = Stored(whole.cache, a, Base(whole))
  BY DEF TileOf
<1> HIDE DEF untiled, Base
<1>5. ASSUME NEW b \in BaseImages(images, a), answer = Stored(images, a, b)
      PROVE  Good(answer, a)
  BY <1>5, StoredIsGood
<1>6. ASSUME NEW whole \in Whole(images, untiled), answer = Stored(whole.cache, a, Base(whole))
      PROVE  Good(answer, a)
  <2>1. Good(whole, untiled)
    BY <1>1, <1>3, WholeIsGood
  <2>2. QED
    BY <1>6, <2>1, StoredIsGood DEF Good
<1>7. QED
  BY <1>4, <1>5, <1>6

LEMMA AnswersAreGood ==
  ASSUME NEW images, \A e \in images : Made(e), NEW a, Normal(a), Measured(a), NEW answer \in GetImage(images, a)
  PROVE  Good(answer, a)
<1>1. CASE ~Given(a, "tile")
  BY <1>1, WholeIsGood DEF GetImage
<1>2. CASE Given(a, "tile") /\ Hits(images, a) = {}
  BY <1>2, TileOfIsGood DEF GetImage
<1>3. CASE Given(a, "tile") /\ Hits(images, a) # {}
  <2>1. PICK e \in Hits(images, a) : answer = [image |-> e.image, exact |-> e.exact, cache |-> images]
    BY <1>3 DEF GetImage, Whole
  <2>2. QED
    BY <1>3, <2>1 DEF Good
<1>4. QED
  BY <1>1, <1>2, <1>3

AllMade == \A e \in cache : Made(e)

\* The attributes that get_image is called with.
Reached(a) == Normal(a) /\ Measured(a)

LEMMA AskedAttributes ==
  ASSUME NEW v \in Views, AskedOf[v] # Refused
  PROVE  LET limited == IF v.public THEN PreLimits(v.attrs, v.limit) ELSE v.attrs
         IN  /\ AskedOf[v].attrs = Finalised(limited) /\ Ready(limited)
             /\ v.public /\ Limited(v.attrs, v.limit) => \A f \in Sides : ~Exceeds(v.attrs, v.limit, f)
BY DEF AskedOf, Asked, Refused

\* The web view, the export and the pyramid task all finalise what they ask for.
LEMMA RequestsAreReached ==
  ASSUME RequestsNext
  PROVE  \/ \E a : /\ Reached(a) /\ Room
                   /\ \E answer \in GetImage(cache, a) : cache' = answer.cache
         \/ \E e \in cache : EvictImage(e)
<1>1. ASSUME NEW v \in Views, View(v)
      PROVE  /\ Reached(AskedOf[v].attrs)
             /\ \E answer \in GetImage(cache, AskedOf[v].attrs) : cache' = answer.cache
  <2>1. AskedOf[v] # Refused
    BY <1>1 DEF View
  <2>2. \E a : Ready(a) /\ AskedOf[v].attrs = Finalised(a)
    BY <2>1, AskedAttributes
  <2>3. QED
    BY <1>1, <2>2, FinalisedIsMeasured DEF View, Reached
<1>2. ASSUME NEW x \in Exports, Export(x)
      PROVE  /\ Reached(ExportAttrsOf[x])
             /\ \E answer \in GetImage(cache, ExportAttrsOf[x]) : cache' = answer.cache
  <2>1. ExportAttrsOf[x] = Finalised(ExportRequest(x)) /\ Ready(ExportRequest(x))
    BY <1>2 DEF Export, ExportAttrsOf, ExportAttrs
  <2>2. QED
    BY <1>2, <2>1, FinalisedIsMeasured DEF Export, Reached
<1>3. ASSUME NEW e \in cache, NEW w \in PyramidWidths, Pyramid(e, w)
      PROVE  /\ Reached(PyramidAttrs(e.attrs, w))
             /\ \E answer \in GetImage(cache, PyramidAttrs(e.attrs, w)) : cache' = answer.cache
  BY <1>3, FinalisedIsMeasured DEF Pyramid, PyramidAttrs, Reached
<1>4. QED
  BY <1>1, <1>2, <1>3 DEF RequestsNext

LEMMA StayMade ==
  ASSUME AllMade, [RequestsNext]_requestVars
  PROVE  AllMade'
<1>1. ASSUME NEW a, Reached(a), NEW answer \in GetImage(cache, a), cache' = answer.cache
      PROVE  AllMade'
  <2>1. Good(answer, a)
    BY <1>1, AnswersAreGood DEF AllMade, Reached
  <2>2. QED
    BY <1>1, <2>1 DEF Good, AllMade
<1>2. ASSUME NEW e \in cache, EvictImage(e)
      PROVE  AllMade'
  BY <1>2 DEF EvictImage, AllMade
<1>3. CASE UNCHANGED requestVars
  BY <1>3 DEF AllMade, requestVars
<1>4. QED
  BY <1>1, <1>2, <1>3, RequestsAreReached

LEMMA ImagesAreMade == RequestsSpec => []AllMade
<1>1. RequestsInit => AllMade
  BY DEF RequestsInit, AllMade
<1>2. AllMade /\ [RequestsNext]_requestVars => AllMade'
  BY StayMade
<1>3. QED
  BY <1>1, <1>2, PTL DEF RequestsSpec

\* A request adds the image, and at most one to make it from.
FewImages == IsFiniteSet(cache) /\ Cardinality(cache) <= MaxCached + 1

LEMMA StoredAddsOne ==
  ASSUME NEW images, IsFiniteSet(images), NEW a, NEW base
  PROVE  LET stored == Stored(images, a, base).cache
         IN  IsFiniteSet(stored) /\ Cardinality(stored) <= Cardinality(images) + 1
<1> DEFINE image == Adjusted(base, a)
           exact == base.exact /\ ~TurnsSized(base.attrs, a) /\ ~EnlargesCrop(base.attrs, a)
           entry == Entry(a, image, exact)
<1>1. Stored(images, a, base).cache = images \cup {entry}
  BY DEF Stored, Answered
<1> HIDE DEF entry
<1>2. IsFiniteSet(images \cup {entry}) /\ Cardinality(images \cup {entry}) \in {Cardinality(images), Cardinality(images) + 1}
  BY FS_AddElement
<1>3. Cardinality(images) \in Nat
  BY FS_CardinalityType
<1>4. QED
  BY <1>1, <1>2, <1>3

LEMMA WholeAddsOne ==
  ASSUME NEW images, IsFiniteSet(images), NEW a, NEW answer \in Whole(images, a)
  PROVE  IsFiniteSet(answer.cache) /\ Cardinality(answer.cache) <= Cardinality(images) + 1
<1>1. answer.cache = images \/ \E b : answer = Stored(images, a, b)
  BY DEF Whole
<1>2. Cardinality(images) \in Nat
  BY FS_CardinalityType
<1>3. QED
  BY <1>1, <1>2, StoredAddsOne

LEMMA RequestAddsTwo ==
  ASSUME NEW images, IsFiniteSet(images), NEW a, NEW answer \in GetImage(images, a)
  PROVE  IsFiniteSet(answer.cache) /\ Cardinality(answer.cache) <= Cardinality(images) + 2
<1> DEFINE untiled == [a EXCEPT !["tile"] = None]
           Base(whole) == IF whole.image.ok THEN Entry(untiled, whole.image, whole.exact) ELSE FileEntry
<1>1. Cardinality(images) \in Nat
  BY FS_CardinalityType
<1>2. CASE answer \in Whole(images, a)
  BY <1>1, <1>2, WholeAddsOne, FS_CardinalityType
<1>3. CASE answer \in TileOf(images, a)
  <2>1. \/ \E b : answer = Stored(images, a, b)
        \/ \E whole \in Whole(images, untiled) : answer = Stored(whole.cache, a, Base(whole))
    BY <1>3 DEF TileOf
  <2> HIDE DEF untiled, Base
  <2>2. ASSUME NEW b, answer = Stored(images, a, b)
        PROVE  IsFiniteSet(answer.cache) /\ Cardinality(answer.cache) <= Cardinality(images) + 2
    BY <1>1, <2>2, StoredAddsOne, FS_CardinalityType
  <2>3. ASSUME NEW whole \in Whole(images, untiled), answer = Stored(whole.cache, a, Base(whole))
        PROVE  IsFiniteSet(answer.cache) /\ Cardinality(answer.cache) <= Cardinality(images) + 2
    <3>1. IsFiniteSet(whole.cache) /\ Cardinality(whole.cache) <= Cardinality(images) + 1
      BY WholeAddsOne
    <3>2. IsFiniteSet(answer.cache) /\ Cardinality(answer.cache) <= Cardinality(whole.cache) + 1
      BY <2>3, <3>1, StoredAddsOne
    <3>3. Cardinality(whole.cache) \in Nat /\ Cardinality(answer.cache) \in Nat
      BY <3>1, <3>2, FS_CardinalityType
    <3>4. QED
      BY <1>1, <3>1, <3>2, <3>3
  <2>4. QED
    BY <2>1, <2>2, <2>3
<1>4. QED
  BY <1>2, <1>3 DEF GetImage

LEMMA StayFew ==
  ASSUME FewImages, [RequestsNext]_requestVars
  PROVE  FewImages'
<1>0. Cardinality(cache) \in Nat
  BY FS_CardinalityType DEF FewImages
<1>1. ASSUME NEW a, Room, NEW answer \in GetImage(cache, a), cache' = answer.cache
      PROVE  FewImages'
  <2>1. IsFiniteSet(cache') /\ Cardinality(cache') <= Cardinality(cache) + 2
    BY <1>1, RequestAddsTwo DEF FewImages
  <2>2. Cardinality(cache') \in Nat
    BY <2>1, FS_CardinalityType
  <2>3. QED
    BY <1>0, <1>1, <2>1, <2>2, MaxCachedAssumption DEF FewImages, Room
<1>2. ASSUME NEW e \in cache, EvictImage(e)
      PROVE  FewImages'
  <2>1. IsFiniteSet(cache') /\ Cardinality(cache') <= Cardinality(cache)
    BY <1>2, FS_RemoveElement, <1>0 DEF FewImages, EvictImage
  <2>2. Cardinality(cache') \in Nat
    BY <2>1, FS_CardinalityType
  <2>3. QED
    BY <1>0, <2>1, <2>2, MaxCachedAssumption DEF FewImages
<1>3. CASE UNCHANGED requestVars
  BY <1>3 DEF FewImages, requestVars
<1>4. QED
  BY <1>1, <1>2, <1>3, RequestsAreReached

\* The attributes in the cache are normalised, and the bound of the model is one
\* image more than where requests stop.
THEOREM RequestsTypeCorrect == RequestsSpec => []RequestsTypeOK
<1>1. RequestsInit => FewImages
  BY FS_EmptySet, MaxCachedAssumption DEF RequestsInit, FewImages
<1>2. FewImages /\ [RequestsNext]_requestVars => FewImages'
  BY StayFew
<1>3. AllMade /\ FewImages => RequestsTypeOK
  BY NormalIsNormalised DEF AllMade, FewImages, RequestsTypeOK, Made
<1>4. QED
  BY <1>1, <1>2, <1>3, ImagesAreMade, PTL DEF RequestsSpec

\* The tiles of every valid grid cover the image once, and fitted crops lose
\* nothing, for every limit on the tiles.
THEOREM CutsAreAlwaysComplete == RequestsSpec => []CutsAreComplete
<1>1. ASSUME NEW axis \in 1..AxisLength(MaxTiles)
      PROVE  TilesCover[axis]
  <2>1. MaxTiles \in Nat /\ AxisLength(MaxTiles) \in Nat
    BY SettingsAssumption, AxisIsSquareRoot
  <2>2. PlacesAreUnique(axis)
    BY <2>1, PlacesOfAGridAreUnique
  <2>3. \A length \in MaxTiles..(2 * MaxTiles) : StripsMeet(length, axis)
    BY <2>1, StripsOfASideMeet
  <2>4. QED
    BY <2>2, <2>3 DEF TilesCover
<1>2. AllMade => CutsAreComplete
  <2>1. SUFFICES ASSUME AllMade, NEW e \in cache, Given(e.attrs, "tile")
                 PROVE  TilesCover[AxisLength(e.attrs.tile[2])]
    BY WidenedCropsFit DEF CutsAreComplete
  <2>2. e.attrs.tile \in TileSpecs
    BY <2>1 DEF AllMade, Made, Measured
  <2>3. e.attrs.tile[2] \in Squares
    BY <2>2 DEF TileSpecs
  <2>4. AxisLength(e.attrs.tile[2]) \in 1..AxisLength(MaxTiles)
    BY <2>3, SettingsAssumption, AxisOfAGrid
  <2>5. QED
    BY <1>1, <2>4
<1>3. QED
  BY <1>2, ImagesAreMade, PTL

(***************************************************************************)
(* The limits for the public.                                              *)
(***************************************************************************)
\* What becomes of the two sizes of a public request: the one that has a limit is
\* kept within what is allowed, or not given to get_image at all.
LEMMA PublicSizes ==
  ASSUME NEW v \in Views, v.public, ~Given(v.attrs, "tile"), AskedOf[v] # Refused,
         NEW f \in Sides, v.limit[f] > 0
  PROVE  LET a == AskedOf[v].attrs
         IN  /\ Reached(a) /\ Allowed(v, f) \in Nat /\ Allowed(v, f) >= v.limit[f]
             /\ Given(a, f) => a[f] <= Allowed(v, f)
             /\ ~Given(a, f) /\ ~Given(a, "template") => Given(a, Other(f))
<1> DEFINE request == v.attrs
           limit == v.limit
           limited == PreLimits(request, limit)
           template == TemplateOf(request)
           merged == ApplyDict(limited, template, FALSE)
           normal == NormaliseValues(merged)
           a == AskedOf[v].attrs
<1>0. /\ limit["width"] \in Nat /\ limit["height"] \in Nat /\ limit[f] \in Nat \ {0}
      /\ Sides = {"width", "height"} /\ Other(f) \in Sides \ {f} /\ Sides = {f, Other(f)}
  BY PublicLimitAssumption DEF Sides, Other
<1>1. Limited(request, limit)
  <2>1. limit["width"] + limit["height"] > 0
    BY <1>0
  <2>2. QED
    BY <2>1 DEF Limited
<1>2. a = Finalised(limited) /\ Ready(limited) /\ ~Exceeds(request, limit, f)
  BY <1>1, AskedAttributes
<1>3. Reached(a)
  BY <1>2, FinalisedIsMeasured DEF Reached
<1>4. request = [g \in Fields |-> request[g]]
  BY ViewsAssumption
<1>5. limited.template = request.template
  BY <1>4, FieldNames DEF PreLimits
<1>6. /\ Unsized(request) => limited[f] = limit[f]
      /\ ~Unsized(request) => limited = request
  BY <1>0, <1>1, <1>4, FieldNames DEF PreLimits
<1>7. TemplateOf(limited) = template
  BY <1>5 DEF TemplateOf
<1>8. a = normal \/ a = [normal EXCEPT !["quality"] = None]
  BY <1>2, <1>7, FinalisedValues
<1>9. \A g \in Fields \ {"quality"} : a[g] = normal[g]
  BY <1>8, NormalisedIsNormal DEF Normal, Ranged
<1>10. \A g \in Fields : merged[g] = IF Given(limited, g) THEN limited[g] ELSE template[g]
  BY DEF ApplyDict, Given
<1>11. /\ \A g \in Sides : normal[g] = IF merged[g] = 0 THEN None ELSE merged[g]
       /\ normal.template = merged.template
  BY <1>0, NormalisedSizes
<1>12. \A g \in Sides : a[g] = IF merged[g] = 0 THEN None ELSE merged[g]
  BY <1>0, <1>9, <1>11, FieldNames
<1>13. Zero(template[f]) \in Nat
  <2>1. template \in {Templates[t] : t \in DOMAIN Templates}
    BY <1>2, <1>5, TemplatesAssumption DEF template, TemplateOf, OrElse, Ready, Given
  <2>2. Valid(template)
    BY <2>1, TemplatesAssumption DEF Accepted
  <2>3. QED
    BY <2>2, <1>0, ValidValues DEF Zero, OrElse, Given
<1>14. TemplateSize(request, f) \in {0, Zero(template[f])}
  BY DEF TemplateSize, TemplateOf, OrElse, Given
<1>15. Allowed(v, f) = IF Zero(template[f]) > limit[f] THEN Zero(template[f]) ELSE limit[f]
  BY DEF Allowed
<1>16. Allowed(v, f) \in Nat /\ Allowed(v, f) >= limit[f] /\ Allowed(v, f) >= Zero(template[f])
  BY <1>0, <1>13, <1>15
<1>17. ASSUME ~Unsized(request)
       PROVE  Zero(request[f]) \in Nat /\ Zero(request[f]) <= Allowed(v, f)
  <2>1. Valid(request)
    BY <1>2, <1>6, <1>17 DEF Ready
  <2>2. Zero(request[f]) \in Nat
    BY <2>1, <1>0, ValidValues DEF Zero, OrElse, Given
  <2>3. LimitOf(request, limit, f) \in {limit[f], TemplateSize(request, f)}
    BY DEF LimitOf
  <2>4. LimitOf(request, limit, f) > 0
    BY <1>0, <1>13, <1>14 DEF LimitOf
  <2>5. LimitOf(request, limit, f) \in Nat /\ LimitOf(request, limit, f) <= Allowed(v, f)
    BY <2>3, <1>0, <1>13, <1>14, <1>16
  <2>6. ~(Zero(request[f]) > LimitOf(request, limit, f))
    BY <1>2, <2>4 DEF Exceeds
  <2>7. QED
    BY <2>2, <2>5, <2>6, <1>16
<1>18. \A g \in Sides : TemplateSize(request, g) # 0 => Given(request, "template")
  BY DEF TemplateSize
<1> HIDE DEF a, limited, template, merged, normal, request, limit
<1>19. ASSUME Given(a, f)
       PROVE  a[f] <= Allowed(v, f)
  <2>1. a[f] = merged[f] /\ merged[f] # 0 /\ merged[f] # None
    BY <1>0, <1>12, <1>19 DEF Given
  <2>2. merged[f] = IF Given(limited, f) THEN limited[f] ELSE template[f]
    BY <1>0, <1>10, FieldNames
  <2>3. CASE Unsized(request)
    <3>1. limited[f] = limit[f] /\ limit[f] # None
      BY <1>0, <1>6, <2>3, NoneAssumption
    <3>2. QED
      BY <2>1, <2>2, <3>1, <1>0, <1>16 DEF Given
  <2>4. CASE ~Unsized(request) /\ Given(request, f)
    BY <2>1, <2>2, <2>4, <1>6, <1>17 DEF Given, Zero, OrElse
  <2>5. CASE ~Unsized(request) /\ ~Given(request, f)
    BY <2>1, <2>2, <2>5, <1>6, <1>16 DEF Given, Zero, OrElse
  <2>6. QED
    BY <2>3, <2>4, <2>5
<1>20. ASSUME ~Given(a, f), ~Given(a, "template")
       PROVE  Given(a, Other(f))
  <2>1. merged[f] = 0 \/ merged[f] = None
    BY <1>0, <1>12, <1>20 DEF Given
  <2>2. \A g \in Sides : merged[g] = IF Given(limited, g) THEN limited[g] ELSE template[g]
    BY <1>0, <1>10, FieldNames
  <2>3. ~Unsized(request)
    BY <2>1, <2>2, <1>0, <1>6, NoneAssumption DEF Given
  <2>4. limited = request
    BY <2>3, <1>6
  <2>5. Zero(request[f]) = 0
    BY <2>1, <2>2, <2>4, <1>0 DEF Zero, OrElse, Given
  <2>6. ~Given(request, "template")
    <3>1. a.template = merged.template
      BY <1>9, <1>11, FieldNames
    <3>2. merged.template = IF Given(limited, "template") THEN limited.template ELSE template.template
      BY <1>10, FieldNames
    <3>3. QED
      BY <3>1, <3>2, <2>4, <1>20 DEF Given
  <2>7. Zero(request[Other(f)]) # 0
    BY <2>3, <2>5, <2>6, <1>0, <1>18 DEF Unsized
  <2>8. merged[Other(f)] # 0 /\ merged[Other(f)] # None
    BY <2>2, <2>4, <2>7, <1>0 DEF Zero, OrElse, Given
  <2>9. QED
    BY <2>8, <1>0, <1>12 DEF Given
<1>21. QED
  BY <1>3, <1>16, <1>19, <1>20 DEF a, limit

LEMMA SentSizes ==
  ASSUME AllMade, NEW v \in Views, v.public, AskedOf[v] # Refused,
         ~Given(v.attrs, "tile"), ~Given(AskedOf[v].attrs, "tile"),
         NEW answer \in GetImage(cache, AskedOf[v].attrs)
  PROVE  SentWithinLimits(v, Response(v, AskedOf[v].attrs, answer.image))
<1> DEFINE a == AskedOf[v].attrs
           image == answer.image
<1>1. ASSUME NEW f \in Sides, v.limit[f] > 0, ~Overlooked(v, f), ~PostExceeds(a, v.limit, image)
      PROVE  image[f] <= Allowed(v, f)
  <2>1. /\ Reached(a) /\ Allowed(v, f) \in Nat /\ Allowed(v, f) >= v.limit[f]
        /\ Given(a, f) => a[f] <= Allowed(v, f)
        /\ ~Given(a, f) /\ ~Given(a, "template") => Given(a, Other(f))
    BY <1>1, PublicSizes
  <2>2. Fits(image, a)
    BY <2>1, AnswersAreGood DEF Good, AllMade, Reached
  <2>3. /\ v.limit["width"] \in Nat /\ v.limit["height"] \in Nat
        /\ Sides = {"width", "height"} /\ Other(f) \in Sides
    BY PublicLimitAssumption DEF Sides, Other
  <2>4. image["width"] \in Nat /\ image["height"] \in Nat
    BY <2>2 DEF Fits, Solid
  <2>5. \A g \in Sides : Given(a, g) => a[g] \in Nat \ {0}
    BY <2>1, <2>3 DEF Reached, Measured
  <2> HIDE DEF a, image
  <2>6. CASE Given(a, f)
    <3>1. image[f] <= a[f]
      BY <2>2, <2>3, <2>5, <2>6 DEF Fits
    <3>2. image[f] \in Nat /\ a[f] \in Nat
      BY <2>3, <2>4, <2>5, <2>6
    <3>3. QED
      BY <2>1, <2>6, <3>1, <3>2
  <2>7. CASE ~Given(a, f)
    <3>1. ~Given(a, "template") /\ Given(a, Other(f)) /\ ~(v.limit[Other(f)] > 0)
      BY <1>1, <2>1, <2>7 DEF Overlooked, a
    <3>2. v.limit[Other(f)] = 0
      BY <2>3, <3>1
    <3>3. Zero(a[Other(f)]) > 0 /\ Zero(a[f]) = 0
      BY <2>3, <2>5, <2>7, <3>1 DEF Zero, OrElse, Given
    <3>4. ~(image[f] > v.limit[f])
      BY <1>1, <3>1, <3>2, <3>3 DEF PostExceeds
    <3>5. image[f] \in Nat /\ v.limit[f] \in Nat
      BY <2>3, <2>4
    <3>6. QED
      BY <2>1, <3>4, <3>5
  <2>8. QED
    BY <2>6, <2>7
<1>2. CASE PostExceeds(a, v.limit, image)
  <2>1. Response(v, a, image) \in {Failed, Refused}
    BY <1>2 DEF Response
  <2>2. QED
    BY <2>1 DEF SentWithinLimits, Refused, Failed, a, image
<1>3. CASE ~PostExceeds(a, v.limit, image)
  <2>1. \/ Response(v, a, image) = Failed
        \/ Response(v, a, image) = [status |-> 200, image |-> image]
    BY <1>3 DEF Response
  <2>2. QED
    BY <2>1, <1>1, <1>3 DEF SentWithinLimits, Failed, a, image
<1>4. QED
  BY <1>2, <1>3

\* Whatever is requested, exported and evicted before, whatever base an image is
\* made from, and whatever the settings and templates are, the public gets no image
\* beyond a limit and the template's own size, in any dimension that is looked at.
THEOREM PublicImagesAreAlwaysLimited == RequestsSpec => []PublicImagesAreLimited
<1>1. AllMade => PublicImagesAreLimited
  BY SentSizes DEF PublicImagesAreLimited
<1>2. QED
  BY <1>1, ImagesAreMade, PTL
=============================================================================
