---------------------------- MODULE StatsServer ----------------------------
(***************************************************************************)
(* The statistics server: one process that counts the requests which the   *)
(* web processes report to it, and adds the counts to the database about   *)
(* once a minute.                                                          *)
(*                                                                         *)
(* A handler thread adds an event to the system counters and then, if the  *)
(* event is about an image, to the counters of the image, taking a lock    *)
(* for each.  The flush thread exchanges both sets of counters for empty   *)
(* ones under both locks and writes what it took; the monitor thread       *)
(* discards counters that have not been taken for Frequency.  Each section *)
(* that holds a lock is one step, as is each database transaction.         *)
(*                                                                         *)
(* A set of counters is a function to the number of events it stands for:  *)
(* what an event adds (requests, bytes, seconds) is left out.  The system  *)
(* counters are split by the image of the event, NoImage for those that    *)
(* concern none, so that the two sets can be compared.                     *)
(***************************************************************************)
EXTENDS Naturals, FiniteSets

CONSTANTS
    Images,         \* the images that events are about
    NoImage,        \* image ID 0: an event for the system counters only
    Minute,         \* the 60 s that the threads sleep, in ticks of the clock
    Frequency,      \* STATS_FREQUENCY, in ticks
    MaxEvents,      \* bound: events of each key
    MaxMidway,      \* bound: handlers between the two counters of one image
    MaxFaults,      \* bound: database errors, discards, stops and kills
    MaxPurges       \* bound: images deleted from the database

EventKeys == Images \cup {NoImage}

ASSUME ImageAssumption == NoImage \notin Images
ASSUME TimeAssumption ==
    /\ Minute \in Nat \ {0}
    /\ Frequency \in Nat
    /\ Frequency >= Minute      \* __init__ refuses less than 1 minute
ASSUME BoundAssumption ==
    /\ MaxEvents \in [EventKeys -> Nat]
    /\ MaxMidway \in Nat
    /\ MaxFaults \in Nat \ {0}
    /\ MaxPurges \in Nat

VARIABLES
    server,         \* "running", "stopping" after SIGTERM, or "down"
    sysCache,       \* the system counters, by the image of the event
    imgCache,       \* the counters of each image
    midway,         \* handlers that counted for the system, not yet the image
    age,            \* time since caches_started
    flushPc,        \* what the flush thread is about to do
    flushDue,       \* what is left of its sleep
    localSys,       \* the system counters it took and has not written
    localImg,       \* the image counters it took and has not written
    reuse,          \* keys that had a row of this period when it took them
    inserts,        \* images that need a new row
    monitorPc,      \* what the monitor thread is about to do
    monitorDue,     \* what is left of its sleep
    rowAge,         \* age of the latest row of a key, Frequency for too old
    exists,         \* images that have a record in the database
    received,       \* history: events that were counted for the system
    sysWritten, imgWritten,     \* history: events added to rows
    sysLost, imgLost,           \* history: events dropped
    mishaps, purges             \* history: what happened, to bound it

held == <<sysCache, imgCache, midway>>
taken == <<localSys, localImg>>
flushing == <<flushPc, flushDue, reuse, inserts>>
monitoring == <<monitorPc, monitorDue>>
written == <<sysWritten, imgWritten>>
lost == <<sysLost, imgLost>>
statsVars == <<server, held, age, taken, flushing, monitoring, rowAge, exists,
               received, written, lost, mishaps, purges>>

Zero(S) == [k \in S |-> 0]
Plus(f, g) == [k \in DOMAIN f |-> f[k] + g[k]]
Only(f, S) == [k \in DOMAIN f |-> IF k \in S THEN f[k] ELSE 0]

StatsTypeOK ==
    /\ server \in {"running", "stopping", "down"}
    /\ sysCache \in [EventKeys -> Nat]
    /\ imgCache \in [Images -> Nat]
    /\ midway \in [Images -> Nat]
    /\ age \in Nat
    /\ flushPc \in {"sleep", "session", "sys", "img", "insert", "fix", "retry"}
    /\ flushDue \in 0..Minute
    /\ localSys \in [EventKeys -> Nat]
    /\ localImg \in [Images -> Nat]
    /\ reuse \subseteq EventKeys
    /\ inserts \subseteq Images
    /\ monitorPc \in {"sleep", "discard"}
    /\ monitorDue \in 0..Minute
    /\ rowAge \in [EventKeys -> 0..Frequency]
    /\ exists \subseteq Images
    /\ received \in [EventKeys -> Nat]
    /\ sysWritten \in [EventKeys -> Nat]
    /\ imgWritten \in [Images -> Nat]
    /\ sysLost \in [EventKeys -> Nat]
    /\ imgLost \in [Images -> Nat]
    /\ mishaps \in Nat
    /\ purges \in Nat

StatsInit ==
    /\ server = "running"
    /\ sysCache = Zero(EventKeys)
    /\ imgCache = Zero(Images)
    /\ midway = Zero(Images)
    /\ age = 0
    /\ flushPc = "sleep"
    /\ flushDue = Minute
    /\ localSys = Zero(EventKeys)
    /\ localImg = Zero(Images)
    /\ reuse = {}
    /\ inserts = {}
    /\ monitorPc = "sleep"
    /\ monitorDue = Minute
    /\ rowAge = [k \in EventKeys |-> Frequency]
    /\ exists = Images
    /\ received = Zero(EventKeys)
    /\ sysWritten = Zero(EventKeys)
    /\ imgWritten = Zero(Images)
    /\ sysLost = Zero(EventKeys)
    /\ imgLost = Zero(Images)
    /\ mishaps = 0
    /\ purges = 0

Fault ==
    /\ mishaps < MaxFaults
    /\ mishaps' = mishaps + 1

-----------------------------------------------------------------------------
(* The handler threads.                                                    *)

\* _sys_cache: an event arrives and is counted for the system
CountForSystem(k) ==
    /\ server = "running"
    /\ received[k] < MaxEvents[k]
    /\ received' = [received EXCEPT ![k] = @ + 1]
    /\ sysCache' = [sysCache EXCEPT ![k] = @ + 1]
    /\ IF k = NoImage
       THEN UNCHANGED midway
       ELSE /\ midway[k] < MaxMidway
            /\ midway' = [midway EXCEPT ![k] = @ + 1]
    /\ UNCHANGED <<server, imgCache, age, taken, flushing, monitoring, rowAge,
                   exists, written, lost, mishaps, purges>>

\* _img_cache: the same thread then counts it for its image
CountForImage(i) ==
    /\ server = "running"
    /\ midway[i] > 0
    /\ midway' = [midway EXCEPT ![i] = @ - 1]
    /\ imgCache' = [imgCache EXCEPT ![i] = @ + 1]
    /\ UNCHANGED <<server, sysCache, age, taken, flushing, monitoring, rowAge,
                   exists, received, written, lost, mishaps, purges>>

-----------------------------------------------------------------------------
(* _reset_caches, with both locks held, of counters that go to sys and img *)

\* Mutant: the counters of the images are not reset with the system's
EmptySystemOnly ==
    /\ sysCache' = Zero(EventKeys)
    /\ UNCHANGED imgCache
    /\ age' = 0

EmptyCaches ==
    /\ sysCache' = Zero(EventKeys)
    /\ imgCache' = Zero(Images)
    /\ age' = 0

DropCaches ==
    /\ EmptyCaches
    /\ sysLost' = Plus(sysLost, sysCache)
    /\ imgLost' = Plus(imgLost, imgCache)

\* _sigusr1: the counters are cleared on request
ClearSignal ==
    /\ server = "running"
    /\ Fault
    /\ DropCaches
    /\ UNCHANGED <<server, midway, taken, flushing, monitoring, rowAge, exists,
                   received, written, purges>>

-----------------------------------------------------------------------------
(* The monitor thread.                                                     *)

\* Mutant: the monitor waits until the age is above the period
WakeForOlder ==
    /\ server = "running"
    /\ monitorPc = "sleep"
    /\ monitorDue = 0
    /\ IF age > Frequency
       THEN monitorPc' = "discard" /\ UNCHANGED monitorDue
       ELSE monitorDue' = Minute /\ UNCHANGED monitorPc
    /\ UNCHANGED <<server, held, age, taken, flushing, rowAge, exists,
                   received, written, lost, mishaps, purges>>

\* The age is read under the lock and tested after it
MonitorWakes ==
    /\ server = "running"
    /\ monitorPc = "sleep"
    /\ monitorDue = 0
    /\ IF age >= Frequency
       THEN monitorPc' = "discard" /\ UNCHANGED monitorDue
       ELSE monitorDue' = Minute /\ UNCHANGED monitorPc
    /\ UNCHANGED <<server, held, age, taken, flushing, rowAge, exists,
                   received, written, lost, mishaps, purges>>

\* _lock_reset_caches, whatever has happened to the counters since
MonitorDiscards ==
    /\ server # "down"
    /\ monitorPc = "discard"
    /\ mishaps' = IF mishaps < MaxFaults THEN mishaps + 1 ELSE mishaps
    /\ DropCaches
    /\ monitorPc' = "sleep"
    /\ monitorDue' = Minute
    /\ UNCHANGED <<server, midway, taken, flushing, rowAge, exists,
                   received, written, purges>>

-----------------------------------------------------------------------------
(* The flush thread.                                                       *)

FlushWakes ==
    /\ server = "running"
    /\ flushPc = "sleep"
    /\ flushDue = 0
    /\ flushPc' = "session"
    /\ UNCHANGED <<server, held, age, taken, flushDue, reuse, inserts,
                   monitoring, rowAge, exists, received, written, lost,
                   mishaps, purges>>

\* What is left of _flush after its last write: the thread sleeps again
FlushEnds ==
    /\ flushPc' = "sleep"
    /\ flushDue' = Minute
    /\ reuse' = {}
    /\ inserts' = {}

\* db_get_session fails before anything is taken
FlushHasNoSession ==
    /\ server # "down"
    /\ flushPc = "session"
    /\ Fault
    /\ FlushEnds
    /\ UNCHANGED <<server, held, age, taken, monitoring, rowAge, exists,
                   received, written, lost, purges>>

\* Mutant: the images are written before the system
TakeForImagesFirst ==
    /\ server # "down"
    /\ flushPc = "session"
    /\ localSys' = sysCache
    /\ localImg' = imgCache
    /\ EmptyCaches
    /\ reuse' = {k \in EventKeys : rowAge[k] < Frequency}
    /\ flushPc' = "img"
    /\ UNCHANGED <<server, midway, flushDue, inserts, monitoring, rowAge,
                   exists, received, written, lost, mishaps, purges>>

\* The counters are taken and dt_period_start is set: a row may be added to
\* if it was started after that
FlushTakes ==
    /\ server # "down"
    /\ flushPc = "session"
    /\ localSys' = sysCache
    /\ localImg' = imgCache
    /\ EmptyCaches
    /\ reuse' = {k \in EventKeys : rowAge[k] < Frequency}
    /\ flushPc' = "sys"
    /\ UNCHANGED <<server, midway, flushDue, inserts, monitoring, rowAge,
                   exists, received, written, lost, mishaps, purges>>

\* The age of a row that starts now: its from_time is caches_started
NewRowAge == IF age < Frequency THEN age ELSE Frequency

\* _flush_sys_stats_bucket and its commit
FlushWritesSystem ==
    /\ server # "down"
    /\ flushPc = "sys"
    /\ sysWritten' = Plus(sysWritten, localSys)
    /\ localSys' = Zero(EventKeys)
    /\ rowAge' = IF NoImage \in reuse
                 THEN rowAge
                 ELSE [rowAge EXCEPT ![NoImage] = NewRowAge]
    /\ flushPc' = "img"
    /\ UNCHANGED <<server, held, age, localImg, flushDue, reuse, inserts,
                   monitoring, exists, received, imgWritten, lost, mishaps,
                   purges>>

NewImages == {i \in Images \ reuse : localImg[i] > 0}

\* _flush_img_stats_bucket up to its commit: rows of this period are updated,
\* the other images are left for the insert
FlushUpdatesImages ==
    /\ server # "down"
    /\ flushPc = "img"
    /\ imgWritten' = Plus(imgWritten, Only(localImg, reuse))
    /\ localImg' = Only(localImg, NewImages)
    /\ IF NewImages = {}
       THEN FlushEnds
       ELSE /\ inserts' = NewImages
            /\ flushPc' = "insert"
            /\ UNCHANGED <<flushDue, reuse>>
    /\ UNCHANGED <<server, held, age, localSys, monitoring, rowAge, exists,
                   received, sysWritten, lost, mishaps, purges>>

\* The insert of every new row and its commit
InsertRows ==
    /\ imgWritten' = Plus(imgWritten, localImg)
    /\ localImg' = Zero(Images)
    /\ rowAge' = [k \in EventKeys |-> IF k \in inserts THEN NewRowAge ELSE rowAge[k]]
    /\ FlushEnds
    /\ UNCHANGED lost

\* What was taken and not written is gone when _flush ends with an exception
DropTaken ==
    /\ sysLost' = Plus(sysLost, localSys)
    /\ imgLost' = Plus(imgLost, localImg)
    /\ localSys' = Zero(EventKeys)
    /\ localImg' = Zero(Images)

\* Mutant: a failed insert is given up with all of its images
InsertOrGiveUp ==
    /\ server # "down"
    /\ flushPc = "insert"
    /\ \/ /\ inserts \subseteq exists
          /\ InsertRows
          /\ UNCHANGED localSys
       \/ /\ ~ (inserts \subseteq exists)
          /\ DropTaken
          /\ FlushEnds
          /\ UNCHANGED <<imgWritten, rowAge>>
    /\ UNCHANGED <<server, held, age, monitoring, exists, received, sysWritten,
                   mishaps, purges>>

\* The insert succeeds, or an image has gone: IntegrityError and roll-back
FlushInserts ==
    /\ server # "down"
    /\ flushPc = "insert"
    /\ \/ /\ inserts \subseteq exists
          /\ InsertRows
       \/ /\ ~ (inserts \subseteq exists)
          /\ flushPc' = "fix"
          /\ UNCHANGED <<localImg, imgWritten, rowAge, lost, flushDue, reuse,
                         inserts>>
    /\ UNCHANGED <<server, held, age, localSys, monitoring, exists, received,
                   sysWritten, mishaps, purges>>

GoneImages == inserts \ exists
KeptImages == inserts \cap exists

\* _fix_insert_list: images that no longer exist are taken off the list.  The
\* tasks it posts for them are left out
FlushFixesInserts ==
    /\ server # "down"
    /\ flushPc = "fix"
    /\ imgLost' = Plus(imgLost, Only(localImg, GoneImages))
    /\ localImg' = Only(localImg, KeptImages)
    /\ IF KeptImages = {}
       THEN FlushEnds
       ELSE /\ inserts' = KeptImages
            /\ flushPc' = "retry"
            /\ UNCHANGED <<flushDue, reuse>>
    /\ UNCHANGED <<server, held, age, localSys, monitoring, rowAge, exists,
                   received, written, sysLost, mishaps, purges>>

\* The second insert: nothing catches another IntegrityError
FlushRetries ==
    /\ server # "down"
    /\ flushPc = "retry"
    /\ \/ /\ inserts \subseteq exists
          /\ InsertRows
          /\ UNCHANGED localSys
       \/ /\ ~ (inserts \subseteq exists)
          /\ DropTaken
          /\ FlushEnds
          /\ UNCHANGED <<imgWritten, rowAge>>
    /\ UNCHANGED <<server, held, age, monitoring, exists, received, sysWritten,
                   mishaps, purges>>

\* Any other error of the database ends the flush
FlushFails ==
    /\ server # "down"
    /\ flushPc \in {"sys", "img", "insert", "fix", "retry"}
    /\ Fault
    /\ DropTaken
    /\ FlushEnds
    /\ UNCHANGED <<server, held, age, monitoring, rowAge, exists, received,
                   written, purges>>

-----------------------------------------------------------------------------
(* The surroundings: time, deleted images, the end and start of the server *)

\* The threads may be slow, but the monitor does run when its sleep is over
Tick ==
    /\ server = "running"
    /\ monitorPc = "sleep" /\ monitorDue > 0
    /\ age' = age + 1
    /\ monitorDue' = monitorDue - 1
    /\ flushDue' = IF flushDue > 0 THEN flushDue - 1 ELSE 0
    /\ rowAge' = [k \in EventKeys |->
                    IF rowAge[k] < Frequency THEN rowAge[k] + 1 ELSE rowAge[k]]
    /\ UNCHANGED <<server, held, taken, flushPc, reuse, inserts, monitorPc,
                   exists, received, written, lost, mishaps, purges>>

\* delete_image(purge=True) removes the image with its rows of statistics
PurgeImage(i) ==
    /\ purges < MaxPurges
    /\ purges' = purges + 1
    /\ i \in exists
    /\ exists' = exists \ {i}
    /\ rowAge' = [rowAge EXCEPT ![i] = Frequency]
    /\ reuse' = reuse \ {i}
    /\ UNCHANGED <<server, held, age, taken, flushPc, flushDue, inserts,
                   monitoring, received, written, lost, mishaps>>

\* SIGTERM: no flush is started after it, one that runs may finish
Shutdown ==
    /\ server = "running"
    /\ Fault
    /\ server' = "stopping"
    /\ UNCHANGED <<held, age, taken, flushing, monitoring, rowAge, exists,
                   received, written, lost, purges>>

\* The memory of the process goes when its threads have ended, or at a kill
ProcessEnds ==
    /\ \/ server = "stopping" /\ flushPc = "sleep" /\ UNCHANGED mishaps
       \/ server # "down" /\ Fault
    /\ server' = "down"
    /\ sysLost' = [k \in EventKeys |-> sysLost[k] + localSys[k] + sysCache[k]]
    /\ imgLost' = [i \in Images |->
                     imgLost[i] + localImg[i] + imgCache[i] + midway[i]]
    /\ EmptyCaches
    /\ midway' = Zero(Images)
    /\ localSys' = Zero(EventKeys)
    /\ localImg' = Zero(Images)
    /\ FlushEnds
    /\ monitorPc' = "sleep"
    /\ monitorDue' = Minute
    /\ UNCHANGED <<rowAge, exists, received, written, purges>>

\* A new process; how long the server was away is not counted
StartStatsServer ==
    /\ server = "down"
    /\ server' = "running"
    /\ UNCHANGED <<held, age, taken, flushing, monitoring, rowAge, exists,
                   received, written, lost, mishaps, purges>>

HandlerStep == (\E k \in EventKeys : CountForSystem(k))
            \/ (\E i \in Images : CountForImage(i))
MonitorStep == MonitorWakes \/ MonitorDiscards
FlushStep ==
    \/ FlushWakes \/ FlushHasNoSession \/ FlushTakes \/ FlushWritesSystem
    \/ FlushUpdatesImages \/ FlushInserts \/ FlushFixesInserts
    \/ FlushRetries \/ FlushFails
Surroundings ==
    \/ ClearSignal \/ Tick \/ Shutdown \/ ProcessEnds \/ StartStatsServer
    \/ \E i \in Images : PurgeImage(i)

StatsNext == HandlerStep \/ MonitorStep \/ FlushStep \/ Surroundings

StatsSpec == StatsInit /\ [][StatsNext]_statsVars

-----------------------------------------------------------------------------
(* Each event is accounted for once, in both sets of counters: it is held, *)
(* taken by the flush, written, or lost.  A second write of an event after *)
(* a failed insert, or counters that a reset forgets, would break it.      *)
CountedOnce ==
    /\ \A k \in EventKeys :
          received[k] = sysCache[k] + localSys[k] + sysWritten[k] + sysLost[k]
    /\ \A i \in Images :
          received[i] = midway[i] + imgCache[i] + localImg[i]
                        + imgWritten[i] + imgLost[i]

(* The rows of an image never show more requests than the system received  *)
(* in the rows that were written, or lost, before: the two sets are taken  *)
(* together and the system's is counted and written first.                 *)
ImageNotAheadOfSystem ==
    \A i \in Images : imgWritten[i] <= sysWritten[i] + sysLost[i]

(* However long the flush thread hangs or the database is away, a flush    *)
(* never takes counters older than a period and the monitor's sleep, so it *)
(* cannot show as a false spike (comment of flush_monitor_thread).         *)
NoFalseSpike ==
    server = "running" => age < Frequency + Minute

(* Without a database error, a discard or a stop, nothing is lost of the   *)
(* system, nor of an image that still exists, by the deletion of another   *)
(* image in the middle of a flush (_fix_insert_list).                      *)
LossNeedsACause ==
    mishaps = 0 /\ purges <= 1 =>
        /\ \A k \in EventKeys : sysLost[k] = 0
        /\ \A i \in exists : imgLost[i] = 0
=============================================================================
