---------------------------- MODULE WorkerProofs -----------------------------
(***************************************************************************)
(* Proofs about the workers: the continues of Stall, the timers and the    *)
(* held workers of Schedules, and the calls of Workers that spawn and      *)
(* close one.  The three models share no variable.                         *)
(***************************************************************************)
EXTENDS Stall, Schedules, Workers, TLAPS

(***************************************************************************)
(* The continues, for every grace, any number of ends of the chat and      *)
(* failed stamps, and any order of the files' writers.                     *)
(***************************************************************************)

Times == 0..MaxTime
Records == [at : Times, alerted : BOOLEAN] \cup {NoRecord}
Ticks == [does : {"rest", "nudge", "stamp", "remove"}]
         \cup [does : {"remove", "continue", "alert"}, found : Records]
         \cup [does : {"record"}, at : Times]

\* Every time of a file is in the past; an alert marks the record that is there.
StallTypes ==
  /\ clock \in Times /\ sentAt \in Times \cup {Absent} /\ reportAt \in Times \cup {Absent}
  /\ sentAt # Absent => sentAt <= clock
  /\ record \in Records /\ tick \in Ticks
  /\ tick.does = "record" => tick.at <= clock
  /\ continues \in Nat /\ unstamped \in Nat
  /\ tick.does = "alert" => tick.found = record /\ record # NoRecord

\* The files say that a continue is due, or will be once the record is gone.
MayContinue == ~ HasReported /\ (record = NoRecord \/ GoAheadSince)

\* Each message that went out is stamped or counted as unstamped, so that the
\* files ask for another one only when there are as many unstamped ones.
Accounted ==
  /\ tick.does # "stamp" /\ MayContinue => continues <= unstamped
  /\ tick.does \in {"record", "nudge"} => continues <= unstamped
  /\ tick.does = "remove" => HasReported \/ continues <= unstamped
  /\ continues <= 1 + unstamped

IInv == StallTypes /\ Accounted

\* A record of a time of the clock.
LEMMA RecordsAreTyped == \A at \in Times : RecordOf(at) \in Records
<1> SUFFICES ASSUME NEW at \in Times PROVE RecordOf(at) \in [at : Times, alerted : BOOLEAN]
  BY DEF Records
<1> QED
  BY DEF RecordOf

\* A go-ahead leaves nothing to account for.
LEMMA NoneIsCounted == \A n \in Nat : 0 <= n /\ 0 <= 1 + n
  OBVIOUS

\* At the start no message has gone out.
LEMMA InitCounts == StallInit => IInv
<1> USE StallAssumption
<1> SUFFICES ASSUME StallInit PROVE IInv
  OBVIOUS
<1>1. StallTypes
  BY DEF StallInit, StallTypes, Times, Records, Ticks, Absent, NoRecord, Resting
<1>2. Accounted
  BY DEF StallInit, Accounted, Resting
<1> QED
  BY <1>1, <1>2 DEF IInv

\* The tick looks, confirms or removes a record: nothing is sent.
LEMMA LookCounts ==
  ASSUME IInv, StallLook \/ StallConfirm \/ RemoveRecord
  PROVE  IInv'
<1> USE StallAssumption DEF IInv
<1>1. CASE StallLook
  <2>1. StallAction = "remove" => HasReported \/ GoAheadSince
    BY DEF StallAction
  <2>2. StallAction = "alert" => record # NoRecord
    BY DEF StallAction
  <2>3. StallAction \in {"remove", "continue", "alert", "rest"}
    BY DEF StallAction
  <2>4. tick' \in [does : {"remove", "continue", "alert"}, found : Records]
    BY <1>1, <2>3 DEF StallLook, StallTypes
  <2>5. StallTypes'
    BY <1>1, <2>2, <2>4 DEF StallLook, StallTypes, Ticks, files
  <2>6. UNCHANGED <<HasReported, GoAheadSince, MayContinue, continues, unstamped>>
    BY <1>1 DEF StallLook, HasReported, GoAheadSince, MayContinue, files
  <2>7. HasReported \/ (GoAheadSince /\ ~ HasReported)
          => HasReported \/ MayContinue
    BY DEF MayContinue
  <2>8. Accounted'
    BY <1>1, <2>1, <2>4, <2>6, <2>7 DEF StallLook, Accounted, Resting
  <2> QED
    BY <2>5, <2>8
<1>2. CASE StallConfirm
  <2>1. StallAction = "continue" => record = NoRecord /\ ~ HasReported
    BY DEF StallAction
  <2>2. StallTypes'
    <3>1. tick' = Resting \/ tick' = [does |-> "record", at |-> clock]
      BY <1>2 DEF StallConfirm
    <3>2. tick' \in Ticks /\ tick'.does # "alert" /\ (tick'.does = "record" => tick'.at = clock)
      BY <3>1 DEF Ticks, Resting, StallTypes
    <3> QED
      BY <1>2, <3>2 DEF StallConfirm, StallTypes, files, Times
  <2>3. UNCHANGED <<HasReported, GoAheadSince, MayContinue, continues, unstamped>>
    BY <1>2 DEF StallConfirm, HasReported, GoAheadSince, MayContinue, files
  <2>4. tick'.does = "rest" \/ (tick'.does = "record" /\ MayContinue)
    BY <1>2, <2>1 DEF StallConfirm, Resting, MayContinue
  <2>5. Accounted'
    BY <1>2, <2>3, <2>4 DEF StallConfirm, Accounted
  <2> QED
    BY <2>2, <2>5
<1>3. CASE RemoveRecord
  <2>1. StallTypes'
    BY <1>3 DEF RemoveRecord, StallTypes, Ticks, Records, Resting
  <2>2. UNCHANGED HasReported
    BY <1>3 DEF RemoveRecord, HasReported
  <2>3. Accounted'
    BY <1>3, <2>2 DEF RemoveRecord, Accounted, Resting, MayContinue
  <2> QED
    BY <2>1, <2>3
<1> QED
  BY <1>1, <1>2, <1>3

\* The record comes before the message and is stamped after it.
LEMMA SendCounts ==
  ASSUME IInv, RecordContinue \/ SendContinue \/ StampRecord \/ AlertStalled
  PROVE  IInv'
<1> USE StallAssumption DEF IInv
<1>1. CASE RecordContinue
  <2>1. StallTypes'
    <3>1. tick' \in Ticks /\ tick'.does \in {"rest", "nudge"}
      BY <1>1 DEF RecordContinue, Ticks, Resting
    <3>2. tick.at \in Times
      BY <1>1 DEF RecordContinue, StallTypes, Ticks
    <3>3. record' \in Records
      BY <1>1, <3>2, RecordsAreTyped DEF RecordContinue, StallTypes
    <3> QED
      BY <1>1, <3>1, <3>3 DEF RecordContinue, StallTypes
  <2>2. UNCHANGED <<continues, unstamped>> /\ tick'.does \in {"rest", "nudge"}
        /\ continues <= unstamped
    BY <1>1 DEF RecordContinue, Resting, Accounted
  <2> QED
    BY <2>1, <2>2 DEF Accounted
<1>2. CASE SendContinue
  <2>1. StallTypes'
    <3>1. tick' \in Ticks /\ tick'.does \in {"stamp", "remove"}
      BY <1>2 DEF SendContinue, Ticks
    <3> QED
      BY <1>2, <3>1 DEF SendContinue, StallTypes, Times
  <2>2. continues <= unstamped
    BY <1>2 DEF SendContinue, Accounted
  <2>3. /\ UNCHANGED unstamped
        /\ \/ tick'.does = "stamp" /\ continues' = continues + 1
           \/ tick'.does = "remove" /\ continues' = continues
    BY <1>2 DEF SendContinue
  <2>4. Accounted'
    BY <1>2, <2>2, <2>3 DEF SendContinue, Accounted, StallTypes
  <2> QED
    BY <2>1, <2>4
<1>3. CASE StampRecord
  <2>1. StallTypes'
    <3>1. tick' \in Ticks /\ tick'.does = "rest"
      BY <1>3 DEF StampRecord, Ticks, Resting
    <3>2. record' \in Records
      BY <1>3, RecordsAreTyped DEF StampRecord, StallTypes
    <3> QED
      BY <1>3, <3>1, <3>2 DEF StampRecord, StallTypes
  <2>2. CASE record' = RecordOf(clock) /\ UNCHANGED unstamped
    <3>1. clock # Absent /\ record' # NoRecord
      BY <2>2 DEF RecordOf, NoRecord, StallTypes, Times, Absent
    <3>2. ~ GoAheadSince'
      BY <1>3, <2>2 DEF StampRecord, GoAheadSince, RecordOf, StallTypes, Times
    <3> QED
      BY <1>3, <2>1, <2>2, <3>1, <3>2 DEF StampRecord, Accounted, MayContinue, Resting
  <2>3. CASE unstamped' = unstamped + 1
    BY <1>3, <2>1, <2>3 DEF StampRecord, Accounted, Resting, StallTypes
  <2> QED
    BY <1>3, <2>2, <2>3 DEF StampRecord
<1>4. CASE AlertStalled
  <2>1. /\ record \in [at : Times, alerted : BOOLEAN] /\ record # NoRecord
        /\ record' = [record EXCEPT !.alerted = TRUE] \/ record' = record
    BY <1>4 DEF AlertStalled, StallTypes, Records
  <2>2. record' \in [at : Times, alerted : BOOLEAN] /\ record'.at = record.at /\ record' # NoRecord
    <3>1. CASE record' = record
      BY <2>1, <3>1
    <3>2. CASE record' = [record EXCEPT !.alerted = TRUE]
      BY <2>1, <3>2 DEF NoRecord
    <3> QED
      BY <2>1, <3>1, <3>2
  <2>3. StallTypes'
    BY <1>4, <2>2 DEF AlertStalled, StallTypes, Ticks, Records, Resting
  <2>4. MayContinue' => MayContinue
    BY <1>4, <2>2 DEF AlertStalled, MayContinue, GoAheadSince, HasReported, StallTypes
  <2> QED
    BY <1>4, <2>3, <2>4 DEF AlertStalled, Accounted, Resting
<1> QED
  BY <1>1, <1>2, <1>3, <1>4

\* A go-ahead and a report start the count anew; the worker, the clock and
\* the end of the chat touch no file.
LEMMA AroundCounts ==
  ASSUME IInv, NEW tool \in BOOLEAN, NEW is \in {"busy", "idle", "failed"},
         \/ GoAhead \/ WorkerReports(tool) \/ WorkerActs(is) \/ Second \/ ChatRestarts
         \/ UNCHANGED stallVars
  PROVE  IInv'
<1> USE StallAssumption DEF IInv
<1>1. CASE GoAhead \/ WorkerReports(tool)
  <2>1. StallTypes'
    BY <1>1 DEF GoAhead, WorkerReports, StallTypes, Times
  <2> QED
    <3>1. continues' = 0
      BY <1>1 DEF GoAhead, WorkerReports
    <3>2. unstamped' \in Nat
      BY <2>1 DEF StallTypes
    <3>3. 0 <= unstamped' /\ 0 <= 1 + unstamped'
      BY <3>2, NoneIsCounted
    <3> QED
      BY <2>1, <3>1, <3>3 DEF Accounted
<1>2. CASE WorkerActs(is) \/ Second \/ UNCHANGED stallVars
  <2>1. StallTypes'
    <3>1. UNCHANGED <<sentAt, reportAt, record, tick, continues, unstamped>>
      BY <1>2 DEF WorkerActs, Second, files, stallVars
    <3>2. clock' \in Times /\ clock <= clock'
      BY <1>2 DEF WorkerActs, Second, stallVars, StallTypes, Times
    <3>3. tick.does = "record" => tick.at \in Times
      BY DEF StallTypes, Ticks
    <3> QED
      BY <3>1, <3>2, <3>3 DEF StallTypes, Times, Absent
  <2>2. UNCHANGED <<HasReported, MayContinue, tick, continues, unstamped>>
    BY <1>2 DEF WorkerActs, Second, HasReported, MayContinue, GoAheadSince, files, stallVars
  <2> QED
    BY <2>1, <2>2 DEF Accounted
<1>3. CASE ChatRestarts
  <2>1. StallTypes'
    BY <1>3 DEF ChatRestarts, StallTypes, Ticks, files, Resting
  <2>2. UNCHANGED <<HasReported, MayContinue, continues>>
    BY <1>3 DEF ChatRestarts, HasReported, MayContinue, GoAheadSince, files
  <2>3. IF tick.does = "stamp" THEN unstamped' = unstamped + 1 ELSE unstamped' = unstamped
    BY <1>3 DEF ChatRestarts
  <2> QED
    BY <1>3, <2>1, <2>2, <2>3 DEF ChatRestarts, Accounted, Resting, StallTypes
<1> QED
  BY <1>1, <1>2, <1>3

\* A second continue for one go-ahead goes out only after a message whose
\* record was not stamped, for every grace and every order of the writers.
THEOREM ContinuesAreStamped == StallSpec => []ContinuedOncePerStamp
<1>1. IInv /\ [StallNext]_stallVars => IInv'
  BY LookCounts, SendCounts, AroundCounts DEF StallNext
<1>2. IInv => ContinuedOncePerStamp
  BY DEF IInv, Accounted, ContinuedOncePerStamp
<1> QED
  BY InitCounts, <1>1, <1>2, PTL DEF StallSpec

(***************************************************************************)
(* The scheduled tasks.                                                    *)
(***************************************************************************)
Statuses == {"none", "proposed", "pending", "running"}
Tasks == {NoTask} \cup [v : Nat, status : Statuses \ {"none"}]
Whys == {"due", "done", "attention", "timed out", "vanished"}
Beats == [at : {"rest"}]
         \cup [at : {"list", "finish", "fire", "mark"}, id : {"cmd"}, task : Tasks]
         \cup [at : {"plan"}, id : {"cmd"}, task : Tasks, active : BOOLEAN]
         \cup [at : {"judge"}, id : {"wrk"}, task : Tasks, alive : BOOLEAN]
         \cup [at : {"start", "end", "remove"}, id : {"wrk"}, task : Tasks, why : Whys]
Starters == [v : Nat, at : {"check", "spawn", "spawned", "failed", "stop", "drop"}]
Cancels == [at : {"none"}] \cup [at : {"remove"}, id : Ids, was : Statuses \ {"none"}]
           \cup [at : {"stop"}, id : Ids]

SchedTypes ==
  /\ disk \in [Ids -> Tasks] /\ proposed \in [Ids -> Nat]
  /\ harness \in [v : Nat, left : BOOLEAN] /\ told \in {"none", "done", "attention"}
  /\ beat \in Beats /\ starters \subseteq Starters /\ cancelling \in Cancels
  /\ shutting \in BOOLEAN /\ watch \in Nat /\ adrift \in BOOLEAN

\* A worker that nobody left open for the person.
Loose == harness # NoHarness /\ ~ harness.left
Stopping(id) ==
  /\ cancelling.at # "none" /\ cancelling.id = id
  /\ cancelling.at = "remove" => cancelling.was = "running"
Ticking == beat.at # "rest" /\ beat.id = "wrk"

\* A record that waits for its start has no worker, and nobody starts one.
WaitsAlone == disk["wrk"].status \in {"proposed", "pending"} => starters = {} /\ ~ Loose
ProposedRests == disk["wrk"].status = "proposed" => ~ Ticking
\* So does one that was read and is about to be started.
StartsAlone ==
  Ticking /\ (beat.at = "start" \/ (beat.at = "judge" /\ beat.task.status = "pending")) =>
    starters = {} /\ ~ Loose /\ disk["wrk"].status # "running"
OneStarter == \A s, t \in starters : s = t
\* A thread that has not spawned has no worker to look after.
NotYetSpawned ==
  \A s \in starters : s.at \in {"check", "spawn", "failed", "drop"} => ~ Loose
CancelsWhatItRead ==
  cancelling.at = "remove" /\ cancelling.id = "wrk" /\ cancelling.was = "proposed" =>
    disk["wrk"].status = "proposed"
IsHeld == Loose => Armed("wrk") \/ starters # {} \/ Stopping("wrk")

WorkerInv ==
  /\ SchedTypes
  /\ ~ adrift => /\ WaitsAlone /\ ProposedRests /\ StartsAlone /\ OneStarter /\ NotYetSpawned
                 /\ CancelsWhatItRead /\ IsHeld

\* Versions only grow, and a record has the version of a proposal.
VersionsGrow ==
  /\ \A id \in Ids : disk[id].v <= proposed[id]
  /\ disk["cmd"].status # "none" => disk["cmd"].v # 0
  /\ beat.at # "rest" => beat.task.v <= proposed[beat.id]
  /\ beat.at # "rest" /\ beat.id = "cmd" => beat.task.v # 0

Reported(id, version) == <<id, version>> \in over

\* A command that was read as pending, or is being started, is not marked as
\* running by anybody else, and no cancel will stop its watch.
FiresAlone ==
  /\ beat.at \in {"fire", "mark"}
     \/ (beat.at \in {"list", "plan"} /\ beat.task.status = "pending") =>
       disk["cmd"].status # "running" /\ ~ Stopping("cmd")
  /\ beat.at \in {"fire", "mark"} => beat.task.status = "pending"
StopsItsOwn ==
  Stopping("cmd") =>
    disk["cmd"].status \in (IF cancelling.at = "stop" THEN {"none", "proposed"}
                            ELSE {"none", "proposed", "running"})
\* A command that runs has its watch, unless its end was reported or the chat
\* shuts down.
Runs(version) == watch = version \/ Reported("cmd", version) \/ shutting
RunsWatched ==
  /\ disk["cmd"].status = "running" => Runs(disk["cmd"].v)
  /\ beat.at = "mark" => Runs(beat.task.v)
\* What was read as running is still so, or was replaced.
ReadsRunning ==
  /\ beat.at \in {"list", "plan"} /\ beat.task.status = "running"
     /\ beat.task.v = disk["cmd"].v => disk["cmd"].status = "running"
  /\ beat.at = "plan" /\ beat.task.status = "running" /\ ~ beat.active
     /\ beat.task.v = disk["cmd"].v => Reported("cmd", disk["cmd"].v) \/ shutting
\* Only a task whose end was reported is removed.
RemovesReported ==
  /\ beat.at = "finish" /\ beat.task.v = disk["cmd"].v => Reported("cmd", beat.task.v)
  /\ beat.at = "remove" => Reported("wrk", beat.task.v)
  /\ \A s \in starters : s.at = "drop" => Reported("wrk", s.v)

CommandInv ==
  /\ SchedTypes /\ VersionsGrow /\ FiresAlone /\ StopsItsOwn /\ RunsWatched /\ ReadsRunning
  /\ RemovesReported

LEMMA SchedShapes ==
  ASSUME SchedTypes
  PROVE  /\ beat.at \in {"rest", "list", "plan", "finish", "fire", "mark", "judge", "start", "end", "remove"}
         /\ beat.at \in {"list", "plan", "finish", "fire", "mark"} => beat.id = "cmd"
         /\ beat.at \in {"judge", "start", "end", "remove"} => beat.id = "wrk"
         /\ beat.at # "rest" => beat.task \in Tasks /\ beat.task.v \in Nat /\ beat.id \in Ids
         /\ beat.at = "plan" => beat.active \in BOOLEAN
         /\ beat.at \in {"start", "end", "remove"} => beat.why \in Whys
         /\ cancelling.at \in {"none", "remove", "stop"}
         /\ cancelling.at # "none" => cancelling.id \in Ids
         /\ cancelling.at = "remove" => cancelling.was \in Statuses \ {"none"}
         /\ \A id \in Ids : disk[id].status \in Statuses /\ disk[id].v \in Nat
         /\ "wrk" \in Ids /\ "cmd" \in Ids
<1>1. /\ beat.at \in {"rest", "list", "plan", "finish", "fire", "mark", "judge", "start", "end", "remove"}
      /\ beat.at \in {"list", "plan", "finish", "fire", "mark"} => beat.id = "cmd"
      /\ beat.at \in {"judge", "start", "end", "remove"} => beat.id = "wrk"
      /\ beat.at # "rest" => beat.task \in Tasks
      /\ beat.at = "plan" => beat.active \in BOOLEAN
      /\ beat.at \in {"start", "end", "remove"} => beat.why \in Whys
  BY DEF SchedTypes, Beats
<1>2. /\ cancelling.at \in {"none", "remove", "stop"}
      /\ cancelling.at # "none" => cancelling.id \in Ids
      /\ cancelling.at = "remove" => cancelling.was \in Statuses \ {"none"}
  BY DEF SchedTypes, Cancels
<1>3. \A id \in Ids : disk[id].status \in Statuses /\ disk[id].v \in Nat
  BY DEF SchedTypes, Tasks, NoTask, Record, Statuses
<1> QED
  BY <1>1, <1>2, <1>3 DEF Tasks, Ids, NoTask, Record

\* A record that is put is a record, and the other one stays.
LEMMA PutIsTyped ==
  ASSUME SchedTypes, NEW id \in Ids, NEW new \in Tasks, Put(id, new)
  PROVE  /\ disk' \in [Ids -> Tasks] /\ disk'[id] = new
         /\ \A other \in Ids \ {id} : disk'[other] = disk[other]
  BY DEF SchedTypes, Put

LEMMA RecordIsTyped ==
  /\ NoTask \in Tasks /\ NoTask.v = 0 /\ NoTask.status = "none"
  /\ \A task \in Tasks : task # NoTask => task.status # "none"
  /\ \A v \in Nat, status \in Statuses \ {"none"} :
       Record(v, status) \in Tasks /\ Record(v, status).v = v /\ Record(v, status).status = status
  /\ Waiting \in Beats /\ Waiting.at = "rest" /\ NoCancel \in Cancels /\ NoCancel.at = "none"
  /\ NoHarness \in [v : Nat, left : BOOLEAN]
  BY DEF NoTask, Record, Tasks, Statuses, Waiting, Beats, NoCancel, Cancels, NoHarness

\* The person, the tool and the main loop.
LEMMA MainTypes ==
  ASSUME SchedTypes, NEW id \in Ids,
         \/ Propose(id) \/ Approve(id) \/ CancelLoad(id) \/ CancelRemove \/ CancelStop
         \/ CloseGuard \/ KillAll \/ NextChat
  PROVE  SchedTypes'
<1> USE SchedShapes, RecordIsTyped, PutIsTyped DEF SchedTypes
<1>1. CASE Propose(id)
  <2>1. proposed[id] + 1 \in Nat
    OBVIOUS
  <2>2. Record(proposed[id] + 1, "proposed") \in Tasks
    BY <2>1 DEF Statuses
  <2>3. disk' \in [Ids -> Tasks] /\ proposed' \in [Ids -> Nat]
    BY <1>1, <2>1, <2>2 DEF Propose
  <2>4. adrift' \in BOOLEAN
    BY <1>1 DEF Propose
  <2> QED
    BY <1>1, <2>3, <2>4 DEF Propose, runVars
<1>2. CASE Approve(id)
  <2>1. Record(disk[id].v, "pending") \in Tasks
    BY DEF Statuses
  <2>2. disk' \in [Ids -> Tasks]
    BY <1>2, <2>1 DEF Approve
  <2> QED
    BY <1>2, <2>2 DEF Approve, runVars, monitorVars, mainVars
<1>3. CASE CancelLoad(id)
  <2>1. disk[id].status \in Statuses \ {"none"}
    BY <1>3 DEF CancelLoad
  <2>2. cancelling' \in Cancels
    BY <1>3, <2>1 DEF CancelLoad, Cancels
  <2> QED
    BY <1>3, <2>2 DEF CancelLoad, runVars, monitorVars
<1>4. CASE CancelRemove
  <2>1. cancelling' \in Cancels
    BY <1>4 DEF CancelRemove, Cancels
  <2>2. disk' \in [Ids -> Tasks] /\ adrift' \in BOOLEAN
    BY <1>4 DEF CancelRemove
  <2> QED
    BY <1>4, <2>1, <2>2 DEF CancelRemove, runVars
<1>5. CASE CancelStop
  BY <1>5 DEF CancelStop, monitorVars
<1>6. CASE CloseGuard \/ KillAll
  <2>1. CASE CloseGuard
    BY <2>1 DEF CloseGuard, runVars, monitorVars
  <2>2. CASE KillAll
    BY <2>2 DEF KillAll, monitorVars, mainVars
  <2> QED
    BY <1>6, <2>1, <2>2
<1>7. CASE NextChat
  <2>1. \A i \in Ids : Restored(i) \in Tasks
    BY DEF Restored, Statuses
  <2>2. disk' \in [Ids -> Tasks] /\ adrift' \in BOOLEAN
    BY <1>7, <2>1 DEF NextChat
  <2> QED
    BY <1>7, <2>2 DEF NextChat
<1> QED
  BY <1>1, <1>2, <1>3, <1>4, <1>5, <1>6, <1>7

\* The monitor's tick.
LEMMA BeatTypes ==
  ASSUME SchedTypes,
         \/ CmdLoad \/ CmdList \/ CmdPlan \/ CmdFinish \/ CmdFire \/ CmdMark \/ WatchEnds
         \/ WrkLoad \/ WrkPlan \/ WrkEnd \/ WrkRemove \/ WrkStart
  PROVE  SchedTypes'
<1> USE SchedShapes, RecordIsTyped, PutIsTyped DEF SchedTypes, runVars, mainVars
<1>1. CASE CmdLoad
  <2>1. beat' \in Beats
    BY <1>1 DEF CmdLoad, Beats
  <2> QED
    BY <1>1, <2>1 DEF CmdLoad
<1>2. CASE CmdList
  <2>1. beat' \in Beats
    BY <1>2 DEF CmdList, Beats
  <2> QED
    BY <1>2, <2>1 DEF CmdList
<1>3. CASE CmdPlan
  <2>1. beat' \in Beats
    BY <1>3 DEF CmdPlan, CmdDecide, CmdStep, Beats
  <2> QED
    BY <1>3, <2>1 DEF CmdPlan
<1>4. CASE CmdFinish
  BY <1>4 DEF CmdFinish
<1>5. CASE CmdFire
  <2>1. beat' \in Beats
    BY <1>5 DEF CmdFire, CmdStep, Beats
  <2>2. watch' \in Nat
    BY <1>5 DEF CmdFire
  <2> QED
    BY <1>5, <2>1, <2>2 DEF CmdFire
<1>6. CASE CmdMark
  <2>1. Record(beat.task.v, "running") \in Tasks
    BY <1>6 DEF CmdMark, Statuses
  <2>2. disk' \in [Ids -> Tasks]
    BY <1>6, <2>1 DEF CmdMark
  <2> QED
    BY <1>6, <2>2 DEF CmdMark
<1>7. CASE WatchEnds
  BY <1>7 DEF WatchEnds
<1>8. CASE WrkLoad
  <2>1. beat' \in Beats
    BY <1>8 DEF WrkLoad, Beats
  <2> QED
    BY <1>8, <2>1 DEF WrkLoad
<1>9. CASE WrkPlan
  <2>1. beat' = Waiting \/ \E why \in Whys, to \in {"start", "end"} : WrkStep(to, why)
    BY <1>9 DEF WrkPlan, Whys
  <2>2. ASSUME NEW why \in Whys, NEW to \in {"start", "end"}, WrkStep(to, why) PROVE beat' \in Beats
    BY <1>9, <2>2 DEF WrkPlan, WrkStep, Beats
  <2>3. beat' \in Beats
    BY <2>1, <2>2
  <2> QED
    BY <1>9, <2>3 DEF WrkPlan
<1>10. CASE WrkEnd
  <2>1. beat' \in Beats
    BY <1>10 DEF WrkEnd, WrkStep, Beats
  <2>2. harness' \in [v : Nat, left : BOOLEAN]
    BY <1>10 DEF WrkEnd
  <2> QED
    BY <1>10, <2>1, <2>2 DEF WrkEnd
<1>11. CASE WrkRemove
  <2>1. harness' \in [v : Nat, left : BOOLEAN]
    BY <1>11 DEF WrkRemove
  <2>2. disk' \in [Ids -> Tasks] /\ adrift' \in BOOLEAN
    BY <1>11 DEF WrkRemove
  <2> QED
    BY <1>11, <2>1, <2>2 DEF WrkRemove
<1>12. CASE WrkStart
  <2>1. Record(beat.task.v, "running") \in Tasks
    BY <1>12 DEF WrkStart, Statuses
  <2>2. disk' \in [Ids -> Tasks]
    BY <1>12, <2>1 DEF WrkStart
  <2>3. starters' \subseteq Starters /\ told' \in {"none", "done", "attention"}
    BY <1>12 DEF WrkStart, Starters
  <2> QED
    BY <1>12, <2>2, <2>3 DEF WrkStart
<1> QED
  BY <1>1, <1>2, <1>3, <1>4, <1>5, <1>6, <1>7, <1>8, <1>9, <1>10, <1>11, <1>12

\* A thread that goes on is another thread, or gone.
LEMMA StarterMoves ==
  ASSUME SchedTypes, NEW s \in starters,
         NEW to \in {"check", "spawn", "spawned", "failed", "stop", "drop"},
         Forward(s, to) \/ Leave(s)
  PROVE  /\ starters' \subseteq Starters
         /\ \A t \in starters' : t \in starters \/ (Forward(s, to) /\ t = [s EXCEPT !.at = to])
         /\ [s EXCEPT !.at = to].at = to /\ [s EXCEPT !.at = to].v = s.v
<1>1. s \in Starters
  BY DEF SchedTypes
<1>2. [s EXCEPT !.at = to] \in Starters /\ [s EXCEPT !.at = to].at = to /\ [s EXCEPT !.at = to].v = s.v
  BY <1>1 DEF Starters
<1> QED
  BY <1>2 DEF Forward, Leave, SchedTypes

\* The thread that starts a worker, and the worker.
LEMMA StarterTypes ==
  ASSUME SchedTypes, NEW s, NEW what \in {"done", "attention"},
         \/ s \in starters /\ (StarterChecks(s) \/ StarterSpawns(s) \/ StarterLooks(s) \/ StarterStops(s)
                               \/ StarterDrops(s))
         \/ WorkerTells(what) \/ HarnessDies
  PROVE  SchedTypes'
<1> USE RecordIsTyped, PutIsTyped DEF SchedTypes, runVars, mainVars, monitorVars
<1>1. CASE s \in starters /\ StarterChecks(s)
  BY <1>1, StarterMoves DEF StarterChecks
<1>2. CASE s \in starters /\ StarterSpawns(s)
  <2>1. s.v \in Nat
    BY <1>2 DEF Starters
  <2>2. harness' \in [v : Nat, left : BOOLEAN]
    <3>1. harness' = harness \/ harness' = [v |-> s.v, left |-> FALSE]
      BY <1>2 DEF StarterSpawns
    <3>2. [v |-> s.v, left |-> FALSE] \in [v : Nat, left : BOOLEAN]
      BY ONLY <2>1
    <3> QED
      BY <3>1, <3>2
  <2>3. starters' \subseteq Starters
    BY <1>2, StarterMoves DEF StarterSpawns
  <2> QED
    BY <1>2, <2>2, <2>3 DEF StarterSpawns
<1>3. CASE s \in starters /\ StarterLooks(s)
  BY <1>3, StarterMoves DEF StarterLooks
<1>4. CASE s \in starters /\ StarterStops(s)
  BY <1>4, StarterMoves DEF StarterStops
<1>5. CASE s \in starters /\ StarterDrops(s)
  BY <1>5, StarterMoves DEF StarterDrops, Ids
<1>6. CASE WorkerTells(what) \/ HarnessDies
  BY <1>6 DEF WorkerTells, HarnessDies
<1> QED
  BY <1>1, <1>2, <1>3, <1>4, <1>5, <1>6

LEMMA SchedTypeStep == SchedTypes /\ [SchedNext]_schedVars => SchedTypes'
<1> SUFFICES ASSUME SchedTypes, [SchedNext]_schedVars PROVE SchedTypes'
  OBVIOUS
<1>1. CASE UNCHANGED schedVars
  BY <1>1 DEF SchedTypes, schedVars, runVars, monitorVars, mainVars
<1>2. CASE SchedNext
  BY <1>2, MainTypes, BeatTypes, StarterTypes DEF SchedNext, StarterNext, Ids
<1> QED
  BY <1>1, <1>2

\* A step that leaves the worker and its record, and does not begin a tick of it.
LEMMA WorkerKept ==
  ASSUME WorkerInv, SchedTypes', disk'["wrk"] = disk["wrk"], beat' = beat \/ ~ Ticking',
         UNCHANGED <<starters, harness, cancelling, adrift>>
  PROVE  WorkerInv'
<1>1. SUFFICES ASSUME ~ adrift
               PROVE  (WaitsAlone /\ ProposedRests /\ StartsAlone /\ OneStarter /\ NotYetSpawned
                       /\ CancelsWhatItRead /\ IsHeld)'
  BY DEF WorkerInv
<1>2. UNCHANGED <<Loose, Armed("wrk"), Stopping("wrk")>>
  BY DEF Loose, Armed, Stopping
<1>3. Ticking' => UNCHANGED <<beat, Ticking>>
  BY DEF Ticking
<1> QED
  BY <1>1, <1>2, <1>3 DEF WorkerInv, WaitsAlone, ProposedRests, StartsAlone, OneStarter,
       NotYetSpawned, CancelsWhatItRead, IsHeld

\* The person, the tool and the main loop.
LEMMA MainHolds ==
  ASSUME WorkerInv, SchedTypes', NEW id \in Ids,
         \/ Propose(id) \/ Approve(id) \/ CancelLoad(id) \/ CancelRemove \/ CancelStop
         \/ CloseGuard \/ KillAll \/ NextChat
  PROVE  WorkerInv'
<1> USE SchedShapes, RecordIsTyped, PutIsTyped
<1>0. SchedTypes
  BY DEF WorkerInv
<1>a. adrift => adrift'
  BY DEF Propose, Approve, CancelLoad, CancelRemove, CancelStop, CloseGuard, KillAll, NextChat, monitorVars
<1>1. SUFFICES ASSUME ~ adrift, ~ adrift'
               PROVE  (WaitsAlone /\ ProposedRests /\ StartsAlone /\ OneStarter /\ NotYetSpawned
                       /\ CancelsWhatItRead /\ IsHeld)'
  BY <1>a DEF WorkerInv
<1>2. WaitsAlone /\ ProposedRests /\ StartsAlone /\ OneStarter /\ NotYetSpawned
      /\ CancelsWhatItRead /\ IsHeld
  BY <1>1 DEF WorkerInv
<1>3. CASE Propose("wrk")
  <2>1. starters = {} /\ ~ Ticking /\ ~ (cancelling.at # "none" /\ cancelling.id = "wrk")
    BY <1>1, <1>3 DEF Propose, InFlight, Ticking
  <2>2. disk["wrk"].status = "none" /\ UNCHANGED <<beat, starters, harness, cancelling>>
    BY <1>3 DEF Propose, runVars
  <2>3. ~ Loose
    BY <1>2, <2>1, <2>2 DEF IsHeld, Armed, Stopping
  <2>4. (starters = {} /\ ~ Ticking /\ ~ Loose)'
    BY <2>1, <2>2, <2>3 DEF Ticking, Loose
  <2> QED
    BY <2>1, <2>2, <2>4 DEF WaitsAlone, ProposedRests, StartsAlone, OneStarter, NotYetSpawned,
         CancelsWhatItRead, IsHeld
<1>4. CASE Approve("wrk")
  <2>1. disk["wrk"].status = "proposed" /\ cancelling.at = "none"
        /\ UNCHANGED <<beat, starters, harness, cancelling>>
    BY <1>4 DEF Approve, runVars, monitorVars, mainVars
  <2>2. starters = {} /\ ~ Ticking /\ ~ Loose
    BY <1>2, <2>1 DEF WaitsAlone, ProposedRests
  <2>3. (starters = {} /\ ~ Ticking /\ ~ Loose)'
    BY <2>1, <2>2 DEF Ticking, Loose
  <2> QED
    BY <2>1, <2>3 DEF WaitsAlone, ProposedRests, StartsAlone, OneStarter, NotYetSpawned,
         CancelsWhatItRead, IsHeld
<1>5. CASE CancelLoad(id)
  <2>1. UNCHANGED <<disk, beat, starters, harness, Loose, Armed("wrk"), Ticking>> /\ cancelling.at = "none"
    BY <1>0, <1>5 DEF CancelLoad, runVars, monitorVars, Loose, Armed, Ticking
  <2>2. CancelsWhatItRead'
    BY <1>5 DEF CancelLoad, CancelsWhatItRead
  <2>3. IsHeld'
    BY <1>2, <2>1 DEF IsHeld, Stopping
  <2> QED
    BY <1>2, <2>1, <2>2, <2>3 DEF WaitsAlone, ProposedRests, StartsAlone, OneStarter, NotYetSpawned
<1>6. CASE CancelRemove /\ cancelling.id = "wrk"
  <2>1. UNCHANGED <<beat, starters, harness, Loose, Ticking>> /\ disk'["wrk"].status = "none"
    BY <1>0, <1>6 DEF CancelRemove, runVars, Loose, Ticking
  <2>2. ~ (cancelling.was = "pending" /\ disk["wrk"].status = "running")
    BY <1>1, <1>6 DEF CancelRemove
  <2>3. cancelling'.at # "remove"
    BY <1>6 DEF CancelRemove
  <2>4. CASE cancelling.was = "running"
    <3>1. Stopping("wrk")'
      BY <1>6, <2>4 DEF CancelRemove, Stopping
    <3> QED
      BY <1>2, <2>1, <2>3, <3>1 DEF WaitsAlone, ProposedRests, StartsAlone, OneStarter, NotYetSpawned,
         CancelsWhatItRead, IsHeld
  <2>5. CASE cancelling.was # "running"
    <3>1. disk["wrk"].status # "running" /\ ~ Stopping("wrk")
      BY <1>0, <1>2, <1>6, <2>2, <2>5 DEF CancelsWhatItRead, Stopping, CancelRemove, Statuses
    <3>2. Loose => starters # {}
      BY <1>0, <1>2, <3>1 DEF IsHeld, WaitsAlone, Armed
    <3> QED
      BY <1>2, <2>1, <2>3, <3>2 DEF WaitsAlone, ProposedRests, StartsAlone, OneStarter, NotYetSpawned,
         CancelsWhatItRead, IsHeld
  <2> QED
    BY <2>4, <2>5
<1>7. CASE CancelStop /\ cancelling.id = "wrk"
  <2>1. UNCHANGED <<disk, beat, starters, Ticking>> /\ ~ Loose' /\ cancelling'.at = "none"
    BY <1>7 DEF CancelStop, monitorVars, Loose, Ticking
  <2> QED
    BY <1>2, <2>1 DEF WaitsAlone, ProposedRests, StartsAlone, OneStarter, NotYetSpawned,
         CancelsWhatItRead, IsHeld
<1>8. CASE (CancelRemove \/ CancelStop) /\ cancelling.id # "wrk"
  <2>1. /\ UNCHANGED <<beat, starters, harness, Loose, Ticking>> /\ disk'["wrk"] = disk["wrk"]
        /\ cancelling'.at # "remove" /\ (cancelling'.at # "none" => cancelling'.id # "wrk")
    BY <1>0, <1>8 DEF CancelRemove, CancelStop, runVars, monitorVars, Loose, Ticking
  <2>2. IsHeld'
    BY <1>2, <1>8, <2>1 DEF IsHeld, Stopping, Armed
  <2> QED
    BY <1>2, <2>1, <2>2 DEF WaitsAlone, ProposedRests, StartsAlone, OneStarter, NotYetSpawned,
         CancelsWhatItRead
<1>9. CASE NextChat
  <2>1. starters' = {} /\ cancelling'.at = "none" /\ ~ Ticking' /\ harness' = harness /\ Loose' = Loose
    BY <1>9 DEF NextChat, Ticking, Loose
  <2>2. ~ InFlight
    BY <1>1, <1>9 DEF NextChat
  <2>3. Loose => disk["wrk"].status = "running"
    BY <1>2, <2>2 DEF IsHeld, Stopping, Armed, InFlight, WaitsAlone
  <2>4. disk'["wrk"] = Restored("wrk")
    BY <1>0, <1>9 DEF NextChat
  <2>5. Loose => disk'["wrk"].status = "running"
    BY <2>3, <2>4 DEF Restored, Loose
  <2>6. WaitsAlone' /\ IsHeld'
    BY <2>1, <2>5 DEF WaitsAlone, IsHeld, Armed
  <2> QED
    BY <2>1, <2>6 DEF ProposedRests, StartsAlone, OneStarter, NotYetSpawned, CancelsWhatItRead
<1>10. CASE (id = "cmd" /\ (Propose(id) \/ Approve(id))) \/ CloseGuard \/ KillAll
  <2>1. disk'["wrk"] = disk["wrk"] /\ UNCHANGED <<beat, starters, harness, cancelling, adrift>>
    BY <1>0, <1>10, <1>1 DEF Propose, Approve, CloseGuard, KillAll, runVars, monitorVars, mainVars, Put, SchedTypes
  <2>2. WorkerInv'
    BY <2>1, WorkerKept
  <2> QED
    BY <1>1, <2>2 DEF WorkerInv
<1> QED
  BY <1>3, <1>4, <1>5, <1>6, <1>7, <1>8, <1>9, <1>10 DEF Ids

\* The monitor's tick of the worker.
LEMMA BeatHolds ==
  ASSUME WorkerInv, SchedTypes', WrkLoad \/ WrkPlan \/ WrkEnd \/ WrkRemove \/ WrkStart
  PROVE  WorkerInv'
<1> USE SchedShapes, RecordIsTyped, PutIsTyped
<1>0. SchedTypes
  BY DEF WorkerInv
<1>a. adrift => adrift'
  BY DEF WrkLoad, WrkPlan, WrkEnd, WrkRemove, WrkStart
<1>1. SUFFICES ASSUME ~ adrift, ~ adrift'
               PROVE  (WaitsAlone /\ ProposedRests /\ StartsAlone /\ OneStarter /\ NotYetSpawned
                       /\ CancelsWhatItRead /\ IsHeld)'
  BY <1>a DEF WorkerInv
<1>2. WaitsAlone /\ ProposedRests /\ StartsAlone /\ OneStarter /\ NotYetSpawned
      /\ CancelsWhatItRead /\ IsHeld
  BY <1>1 DEF WorkerInv
<1>3. UNCHANGED cancelling
  BY DEF WrkLoad, WrkPlan, WrkEnd, WrkRemove, WrkStart, mainVars
<1>4. CASE WrkLoad
  <2>1. UNCHANGED <<disk, starters, harness, Loose, Armed("wrk"), Stopping("wrk")>>
    BY <1>3, <1>4 DEF WrkLoad, runVars, Loose, Armed, Stopping
  <2>2. disk["wrk"].status \in {"pending", "running"} /\ beat'.task = disk["wrk"] /\ beat'.at = "judge"
    BY <1>4 DEF WrkLoad
  <2> QED
    BY <1>2, <1>3, <2>1, <2>2 DEF WaitsAlone, ProposedRests, StartsAlone, OneStarter, NotYetSpawned,
         CancelsWhatItRead, IsHeld
<1>5. CASE WrkPlan
  <2>1. UNCHANGED <<disk, starters, harness, Loose, Armed("wrk"), Stopping("wrk")>>
    BY <1>3, <1>5 DEF WrkPlan, runVars, Loose, Armed, Stopping
  <2>2. Ticking /\ beat.at = "judge"
    BY <1>0, <1>5 DEF WrkPlan, Ticking
  <2>3. /\ beat'.at \in {"rest", "start", "end"}
        /\ beat'.at = "start" => beat.task.status = "pending"
    <3>1. \/ beat' = Waiting
          \/ beat.task.status = "pending" /\ WrkStep("start", "due")
          \/ \E why : WrkStep("end", why)
      BY <1>5 DEF WrkPlan
    <3> QED
      BY <3>1 DEF WrkStep
  <2> QED
    BY <1>2, <1>3, <2>1, <2>2, <2>3 DEF WaitsAlone, ProposedRests, StartsAlone, OneStarter,
         NotYetSpawned, CancelsWhatItRead, IsHeld
<1>6. CASE WrkEnd
  <2>1. UNCHANGED <<disk, starters, Armed("wrk"), Stopping("wrk")>> /\ (Loose' => Loose)
    BY <1>3, <1>6 DEF WrkEnd, Loose, Armed, Stopping
  <2>2. Ticking /\ beat'.at = "remove"
    BY <1>0, <1>6 DEF WrkEnd, WrkStep, Ticking
  <2> QED
    BY <1>2, <1>3, <2>1, <2>2 DEF WaitsAlone, ProposedRests, StartsAlone, OneStarter,
         NotYetSpawned, CancelsWhatItRead, IsHeld
<1>7. CASE WrkRemove
  <2>1. ~ Loose'
    <3>1. CASE harness = NoHarness
      BY <1>7, <3>1 DEF WrkRemove, Loose
    <3>2. CASE harness # NoHarness
      <4>1. beat.why = "attention" /\ harness' = [harness EXCEPT !.left = TRUE]
        BY <1>1, <1>7, <3>2 DEF WrkRemove
      <4> QED
        BY <1>0, <4>1 DEF Loose, SchedTypes
    <3> QED
      BY <3>1, <3>2
  <2>2. UNCHANGED starters /\ ~ Ticking' /\ disk'["wrk"].status = "none" /\ Ticking
    BY <1>0, <1>7 DEF WrkRemove, Ticking
  <2> QED
    BY <1>2, <1>3, <2>1, <2>2 DEF WaitsAlone, ProposedRests, StartsAlone, OneStarter,
         NotYetSpawned, CancelsWhatItRead, IsHeld
<1>8. CASE WrkStart
  <2>1. Ticking /\ beat.at = "start" /\ starters = {} /\ ~ Loose /\ disk["wrk"].status \notin {"proposed", "running"}
    BY <1>0, <1>2, <1>8 DEF WrkStart, Ticking, StartsAlone, ProposedRests
  <2>2. ~ Ticking' /\ ~ Loose' /\ UNCHANGED harness
    BY <1>8, <2>1 DEF WrkStart, Ticking, Loose
  <2>3. CASE UNCHANGED <<disk, starters>>
    BY <1>2, <1>3, <2>1, <2>2, <2>3 DEF WaitsAlone, ProposedRests, StartsAlone, OneStarter,
         NotYetSpawned, CancelsWhatItRead, IsHeld
  <2>4. CASE Put("wrk", Record(beat.task.v, "running"))
             /\ starters' = starters \cup {[v |-> beat.task.v, at |-> "check"]}
    <3>1. disk'["wrk"].status = "running"
      BY <1>0, <2>1, <2>4 DEF Statuses
    <3>2. OneStarter' /\ NotYetSpawned'
      BY <2>1, <2>2, <2>4 DEF OneStarter, NotYetSpawned
    <3> QED
      BY <1>2, <1>3, <2>1, <2>2, <3>1, <3>2 DEF WaitsAlone, ProposedRests, StartsAlone,
         CancelsWhatItRead, IsHeld, Armed
  <2> QED
    BY <1>8, <2>3, <2>4 DEF WrkStart
<1> QED
  BY <1>4, <1>5, <1>6, <1>7, <1>8

\* The thread that starts the worker, and the worker.
LEMMA StarterHolds ==
  ASSUME WorkerInv, SchedTypes', NEW s, NEW what,
         \/ s \in starters /\ (StarterChecks(s) \/ StarterSpawns(s) \/ StarterLooks(s) \/ StarterStops(s)
                               \/ StarterDrops(s))
         \/ WorkerTells(what) \/ HarnessDies
  PROVE  WorkerInv'
<1> USE SchedShapes, RecordIsTyped, PutIsTyped
<1>0. SchedTypes
  BY DEF WorkerInv
<1>a. adrift' = adrift /\ UNCHANGED <<beat, cancelling, Ticking, Stopping("wrk")>>
  BY DEF StarterChecks, StarterSpawns, StarterLooks, StarterStops, StarterDrops, WorkerTells, HarnessDies,
         mainVars, monitorVars, Ticking, Stopping
<1>1. SUFFICES ASSUME ~ adrift
               PROVE  (WaitsAlone /\ ProposedRests /\ StartsAlone /\ OneStarter /\ NotYetSpawned
                       /\ CancelsWhatItRead /\ IsHeld)'
  BY <1>0, <1>a DEF WorkerInv
<1>2. WaitsAlone /\ ProposedRests /\ StartsAlone /\ OneStarter /\ NotYetSpawned
      /\ CancelsWhatItRead /\ IsHeld
  BY <1>1 DEF WorkerInv
<1>3. CASE WorkerTells(what) \/ HarnessDies
  <2>1. UNCHANGED <<disk, starters, Armed("wrk")>> /\ (Loose' => Loose)
    BY <1>3 DEF WorkerTells, HarnessDies, Loose, Armed, monitorVars
  <2> QED
    BY <1>2, <1>a, <2>1 DEF WaitsAlone, ProposedRests, StartsAlone, OneStarter, NotYetSpawned,
         CancelsWhatItRead, IsHeld
<1>4. ASSUME s \in starters, ~ StarterDrops(s),
             StarterChecks(s) \/ StarterSpawns(s) \/ StarterLooks(s) \/ StarterStops(s)
      PROVE  (WaitsAlone /\ ProposedRests /\ StartsAlone /\ OneStarter /\ NotYetSpawned
              /\ CancelsWhatItRead /\ IsHeld)'
  <2>1. starters = {s} /\ disk["wrk"].status \notin {"proposed", "pending"}
    BY <1>2, <1>4 DEF OneStarter, WaitsAlone
  <2>2. disk' = disk /\ UNCHANGED Armed("wrk")
    BY <1>4 DEF StarterChecks, StarterSpawns, StarterLooks, StarterStops, runVars, Armed
  <2>3. \A to : [s EXCEPT !.at = to].at = to
    BY <1>0, <1>4 DEF SchedTypes, Starters
  <2>4. \/ starters' = {} /\ (Loose' => Armed("wrk"))
        \/ \E to : starters' = {[s EXCEPT !.at = to]}
                   /\ (to \in {"check", "spawn", "failed", "drop"} => ~ Loose')
    <3>1. CASE StarterChecks(s)
      <4>1. ~ Loose /\ harness' = harness
        BY <1>2, <1>4, <3>1 DEF StarterChecks, NotYetSpawned, runVars
      <4> QED
        BY <2>1, <3>1, <4>1 DEF StarterChecks, Forward, Leave, Loose
    <3>2. CASE StarterSpawns(s)
      <4>1. ~ Loose
        BY <1>2, <1>4, <3>2 DEF StarterSpawns, NotYetSpawned
      <4> QED
        BY <2>1, <3>2, <4>1 DEF StarterSpawns, Forward, Leave, Loose
    <3>3. CASE StarterLooks(s)
      <4>1. harness' = harness /\ (s.at = "failed" => ~ Loose)
        BY <1>2, <1>4, <3>3 DEF StarterLooks, NotYetSpawned, runVars
      <4>2. Loose' = Loose
        BY <4>1 DEF Loose
      <4>3. \/ s.at = "spawned" /\ Forward(s, "stop")
            \/ s.at = "failed" /\ Forward(s, "drop")
            \/ (StillRunning \/ s.at = "failed") /\ Leave(s)
        BY <3>3 DEF StarterLooks
      <4>4. CASE s.at = "spawned" /\ Forward(s, "stop")
        BY <2>1, <4>4 DEF Forward
      <4>5. CASE s.at = "failed" /\ Forward(s, "drop")
        BY <2>1, <4>1, <4>2, <4>5 DEF Forward
      <4>6. CASE (StillRunning \/ s.at = "failed") /\ Leave(s)
        BY <2>1, <4>1, <4>2, <4>6 DEF Leave, StillRunning, Armed
      <4> QED
        BY <4>3, <4>4, <4>5, <4>6
    <3>4. CASE StarterStops(s)
      BY <2>1, <3>4 DEF StarterStops, Leave, Loose
    <3> QED
      BY <1>4, <3>1, <3>2, <3>3, <3>4
  <2>5. OneStarter' /\ NotYetSpawned' /\ IsHeld'
    <3>1. CASE starters' = {} /\ (Loose' => Armed("wrk"))
      BY <2>2, <3>1 DEF OneStarter, NotYetSpawned, IsHeld
    <3>2. ASSUME NEW to, starters' = {[s EXCEPT !.at = to]},
                 to \in {"check", "spawn", "failed", "drop"} => ~ Loose'
          PROVE  OneStarter' /\ NotYetSpawned' /\ IsHeld'
      <4> DEFINE r == [s EXCEPT !.at = to]
      <4>0. r.at = to
        BY <2>3
      <4>1. \A t \in starters' : t = r
        BY <3>2
      <4> HIDE DEF r
      <4>2. \A t \in starters' : t.at = to
        BY <4>0, <4>1
      <4>3. starters' # {}
        BY <3>2
      <4> QED
        BY <3>2, <4>1, <4>2, <4>3 DEF OneStarter, NotYetSpawned, IsHeld
    <3> QED
      BY <2>4, <3>1, <3>2
  <2>6. WaitsAlone' /\ ProposedRests' /\ CancelsWhatItRead'
    BY <1>2, <1>a, <2>1, <2>2 DEF WaitsAlone, ProposedRests, CancelsWhatItRead
  <2>7. StartsAlone'
    BY <1>2, <1>a, <2>1 DEF StartsAlone
  <2> QED
    BY <2>5, <2>6, <2>7
<1>5. CASE s \in starters /\ StarterDrops(s)
  <2>1. starters = {s} /\ disk["wrk"].status \notin {"proposed", "pending"} /\ ~ Loose
    BY <1>2, <1>5 DEF OneStarter, WaitsAlone, NotYetSpawned, StarterDrops
  <2>2. starters' = {} /\ ~ Loose' /\ disk'["wrk"].status = "none"
    BY <1>0, <1>5, <2>1 DEF StarterDrops, Leave, Loose, runVars
  <2> QED
    BY <1>2, <1>a, <2>1, <2>2 DEF WaitsAlone, ProposedRests, StartsAlone, OneStarter, NotYetSpawned,
         CancelsWhatItRead, IsHeld
<1> QED
  BY <1>3, <1>4, <1>5

LEMMA WorkerStep == WorkerInv /\ [SchedNext]_schedVars => WorkerInv'
<1> SUFFICES ASSUME WorkerInv, [SchedNext]_schedVars PROVE WorkerInv'
  OBVIOUS
<1>1. SchedTypes /\ SchedTypes'
  BY SchedTypeStep DEF WorkerInv
<1>2. CASE UNCHANGED schedVars
  BY <1>1, <1>2, WorkerKept DEF schedVars, runVars, monitorVars, mainVars
<1>3. CASE CmdLoad \/ CmdList \/ CmdPlan \/ CmdFinish \/ CmdFire \/ CmdMark \/ WatchEnds
  <2>1. disk'["wrk"] = disk["wrk"]
    BY <1>1, <1>3 DEF CmdLoad, CmdList, CmdPlan, CmdFinish, CmdFire, CmdMark, WatchEnds, Put, SchedTypes, Ids
  <2>2. ~ Ticking' \/ beat' = beat
    BY <1>1, <1>3, SchedShapes DEF CmdLoad, CmdList, CmdPlan, CmdDecide, CmdStep, CmdFinish, CmdFire, CmdMark,
         WatchEnds, Waiting, Ticking
  <2>3. UNCHANGED <<starters, harness, cancelling, adrift>>
    BY <1>3 DEF CmdLoad, CmdList, CmdPlan, CmdFinish, CmdFire, CmdMark, WatchEnds, runVars, mainVars
  <2> QED
    BY <1>1, <2>1, <2>2, <2>3, WorkerKept
<1>4. ASSUME NEW id \in Ids, Propose(id) \/ Approve(id) \/ CancelLoad(id) PROVE WorkerInv'
  BY <1>1, <1>4, MainHolds
<1>5. CASE CancelRemove \/ CancelStop \/ CloseGuard \/ KillAll \/ NextChat
  BY <1>1, <1>5, MainHolds DEF Ids
<1>6. CASE WrkLoad \/ WrkPlan \/ WrkEnd \/ WrkRemove \/ WrkStart
  BY <1>1, <1>6, BeatHolds
<1>7. CASE StarterNext \/ \E what \in {"done", "attention"} : WorkerTells(what) \/ HarnessDies
  BY <1>1, <1>7, StarterHolds DEF StarterNext
<1> QED
  BY <1>2, <1>3, <1>4, <1>5, <1>6, <1>7 DEF SchedNext

LEMMA SchedInitTypes == SchedInit => SchedTypes
<1> SUFFICES ASSUME SchedInit PROVE SchedTypes
  OBVIOUS
<1> QED
  BY RecordIsTyped DEF SchedInit, SchedTypes, Ids

\* A worker that was not left open for the person's answer is held by its
\* record or by a thread that will stop it, unless it was lost in a way that
\* adrift names (the second look of schedule_worker.rs after a spawn).
THEOREM WorkersAreHeld == SchedSpec => []NoOrphanWorkers
<1>1. SchedInit => WorkerInv
  <2> SUFFICES ASSUME SchedInit PROVE WorkerInv
    OBVIOUS
  <2>1. starters = {} /\ ~ Loose /\ ~ Ticking /\ cancelling.at = "none"
    BY RecordIsTyped DEF SchedInit, Loose, Ticking
  <2> QED
    BY <2>1, SchedInitTypes DEF WorkerInv, WaitsAlone, ProposedRests, StartsAlone, OneStarter, NotYetSpawned,
         CancelsWhatItRead, IsHeld
<1>2. WorkerInv => NoOrphanWorkers
  BY DEF WorkerInv, IsHeld, NoOrphanWorkers, Loose, Stopping, InFlight
<1> QED
  BY <1>1, <1>2, WorkerStep, PTL DEF SchedSpec

(***************************************************************************)
(* What the person approved is not forgotten.                              *)
(***************************************************************************)
\* What moves the versions: a proposal, and the saves of what was read.
LEMMA VersionStep ==
  ASSUME CommandInv, SchedTypes', [SchedNext]_schedVars
  PROVE  VersionsGrow'
<1> USE SchedShapes, RecordIsTyped, PutIsTyped
<1>0. SchedTypes /\ VersionsGrow /\ FiresAlone
  BY DEF CommandInv
<1>1. ASSUME UNCHANGED <<disk, proposed, beat>> PROVE VersionsGrow'
  BY <1>0, <1>1 DEF VersionsGrow
<1>2. ASSUME NEW id \in Ids, disk' = [disk EXCEPT ![id] = NoTask], UNCHANGED proposed,
             beat' \in {beat, Waiting}
      PROVE  VersionsGrow'
  <2>1. \A i \in Ids : disk'[i] \in {disk[i], NoTask}
    BY <1>0, <1>2 DEF SchedTypes
  <2>2. \A i \in Ids : disk'[i].v <= proposed[i]
    BY <1>0, <2>1 DEF VersionsGrow, SchedTypes
  <2>3. (disk["cmd"].status # "none" => disk["cmd"].v # 0)'
    BY <1>0, <2>1 DEF VersionsGrow
  <2> QED
    BY <1>0, <1>2, <2>2, <2>3 DEF VersionsGrow
<1>3. ASSUME UNCHANGED <<disk, proposed>>,
             \/ beat' = Waiting
             \/ beat'.id = beat.id /\ beat'.task = beat.task /\ beat.at # "rest"
             \/ \E id \in Ids : beat'.id = id /\ beat'.task = disk[id] /\ disk[id] # NoTask
      PROVE  VersionsGrow'
  <2>1. CASE beat' = Waiting
    BY <1>0, <1>3, <2>1 DEF VersionsGrow
  <2>2. CASE beat'.id = beat.id /\ beat'.task = beat.task /\ beat.at # "rest"
    BY <1>0, <1>3, <2>2 DEF VersionsGrow
  <2>3. ASSUME NEW id \in Ids, beat'.id = id, beat'.task = disk[id], disk[id] # NoTask PROVE VersionsGrow'
    <3>1. disk[id].status # "none"
      BY <1>0, <2>3 DEF SchedTypes
    <3> QED
      BY <1>0, <1>3, <2>3, <3>1 DEF VersionsGrow
  <2> QED
    BY <1>3, <2>1, <2>2, <2>3
<1>4. ASSUME NEW id \in Ids, Propose(id) PROVE VersionsGrow'
  <2>1. proposed' = [proposed EXCEPT ![id] = @ + 1] /\ beat' = beat /\ proposed[id] + 1 \in Nat
    BY <1>0, <1>4 DEF Propose, SchedTypes
  <2>2. \A i \in Ids : proposed[i] \in Nat /\ proposed'[i] \in Nat /\ proposed[i] <= proposed'[i]
    BY <1>0, <2>1 DEF SchedTypes
  <2>3. Record(proposed[id] + 1, "proposed") \in Tasks /\ Record(proposed[id] + 1, "proposed").v = proposed[id] + 1
    BY <2>1 DEF Statuses
  <2>4. disk'[id].v = proposed'[id] /\ disk'[id].v # 0 /\ \A i \in Ids \ {id} : disk'[i] = disk[i]
    BY <1>0, <1>4, <2>1, <2>2, <2>3 DEF Propose, SchedTypes
  <2>5. \A i \in Ids : disk'[i].v <= proposed'[i]
    BY <1>0, <2>2, <2>4 DEF VersionsGrow
  <2>6. (disk["cmd"].status # "none" => disk["cmd"].v # 0)'
    BY <1>0, <2>4 DEF VersionsGrow
  <2>7. beat.at # "rest" => beat.task.v <= proposed'[beat.id]
    BY <1>0, <2>2 DEF VersionsGrow
  <2> QED
    BY <1>0, <2>1, <2>5, <2>6, <2>7 DEF VersionsGrow
<1>5. ASSUME NEW id \in Ids, Approve(id) PROVE VersionsGrow'
  <2>1. CASE Put(id, NoTask)
    BY <1>2, <1>5, <2>1 DEF Approve, Put, monitorVars, mainVars
  <2>2. CASE Put(id, Record(disk[id].v, "pending"))
    <3>1. Record(disk[id].v, "pending") \in Tasks /\ Record(disk[id].v, "pending").v = disk[id].v
      BY <1>0 DEF Statuses
    <3>2. \A i \in Ids : disk'[i].v = disk[i].v
      BY <1>0, <2>2, <3>1
    <3>3. disk[id].status = "proposed" /\ UNCHANGED <<proposed, beat>>
      BY <1>5 DEF Approve, monitorVars, mainVars
    <3>4. (disk["cmd"].status # "none" => disk["cmd"].v # 0)'
      BY <1>0, <2>2, <3>1, <3>2, <3>3 DEF VersionsGrow
    <3> QED
      BY <1>0, <3>2, <3>3, <3>4 DEF VersionsGrow
  <2> QED
    BY <1>5, <2>1, <2>2 DEF Approve
<1>6. CASE CmdMark \/ WrkStart
  <2>1. UNCHANGED proposed /\ beat' = Waiting
    BY <1>6 DEF CmdMark, WrkStart, mainVars
  <2>2. CASE disk' = disk
    BY <1>3, <2>1, <2>2
  <2>3. CASE Put(beat.id, Record(beat.task.v, "running"))
    <3>1. beat.at \in {"mark", "start"} /\ beat.at # "rest"
      BY <1>6 DEF CmdMark, WrkStart
    <3>2. Record(beat.task.v, "running") \in Tasks /\ Record(beat.task.v, "running").v = beat.task.v
          /\ beat.id \in Ids
      BY <1>0, <3>1 DEF Statuses
    <3>3. disk'[beat.id].v = beat.task.v /\ \A i \in Ids \ {beat.id} : disk'[i] = disk[i]
      BY <1>0, <2>3, <3>2
    <3>4. \A i \in Ids : disk'[i].v <= proposed[i]
      BY <1>0, <3>1, <3>3 DEF VersionsGrow
    <3>5. beat.id = "cmd" => beat.task.v # 0
      BY <1>0, <3>1 DEF VersionsGrow, FiresAlone
    <3>6. (disk["cmd"].status # "none" => disk["cmd"].v # 0)'
      BY <1>0, <3>3, <3>5 DEF VersionsGrow
    <3> QED
      BY <1>0, <2>1, <3>4, <3>6 DEF VersionsGrow
  <2> QED
    BY <1>0, <1>6, <2>2, <2>3 DEF CmdMark, WrkStart
<1>7. CASE NextChat
  <2>1. UNCHANGED proposed /\ beat' = Waiting
    BY <1>7 DEF NextChat
  <2>2. \A i \in Ids : disk'[i].v = disk[i].v /\ (disk'[i].status # "none" => disk[i].status # "none")
    BY <1>0, <1>7 DEF NextChat, Restored, Statuses
  <2> QED
    BY <1>0, <2>1, <2>2 DEF VersionsGrow
<1>8. CASE CancelRemove \/ CmdFinish \/ WrkRemove
  <2>1. \E id \in Ids : Put(id, NoTask)
    BY <1>0, <1>8 DEF CancelRemove, CmdFinish, WrkRemove
  <2>2. UNCHANGED proposed /\ beat' \in {beat, Waiting}
    BY <1>8 DEF CancelRemove, CmdFinish, WrkRemove, mainVars
  <2> QED
    BY <1>2, <2>1, <2>2 DEF Put
<1>9. CASE CmdLoad \/ CmdList \/ CmdPlan \/ CmdFire \/ WrkLoad \/ WrkPlan \/ WrkEnd
  <2>1. UNCHANGED <<disk, proposed>>
    BY <1>9 DEF CmdLoad, CmdList, CmdPlan, CmdFire, WrkLoad, WrkPlan, WrkEnd, mainVars
  <2>2. CASE CmdLoad \/ WrkLoad
    <3>1. \E id \in Ids : beat'.id = id /\ beat'.task = disk[id] /\ disk[id] # NoTask
      BY <1>0, <2>2 DEF CmdLoad, WrkLoad
    <3> QED
      BY <1>3, <2>1, <3>1
  <2>3. CASE CmdList \/ CmdPlan \/ CmdFire
    <3>1. beat.at # "rest" /\ beat.id = "cmd"
      BY <1>0, <2>3 DEF CmdList, CmdPlan, CmdFire
    <3>2. beat' = Waiting \/ (beat'.id = "cmd" /\ beat'.task = beat.task)
      BY <2>3 DEF CmdList, CmdPlan, CmdFire, CmdDecide, CmdStep
    <3> QED
      BY <1>3, <2>1, <3>1, <3>2
  <2>4. CASE WrkPlan \/ WrkEnd
    <3>1. beat.at # "rest" /\ beat.id = "wrk"
      BY <1>0, <2>4 DEF WrkPlan, WrkEnd
    <3>2. beat' = Waiting \/ \E to, why : WrkStep(to, why)
      BY <2>4 DEF WrkPlan, WrkEnd
    <3>3. beat' = Waiting \/ (beat'.id = "wrk" /\ beat'.task = beat.task)
      BY <3>2 DEF WrkStep
    <3> QED
      BY <1>3, <2>1, <3>1, <3>3
  <2> QED
    BY <1>9, <2>2, <2>3, <2>4
<1>10. ASSUME NEW s \in starters, StarterDrops(s) PROVE VersionsGrow'
  BY <1>0, <1>2, <1>10 DEF StarterDrops, Put, mainVars
<1>11. ASSUME NEW s \in starters,
              StarterChecks(s) \/ StarterSpawns(s) \/ StarterLooks(s) \/ StarterStops(s)
       PROVE VersionsGrow'
  BY <1>1, <1>11 DEF StarterChecks, StarterSpawns, StarterLooks, StarterStops, mainVars
<1>12. ASSUME NEW id, NEW what, WorkerTells(what) \/ HarnessDies \/ CancelLoad(id) PROVE VersionsGrow'
  BY <1>1, <1>12 DEF WorkerTells, HarnessDies, CancelLoad, mainVars, monitorVars
<1>13. CASE CancelStop \/ CloseGuard \/ KillAll \/ WatchEnds \/ UNCHANGED schedVars
  BY <1>1, <1>13 DEF CancelStop, CloseGuard, KillAll, WatchEnds, schedVars, mainVars, monitorVars
<1> QED
  BY <1>4, <1>5, <1>6, <1>7, <1>8, <1>9, <1>10, <1>11, <1>12, <1>13 DEF SchedNext, StarterNext

FourParts == FiresAlone /\ StopsItsOwn /\ RunsWatched /\ ReadsRunning
CmdAts == {"list", "plan", "finish", "fire", "mark"}

\* A step that leaves the command, its record and its watch.
LEMMA CommandKept ==
  ASSUME FourParts, disk'["cmd"] = disk["cmd"], watch' = watch, shutting => shutting',
         over \subseteq over', Stopping("cmd")' => Stopping("cmd") /\ cancelling'.at = cancelling.at,
         beat' = beat \/ beat'.at \notin CmdAts
  PROVE  FourParts'
<1>1. StopsItsOwn'
  BY DEF FourParts, StopsItsOwn
<1>2. \A v : Runs(v) => Runs(v)'
  BY DEF Runs, Reported
<1>3. \A v : Reported("cmd", v) => Reported("cmd", v)'
  BY DEF Reported
<1>4. CASE beat' = beat
  BY <1>1, <1>2, <1>3, <1>4 DEF FourParts, FiresAlone, RunsWatched, ReadsRunning
<1>5. CASE beat'.at \notin CmdAts
  BY <1>1, <1>2, <1>5 DEF FourParts, FiresAlone, RunsWatched, ReadsRunning, CmdAts
<1> QED
  BY <1>4, <1>5

\* The command's record is taken away, proposed or approved: nothing runs.
LEMMA RecordMoves ==
  ASSUME CommandInv, disk'["cmd"].status \in Statuses \ {"running"},
         disk'["cmd"].v # 0 => disk'["cmd"].v > proposed["cmd"] \/ disk["cmd"].status = "proposed",
         disk["cmd"].status = "proposed" => disk'["cmd"].v \in {0, disk["cmd"].v},
         UNCHANGED <<watch, shutting, over>>, beat' = beat,
         Stopping("cmd")' => Stopping("cmd") /\ disk'["cmd"].status # "pending"
  PROVE  FourParts'
<1> USE SchedShapes
<1>1. SchedTypes /\ VersionsGrow /\ FourParts
  BY DEF CommandInv, FourParts
<1>2. FiresAlone'
  BY <1>1 DEF FourParts, FiresAlone
<1>3. RunsWatched'
  BY <1>1 DEF FourParts, RunsWatched, Runs, Reported
<1>4. beat.at \in {"list", "plan"} /\ beat.task.status = "running" => beat.task.v # disk'["cmd"].v
  <2>1. SUFFICES ASSUME beat.at \in {"list", "plan"}, beat.task.status = "running"
                 PROVE  beat.task.v # disk'["cmd"].v
    OBVIOUS
  <2>2. beat.task.v # 0 /\ beat.task.v <= proposed["cmd"] /\ beat.task.v \in Nat /\ proposed["cmd"] \in Nat
    BY <1>1, <2>1 DEF VersionsGrow, SchedTypes
  <2>3. beat.task.v = disk["cmd"].v => disk["cmd"].status = "running"
    BY <1>1, <2>1 DEF FourParts, ReadsRunning
  <2>4. CASE disk["cmd"].status = "proposed"
    BY <2>2, <2>3, <2>4
  <2>5. CASE disk["cmd"].status # "proposed"
    <3>1. disk'["cmd"].v = 0 \/ disk'["cmd"].v > proposed["cmd"]
      BY <2>5
    <3> QED
      BY <2>2, <3>1
  <2> QED
    BY <2>4, <2>5
<1>5. ReadsRunning'
  BY <1>4 DEF ReadsRunning
<1>6. StopsItsOwn'
  BY <1>1 DEF StopsItsOwn, Statuses
<1> QED
  BY <1>2, <1>3, <1>5, <1>6 DEF FourParts

\* The person, the tool and the main loop.
LEMMA MainCommand ==
  ASSUME CommandInv, SchedTypes', NEW id \in Ids,
         \/ Propose(id) \/ Approve(id) \/ CancelLoad(id) \/ CancelRemove \/ CancelStop
         \/ CloseGuard \/ KillAll \/ NextChat
  PROVE  FourParts'
<1> USE SchedShapes, RecordIsTyped, PutIsTyped
<1>1. SchedTypes /\ VersionsGrow /\ FourParts
  BY DEF CommandInv, FourParts
<1>2. CASE Propose("cmd")
  <2>1. UNCHANGED <<watch, shutting, over, cancelling, beat>> /\ disk["cmd"].status = "none"
    BY <1>2 DEF Propose, runVars
  <2>2. proposed["cmd"] + 1 \in Nat /\ proposed["cmd"] \in Nat
    BY <1>1 DEF SchedTypes
  <2>3. disk'["cmd"].v = proposed["cmd"] + 1 /\ disk'["cmd"].status = "proposed"
    <3>1. Record(proposed["cmd"] + 1, "proposed") \in Tasks
          /\ Record(proposed["cmd"] + 1, "proposed").v = proposed["cmd"] + 1
          /\ Record(proposed["cmd"] + 1, "proposed").status = "proposed"
      BY <2>2 DEF Statuses
    <3> QED
      BY <1>1, <1>2, <3>1 DEF Propose
  <2>4. Stopping("cmd")' = Stopping("cmd")
    BY <2>1 DEF Stopping
  <2> QED
    BY <2>1, <2>2, <2>3, <2>4, RecordMoves DEF Statuses
<1>3. CASE Approve("cmd")
  <2>1. UNCHANGED <<watch, shutting, over, cancelling, beat>> /\ disk["cmd"].status = "proposed"
        /\ cancelling.at = "none"
    BY <1>3 DEF Approve, runVars, monitorVars, mainVars
  <2>2. disk'["cmd"] = NoTask \/ (disk'["cmd"].v = disk["cmd"].v /\ disk'["cmd"].status = "pending")
    <3>1. Record(disk["cmd"].v, "pending") \in Tasks
          /\ Record(disk["cmd"].v, "pending").v = disk["cmd"].v
          /\ Record(disk["cmd"].v, "pending").status = "pending"
      BY <1>1 DEF Statuses
    <3> QED
      BY <1>1, <1>3, <3>1 DEF Approve
  <2>3. ~ Stopping("cmd")'
    BY <2>1 DEF Stopping
  <2> QED
    BY <2>1, <2>2, <2>3, RecordMoves DEF Statuses
<1>4. CASE CancelRemove /\ cancelling.id = "cmd"
  <2>1. UNCHANGED <<watch, shutting, over, beat>> /\ disk'["cmd"] = NoTask
    BY <1>1, <1>4 DEF CancelRemove, runVars
  <2>2. Stopping("cmd")' => Stopping("cmd")
    BY <1>4 DEF CancelRemove, Stopping
  <2> QED
    BY <2>1, <2>2, RecordMoves DEF Statuses
<1>5. CASE CancelLoad("cmd")
  <2>1. UNCHANGED <<disk, watch, shutting, over, beat>>
    BY <1>5 DEF CancelLoad, runVars, monitorVars
  <2>2. Stopping("cmd")' => disk["cmd"].status = "running" /\ cancelling'.at = "remove"
    BY <1>5 DEF CancelLoad, Stopping
  <2> QED
    BY <1>1, <2>1, <2>2 DEF FourParts, FiresAlone, StopsItsOwn, RunsWatched, ReadsRunning, Runs, Reported
<1>6. CASE CancelStop /\ cancelling.id = "cmd"
  <2>1. Stopping("cmd") /\ cancelling.at = "stop" /\ cancelling'.at = "none"
    BY <1>6 DEF CancelStop, Stopping
  <2>2. UNCHANGED <<disk, shutting, over, beat>>
    BY <1>6 DEF CancelStop, monitorVars
  <2>3. disk["cmd"].status # "running" /\ beat.at # "mark" /\ ~ Stopping("cmd")'
    BY <1>1, <2>1 DEF FourParts, StopsItsOwn, FiresAlone, Stopping
  <2> QED
    BY <1>1, <2>1, <2>2, <2>3 DEF FourParts, FiresAlone, StopsItsOwn, RunsWatched, ReadsRunning, Reported
<1>7. CASE KillAll
  <2>1. UNCHANGED <<disk, over, beat, cancelling, Stopping("cmd")>> /\ shutting' /\ shutting
    BY <1>7 DEF KillAll, monitorVars, mainVars, Stopping
  <2> QED
    BY <1>1, <2>1 DEF FourParts, FiresAlone, StopsItsOwn, RunsWatched, ReadsRunning, Runs, Reported
<1>8. CASE NextChat
  <2>1. beat'.at = "rest" /\ cancelling'.at = "none" /\ disk'["cmd"] = Restored("cmd")
    BY <1>1, <1>8 DEF NextChat
  <2>2. disk'["cmd"].status # "running"
    BY <1>1, <2>1 DEF Restored, Statuses
  <2> QED
    BY <2>1, <2>2 DEF FourParts, FiresAlone, StopsItsOwn, RunsWatched, ReadsRunning, Stopping
<1>9. CASE \/ id = "wrk" /\ (Propose(id) \/ Approve(id) \/ CancelLoad(id))
           \/ (CancelRemove \/ CancelStop) /\ cancelling.id = "wrk"
           \/ CloseGuard
  <2>1. disk'["cmd"] = disk["cmd"] /\ UNCHANGED <<watch, over, beat>> /\ (shutting => shutting')
    BY <1>1, <1>9 DEF Propose, Approve, CancelLoad, CancelRemove, CancelStop, CloseGuard, Put, SchedTypes,
         runVars, mainVars, monitorVars, Ids
  <2>2. Stopping("cmd")' => Stopping("cmd") /\ cancelling'.at = cancelling.at
    BY <1>9 DEF Propose, Approve, CancelLoad, CancelRemove, CancelStop, CloseGuard, Stopping, mainVars, NoCancel
  <2> QED
    BY <1>1, <2>1, <2>2, CommandKept
<1> QED
  BY <1>1, <1>2, <1>3, <1>4, <1>5, <1>6, <1>7, <1>8, <1>9 DEF Ids, CancelRemove, CancelStop

\* The monitor's tick of the command.
LEMMA BeatCommand ==
  ASSUME CommandInv, CmdLoad \/ CmdList \/ CmdPlan \/ CmdFinish \/ CmdFire \/ CmdMark \/ WatchEnds
  PROVE  FourParts'
<1> USE SchedShapes, RecordIsTyped, PutIsTyped
<1>1. SchedTypes /\ VersionsGrow /\ FourParts
  BY DEF CommandInv, FourParts
<1>2. UNCHANGED <<cancelling, shutting, Stopping("cmd")>>
  BY DEF CmdLoad, CmdList, CmdPlan, CmdFinish, CmdFire, CmdMark, WatchEnds, mainVars, Stopping
<1>3. CASE CmdLoad
  <2>1. UNCHANGED <<disk, watch, over>> /\ beat'.at = "list" /\ beat'.task = disk["cmd"]
    BY <1>3 DEF CmdLoad, runVars
  <2> QED
    BY <1>1, <1>2, <2>1 DEF FourParts, FiresAlone, StopsItsOwn, RunsWatched, ReadsRunning, Runs, Reported
<1>4. CASE CmdList
  <2>1. /\ UNCHANGED <<disk, watch, over>> /\ beat.at = "list" /\ beat'.at = "plan" /\ beat'.task = beat.task
        /\ beat'.active = (watch # 0)
    BY <1>4 DEF CmdList, runVars
  <2>2. ReadsRunning'
    BY <1>1, <1>2, <2>1 DEF FourParts, ReadsRunning, RunsWatched, Runs, Reported, VersionsGrow
  <2> QED
    BY <1>1, <1>2, <2>1, <2>2 DEF FourParts, FiresAlone, StopsItsOwn, RunsWatched, Runs, Reported
<1>5. CASE CmdPlan
  <2>1. UNCHANGED <<disk, watch, over>> /\ beat.at = "plan"
    BY <1>5 DEF CmdPlan, runVars
  <2>2. \/ beat'.at \in {"rest", "finish"}
        \/ beat'.at = "fire" /\ beat'.task = beat.task /\ beat.task.status = "pending"
    BY <1>5 DEF CmdPlan, CmdDecide, CmdStep
  <2> QED
    BY <1>1, <1>2, <2>1, <2>2 DEF FourParts, FiresAlone, StopsItsOwn, RunsWatched, ReadsRunning, Runs, Reported
<1>6. CASE CmdFinish
  <2>1. UNCHANGED <<watch, over>> /\ beat'.at = "rest" /\ disk'["cmd"].status = "none"
    BY <1>1, <1>6 DEF CmdFinish, runVars
  <2> QED
    BY <1>1, <1>2, <2>1 DEF FourParts, FiresAlone, StopsItsOwn, RunsWatched, ReadsRunning
<1>7. CASE CmdFire
  <2>1. /\ UNCHANGED disk /\ beat.at = "fire" /\ beat'.task = beat.task
        /\ beat'.at \in {"mark", "finish"} /\ (beat'.at = "mark" => watch' = beat.task.v)
    BY <1>7 DEF CmdFire, CmdStep
  <2> QED
    BY <1>1, <1>2, <2>1 DEF FourParts, FiresAlone, StopsItsOwn, RunsWatched, ReadsRunning, Runs
<1>8. CASE CmdMark
  <2>1. UNCHANGED <<watch, over>> /\ beat'.at = "rest" /\ beat.at = "mark"
    BY <1>8 DEF CmdMark, runVars
  <2>2. disk'["cmd"] = disk["cmd"] \/ disk'["cmd"].v = beat.task.v
    <3>1. Record(beat.task.v, "running") \in Tasks /\ Record(beat.task.v, "running").v = beat.task.v
      BY <1>1, <2>1 DEF Statuses
    <3> QED
      BY <1>1, <1>8, <3>1 DEF CmdMark
  <2>3. ~ Stopping("cmd")
    BY <1>1, <2>1 DEF FourParts, FiresAlone
  <2> QED
    BY <1>1, <1>2, <2>1, <2>2, <2>3 DEF FourParts, FiresAlone, StopsItsOwn, RunsWatched, ReadsRunning,
         Runs, Reported
<1>9. CASE WatchEnds
  <2>1. UNCHANGED <<disk, beat>> /\ over' = over \cup {<<"cmd", watch>>}
    BY <1>9 DEF WatchEnds
  <2>2. \A v : Runs(v) => Runs(v)'
    BY <1>2, <2>1 DEF Runs, Reported
  <2> QED
    BY <1>1, <1>2, <2>1, <2>2 DEF FourParts, FiresAlone, StopsItsOwn, RunsWatched, ReadsRunning, Reported
<1> QED
  BY <1>3, <1>4, <1>5, <1>6, <1>7, <1>8, <1>9

\* What the worker's tick and its threads do leaves the command.
LEMMA WorkerCommand ==
  ASSUME CommandInv, NEW s, NEW what,
         \/ WrkLoad \/ WrkPlan \/ WrkEnd \/ WrkRemove \/ WrkStart
         \/ StarterChecks(s) \/ StarterSpawns(s) \/ StarterLooks(s) \/ StarterStops(s) \/ StarterDrops(s)
         \/ WorkerTells(what) \/ HarnessDies \/ UNCHANGED schedVars
  PROVE  FourParts'
<1>1. SchedTypes /\ FourParts
  BY DEF CommandInv, FourParts
<1>2. disk'["cmd"] = disk["cmd"]
  BY <1>1 DEF WrkLoad, WrkPlan, WrkEnd, WrkRemove, WrkStart, StarterChecks, StarterSpawns, StarterLooks,
       StarterStops, StarterDrops, WorkerTells, HarnessDies, Put, SchedTypes, Ids, schedVars
<1>3. UNCHANGED <<watch, shutting, cancelling, Stopping("cmd")>> /\ over \subseteq over'
  BY DEF WrkLoad, WrkPlan, WrkEnd, WrkRemove, WrkStart, StarterChecks, StarterSpawns, StarterLooks,
       StarterStops, StarterDrops, WorkerTells, HarnessDies, Stopping, schedVars, runVars, mainVars, monitorVars
<1>4. beat' = beat \/ beat'.at \notin CmdAts
  <2>1. CASE WrkPlan
    <3>1. beat' = Waiting \/ \E to \in {"start", "end"} : \E why : WrkStep(to, why)
      BY <2>1 DEF WrkPlan
    <3> QED
      BY <3>1 DEF WrkStep, CmdAts, Waiting
  <2>2. CASE WrkLoad \/ WrkEnd \/ WrkRemove \/ WrkStart
    <3>1. CASE WrkLoad
      BY <3>1 DEF WrkLoad, CmdAts
    <3>2. CASE WrkEnd
      BY <3>2 DEF WrkEnd, WrkStep, CmdAts
    <3>3. CASE WrkRemove \/ WrkStart
      BY <3>3 DEF WrkRemove, WrkStart, CmdAts, Waiting
    <3> QED
      BY <2>2, <3>1, <3>2, <3>3
  <2>3. CASE ~ (WrkLoad \/ WrkPlan \/ WrkEnd \/ WrkRemove \/ WrkStart)
    BY <2>3 DEF StarterChecks, StarterSpawns, StarterLooks,
       StarterStops, StarterDrops, WorkerTells, HarnessDies, schedVars, monitorVars
  <2> QED
    BY <2>1, <2>2, <2>3
<1> QED
  BY <1>1, <1>2, <1>3, <1>4, CommandKept

LEMMA FourPartsStep == CommandInv /\ SchedTypes' /\ [SchedNext]_schedVars => FourParts'
<1> SUFFICES ASSUME CommandInv, SchedTypes', [SchedNext]_schedVars PROVE FourParts'
  OBVIOUS
<1>1. ASSUME NEW id \in Ids, Propose(id) \/ Approve(id) \/ CancelLoad(id) PROVE FourParts'
  BY <1>1, MainCommand
<1>2. CASE CancelRemove \/ CancelStop \/ CloseGuard \/ KillAll \/ NextChat
  BY <1>2, MainCommand DEF Ids
<1>3. CASE CmdLoad \/ CmdList \/ CmdPlan \/ CmdFinish \/ CmdFire \/ CmdMark \/ WatchEnds
  BY <1>3, BeatCommand
<1>4. CASE \/ WrkLoad \/ WrkPlan \/ WrkEnd \/ WrkRemove \/ WrkStart \/ StarterNext
           \/ UNCHANGED schedVars \/ \E what \in {"done", "attention"} : WorkerTells(what) \/ HarnessDies
  BY <1>4, WorkerCommand DEF StarterNext
<1> QED
  BY <1>1, <1>2, <1>3, <1>4 DEF SchedNext

\* The version of a record changes only where a task is proposed, cancelled,
\* dropped or saved by the threads that read it.
LEMMA VersionMoves ==
  ASSUME SchedTypes, SchedNext, NEW id \in Ids, disk'[id].v # disk[id].v
  PROVE  \/ /\ disk[id].status \in {"none", "proposed"} /\ UNCHANGED beat
            /\ disk'[id].v = 0 \/ disk'[id].v > proposed[id]
         \/ cancelling.at = "remove" /\ cancelling.id = id /\ disk'[id].v = 0 /\ UNCHANGED beat
         \/ beat.at \in {"finish", "remove"} /\ beat.id = id /\ beat' = Waiting
         \/ beat.at \in {"mark", "start"} /\ beat.id = id /\ disk'[id].v = beat.task.v
         \/ \E s \in starters : s.at = "drop" /\ id = "wrk"
<1> USE SchedShapes, RecordIsTyped, PutIsTyped
<1>1. disk'[id] # disk[id]
  OBVIOUS
<1>2. ASSUME NEW i \in Ids, Propose(i) PROVE /\ disk[id].status = "none" /\ UNCHANGED beat
                                             /\ disk'[id].v > proposed[id]
  <2>1. proposed[i] + 1 \in Nat /\ proposed[i] \in Nat
    BY DEF SchedTypes
  <2>2. Record(proposed[i] + 1, "proposed") \in Tasks
        /\ Record(proposed[i] + 1, "proposed").v = proposed[i] + 1
    BY <2>1 DEF Statuses
  <2>3. disk'[i].v = proposed[i] + 1 /\ i = id
    BY <1>1, <1>2, <2>2 DEF Propose
  <2> QED
    BY <1>2, <2>1, <2>3 DEF Propose
<1>3. ASSUME NEW i \in Ids, Approve(i) PROVE /\ disk[id].status = "proposed" /\ UNCHANGED beat
                                             /\ disk'[id].v = 0
  <2>1. Record(disk[i].v, "pending") \in Tasks /\ Record(disk[i].v, "pending").v = disk[i].v
    BY DEF Statuses
  <2>2. disk'[i].v \in {0, disk[i].v} /\ i = id
    BY <1>1, <1>3, <2>1 DEF Approve
  <2> QED
    BY <1>3, <2>2 DEF Approve, monitorVars
<1>4. CASE CancelRemove
  <2>1. cancelling.id = id /\ disk'[id].v = 0
    BY <1>1, <1>4 DEF CancelRemove
  <2> QED
    BY <1>4, <2>1 DEF CancelRemove
<1>5. CASE CmdFinish \/ WrkRemove
  <2>1. beat.at \in {"finish", "remove"} /\ beat.id = id /\ beat' = Waiting
    BY <1>1, <1>5 DEF CmdFinish, WrkRemove
  <2> QED
    BY <2>1
<1>6. CASE CmdMark \/ WrkStart
  <2>1. beat.at \in {"mark", "start"} /\ beat.id \in Ids
    BY <1>6 DEF CmdMark, WrkStart
  <2>2. Record(beat.task.v, "running") \in Tasks /\ Record(beat.task.v, "running").v = beat.task.v
    BY <2>1 DEF Statuses
  <2>3. Put(beat.id, Record(beat.task.v, "running"))
    BY <1>1, <1>6 DEF CmdMark, WrkStart
  <2>4. beat.id = id /\ disk'[id].v = beat.task.v
    BY <1>1, <2>1, <2>2, <2>3
  <2> QED
    BY <2>1, <2>4
<1>7. ASSUME NEW s \in starters, StarterDrops(s) PROVE s.at = "drop" /\ id = "wrk"
  BY <1>1, <1>7 DEF StarterDrops
<1>8. ~ NextChat
  <2>1. ASSUME NextChat PROVE disk'[id].v = disk[id].v
    BY <2>1 DEF NextChat, Restored, Statuses
  <2> QED
    BY <2>1
<1>9. /\ ~ (CmdLoad \/ CmdList \/ CmdPlan \/ CmdFire \/ WatchEnds \/ WrkLoad \/ WrkPlan \/ WrkEnd)
      /\ ~ (CancelStop \/ CloseGuard \/ KillAll \/ HarnessDies)
      /\ \A i : ~ CancelLoad(i) /\ ~ WorkerTells(i)
      /\ \A s : ~ (StarterChecks(s) \/ StarterSpawns(s) \/ StarterLooks(s) \/ StarterStops(s))
  BY <1>1 DEF CmdLoad, CmdList, CmdPlan, CmdFire, WatchEnds, WrkLoad, WrkPlan, WrkEnd, CancelStop, CloseGuard,
       KillAll, HarnessDies, CancelLoad, WorkerTells, StarterChecks, StarterSpawns, StarterLooks, StarterStops
<1> QED
  BY <1>2, <1>3, <1>4, <1>5, <1>6, <1>7, <1>8, <1>9 DEF SchedNext, StarterNext

\* What is reported stays reported.
LEMMA OverGrows == [SchedNext]_schedVars => over \subseteq over'
  BY DEF SchedNext, schedVars, StarterNext, Propose, Approve, CancelLoad, CancelRemove, CancelStop, CmdLoad, CmdList,
     CmdPlan, CmdFinish, CmdFire, CmdMark, WatchEnds, WrkLoad, WrkPlan, WrkEnd, WrkRemove, WrkStart,
     StarterChecks, StarterSpawns, StarterLooks, StarterStops, StarterDrops, WorkerTells, HarnessDies,
     CloseGuard, KillAll, NextChat, monitorVars

\* The monitor is about to remove what it did before only after a report.
LEMMA BeatReports ==
  ASSUME CommandInv, SchedNext
  PROVE  /\ beat'.at = "finish" =>
              beat' = beat \/ <<"cmd", beat'.task.v>> \in over' \/ beat'.task.v # disk'["cmd"].v
         /\ beat'.at = "remove" => beat' = beat \/ <<"wrk", beat'.task.v>> \in over'
<1> USE SchedShapes, RecordIsTyped
<1>1. SchedTypes /\ ReadsRunning
  BY DEF CommandInv
<1>2. CASE CmdPlan
  <2>1. UNCHANGED <<disk, over>> /\ beat.at = "plan"
    BY <1>2 DEF CmdPlan
  <2>2. beat'.at \notin {"finish", "remove"}
        \/ (beat'.at = "finish" /\ beat'.task = beat.task /\ ~ shutting
            /\ beat.task.status = "running" /\ ~ beat.active)
    BY <1>2 DEF CmdPlan, CmdDecide, CmdStep
  <2> QED
    BY <1>1, <2>1, <2>2 DEF ReadsRunning, Reported
<1>3. CASE CmdFire
  BY <1>3 DEF CmdFire, CmdStep, Reported
<1>4. CASE WrkEnd
  BY <1>4 DEF WrkEnd, WrkStep, Reported
<1>5. CASE WrkPlan
  <2>1. beat' = Waiting \/ \E to \in {"start", "end"} : \E why : WrkStep(to, why)
    BY <1>5 DEF WrkPlan
  <2> QED
    BY <2>1 DEF WrkStep
<1>6. CASE CmdLoad \/ CmdList \/ CmdFinish \/ CmdMark \/ WrkLoad \/ WrkRemove \/ WrkStart \/ NextChat
  BY <1>6 DEF CmdLoad, CmdList, CmdFinish, CmdMark, WrkLoad, WrkRemove, WrkStart, NextChat
<1>7. ASSUME NEW id, NEW s, NEW what,
             \/ Propose(id) \/ Approve(id) \/ CancelLoad(id) \/ CancelRemove \/ CancelStop \/ CloseGuard
             \/ KillAll \/ WatchEnds \/ WorkerTells(what) \/ HarnessDies
             \/ StarterChecks(s) \/ StarterSpawns(s) \/ StarterLooks(s) \/ StarterStops(s) \/ StarterDrops(s)
      PROVE  beat' = beat
  BY <1>7 DEF Propose, Approve, CancelLoad, CancelRemove, CancelStop, CloseGuard, KillAll, WatchEnds, WorkerTells,
       HarnessDies, StarterChecks, StarterSpawns, StarterLooks, StarterStops, StarterDrops, monitorVars, mainVars
<1> QED
  BY <1>2, <1>3, <1>4, <1>5, <1>6, <1>7 DEF SchedNext, StarterNext

\* So is a thread.
LEMMA StarterReports ==
  ASSUME CommandInv, SchedNext, NEW t \in starters', t.at = "drop"
  PROVE  t \in starters \/ <<"wrk", t.v>> \in over'
<1>1. SchedTypes
  BY DEF CommandInv
<1>2. ASSUME NEW s \in starters, NEW to \in {"check", "spawn", "spawned", "failed", "stop", "drop"},
             Forward(s, to) \/ Leave(s), to # "drop" \/ <<"wrk", s.v>> \in over'
      PROVE  t \in starters \/ <<"wrk", t.v>> \in over'
  <2>1. /\ t \in starters \/ t = [s EXCEPT !.at = to]
        /\ [s EXCEPT !.at = to].at = to /\ [s EXCEPT !.at = to].v = s.v
    BY <1>1, <1>2, StarterMoves
  <2> DEFINE r == [s EXCEPT !.at = to]
  <2>2. t \in starters \/ (t = r /\ r.at = to /\ r.v = s.v)
    BY <2>1
  <2> HIDE DEF r
  <2> QED
    BY <1>2, <2>2 DEF Reported
<1>3. ASSUME NEW s \in starters,
             StarterChecks(s) \/ StarterSpawns(s) \/ StarterLooks(s) \/ StarterStops(s) \/ StarterDrops(s)
      PROVE  t \in starters \/ <<"wrk", t.v>> \in over'
  <2>1. \/ \E to \in {"check", "spawn", "spawned", "failed", "stop"} : Forward(s, to)
        \/ Forward(s, "drop") /\ <<"wrk", s.v>> \in over'
        \/ Leave(s)
    BY <1>3 DEF StarterChecks, StarterSpawns, StarterLooks, StarterStops, StarterDrops
  <2> QED
    BY <1>2, <2>1
<1>4. CASE WrkStart
  BY <1>4 DEF WrkStart
<1>5. CASE NextChat
  BY <1>5 DEF NextChat
<1>6. ASSUME NEW id, NEW what,
             \/ Propose(id) \/ Approve(id) \/ CancelLoad(id) \/ CancelRemove \/ CancelStop \/ CloseGuard
             \/ KillAll \/ WatchEnds \/ WorkerTells(what) \/ HarnessDies
             \/ CmdLoad \/ CmdList \/ CmdPlan \/ CmdFinish \/ CmdFire \/ CmdMark
             \/ WrkLoad \/ WrkPlan \/ WrkEnd \/ WrkRemove
      PROVE  starters' = starters
  BY <1>6 DEF Propose, Approve, CancelLoad, CancelRemove, CancelStop, CloseGuard, KillAll, WatchEnds, WorkerTells,
       HarnessDies, CmdLoad, CmdList, CmdPlan, CmdFinish, CmdFire, CmdMark, WrkLoad, WrkPlan, WrkEnd, WrkRemove,
       monitorVars, mainVars
<1> QED
  BY <1>3, <1>4, <1>5, <1>6 DEF SchedNext, StarterNext

LEMMA ReportedStep ==
  ASSUME CommandInv, SchedTypes', [SchedNext]_schedVars
  PROVE  RemovesReported'
<1> USE SchedShapes
<1>1. SchedTypes /\ VersionsGrow /\ RemovesReported
  BY DEF CommandInv
<1>2. \A id, v : Reported(id, v) => Reported(id, v)'
  BY OverGrows DEF Reported
<1>3. CASE UNCHANGED schedVars
  BY <1>1, <1>2, <1>3 DEF RemovesReported, schedVars, monitorVars
<1>4. CASE SchedNext
  <2>1. (beat.at = "remove" => Reported("wrk", beat.task.v))'
    BY <1>1, <1>2, <1>4, BeatReports DEF RemovesReported, Reported
  <2>2. (\A s \in starters : s.at = "drop" => Reported("wrk", s.v))'
    BY <1>1, <1>2, <1>4, StarterReports DEF RemovesReported, Reported
  <2>3. (beat.at = "finish" /\ beat.task.v = disk["cmd"].v => Reported("cmd", beat.task.v))'
    <3>1. SUFFICES ASSUME beat' = beat, beat.at = "finish", beat.task.v = disk'["cmd"].v
                   PROVE  Reported("cmd", beat.task.v)'
      BY <1>4, BeatReports DEF Reported
    <3>2. CASE disk'["cmd"].v = disk["cmd"].v
      BY <1>1, <1>2, <3>1, <3>2 DEF RemovesReported
    <3>3. CASE disk'["cmd"].v # disk["cmd"].v
      <4>1. beat.task.v # 0 /\ beat.task.v <= proposed["cmd"] /\ beat.task.v \in Nat /\ proposed["cmd"] \in Nat
        BY <1>1, <3>1 DEF VersionsGrow, SchedTypes
      <4>2. disk'["cmd"].v # 0 /\ ~ (disk'["cmd"].v > proposed["cmd"])
        BY <3>1, <4>1
      <4>3. beat'.at = "finish" /\ beat'.at # Waiting.at
        BY <3>1, RecordIsTyped
      <4> QED
        BY <1>1, <1>4, <3>1, <3>3, <4>2, <4>3, VersionMoves
    <3> QED
      BY <3>2, <3>3
  <2> QED
    BY <2>1, <2>2, <2>3 DEF RemovesReported
<1> QED
  BY <1>3, <1>4

LEMMA CommandStep == CommandInv /\ [SchedNext]_schedVars => CommandInv'
<1> SUFFICES ASSUME CommandInv, [SchedNext]_schedVars PROVE CommandInv'
  OBVIOUS
<1>1. SchedTypes'
  BY SchedTypeStep DEF CommandInv
<1> QED
  BY <1>1, VersionStep, FourPartsStep, ReportedStep DEF CommandInv, FourParts

\* What the person approved leaves the disk only when the person cancels it or
\* after its end, or its failed start, was reported, however the main loop, the
\* monitor (chat/schedule.rs fire_due, plan_tick) and the start thread interleave.
THEOREM NoneForgotten == SchedSpec => NotForgotten
<1>1. SchedInit => CommandInv
  <2> SUFFICES ASSUME SchedInit PROVE CommandInv
    OBVIOUS
  <2>1. /\ starters = {} /\ beat.at = "rest" /\ cancelling.at = "none"
        /\ \A id \in Ids : disk[id] = NoTask /\ proposed[id] = 0
    BY RecordIsTyped DEF SchedInit
  <2>2. "cmd" \in Ids
    BY DEF Ids
  <2> QED
    BY <2>1, <2>2, SchedInitTypes, RecordIsTyped DEF CommandInv, VersionsGrow, FiresAlone, StopsItsOwn, RunsWatched,
         ReadsRunning, RemovesReported, Stopping
<1>2. CommandInv /\ [SchedNext]_schedVars =>
        [\A id \in Ids :
           Armed(id) /\ disk'[id].v # disk[id].v =>
             \/ <<id, disk[id].v>> \in over
             \/ cancelling.at = "remove" /\ cancelling.id = id
             \/ Stale(id)]_schedVars
  <2>1. SUFFICES ASSUME CommandInv, SchedNext, NEW id \in Ids, Armed(id), disk'[id].v # disk[id].v,
                        ~ (cancelling.at = "remove" /\ cancelling.id = id), ~ Stale(id)
                 PROVE  <<id, disk[id].v>> \in over
    OBVIOUS
  <2>2. SchedTypes /\ RemovesReported
    BY <2>1 DEF CommandInv
  <2>3. beat.at # "rest" /\ beat.id = id => beat.task.v = disk[id].v
    BY <2>1 DEF Stale
  <2>4. id = "wrk" => \A s \in starters : s.v = disk["wrk"].v
    BY <2>1 DEF Stale
  <2>5. \/ beat.at \in {"finish", "remove"} /\ beat.id = id
        \/ \E s \in starters : s.at = "drop" /\ id = "wrk"
    <3>1. ~ (beat.at \in {"mark", "start"} /\ beat.id = id /\ disk'[id].v = beat.task.v)
      BY <2>1, <2>3
    <3> QED
      BY <2>1, <2>2, <3>1, VersionMoves DEF Armed
  <2>6. CASE beat.at = "finish" /\ beat.id = id
    BY <2>2, <2>3, <2>6, SchedShapes DEF RemovesReported, Reported
  <2>7. CASE beat.at = "remove" /\ beat.id = id
    BY <2>2, <2>3, <2>7, SchedShapes DEF RemovesReported, Reported
  <2>8. CASE \E s \in starters : s.at = "drop" /\ id = "wrk"
    BY <2>2, <2>4, <2>8 DEF RemovesReported, Reported
  <2> QED
    BY <2>5, <2>6, <2>7, <2>8
<1> QED
  BY <1>1, <1>2, CommandStep, PTL DEF SchedSpec, NotForgotten

(***************************************************************************)
(* The calls that spawn and close a worker.                                *)
(***************************************************************************)
Plans == [tree : BOOLEAN, force : BOOLEAN, branch : BOOLEAN, headless : BOOLEAN]
Places == {"none", "looked", "prepared", "waiting", "failed", "rolling", "dropping",
           "stopping", "closing", "removing", "deleting", "clearing", "stopped"}
Calls == [at : Places, abandon : BOOLEAN, late : BOOLEAN, disturbed : BOOLEAN,
          newTree : BOOLEAN, newBranch : BOOLEAN, plan : Plans]
Repos == [dir : {"none", "clean", "dirty"}, registered : BOOLEAN, branch : BOOLEAN, unmerged : BOOLEAN]

CallTypes == repo \in Repos /\ call \in Calls

\* Unmerged commits are on the branch.
CommitsAreOnBranch == repo.unmerged => repo.branch

Rolling == call.at \in {"rolling", "dropping"}
Closing == call.at \in {"stopping", "closing", "removing", "deleting"}
\* A call that counted knows what is there, unless the agent worked meanwhile.
PlansAreMade == Rolling \/ Closing => call.plan # NoSteps
RollsBackNothing ==
  Rolling => /\ ~ call.plan.force
             /\ call.plan.branch /\ ~ call.late => ~ repo.unmerged
             /\ call.at = "dropping" => call.plan.branch
ClosesMerged ==
  Closing /\ ~ call.abandon => ~ call.plan.force /\ (~ call.late => ~ repo.unmerged)
\* The git steps of a close are possible when their turn comes.
StepsArePossible ==
  /\ Closing => (call.plan.branch => repo.branch) /\ (~ call.plan.tree => ~ repo.registered)
  /\ call.at = "deleting" => ~ repo.registered
  /\ Closing /\ call.at # "deleting" /\ call.plan.tree /\ ~ call.late /\ ~ call.disturbed =>
       repo.registered /\ (repo.dir = "dirty" => call.plan.force)

CallInv ==
  /\ CallTypes /\ CommitsAreOnBranch /\ PlansAreMade /\ RollsBackNothing /\ ClosesMerged
  /\ StepsArePossible /\ CloseCompletes

\* The records that the calls and git make.
LEMMA CallsAreTyped ==
  ASSUME CallTypes
  PROVE  /\ NoCall \in Calls /\ NoCall.at = "none" /\ NoSteps \in Plans
         /\ Pruned \in Repos /\ Pruned.registered = (repo.dir # "none") /\ Pruned.dir = repo.dir
         /\ Pruned.branch = repo.branch /\ Pruned.unmerged = repo.unmerged
         /\ WorktreeGone \in Repos /\ WorktreeGone.dir = "none" /\ ~ WorktreeGone.registered
         /\ WorktreeGone.branch = repo.branch /\ WorktreeGone.unmerged = repo.unmerged
         /\ BranchGone \in Repos /\ BranchGone.dir = repo.dir /\ BranchGone.registered = repo.registered
         /\ ~ BranchGone.branch /\ ~ BranchGone.unmerged
         /\ ClosePlan \in Plans /\ RollbackPlan \in Plans /\ ~ RollbackPlan.force
         /\ RollbackPlan.branch => ~ repo.unmerged
<1>1. NoSteps \in Plans
  BY DEF NoSteps, Plans
<1>2. NoCall \in Calls /\ NoCall.at = "none"
  BY <1>1 DEF NoCall, Calls, Places
<1>3. /\ Pruned \in Repos /\ Pruned.registered = (repo.dir # "none") /\ Pruned.dir = repo.dir
      /\ Pruned.branch = repo.branch /\ Pruned.unmerged = repo.unmerged
  BY DEF CallTypes, Pruned, Repos
<1>4. /\ WorktreeGone \in Repos /\ WorktreeGone.dir = "none" /\ ~ WorktreeGone.registered
      /\ WorktreeGone.branch = repo.branch /\ WorktreeGone.unmerged = repo.unmerged
  BY DEF CallTypes, WorktreeGone, Repos
<1>5. /\ BranchGone \in Repos /\ BranchGone.dir = repo.dir /\ BranchGone.registered = repo.registered
      /\ ~ BranchGone.branch /\ ~ BranchGone.unmerged
  BY DEF CallTypes, BranchGone, Repos
<1>6. ClosePlan \in Plans
  <2>1. repo.branch \in BOOLEAN
    BY DEF CallTypes, Repos
  <2> QED
    BY <2>1 DEF ClosePlan, Plans
<1>7. RollbackPlan \in Plans /\ ~ RollbackPlan.force /\ (RollbackPlan.branch => ~ repo.unmerged)
  <2>1. call.newTree \in BOOLEAN /\ call.newBranch \in BOOLEAN /\ repo.unmerged \in BOOLEAN
    BY DEF CallTypes, Calls, Repos
  <2>2. \A t, b \in BOOLEAN :
          LET p == [NoSteps EXCEPT !.tree = t, !.branch = b]
          IN  p \in Plans /\ p.force = FALSE /\ p.branch = b
    BY DEF NoSteps, Plans
  <2> DEFINE t == call.newTree /\ signs.owner = "none"
             b == t /\ call.newBranch /\ ~ repo.unmerged
  <2>3. RollbackPlan = [NoSteps EXCEPT !.tree = t, !.branch = b]
    BY DEF RollbackPlan
  <2>4. t \in BOOLEAN /\ b \in BOOLEAN /\ (b => ~ repo.unmerged)
    BY <2>1
  <2> HIDE DEF t, b
  <2> QED
    BY <2>2, <2>3, <2>4
<1> QED
  BY <1>1, <1>2, <1>3, <1>4, <1>5, <1>6, <1>7

\* A call that moves on is a call, and counts for what it did.
LEMMA GoesTo ==
  ASSUME CallTypes, NEW place \in Places, GoTo(place)
  PROVE  /\ call' \in Calls /\ call'.at = place
         /\ call'.abandon = call.abandon /\ call'.late = call.late
         /\ call'.disturbed = call.disturbed /\ call'.plan = call.plan
  BY DEF CallTypes, GoTo, Calls

\* A call that ends, or has made no plan yet, has nothing to lose.
LEMMA NothingPlanned ==
  ASSUME CallInv, repo' \in Repos, repo'.unmerged => repo'.branch,
         call' \in Calls, call'.at \in {"none", "looked", "prepared", "waiting", "failed", "clearing"}
  PROVE  CallInv'
  BY DEF CallInv, CallTypes, CommitsAreOnBranch, PlansAreMade, RollsBackNothing, ClosesMerged,
     StepsArePossible, CloseCompletes, Rolling, Closing

\* Spawning.
LEMMA SpawnSafe ==
  ASSUME CallInv,
         SpawnLook \/ EnsureWorktree \/ RequestSpawn \/ AwaitSpawn \/ PlanRollback \/ RollBackTree
         \/ RollBackBranch
  PROVE  CallInv'
<1> USE CallsAreTyped, GoesTo
<1>1. CallTypes /\ CommitsAreOnBranch /\ repo \in Repos /\ call \in Calls
  BY DEF CallInv, CallTypes
<1>2. CASE SpawnLook
  <2>1. call' \in Calls /\ call'.at = "looked"
    <3>1. \A t, b \in BOOLEAN :
            LET c == [NoCall EXCEPT !.at = "looked", !.newTree = t, !.newBranch = b]
            IN  c \in Calls /\ c.at = "looked"
      <4>1. NoCall \in Calls /\ "looked" \in Places
        BY <1>1 DEF Places
      <4> QED
        BY ONLY <4>1 DEF Calls
    <3> DEFINE t == repo.dir = "none"
               b == ~ repo.branch
    <3>2. call' = [NoCall EXCEPT !.at = "looked", !.newTree = t, !.newBranch = b]
      BY <1>2 DEF SpawnLook
    <3>3. t \in BOOLEAN /\ b \in BOOLEAN
      OBVIOUS
    <3> HIDE DEF t, b
    <3> QED
      BY <3>1, <3>2, <3>3
  <2> QED
    BY <1>1, <1>2, <2>1, NothingPlanned DEF SpawnLook, CommitsAreOnBranch
<1>3. CASE EnsureWorktree
  <2>1. CASE CallEnds /\ UNCHANGED repo
    BY <1>1, <2>1, NothingPlanned DEF CallEnds, CommitsAreOnBranch
  <2>2. CASE /\ repo' = [repo EXCEPT !.dir = IF @ = "none" THEN "clean" ELSE @,
                                     !.registered = TRUE, !.branch = TRUE]
             /\ GoTo("prepared")
    <3>1. repo' \in Repos /\ repo'.branch
      BY <1>1, <2>2 DEF Repos
    <3> QED
      BY <1>1, <2>2, <3>1, NothingPlanned DEF Places
  <2> QED
    BY <1>3, <2>1, <2>2 DEF EnsureWorktree
<1>4. CASE RequestSpawn \/ AwaitSpawn
  <2>1. repo' = repo /\ (CallEnds \/ GoTo("waiting") \/ GoTo("failed"))
    BY <1>4 DEF RequestSpawn, AwaitSpawn
  <2> QED
    BY <1>1, <2>1, NothingPlanned DEF CallEnds, CommitsAreOnBranch, Places
<1>5. CASE PlanRollback
  <2>1. CASE CallEnds
    BY <1>1, <1>5, <2>1, NothingPlanned DEF PlanRollback, CallEnds, CommitsAreOnBranch
  <2>2. CASE RollbackPlan # NoSteps /\ call' = [NoCall EXCEPT !.at = "rolling", !.plan = RollbackPlan]
    <3>1. call' \in Calls /\ call'.at = "rolling" /\ call'.plan = RollbackPlan
      BY <1>1, <2>2 DEF Calls, Places, NoCall
    <3>2. repo' = repo
      BY <1>5 DEF PlanRollback
    <3> QED
      BY <1>1, <2>2, <3>1, <3>2 DEF CallInv, CallTypes, CommitsAreOnBranch, PlansAreMade,
         RollsBackNothing, ClosesMerged, StepsArePossible, CloseCompletes, Rolling, Closing
  <2> QED
    BY <1>5, <2>1, <2>2 DEF PlanRollback
<1>6. CASE RollBackTree
  <2>1. repo' \in {repo, WorktreeGone}
    BY <1>6 DEF RollBackTree
  <2>2. repo' \in Repos /\ repo'.branch = repo.branch /\ repo'.unmerged = repo.unmerged
    BY <1>1, <2>1
  <2>3. CASE CallEnds
    BY <1>1, <2>2, <2>3, NothingPlanned DEF CallEnds, CommitsAreOnBranch
  <2>4. CASE call.plan.branch /\ GoTo("dropping")
    <3>1. /\ call' \in Calls /\ call'.at = "dropping" /\ call'.late = call.late /\ call'.plan = call.plan
      BY <1>1, <2>4 DEF Places
    <3> QED
      BY <1>1, <1>6, <2>2, <2>4, <3>1 DEF RollBackTree, CallInv, CallTypes, CommitsAreOnBranch, PlansAreMade,
         RollsBackNothing, ClosesMerged, StepsArePossible, CloseCompletes, Rolling, Closing
  <2> QED
    BY <1>6, <2>3, <2>4 DEF RollBackTree
<1>7. CASE RollBackBranch
  BY <1>1, <1>7, NothingPlanned DEF RollBackBranch, CallEnds, CommitsAreOnBranch
<1> QED
  BY <1>2, <1>3, <1>4, <1>5, <1>6, <1>7

\* Closing.
LEMMA CloseSafe ==
  ASSUME CallInv,
         \/ \E abandon \in BOOLEAN : CloseLook(abandon)
         \/ AskHostToStop \/ AwaitClose \/ RemoveWorktree \/ DeleteBranch \/ ClearMarkers \/ CloseFails
  PROVE  CallInv'
<1> USE CallsAreTyped, GoesTo
<1>1. CallTypes /\ CommitsAreOnBranch /\ repo \in Repos /\ call \in Calls
  BY DEF CallInv, CallTypes
<1>2. ASSUME NEW abandon \in BOOLEAN, CloseLook(abandon) PROVE CallInv'
  <2>1. repo' = Pruned
    BY <1>2 DEF CloseLook
  <2>2. CASE NothingLeft
    BY <1>1, <1>2, <2>1, <2>2, NothingPlanned DEF CloseLook, CommitsAreOnBranch
  <2>3. CASE ~ NothingLeft
    <3>1. /\ abandon \/ ~ (repo.unmerged \/ repo.dir = "dirty")
          /\ call' = [NoCall EXCEPT !.at = "stopping", !.abandon = abandon, !.plan = ClosePlan]
      BY <1>2, <2>3 DEF CloseLook
    <3>2. /\ call' \in Calls /\ call'.at = "stopping" /\ call'.abandon = abandon
          /\ call'.plan = ClosePlan
      BY <1>1, <3>1 DEF Calls, Places, NoCall
    <3>3. ClosePlan # NoSteps
      BY <2>3 DEF ClosePlan, NoSteps, NothingLeft
    <3>4. /\ ClosePlan.tree = (repo.dir # "none") /\ ClosePlan.force = (repo.dir = "dirty")
          /\ ClosePlan.branch = repo.branch
      BY DEF ClosePlan
    <3> QED
      BY <1>1, <2>1, <3>1, <3>2, <3>3, <3>4 DEF CallInv, CallTypes, CommitsAreOnBranch, PlansAreMade,
         RollsBackNothing, ClosesMerged, StepsArePossible, CloseCompletes, Rolling, Closing
  <2> QED
    BY <2>2, <2>3
<1>3. ASSUME repo' = repo, NEW place \in {"closing", "removing"}, GoTo(place),
             call.at \in {"stopping", "closing"}
      PROVE  CallInv'
  <2>1. /\ call' \in Calls /\ call'.at = place
        /\ call'.abandon = call.abandon /\ call'.late = call.late
        /\ call'.disturbed = call.disturbed /\ call'.plan = call.plan
    BY <1>1, <1>3 DEF Places
  <2> QED
    BY <1>1, <1>3, <2>1 DEF CallInv, CallTypes, CommitsAreOnBranch, PlansAreMade,
         RollsBackNothing, ClosesMerged, StepsArePossible, CloseCompletes, Rolling, Closing
<1>4. ASSUME repo' = repo, call' \in Calls, call'.at = "stopped",
             call'.abandon => call'.late \/ call'.disturbed
      PROVE  CallInv'
  BY <1>1, <1>4 DEF CallInv, CallTypes, CommitsAreOnBranch, PlansAreMade,
         RollsBackNothing, ClosesMerged, StepsArePossible, CloseCompletes, Rolling, Closing
<1>5. CASE AskHostToStop
  BY <1>3, <1>5 DEF AskHostToStop
<1>6. CASE AwaitClose
  <2>1. CASE GoTo("removing")
    BY <1>3, <1>6, <2>1 DEF AwaitClose
  <2>2. CASE call' = [call EXCEPT !.at = "stopped", !.disturbed = TRUE]
    <3>1. call' \in Calls /\ call'.at = "stopped" /\ call'.disturbed
      BY <1>1, <2>2 DEF Calls, Places
    <3> QED
      BY <1>4, <1>6, <3>1 DEF AwaitClose
  <2> QED
    BY <1>6, <2>1, <2>2 DEF AwaitClose
<1>7. CASE RemoveWorktree
  <2>1. CASE call.plan.tree /\ ~ MayRemoveTree
    <3>1. GoTo("stopped") /\ repo' = repo /\ Closing /\ call.at # "deleting"
      BY <1>7, <2>1 DEF RemoveWorktree, Closing
    <3>2. call.late \/ call.disturbed
      BY <2>1, <3>1 DEF MayRemoveTree, CallInv, StepsArePossible
    <3> QED
      BY <1>1, <1>4, <3>1, <3>2 DEF Places
  <2>2. CASE ~ (call.plan.tree /\ ~ MayRemoveTree)
    <3>1. GoTo("deleting") /\ repo' = (IF call.plan.tree THEN WorktreeGone ELSE repo) /\ call.at = "removing"
      BY <1>7, <2>2 DEF RemoveWorktree
    <3>2. /\ call' \in Calls /\ call'.at = "deleting"
          /\ call'.abandon = call.abandon /\ call'.late = call.late /\ call'.plan = call.plan
      BY <1>1, <3>1 DEF Places
    <3>3. /\ repo' \in Repos /\ repo'.branch = repo.branch /\ repo'.unmerged = repo.unmerged
          /\ ~ repo'.registered
      BY <1>1, <3>1 DEF CallInv, StepsArePossible, Closing
    <3> QED
      BY <1>1, <3>1, <3>2, <3>3 DEF CallInv, CallTypes, CommitsAreOnBranch, PlansAreMade,
         RollsBackNothing, ClosesMerged, StepsArePossible, CloseCompletes, Rolling, Closing
  <2> QED
    BY <2>1, <2>2
<1>8. CASE DeleteBranch
  <2>1. ~ (call.plan.branch /\ ~ MayDeleteBranch)
    BY <1>8 DEF DeleteBranch, MayDeleteBranch, CallInv, StepsArePossible, Closing
  <2>2. GoTo("clearing") /\ repo' = (IF call.plan.branch THEN BranchGone ELSE repo)
    BY <1>8, <2>1 DEF DeleteBranch
  <2> QED
    BY <1>1, <2>2, NothingPlanned DEF Places, CommitsAreOnBranch
<1>9. CASE ClearMarkers
  BY <1>1, <1>9, NothingPlanned DEF ClearMarkers, CallEnds, CommitsAreOnBranch
<1>10. CASE CloseFails
  BY <1>1, <1>10, NothingPlanned DEF CloseFails, CallEnds, CommitsAreOnBranch
<1> QED
  BY <1>2, <1>5, <1>6, <1>7, <1>8, <1>9, <1>10

\* What the agent and the person do to the worktree is noted in the call.
LEMMA DisturbedSafe ==
  ASSUME CallInv, NEW what \in {"late", "disturbed"}, Disturb(what), repo' \in Repos,
         repo'.unmerged => repo'.branch,
         repo'.registered = repo.registered, repo'.branch = repo.branch,
         what = "late" \/ repo'.unmerged = repo.unmerged
  PROVE  CallInv'
<1>1. call \in Calls
  BY DEF CallInv, CallTypes
<1>2. CASE call.plan = NoSteps
  <2>1. call' = call /\ ~ Rolling /\ ~ Closing
    BY <1>2 DEF Disturb, CallInv, PlansAreMade
  <2> QED
    BY <2>1 DEF CallInv, CallTypes, CommitsAreOnBranch, PlansAreMade,
       RollsBackNothing, ClosesMerged, StepsArePossible, CloseCompletes, Rolling, Closing
<1>3. CASE call.plan # NoSteps
  <2>1. call' = [call EXCEPT ![what] = TRUE]
    BY <1>3 DEF Disturb
  <2>2. /\ call' \in Calls /\ call'.at = call.at /\ call'.abandon = call.abandon /\ call'.plan = call.plan
        /\ what = "late" => call'.late
        /\ what # "late" => call'.late = call.late /\ call'.disturbed
    BY <1>1, <2>1 DEF Calls
  <2>3. call'.late \/ call'.disturbed
    BY <1>1, <2>1 DEF Calls
  <2> QED
    BY <1>1, <1>3, <2>2, <2>3 DEF CallInv, CallTypes, CommitsAreOnBranch, PlansAreMade,
       RollsBackNothing, ClosesMerged, StepsArePossible, CloseCompletes, Rolling, Closing
<1> QED
  BY <1>2, <1>3

\* The parts of the invariant look at the repository and the call only.
LEMMA SameCall ==
  ASSUME CallInv, repo' = repo, call' = call
  PROVE  CallInv'
  BY DEF CallInv, CallTypes, CommitsAreOnBranch, PlansAreMade,
     RollsBackNothing, ClosesMerged, StepsArePossible, CloseCompletes, Rolling, Closing

LEMMA WorldSafe ==
  ASSUME CallInv, WorldStep
  PROVE  CallInv'
<1> USE CallsAreTyped
<1>1. CallTypes /\ CommitsAreOnBranch /\ repo \in Repos /\ call \in Calls
  BY DEF CallInv, CallTypes
<1>2. CASE ChatStarts \/ \E s \in 1..MaxSessions : AgentExits(s)
  BY <1>2, SameCall DEF ChatStarts, AgentExits
<1>3. ASSUME NEW quits \in BOOLEAN, ChatEnds(quits) PROVE CallInv'
  BY <1>1, <1>3, NothingPlanned DEF ChatEnds, CommitsAreOnBranch
<1>4. CASE AgentWorks
  <2>1. /\ repo' \in Repos /\ repo'.registered = repo.registered /\ repo'.branch = repo.branch
        /\ repo'.unmerged => repo'.branch
    BY <1>1, <1>4 DEF AgentWorks, Repos, CommitsAreOnBranch
  <2> QED
    BY <1>4, <2>1, DisturbedSafe DEF AgentWorks
<1>5. CASE PersonMerges
  <2>1. /\ repo' \in Repos /\ repo'.registered = repo.registered /\ repo'.branch = repo.branch
        /\ repo'.dir = repo.dir /\ ~ repo'.unmerged /\ call' = call
    BY <1>1, <1>5 DEF PersonMerges, Repos
  <2> QED
    BY <2>1 DEF CallInv, CallTypes, CommitsAreOnBranch, PlansAreMade,
       RollsBackNothing, ClosesMerged, StepsArePossible, CloseCompletes, Rolling, Closing
<1>6. CASE PersonRemovesTree
  <2>1. /\ repo' \in Repos /\ repo'.registered = repo.registered /\ repo'.branch = repo.branch
        /\ repo'.unmerged = repo.unmerged
    BY <1>1, <1>6 DEF PersonRemovesTree, Repos
  <2> QED
    BY <1>1, <1>6, <2>1, DisturbedSafe DEF PersonRemovesTree, CommitsAreOnBranch
<1> QED
  BY <1>2, <1>3, <1>4, <1>5, <1>6 DEF WorldStep

LEMMA HostSafe ==
  ASSUME CallInv, HostStep
  PROVE  CallInv'
<1>1. repo' = repo /\ call' = call
  BY DEF HostStep, PollClose, PollSpawn, StartWorker, AdoptSpawned, StartFails, ClaimRecorded,
     StartRecorded, AdoptRecorded
<1> QED
  BY <1>1, SameCall

LEMMA CallStepSafe ==
  ASSUME CallInv, [WorkersNext]_workerVars
  PROVE  CallInv'
<1>1. CASE WorkersNext
  <2>1. CASE CallStep
    BY <2>1, SpawnSafe, CloseSafe DEF CallStep
  <2> QED
    BY <1>1, <2>1, HostSafe, WorldSafe DEF WorkersNext
<1>2. CASE UNCHANGED workerVars
  BY <1>2, SameCall DEF workerVars
<1> QED
  BY <1>1, <1>2

LEMMA CallStarts ==
  WorkersInit => CallInv
<1> SUFFICES ASSUME WorkersInit PROVE CallInv
  OBVIOUS
<1>1. repo \in Repos /\ repo.unmerged = FALSE
  BY DEF WorkersInit, Repos
<1>2. call \in Calls /\ call.at = "none"
  BY DEF WorkersInit, NoCall, NoSteps, Calls, Plans, Places
<1> QED
  BY <1>1, <1>2 DEF CallInv, CallTypes, CommitsAreOnBranch, PlansAreMade, RollsBackNothing,
     ClosesMerged, StepsArePossible, CloseCompletes, Rolling, Closing

\* A close with abandon always gets through, unless the host does not answer or
\* the agent or the person works on the worktree meanwhile (workers/close.rs:
\* the plan is made from the state that its own prune left).
THEOREM AbandonCompletes ==
  WorkersSpec => []CloseCompletes
<1>1. CallInv => CloseCompletes
  BY DEF CallInv
<1> QED
  BY <1>1, CallStarts, CallStepSafe, PTL DEF WorkersSpec

\* Neither a failed spawn nor a close without abandon takes commits or
\* uncommitted work away, save what the agent does after the call counted
\* (rollback_plan and close_plan, and the refusals of git on a step).
THEOREM NoWorkIsLost ==
  WorkersSpec => OnlyLateWorkIsLost
<1> DEFINE Loses ==
      /\ call.at \in {"rolling", "dropping", "removing", "deleting"} /\ call'.at # call.at
      /\ \/ repo.unmerged /\ ~ repo'.branch
         \/ repo.dir = "dirty" /\ repo'.dir = "none"
<1>1. ASSUME CallInv, [WorkersNext]_workerVars, Loses, ~ call.abandon, ~ call.late
      PROVE  FALSE
  <2> USE <1>1, CallsAreTyped
  <2>1. CallTypes /\ CommitsAreOnBranch /\ repo \in Repos /\ call \in Calls
    BY DEF CallInv, CallTypes
  <2>2. /\ Rolling => ~ call.plan.force /\ (call.plan.branch => ~ repo.unmerged)
        /\ call.at = "dropping" => call.plan.branch
        /\ Closing => ~ call.plan.force /\ ~ repo.unmerged
    BY DEF CallInv, RollsBackNothing, ClosesMerged, Rolling, Closing
  <2>3. repo.unmerged => repo.branch
    BY <2>1 DEF CommitsAreOnBranch
  <2>4. CASE RollBackTree
    BY <2>1, <2>2, <2>3, <2>4 DEF RollBackTree, MayRemoveTree, Rolling
  <2>5. CASE RollBackBranch
    BY <2>1, <2>2, <2>3, <2>5 DEF RollBackBranch, Rolling
  <2>6. CASE RemoveWorktree
    BY <2>1, <2>2, <2>3, <2>6 DEF RemoveWorktree, MayRemoveTree, Closing
  <2>7. CASE DeleteBranch
    BY <2>1, <2>2, <2>3, <2>7 DEF DeleteBranch, Closing
  <2>8. CASE \E quits \in BOOLEAN : ChatEnds(quits)
    BY <2>3, <2>8 DEF ChatEnds
  <2>9. CASE AgentWorks \/ PersonRemovesTree
    <3>1. call' = call \/ \E what \in {"late", "disturbed"} : call' = [call EXCEPT ![what] = TRUE]
      BY <2>9 DEF AgentWorks, PersonRemovesTree, Disturb
    <3>2. call'.at = call.at
      BY <2>1, <3>1 DEF Calls
    <3> QED
      BY <3>2
  <2>10. CASE HostStep
    BY <2>10 DEF HostStep, PollClose, PollSpawn, StartWorker, AdoptSpawned, StartFails, ClaimRecorded,
       StartRecorded, AdoptRecorded
  <2>11. CASE ChatStarts \/ (\E s \in 1..MaxSessions : AgentExits(s)) \/ PersonMerges
    BY <2>11 DEF ChatStarts, AgentExits, PersonMerges
  <2>12. CASE SpawnLook \/ EnsureWorktree \/ RequestSpawn \/ AwaitSpawn \/ PlanRollback \/ AskHostToStop
              \/ AwaitClose \/ ClearMarkers \/ CloseFails \/ \E abandon \in BOOLEAN : CloseLook(abandon)
    BY <2>12, <2>1 DEF SpawnLook, EnsureWorktree, RequestSpawn, AwaitSpawn, PlanRollback, AskHostToStop,
       AwaitClose, ClearMarkers, CloseFails, CloseLook
  <2>13. CASE UNCHANGED workerVars
    BY <2>13 DEF workerVars
  <2> QED
    BY <2>4, <2>5, <2>6, <2>7, <2>8, <2>9, <2>10, <2>11, <2>12, <2>13 DEF WorkersNext, CallStep, WorldStep
<1>2. CallInv /\ [WorkersNext]_workerVars => (Loses => call.abandon \/ call.late)
  BY <1>1
<1>3. CallInv /\ [WorkersNext]_workerVars =>
        [Loses => call.abandon \/ call.late]_workerVars
  BY <1>2
<1> QED
  BY <1>3, CallStarts, CallStepSafe, PTL DEF WorkersSpec, OnlyLateWorkIsLost
=============================================================================
