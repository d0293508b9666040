------------------------------ MODULE Schedules ------------------------------
(***************************************************************************)
(* The tasks the person approved to run later (chat/schedule.rs,           *)
(* chat/schedule_worker.rs, schedule.rs, schedule_store.rs): one command   *)
(* and one worker, each proposed, armed, started and ended under one id.   *)
(* The record of a task is a file that three threads rewrite from what     *)
(* they read before: the main loop (approve, cancel, restore), the monitor *)
(* (start and end) and the thread that starts a worker.                    *)
(***************************************************************************)
EXTENDS Naturals

CONSTANTS
  MaxProposals,  \* bound: proposals of the two ids together
  MaxRestarts    \* bound: chats after the first

ASSUME SchedulesAssumption == {MaxProposals, MaxRestarts} \subseteq Nat

VARIABLES
  disk,       \* [id -> the record, or NoTask]
  proposed,   \* proposals of each id so far: the version of the newest
  watch,      \* the version whose watch is in the registry, or 0
  harness,    \* the worker's harness, or NoHarness
  told,       \* what the worker reported since its start
  beat,       \* what the monitor is doing
  starters,   \* threads that start a worker
  cancelling, \* what the main loop is cancelling
  shutting,   \* Watches.closing
  restarts,
  over,       \* <<id, version>> whose end or failed start was reported
  adrift      \* the worker was lost in a way the code does not handle

monitorVars == <<beat, starters, over, adrift>>
mainVars == <<cancelling, shutting, restarts, proposed>>
runVars == <<watch, harness, told>>
schedVars == <<disk, runVars, monitorVars, mainVars>>

Ids == {"cmd", "wrk"}
Record(version, status) == [v |-> version, status |-> status]
NoTask == Record(0, "none")
NoHarness == [v |-> 0, left |-> FALSE]
Waiting == [at |-> "rest"]
NoCancel == [at |-> "none"]

SchedInit ==
  /\ disk = [id \in Ids |-> NoTask] /\ proposed = [id \in Ids |-> 0]
  /\ watch = 0 /\ harness = NoHarness /\ told = "none" /\ beat = Waiting
  /\ starters = {} /\ cancelling = NoCancel /\ shutting = FALSE /\ restarts = 0
  /\ over = {} /\ adrift = FALSE

Put(id, record) == disk' = [disk EXCEPT ![id] = record]
Armed(id) == disk[id].status \in {"pending", "running"}

\* A start, an end or a cancel of the worker has work left to do.
InFlight ==
  \/ starters # {}
  \/ cancelling.at # "none" /\ cancelling.id = "wrk"
  \/ beat.at # "rest" /\ beat.id = "wrk"

(***************************************************************************)
(* The tool, the approval and the cancel.                                  *)
(***************************************************************************)
\* propose_schedule: a taken id is refused.
Propose(id) ==
  /\ disk[id] = NoTask /\ proposed["cmd"] + proposed["wrk"] < MaxProposals
  /\ proposed' = [proposed EXCEPT ![id] = @ + 1] /\ Put(id, Record(proposed[id] + 1, "proposed"))
  /\ adrift' = (adrift \/ (id = "wrk" /\ InFlight))
  /\ UNCHANGED <<runVars, beat, starters, over, cancelling, shutting, restarts>>

\* approve_with: yes arms the task, anything else drops it.
Approve(id) ==
  /\ cancelling = NoCancel /\ disk[id].status = "proposed"
  /\ \/ Put(id, Record(disk[id].v, "pending"))
     \/ Put(id, NoTask)
  /\ UNCHANGED <<runVars, monitorVars, mainVars>>

CancelLoad(id) ==
  /\ cancelling = NoCancel /\ ~ shutting /\ disk[id] # NoTask
  /\ cancelling' = [at |-> "remove", id |-> id, was |-> disk[id].status]
  /\ UNCHANGED <<disk, runVars, monitorVars, proposed, shutting, restarts>>

\* A task that started since it was read is removed and not stopped.
CancelRemove ==
  /\ cancelling.at = "remove" /\ Put(cancelling.id, NoTask)
  /\ adrift' = (adrift \/ (cancelling.id = "wrk" /\ cancelling.was = "pending"
                          /\ disk["wrk"].status = "running"))
  /\ cancelling' = IF cancelling.was = "running" THEN [at |-> "stop", id |-> cancelling.id]
                   ELSE NoCancel
  /\ UNCHANGED <<runVars, beat, starters, over, proposed, shutting, restarts>>

CancelStop ==
  /\ cancelling.at = "stop" /\ cancelling' = NoCancel
  /\ watch' = (IF cancelling.id = "cmd" THEN 0 ELSE watch)
  /\ harness' = (IF cancelling.id = "wrk" THEN NoHarness ELSE harness)
  /\ UNCHANGED <<disk, told, monitorVars, proposed, shutting, restarts>>

(***************************************************************************)
(* fire_due: commands.                                                     *)
(***************************************************************************)
CmdLoad ==
  /\ beat = Waiting /\ disk["cmd"] # NoTask
  /\ beat' = [at |-> "list", id |-> "cmd", task |-> disk["cmd"]]
  /\ UNCHANGED <<disk, runVars, starters, over, adrift, mainVars>>

CmdList ==
  /\ beat.at = "list"
  /\ beat' = [at |-> "plan", id |-> "cmd", task |-> beat.task, active |-> watch # 0]
  /\ UNCHANGED <<disk, runVars, starters, over, adrift, mainVars>>

CmdStep(to) == beat' = [at |-> to, id |-> "cmd", task |-> beat.task]

\* plan_tick.
CmdDecide ==
  \/ beat.task.status = "running" /\ ~ beat.active /\ CmdStep("finish")
  \/ beat.task.status = "pending" /\ CmdStep("fire")
  \/ ~ (beat.task.status = "running" /\ ~ beat.active) /\ beat' = Waiting

\* FAULT: a watch missing from the list is taken for finished at shutdown too.
CmdPlanBlind ==
  /\ beat.at = "plan" /\ CmdDecide
  /\ UNCHANGED <<disk, runVars, starters, over, adrift, mainVars>>

\* The list was read first: with closing still unset, what it misses has ended.
CmdPlan ==
  /\ beat.at = "plan"
  /\ IF shutting THEN beat' = Waiting ELSE CmdDecide
  /\ UNCHANGED <<disk, runVars, starters, over, adrift, mainVars>>

CmdFinish ==
  /\ beat.at = "finish" /\ Put("cmd", NoTask) /\ beat' = Waiting
  /\ UNCHANGED <<runVars, starters, over, adrift, mainVars>>

\* A start that fails, a duplicate id included, is reported and the task removed.
CmdFire ==
  /\ beat.at = "fire"
  /\ \/ watch = 0 /\ watch' = beat.task.v /\ CmdStep("mark") /\ UNCHANGED over
     \/ over' = over \cup {<<"cmd", beat.task.v>>} /\ CmdStep("finish") /\ UNCHANGED watch
  /\ UNCHANGED <<disk, harness, told, starters, adrift, mainVars>>

\* The record that was read is saved as running, or cannot be saved.
CmdMark ==
  /\ beat.at = "mark" /\ beat' = Waiting
  /\ \/ Put("cmd", Record(beat.task.v, "running"))
     \/ UNCHANGED disk
  /\ UNCHANGED <<runVars, starters, over, adrift, mainVars>>

\* The command ends, times out or is stopped: the watch reports and leaves the
\* registry.
WatchEnds ==
  /\ watch # 0 /\ over' = over \cup {<<"cmd", watch>>} /\ watch' = 0
  /\ UNCHANGED <<disk, harness, told, beat, starters, adrift, mainVars>>

(***************************************************************************)
(* tick_workers: workers.                                                  *)
(***************************************************************************)
\* The list of live workers is read before the list of starts.
WrkLoad ==
  /\ beat = Waiting /\ ~ shutting /\ disk["wrk"].status \in {"pending", "running"}
  /\ beat' = [at |-> "judge", id |-> "wrk", task |-> disk["wrk"], alive |-> harness # NoHarness]
  /\ UNCHANGED <<disk, runVars, starters, over, adrift, mainVars>>

WrkStep(to, why) == beat' = [at |-> to, id |-> "wrk", task |-> beat.task, why |-> why]

\* plan_worker_tick: a report ends the task, else its deadline, else a worker
\* that is neither alive nor starting a minute after its start.
WrkPlan ==
  /\ beat.at = "judge"
  /\ \/ beat.task.status = "pending" /\ WrkStep("start", "due")
     \/ beat.task.status = "running" /\ told # "none" /\ WrkStep("end", told)
     \/ beat.task.status = "running" /\ told = "none" /\ WrkStep("end", "timed out")
     \/ /\ beat.task.status = "running" /\ told = "none" /\ ~ beat.alive /\ starters = {}
        /\ WrkStep("end", "vanished")
     \/ (beat.task.status = "running" => told = "none") /\ beat' = Waiting
  /\ UNCHANGED <<disk, runVars, starters, over, adrift, mainVars>>

\* end_task: a worker that is done is closed, one that timed out is stopped,
\* one that asks is left open; the last two ends are reported.
WrkEnd ==
  /\ beat.at = "end" /\ WrkStep("remove", beat.why)
  /\ harness' = (IF beat.why \in {"done", "timed out"} THEN NoHarness ELSE harness)
  /\ over' = over \cup {<<"wrk", beat.task.v>>}
  /\ UNCHANGED <<disk, watch, told, starters, adrift, mainVars>>

\* A start that went on while the task was ended leaves its worker without a
\* record.
WrkRemove ==
  /\ beat.at = "remove" /\ Put("wrk", NoTask) /\ beat' = Waiting
  /\ harness' = (IF beat.why = "attention" /\ harness # NoHarness
                 THEN [harness EXCEPT !.left = TRUE] ELSE harness)
  /\ adrift' = (adrift \/ (beat.why # "attention" /\ harness # NoHarness))
  /\ UNCHANGED <<watch, told, starters, over, mainVars>>

\* start_task: no thread without a record that says the task runs.
WrkStart ==
  /\ beat.at = "start" /\ beat' = Waiting
  /\ \/ /\ Put("wrk", Record(beat.task.v, "running")) /\ told' = "none"
        /\ starters' = starters \cup {[v |-> beat.task.v, at |-> "check"]}
     \/ UNCHANGED <<disk, told, starters>>
  /\ UNCHANGED <<watch, harness, over, adrift, mainVars>>

(***************************************************************************)
(* The thread that starts a worker.                                        *)
(***************************************************************************)
\* is_still_running, by the id alone.
StillRunning == disk["wrk"].status = "running"
Forward(s, to) == starters' = (starters \ {s}) \cup {[s EXCEPT !.at = to]}
Leave(s) == starters' = starters \ {s}

StarterChecks(s) ==
  /\ s.at = "check"
  /\ IF StillRunning THEN Forward(s, "spawn") ELSE Leave(s)
  /\ UNCHANGED <<disk, runVars, beat, over, adrift, mainVars>>

\* Workers::spawn refuses an id that is taken.
StarterSpawns(s) ==
  /\ s.at = "spawn"
  /\ \/ harness = NoHarness /\ harness' = [v |-> s.v, left |-> FALSE] /\ Forward(s, "spawned")
     \/ Forward(s, "failed") /\ UNCHANGED harness
  /\ UNCHANGED <<disk, watch, told, beat, over, adrift, mainVars>>

\* FAULT: nobody looks whether the task was cancelled while its worker started.
NoSecondLook(s) ==
  /\ \/ s.at = "spawned" /\ Leave(s) /\ UNCHANGED over
     \/ s.at = "failed" /\ Forward(s, "drop") /\ over' = over \cup {<<"wrk", s.v>>}
  /\ UNCHANGED <<disk, runVars, beat, adrift, mainVars>>

StarterLooks(s) ==
  /\ \/ s.at = "spawned" /\ ~ StillRunning /\ Forward(s, "stop") /\ UNCHANGED over
     \/ s.at = "failed" /\ StillRunning /\ Forward(s, "drop")
        /\ over' = over \cup {<<"wrk", s.v>>}
     \/ s.at = (IF StillRunning THEN "spawned" ELSE "failed") /\ Leave(s) /\ UNCHANGED over
  /\ UNCHANGED <<disk, runVars, beat, adrift, mainVars>>

StarterStops(s) ==
  /\ s.at = "stop" /\ harness' = NoHarness /\ Leave(s)
  /\ UNCHANGED <<disk, watch, told, beat, over, adrift, mainVars>>

StarterDrops(s) ==
  /\ s.at = "drop" /\ Put("wrk", NoTask) /\ Leave(s)
  /\ UNCHANGED <<runVars, beat, over, adrift, mainVars>>

WorkerTells(what) ==
  /\ harness # NoHarness /\ told # what /\ told' = what
  /\ UNCHANGED <<disk, watch, harness, monitorVars, mainVars>>

HarnessDies ==
  /\ harness # NoHarness /\ harness' = NoHarness
  /\ UNCHANGED <<disk, watch, told, monitorVars, mainVars>>

(***************************************************************************)
(* The chat ends, in order or not, and the next one restores the tasks.    *)
(***************************************************************************)
CloseGuard ==
  /\ ~ shutting /\ cancelling = NoCancel /\ shutting' = TRUE
  /\ UNCHANGED <<disk, runVars, monitorVars, proposed, cancelling, restarts>>

KillAll ==
  /\ shutting /\ watch # 0 /\ watch' = 0
  /\ UNCHANGED <<disk, harness, told, monitorVars, mainVars>>

\* plan_restore: what was running is armed again, unless its worker lives.
Restored(id) ==
  IF disk[id].status = "running" /\ ~ (id = "wrk" /\ harness # NoHarness)
  THEN Record(disk[id].v, "pending") ELSE disk[id]

\* A report that was read and not acted on is forgotten.
NextChat ==
  /\ restarts < MaxRestarts /\ restarts' = restarts + 1
  /\ disk' = [id \in Ids |-> Restored(id)] /\ watch' = 0 /\ told' \in {told, "none"}
  /\ beat' = Waiting /\ starters' = {} /\ cancelling' = NoCancel /\ shutting' = FALSE
  /\ adrift' = (adrift \/ InFlight)
  /\ UNCHANGED <<harness, proposed, over>>

StarterNext ==
  \E s \in starters :
    \/ StarterChecks(s) \/ StarterSpawns(s) \/ StarterLooks(s) \/ StarterStops(s)
    \/ StarterDrops(s)

SchedNext ==
  \/ \E id \in Ids : Propose(id) \/ Approve(id) \/ CancelLoad(id)
  \/ CancelRemove \/ CancelStop
  \/ CmdLoad \/ CmdList \/ CmdPlan \/ CmdFinish \/ CmdFire \/ CmdMark \/ WatchEnds
  \/ WrkLoad \/ WrkPlan \/ WrkEnd \/ WrkRemove \/ WrkStart
  \/ StarterNext \/ \E what \in {"done", "attention"} : WorkerTells(what) \/ HarnessDies
  \/ CloseGuard \/ KillAll \/ NextChat

SchedSpec == SchedInit /\ [][SchedNext]_schedVars
-----------------------------------------------------------------------------
\* Somebody acts on an id whose record is a newer proposal than the one it read.
Stale(id) ==
  \/ beat.at # "rest" /\ beat.id = id /\ beat.task.v # disk[id].v
  \/ id = "wrk" /\ \E s \in starters : s.v # disk[id].v

\* What the person approved leaves the disk only when the person cancels it or
\* after its end, or its failed start, was reported: not when the chat shuts
\* its watch down, and whatever the three threads read before.
NotForgotten ==
  [][\A id \in Ids :
       Armed(id) /\ disk'[id].v # disk[id].v =>
         \/ <<id, disk[id].v>> \in over
         \/ cancelling.at = "remove" /\ cancelling.id = id
         \/ Stale(id)]_schedVars

\* A worker that was not left open for the person's answer is held by its record
\* or by a thread that will stop it, also when it is cancelled while it starts.
\* Not covered: adrift.
NoOrphanWorkers ==
  harness # NoHarness /\ ~ harness.left /\ ~ adrift => Armed("wrk") \/ InFlight
=============================================================================
