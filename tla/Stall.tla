-------------------------------- MODULE Stall --------------------------------
(***************************************************************************)
(* Auto-continue of one worker (chat/stall.rs, worker_stall.rs): the check *)
(* tick sends a worker whose turn failed one message, and alerts if that   *)
(* did not help.  All it knows is in files of the store whose times are in *)
(* seconds: the worker's activity, the mark of the last go-ahead and the   *)
(* record of the continue.  The worker, the person and the clock go on     *)
(* between any two steps of the tick, and the chat may end.                *)
(***************************************************************************)
EXTENDS Naturals

CONSTANTS
  Grace,      \* grace_secs: two check intervals
  MaxTime,    \* bound: the clock
  MaxFaults  \* bound: ends of the chat and failed stamps

ASSUME StallAssumption == {Grace, MaxTime, MaxFaults} \subseteq Nat

VARIABLES
  clock,
  activity,   \* activity/<id>: when and what, or Never
  sentAt,     \* the time of sent/<id>, or Absent
  reportAt,   \* the time of the newest report the monitor has seen, or Absent
  record,     \* auto-continued/<id>, or NoRecord
  tick,       \* what the check tick is about to do
  continues,  \* continue messages since the last go-ahead or report
  unstamped,  \* messages whose stamp failed, or whose chat ended before it
  faults

files == <<activity, sentAt, reportAt, record>>
stallVars == <<clock, files, tick, continues, unstamped, faults>>

Absent == MaxTime + 1
Never == [at |-> 0, is |-> "never"]
NoRecord == [at |-> Absent, alerted |-> FALSE]
Resting == [does |-> "rest"]
RecordOf(at) == [at |-> at, alerted |-> FALSE]

StallInit ==
  /\ clock = 0 /\ activity = Never /\ sentAt = 0 /\ reportAt = Absent
  /\ record = NoRecord /\ tick = Resting /\ continues = 0 /\ unstamped = 0 /\ faults = 0

(***************************************************************************)
(* worker_stall::stall_action on the facts that facts_of reads.            *)
(***************************************************************************)
\* reported_since_go_ahead.
HasReported == sentAt = Absent \/ (reportAt # Absent /\ reportAt >= sentAt)
GoAheadSince == record # NoRecord /\ sentAt # Absent /\ sentAt > record.at
FailedSince == activity.is = "failed" /\ (sentAt = Absent \/ activity.at >= sentAt)
WentUnanswered == activity.at > record.at \/ clock >= record.at + Grace

StallAction ==
  IF (HasReported /\ record # NoRecord) \/ GoAheadSince THEN "remove"
  ELSE IF activity.is \in {"never", "busy"} \/ HasReported THEN "rest"
  ELSE IF record = NoRecord /\ FailedSince THEN "continue"
  ELSE IF record # NoRecord /\ ~ record.alerted /\ WentUnanswered THEN "alert"
  ELSE "rest"

(***************************************************************************)
(* stall_step and what it calls.                                           *)
(***************************************************************************)
StallLook ==
  /\ tick = Resting /\ StallAction # "rest"
  /\ tick' = [does |-> StallAction, found |-> record]
  /\ UNCHANGED <<clock, files, continues, unstamped, faults>>

RemoveRecord ==
  /\ tick.does = "remove" /\ record' = NoRecord /\ tick' = Resting
  /\ UNCHANGED <<clock, activity, sentAt, reportAt, continues, unstamped, faults>>

\* auto_continue_worker: the decision must still hold.
StallConfirm ==
  /\ tick.does = "continue"
  /\ tick' = IF StallAction = "continue" THEN [does |-> "record", at |-> clock] ELSE Resting
  /\ UNCHANGED <<clock, files, continues, unstamped, faults>>

\* record_continue and gate_send: without its record no message is sent.
RecordContinue ==
  /\ tick.does = "record"
  /\ \/ record' = RecordOf(tick.at) /\ tick' = [does |-> "nudge"]
     \/ tick' = Resting /\ UNCHANGED record
  /\ UNCHANGED <<clock, activity, sentAt, reportAt, continues, unstamped, faults>>

\* Workers::nudge marks the message as sent, so it looks like a go-ahead; a
\* failed one takes the record back (after_send).
SendContinue ==
  /\ tick.does = "nudge"
  /\ \/ /\ continues' = continues + 1 /\ sentAt' \in {clock, sentAt} /\ tick' = [does |-> "stamp"]
     \/ tick' = [does |-> "remove"] /\ UNCHANGED <<continues, sentAt>>
  /\ UNCHANGED <<clock, activity, reportAt, record, unstamped, faults>>

\* FAULT: the record keeps the time from before the message.
StampsNothing ==
  /\ tick.does = "stamp" /\ tick' = Resting
  /\ UNCHANGED <<clock, files, continues, unstamped, faults>>

StampRecord ==
  /\ tick.does = "stamp" /\ tick' = Resting
  /\ \/ record' = RecordOf(clock) /\ UNCHANGED <<unstamped, faults>>
     \/ /\ faults < MaxFaults /\ faults' = faults + 1 /\ unstamped' = unstamped + 1
        /\ UNCHANGED record
  /\ UNCHANGED <<clock, activity, sentAt, reportAt, continues>>

\* alert_stalled: the item is posted and the record that was read is marked,
\* or the write fails and the next tick alerts again.
AlertStalled ==
  /\ tick.does = "alert" /\ tick' = Resting
  /\ record' \in {[tick.found EXCEPT !.alerted = TRUE], record}
  /\ UNCHANGED <<clock, activity, sentAt, reportAt, continues, unstamped, faults>>

(***************************************************************************)
(* Around the tick.                                                        *)
(***************************************************************************)
\* A reply, a /nudge, a direct line or the nudge of the check (mark_sent).
GoAhead ==
  /\ sentAt' = clock /\ continues' = 0
  /\ UNCHANGED <<clock, activity, reportAt, record, tick, unstamped, faults>>

\* The report tool takes sent/<id> away; a headless host posts without that.
WorkerReports(tool) ==
  /\ reportAt' = clock /\ continues' = 0 /\ sentAt' = (IF tool THEN Absent ELSE sentAt)
  /\ UNCHANGED <<clock, activity, record, tick, unstamped, faults>>

WorkerActs(is) ==
  /\ activity # [at |-> clock, is |-> is] /\ activity' = [at |-> clock, is |-> is]
  /\ UNCHANGED <<clock, sentAt, reportAt, record, tick, continues, unstamped, faults>>

Second ==
  /\ clock < MaxTime /\ clock' = clock + 1
  /\ UNCHANGED <<files, tick, continues, unstamped, faults>>

\* The monitor of the next chat is seeded with the reports of the log, and reads
\* the unread ones.
ChatRestarts ==
  /\ faults < MaxFaults /\ faults' = faults + 1 /\ tick' = Resting
  /\ unstamped' = (IF tick.does = "stamp" THEN unstamped + 1 ELSE unstamped)
  /\ UNCHANGED <<clock, files, continues>>

StallNext ==
  \/ StallLook \/ RemoveRecord \/ StallConfirm \/ RecordContinue \/ SendContinue
  \/ StampRecord \/ AlertStalled
  \/ GoAhead \/ \E tool \in BOOLEAN : WorkerReports(tool)
  \/ \E is \in {"busy", "idle", "failed"} : WorkerActs(is)
  \/ Second \/ ChatRestarts

StallSpec == StallInit /\ [][StallNext]_stallVars
-----------------------------------------------------------------------------
\* docs/context/ralph-chat.md: one continue for each go-ahead; the record comes
\* first, so a crash or a fast failure cannot send a second one.
ContinuedOnce == continues <= 1

\* What holds: a second one goes out only after a message whose record was not
\* stamped, whatever the times of the files are and whoever writes between two
\* steps of the tick.
ContinuedOncePerStamp == continues <= 1 + unstamped
=============================================================================
