-------------------------------- MODULE Inbox --------------------------------
(***************************************************************************)
(* Main's inbox: how a report gets from the process that posts it to the   *)
(* log of the chat that reads it (crates/ralph/src/worker_mcp.rs,          *)
(* crates/core/src/inbox.rs, crates/ralph/src/chat/hold.rs).               *)
(*                                                                         *)
(* A poster, in any process, renames a file into <store>/inbox. The chat   *)
(* moves the files into its ledger <store>/inbox.json, in Inbox::sync,     *)
(* under a mutex: load the ledger, read the files, act, save the ledger,   *)
(* remove the files. Two of its threads sync: the monitor peeks twice a    *)
(* second, the main loop lists, drains, drops and holds.                   *)
(*                                                                         *)
(* A report is a number, the order of its time stamp: inbox_file_name      *)
(* starts with it and Inbox::pending sorts by it.                          *)
(***************************************************************************)
EXTENDS Naturals, SequencesExt

CONSTANTS
  Reports,    \* the reports that may be posted: numbers in stamp order
  MaxCrashes  \* bound: how often the chat dies and is started again

ASSUME InboxAssumption == Reports \subseteq Nat /\ MaxCrashes \in Nat

VARIABLES
  reported,   \* every report posted so far
  reportFiles,    \* the report files in <store>/inbox
  ledger,   \* <store>/inbox.json
  op,       \* the Inbox::sync that holds the mutex
  main,     \* the main loop of the chat
  logged,   \* reports sent to main: their `worker` entries in log.jsonl
  dropLog,  \* reports in the drop log
  crashes

inboxVars == <<reported, reportFiles, ledger, op, main, logged, dropLog, crashes>>

NoOp == [by |-> "none", act |-> "peek", at |-> "loaded", snap |-> {},
         mem |-> <<>>, got |-> <<>>, changed |-> FALSE]
Prompt == [at |-> "prompt", hand |-> <<>>, filter |-> {}, pos |-> 0]

InboxInit ==
  /\ reported = {} /\ reportFiles = {} /\ ledger = <<>>
  /\ op = NoOp /\ main = Prompt
  /\ logged = <<>> /\ dropLog = {} /\ crashes = 0

\* Inbox::pending: reports in the order of their stamps.
ByStamp(S) ==
  LET ranks == 1..Cardinality(S)
  IN  CHOOSE s \in [ranks -> S] : \A i, j \in ranks : i < j => s[i] < s[j]

\* FAULT: a file the ledger already holds is ingested again.
IngestAll(l, arrivals) == l \o ByStamp(arrivals)

\* Ledger::ingest: append the arrivals, oldest first, but none twice.
Ingest(l, arrivals) == l \o ByStamp(arrivals \ ToSet(l))

\* Ledger::take: all the reports (0), or the one at a position.
Taken(l, sel) ==
  IF sel = 0 THEN l ELSE IF sel \in DOMAIN l THEN <<l[sel]>> ELSE <<>>
Rest(l, sel) ==
  IF sel = 0 THEN <<>> ELSE IF sel \in DOMAIN l THEN RemoveAt(l, sel) ELSE l

\* Inbox::post renames a file that is complete into the folder.
Post(r) ==
  /\ r \notin reported
  /\ reported' = reported \cup {r} /\ reportFiles' = reportFiles \cup {r}
  /\ UNCHANGED <<ledger, op, main, logged, dropLog, crashes>>

\* Inbox::sync up to the act: load, list and read the files, ingest, act.
Begin(who, act, sel) ==
  /\ op.by = "none"
  /\ LET mem == Ingest(ledger, reportFiles)
         takes == act \in {"drain", "drop"}
     IN  op' = [by |-> who, act |-> act, at |-> "loaded", snap |-> reportFiles,
                mem |-> IF takes THEN Rest(mem, sel) ELSE mem,
                got |-> IF takes THEN Taken(mem, sel) ELSE <<>>,
                changed |-> takes /\ Taken(mem, sel) # <<>>]

\* FAULT: the monitor peeks only while the prompt shows.
PeekAtPrompt ==
  /\ main.at = "prompt" /\ Begin("monitor", "peek", 0)
  /\ UNCHANGED <<reported, reportFiles, ledger, main, logged, dropLog, crashes>>

\* Inbox::peek on the monitor thread, twice a second.
MonitorPeek ==
  /\ Begin("monitor", "peek", 0)
  /\ UNCHANGED <<reported, reportFiles, ledger, main, logged, dropLog, crashes>>

\* /inbox, /inbox next, /inbox N: Inbox::drain.
MainDrain(sel) ==
  /\ main.at = "prompt" /\ main' = [main EXCEPT !.at = "syncing"]
  /\ Begin("main", "drain", sel)
  /\ UNCHANGED <<reported, reportFiles, ledger, logged, dropLog, crashes>>

\* /inbox drop N: the drop log is written inside the act, before the ledger.
MainDrop(sel) ==
  /\ main.at = "prompt" /\ main' = [main EXCEPT !.at = "syncing"]
  /\ Begin("main", "drop", sel)
  /\ dropLog' = dropLog \cup ToSet(op'.got)
  /\ UNCHANGED <<reported, reportFiles, ledger, logged, crashes>>

\* /hold with a filter: the reports of the sources it names.
StartHold(filter) ==
  /\ main.at = "prompt"
  /\ main' = [main EXCEPT !.at = "holding", !.filter = filter]
  /\ UNCHANGED <<reported, reportFiles, ledger, op, logged, dropLog, crashes>>

\* hold::matching_item: one look at the ledger.
HoldLook ==
  /\ main.at = "holding" /\ main' = [main EXCEPT !.at = "looking"]
  /\ Begin("main", "look", 0)
  /\ UNCHANGED <<reported, reportFiles, ledger, logged, dropLog, crashes>>

\* Held::Left: a key or Ctrl-C ends the hold.
LeaveHold ==
  /\ main.at = "holding" /\ main' = Prompt
  /\ UNCHANGED <<reported, reportFiles, ledger, op, logged, dropLog, crashes>>

\* Held::Item: the next route drains the position that the look found.
DrainHeld ==
  /\ main.at = "matched" /\ main' = [main EXCEPT !.at = "syncing"]
  /\ Begin("main", "drain", main.pos)
  /\ UNCHANGED <<reported, reportFiles, ledger, logged, dropLog, crashes>>

\* FAULT: a sync that only ingests does not save the ledger.
SaveChanged ==
  /\ op.by # "none" /\ op.at = "loaded"
  /\ ledger' = IF op.changed THEN op.mem ELSE ledger
  /\ op' = [op EXCEPT !.at = "saved"]
  /\ UNCHANGED <<reported, reportFiles, main, logged, dropLog, crashes>>

\* Inbox::sync: the ledger is saved by a rename when anything is new.
Save ==
  /\ op.by # "none" /\ op.at = "loaded"
  /\ ledger' = IF op.snap # {} \/ op.changed THEN op.mem ELSE ledger
  /\ op' = [op EXCEPT !.at = "saved"]
  /\ UNCHANGED <<reported, reportFiles, main, logged, dropLog, crashes>>

\* FAULT: the folder is emptied, not only of the files that were read.
RemoveEveryFile ==
  /\ op.by # "none" /\ op.at = "saved" /\ op.snap # {}
  /\ reportFiles' = {} /\ op' = [op EXCEPT !.snap = {}]
  /\ UNCHANGED <<reported, ledger, main, logged, dropLog, crashes>>

\* Inbox::sync: then the files that were read go, one at a time.
RemoveFile ==
  /\ op.by # "none" /\ op.at = "saved" /\ op.snap # {}
  /\ LET f == Min(op.snap)
     IN  reportFiles' = reportFiles \ {f} /\ op' = [op EXCEPT !.snap = @ \ {f}]
  /\ UNCHANGED <<reported, ledger, main, logged, dropLog, crashes>>

\* FAULT: the hold matches the newest report that fits its filter.
FirstMatchLast(l, filter) ==
  LET fits == {i \in DOMAIN l : l[i] \in filter}
  IN  IF fits = {} THEN 0 ELSE Max(fits) + 1

\* chat_hold::first_match, 0 when no entry fits.
FirstMatch(l, filter) ==
  LET fits == {i \in DOMAIN l : l[i] \in filter}
  IN  IF fits = {} THEN 0 ELSE Min(fits)

\* What the main loop does with the value of its sync.
Return(l) ==
  CASE op.act = "drain" -> [Prompt EXCEPT !.at = "logging", !.hand = op.got,
                                          !.filter = main.filter]
    [] op.act = "drop" -> Prompt
    [] OTHER -> LET pos == FirstMatch(l, main.filter)
                IN  IF pos = 0 THEN [main EXCEPT !.at = "holding"]
                    ELSE [main EXCEPT !.at = "matched", !.pos = pos]

EndSync ==
  /\ op.by # "none" /\ op.at = "saved" /\ op.snap = {}
  /\ op' = NoOp
  /\ main' = IF op.by = "main" THEN Return(op.mem) ELSE main
  /\ UNCHANGED <<reported, reportFiles, ledger, logged, dropLog, crashes>>

\* Turn::append_logged: one log entry per report, before the turn runs.
LogReport ==
  /\ main.at = "logging" /\ main.hand # <<>>
  /\ logged' = Append(logged, Head(main.hand))
  /\ main' = [main EXCEPT !.hand = Tail(@)]
  /\ UNCHANGED <<reported, reportFiles, ledger, op, dropLog, crashes>>

\* The turn ends and the prompt is back.
EndTurn ==
  /\ main.at = "logging" /\ main.hand = <<>> /\ main' = Prompt
  /\ UNCHANGED <<reported, reportFiles, ledger, op, logged, dropLog, crashes>>

\* The chat is killed, or an error of its main loop ends it, and it is
\* started again: what its threads held in memory is gone.
Crash ==
  /\ crashes < MaxCrashes /\ crashes' = crashes + 1
  /\ op' = NoOp /\ main' = Prompt
  /\ UNCHANGED <<reported, reportFiles, ledger, logged, dropLog>>

Positions == 1..Len(Ingest(ledger, reportFiles))

SyncStep == Save \/ RemoveFile \/ EndSync
MainStep ==
  \/ \E sel \in {0} \cup Positions : MainDrain(sel)
  \/ \E sel \in Positions : MainDrop(sel)
  \/ (\E filter \in SUBSET Reports : StartHold(filter))
  \/ HoldLook \/ LeaveHold \/ DrainHeld \/ LogReport \/ EndTurn
InboxNext ==
  \/ \E r \in Reports : Post(r)
  \/ MonitorPeek \/ MainStep \/ SyncStep \/ Crash

InboxSpec == InboxInit /\ [][InboxNext]_inboxVars

\* The monitor thread loops for ever, and a sync that began runs to its end.
InboxFairSpec == InboxSpec /\ WF_inboxVars(MonitorPeek) /\ WF_inboxVars(SyncStep)
-----------------------------------------------------------------------------
InHand == ToSet(main.hand) \cup
          (IF op.by = "main" /\ op.act = "drain" /\ op.at = "saved" THEN ToSet(op.got) ELSE {})
Queued == reportFiles \cup ToSet(ledger)

InboxTypeOK ==
  /\ reported \subseteq Reports /\ reportFiles \subseteq Reports /\ dropLog \subseteq Reports
  /\ ledger \in Seq(Reports) /\ logged \in Seq(Reports)
  /\ op \in [by : {"none", "monitor", "main"}, act : {"peek", "drain", "drop", "look"},
             at : {"loaded", "saved"}, snap : SUBSET Reports, mem : Seq(Reports),
             got : Seq(Reports), changed : BOOLEAN]
  /\ main \in [at : {"prompt", "syncing", "holding", "looking", "matched", "logging"},
               hand : Seq(Reports), filter : SUBSET Reports, pos : Nat]
  /\ crashes \in 0..MaxCrashes

\* A report leaves the queue only when it is sent to main or dropped
\* (docs/context/ralph-chat.md:151), and none is lost on its way.  A crash
\* between the drain and the log entry does lose one: drain saves the ledger
\* without it first.
LostOnlyByCrash ==
  crashes = 0 => reported \subseteq Queued \cup InHand \cup ToSet(logged) \cup dropLog

\* A crash between the save and the removal of the files, or an unlucky
\* post, never sends a report to main twice, nor leaves it queued once sent.
SentOnce == IsInjective(logged) /\ Queued \cap ToSet(logged) = {}

\* No step, a crash included, takes a queued report away other than into the
\* hand of the main loop or, with a line in the drop log, out of the queue.
QueueIsDurable ==
  [][Queued \subseteq Queued' \cup InHand' \cup dropLog']_inboxVars

\* /hold sends one report, and one its filter matches, though the look and the
\* drain are two syncs and the monitor moves files in between.
HoldSendsAMatch ==
  [][main.at = "syncing" /\ main.filter # {} /\ main'.at = "logging" =>
       Len(main'.hand) = 1 /\ ToSet(main'.hand) \subseteq main.filter]_inboxVars

\* Every report that is posted reaches the ledger, without being asked for.
ReportsArrive == \A r \in Reports : r \in reported ~> r \notin reportFiles
=============================================================================
