------------------------------- MODULE SendIt -------------------------------
(***************************************************************************)
(* /send-it (chat/send_it.rs, chat_send_it.rs, chat_send_it/drive.rs): a   *)
(* plan that the agent proposes, the person approves by its hash, and the  *)
(* chat drives turn by turn.  The plan, its approval and the step of its   *)
(* last stop are in run.toml, which the main loop and the socket's thread  *)
(* write in place; progress is only in the chat.  A plan stands for its    *)
(* hash.  Writes of the file succeed unless the chat ends in between.      *)
(***************************************************************************)
EXTENDS Naturals, Sequences

CONSTANTS
  Plans,
  StepsOf,      \* the exit criteria of a plan's steps: worker, check or judge
  MaxTurns,     \* Limits.max_turns, after the plan's grants
  JudgeRounds,  \* RunPlan.judge_rounds
  MaxGoes,      \* bound: runs that are started
  MaxQuits      \* bound: ends of the chat

NoPlan == "no plan"

ASSUME SendItAssumption ==
  /\ NoPlan \notin Plans
  /\ StepsOf \in [Plans -> Seq({"worker", "check", "judge"})]
  /\ \A p \in Plans : StepsOf[p] # <<>>
  /\ {MaxTurns, JudgeRounds, MaxGoes, MaxQuits} \subseteq Nat

VARIABLES
  runFile,   \* run.toml: its content, Torn or NoFile
  screen,    \* shown_plan: the plan the last output showed
  drive,     \* Active.driving, or NotDriving
  main,      \* where the main loop is, and the file it is writing
  proposal,  \* the socket's propose_run between its check and its write
  refused, judged,   \* the slots that the socket fills
  templates, \* plans saved under a name
  met, ran, leftOver, goes, quits  \* history and bounds

history == <<templates, met, ran, leftOver, goes, quits>>
slots == <<refused, judged>>
sendItVars == <<runFile, screen, drive, main, proposal, slots, history>>

NoFile == [is |-> "absent"]
Torn == [is |-> "torn"]
File(p, approved, stopped) == [is |-> "plan", plan |-> p, approved |-> approved, stopped |-> stopped]
NotStopped == [step |-> 0, plan |-> NoPlan]
NotDriving == [plan |-> NoPlan]
Loads(f) == f.is = "plan"
IsApproved(f) == Loads(f) /\ f.approved = f.plan
Shown(f) == IF Loads(f) THEN f.plan ELSE NoPlan
At(where) == [at |-> where]
Writing(f, then) == [at |-> "writing", file |-> f, then |-> then]
NoProposal == [at |-> "none"]
Criterion(d) == StepsOf[d.plan][d.step]

SendItInit ==
  /\ runFile = NoFile /\ screen = NoPlan /\ drive = NotDriving /\ main = At("prompt")
  /\ proposal = NoProposal /\ refused = FALSE /\ judged = "nothing"
  /\ templates = {} /\ met = {} /\ ran = 0 /\ leftOver = FALSE /\ goes = 0 /\ quits = 0

(***************************************************************************)
(* propose_run, called by the agent in any turn.  The check and the write  *)
(* are apart, and so are the two halves of a write: fs::write truncates.   *)
(***************************************************************************)
InTurn == main.at \in {"talk", "turn", "report"}

ProposeCheck(p) ==
  /\ InTurn /\ proposal = NoProposal /\ ~ IsApproved(runFile)
  /\ proposal' = [at |-> "checked", plan |-> p]
  /\ UNCHANGED <<runFile, screen, drive, main, slots, history>>

ProposeWrites ==
  /\ proposal # NoProposal
  /\ IF proposal.at = "checked"
     THEN runFile' = Torn /\ proposal' = [proposal EXCEPT !.at = "truncated"]
     ELSE runFile' = File(proposal.plan, NoPlan, NotStopped) /\ proposal' = NoProposal
  /\ UNCHANGED <<screen, drive, main, slots, history>>

\* command_allowed: a refused call leaves a note for the next tick, in a turn
\* of the run or in a worker's turn while a plan is approved.
Refuse ==
  /\ InTurn /\ (main.at = "turn" \/ IsApproved(runFile))
  /\ refused' = TRUE
  /\ UNCHANGED <<runFile, screen, drive, main, proposal, judged, history>>

\* record_step_result: only in a turn of the run, and the last call counts.
RecordResult(result) ==
  /\ main.at = "turn" /\ judged' = result
  /\ UNCHANGED <<runFile, screen, drive, main, proposal, refused, history>>

(***************************************************************************)
(* What the person does at the prompt.                                     *)
(***************************************************************************)
Save(f, then) == runFile' = Torn /\ main' = Writing(f, then)

\* A turn that the person or a worker's report starts; the plan is put on
\* the screen if the turn was to propose one and did (SendIt::proposed).
Talk(proposes) ==
  /\ main.at = "prompt" /\ (proposes => ~ IsApproved(runFile))
  /\ main' = [at |-> "talk", proposes |-> proposes, before |-> Shown(runFile)]
  /\ UNCHANGED <<runFile, screen, drive, proposal, slots, history>>

EndTalk ==
  /\ main.at = "talk" /\ main' = At("prompt")
  /\ screen' = IF ~ main.proposes THEN screen
               ELSE IF Shown(runFile) = main.before THEN NoPlan ELSE Shown(runFile)
  /\ UNCHANGED <<runFile, drive, proposal, slots, history>>

Status ==
  /\ main.at = "prompt" /\ screen' = Shown(runFile)
  /\ UNCHANGED <<runFile, drive, main, proposal, slots, history>>

\* The person's editor writes run.toml, perhaps so that it does not parse,
\* and clear_approval takes the approval out.
Edit(f) ==
  /\ main.at = "prompt" /\ runFile # NoFile
  /\ f \in {Torn} \cup {File(p, IF Loads(runFile) THEN runFile.approved ELSE NoPlan,
                               IF Loads(runFile) THEN runFile.stopped ELSE NotStopped) : p \in Plans}
  /\ runFile' = f /\ main' = At("edited")
  /\ UNCHANGED <<screen, drive, proposal, slots, history>>

ClearApproval ==
  /\ main.at = "edited"
  /\ IF Loads(runFile)
     THEN Save([runFile EXCEPT !.approved = NoPlan], "show") /\ UNCHANGED screen
     ELSE main' = At("prompt") /\ screen' = NoPlan /\ UNCHANGED runFile
  /\ UNCHANGED <<drive, proposal, slots, history>>

SaveTemplate ==
  /\ main.at = "prompt" /\ Loads(runFile) /\ templates' = templates \cup {runFile.plan}
  /\ UNCHANGED <<runFile, screen, drive, main, proposal, slots, met, ran, leftOver, goes, quits>>

UseTemplate(p) ==
  /\ main.at = "prompt" /\ ~ IsApproved(runFile) /\ p \in templates
  /\ Save(File(p, NoPlan, NotStopped), "show")
  /\ UNCHANGED <<screen, drive, proposal, slots, history>>

\* The write that propose_run began goes to the removed file.
Off ==
  /\ main.at = "prompt" /\ runFile' = NoFile /\ screen' = NoPlan
  /\ proposal' = (IF proposal.at = "truncated" THEN NoProposal ELSE proposal)
  /\ UNCHANGED <<drive, main, slots, history>>

\* approve: the plan that the screen showed, typed at the prompt.
Go ==
  /\ main.at = "prompt" /\ goes < MaxGoes /\ goes' = goes + 1
  /\ Loads(runFile) /\ screen = runFile.plan
  /\ Save([runFile EXCEPT !.approved = runFile.plan], "run")
  /\ UNCHANGED <<screen, drive, proposal, slots, templates, met, ran, leftOver, quits>>

(***************************************************************************)
(* The driver.  A step's outcome is what a meeting event, if any, says.    *)
(***************************************************************************)
\* FAULT: a stop of another plan counts.
ResumeAny(f) == IF f.stopped.step \in 1..Len(StepsOf[f.plan]) THEN f.stopped.step ELSE 0

\* resume_step: the step of the last stop of this very plan, or none.
ResumeStep(f) ==
  IF f.stopped.plan = f.plan /\ f.stopped.step \in 1..Len(StepsOf[f.plan]) THEN f.stopped.step ELSE 0

\* The next thing to do, with the driving that goes with it.
Doing(next, d) == [next |-> next, drive |-> d]
WaitOn(d) ==
  CASE Criterion(d) = "worker" -> Doing("hold", d)
    [] Criterion(d) = "check" -> Doing("watch", d)
    [] Criterion(d) = "judge" -> Doing("judge", d)
StepMet(d) ==
  IF d.step < Len(StepsOf[d.plan])
  THEN Doing("send", [d EXCEPT !.step = @ + 1, !.rounds = 0, !.probing = FALSE])
  ELSE Doing("done", d)

\* start_run: a run that was stopped probes its step before it sends it; what
\* the chat knows of the worker is one of done, known and unknown.
StartRun(f, worker) ==
  LET d == [plan |-> f.plan, step |-> IF ResumeStep(f) = 0 THEN 1 ELSE ResumeStep(f),
            rounds |-> 0, probing |-> FALSE, turns |-> 0, awaiting |-> "turn", resumed |-> ResumeStep(f) # 0]
  IN  CASE ResumeStep(f) = 0 -> Doing("send", d)
        [] ResumeStep(f) # 0 /\ Criterion(d) # "worker" -> WaitOn([d EXCEPT !.probing = TRUE])
        [] ResumeStep(f) # 0 /\ Criterion(d) = "worker" /\ worker = "done" -> StepMet(d)
        [] ResumeStep(f) # 0 /\ Criterion(d) = "worker" /\ worker = "known" -> Doing("hold", d)
        [] OTHER -> Doing("send", d)

\* advance on what was awaited: a report or an exit code, or a verdict.
AdvanceRun(d, event) ==
  CASE event = "nothing" /\ d.awaiting # "verdict" -> Doing("wait", d)
    [] event = "met" -> StepMet(d)
    [] event = "unmet" /\ d.awaiting = "report" /\ d.probing -> Doing("send", [d EXCEPT !.probing = FALSE])
    [] event = "unmet" /\ d.awaiting = "report" /\ ~ d.probing -> Doing("stop", d)
    [] OTHER ->
         LET rounds == d.rounds + (IF d.probing THEN 0 ELSE 1)
         IN  IF rounds >= JudgeRounds THEN Doing("stop", d)
             ELSE Doing("send", [d EXCEPT !.rounds = rounds, !.probing = FALSE])

\* FAULT: a report turn is free though it settles nothing.
FreeReports(d, decided) == IF d.awaiting = "report" THEN d.turns ELSE d.turns + 1

\* The turns a run has used: a report turn that settles its step is free.
Counted(d, decided) ==
  IF d.awaiting = "report" /\ decided # "wait" THEN d.turns ELSE d.turns + 1

\* drive.rs tick, for a run that is admitted: a decision that ends the run
\* wins, then the cap, then what the step waits on.
Decide(d, event) ==
  LET decided == AdvanceRun(d, event)
      counted == [decided.drive EXCEPT !.turns = Counted(d, decided.next)]
  IN  IF decided.next \in {"stop", "done"} THEN Doing(decided.next, counted)
      ELSE IF counted.turns >= MaxTurns THEN Doing("stop", counted)
      ELSE IF decided.next = "wait" THEN WaitOn(counted)
      ELSE Doing(decided.next, counted)

Awaiting(next) ==
  CASE next = "judge" -> "verdict" [] next \in {"hold", "watch"} -> "report" [] OTHER -> "turn"
ToDo(doing) ==
  /\ main' = [at |-> "next", next |-> doing.next]
  /\ drive' = [doing.drive EXCEPT !.awaiting = Awaiting(doing.next)]

\* The second half of a write, and what the main loop goes on with.
WriteEnds ==
  /\ main.at = "writing" /\ runFile' = main.file
  /\ \/ main.then = "show" /\ screen' = main.file.plan /\ main' = At("prompt")
        /\ UNCHANGED <<drive, met, ran, leftOver>>
     \/ main.then = "stop" /\ main' = At("prompt") /\ UNCHANGED <<screen, drive, met, ran, leftOver>>
     \/ /\ main.then = "run" /\ screen' = NoPlan /\ ran' = 0 /\ leftOver' = FALSE
        /\ \E worker \in {"done", "known", "unknown"} :
             /\ ToDo(StartRun(main.file, worker))
             /\ met' = (IF ResumeStep(main.file) = 0 THEN {s \in met : s[1] # main.file.plan} ELSE met)
                       \cup (IF ResumeStep(main.file) # 0 /\ worker = "done"
                                /\ StepsOf[main.file.plan][ResumeStep(main.file)] = "worker"
                             THEN {<<main.file.plan, ResumeStep(main.file)>>} ELSE {})
  /\ UNCHANGED <<proposal, slots, templates, goes, quits>>

\* SendIt::release: the approval goes, if it is the run's own.
Release(step) ==
  /\ drive' = NotDriving
  /\ IF Loads(runFile) /\ runFile.approved = drive.plan
     THEN Save(File(runFile.plan, NoPlan, IF step = 0 THEN NotStopped ELSE [step |-> step, plan |-> drive.plan]), "stop")
     ELSE main' = At("prompt") /\ UNCHANGED runFile

\* FAULT: a run that is done leaves its approval.
DoneKeeps == drive' = NotDriving /\ main' = At("prompt") /\ UNCHANGED runFile

\* A finished run clears the stop too, unless the file cannot be read.
Done ==
  IF Loads(runFile) THEN Release(0)
  ELSE drive' = NotDriving /\ main' = At("prompt") /\ UNCHANGED runFile

\* SendIt::dispatch reads the file again, and a watch may not start.
Dispatch ==
  /\ main.at = "next"
  /\ CASE main.next = "send" -> main' = At("turn") /\ UNCHANGED <<runFile, drive>>
       [] main.next = "judge" ->
            IF Loads(runFile) /\ drive.step \in 1..Len(StepsOf[runFile.plan])
               /\ StepsOf[runFile.plan][drive.step] = "judge"
            THEN main' = At("turn") /\ UNCHANGED <<runFile, drive>> ELSE Release(drive.step)
       [] main.next = "hold" -> main' = At("hold") /\ UNCHANGED <<runFile, drive>>
       [] main.next = "watch" -> \/ main' = At("hold") /\ UNCHANGED <<runFile, drive>>
                                 \/ Release(drive.step)
       [] main.next = "stop" -> Release(drive.step)
       [] main.next = "done" -> Done
  /\ UNCHANGED <<screen, proposal, slots, history>>

\* The report comes, or the person leaves the hold and takes over.
Held ==
  /\ main.at = "hold" /\ main' = At("report")
  /\ UNCHANGED <<runFile, screen, drive, proposal, slots, history>>

TakeOver ==
  /\ main.at = "hold" /\ Release(drive.step)
  /\ UNCHANGED <<screen, proposal, slots, history>>

\* SendIt::tick at the end of a turn of the run: what came, and whether the
\* turn itself stops it (no reply, a typed line, a question, a flagged report).
Tick(event, stops) ==
  /\ main.at \in {"turn", "report"}
  /\ event = (IF drive.awaiting = "verdict" THEN judged ELSE event)
  /\ drive.awaiting = "turn" => event = "nothing"
  /\ refused' = FALSE /\ judged' = "nothing" /\ ran' = ran + 1
  /\ IF IsApproved(runFile) /\ runFile.plan = drive.plan /\ ~ refused /\ ~ stops
     THEN /\ ToDo(Decide(drive, event))
          /\ met' = IF event = "met" THEN met \cup {<<drive.plan, drive.step>>} ELSE met
     ELSE /\ main' = [at |-> "next", next |-> "stop"]
          /\ drive' = [drive EXCEPT !.turns = @ + 1] /\ UNCHANGED met
  /\ UNCHANGED <<runFile, screen, proposal, templates, leftOver, goes, quits>>

\* The chat ends at any point, by itself or by a crash.
Quit ==
  /\ quits < MaxQuits /\ quits' = quits + 1
  /\ screen' = NoPlan /\ drive' = NotDriving /\ main' = At("prompt") /\ proposal' = NoProposal
  /\ refused' = FALSE /\ judged' = "nothing" /\ leftOver' = IsApproved(runFile)
  /\ UNCHANGED <<runFile, templates, met, ran, goes>>

SendItNext ==
  \/ \E p \in Plans : ProposeCheck(p) \/ UseTemplate(p)
  \/ \E f \in {Torn} \cup {File(p, a, s) : p \in Plans, a \in Plans \cup {NoPlan},
                            s \in {NotStopped} \cup [step : 1..3, plan : Plans]} : Edit(f)
  \/ ProposeWrites \/ Refuse \/ \E r \in {"met", "unmet"} : RecordResult(r)
  \/ \E b \in BOOLEAN : Talk(b)
  \/ EndTalk \/ Status \/ ClearApproval \/ SaveTemplate \/ Off \/ Go
  \/ WriteEnds \/ Dispatch \/ Held \/ TakeOver \/ Quit
  \/ \E e \in {"met", "unmet", "nothing"}, s \in BOOLEAN : Tick(e, s)

SendItSpec == SendItInit /\ [][SendItNext]_sendItVars
-----------------------------------------------------------------------------
\* The tools of a plan are open only while a run of it is driven: each stop
\* and each end takes the approval out of the file, whoever wrote the file in
\* between.  Only a chat that ended with a run on leaves it, as documented.
ApprovedOnlyWhileDriven ==
  IsApproved(runFile) /\ drive = NotDriving => leftOver \/ main.at = "edited"

\* A step is reached only when each step before it was met since the plan was
\* last begun anew, over stops, edits, new proposals, quits and resumes.
EarlierStepsAreMet ==
  drive # NotDriving => \A s \in 1..(drive.step - 1) : <<drive.plan, s>> \in met

\* A run ends by itself: it never has more turns than its cap and one report
\* turn for each step, one more for the step a resumed run probes.
RunIsBounded ==
  drive # NotDriving =>
    ran <= MaxTurns + Len(StepsOf[drive.plan]) + (IF drive.resumed THEN 1 ELSE 0)
=============================================================================
