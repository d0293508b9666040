----------------------------- MODULE ChatProofs -----------------------------
(***************************************************************************)
(* Proofs about the turns of a chat: the runs of SendIt, for all plans and *)
(* limits and any number of ends of the chat, and ChatTurn's replies and   *)
(* what its process knows.  The two models share no variable.              *)
(***************************************************************************)
EXTENDS ChatTurn, SendIt, Integers, TLAPS

Nexts == {"send", "hold", "watch", "judge", "stop", "done"}
PlansOrNone == Plans \cup {NoPlan}
Stops == [step : Nat, plan : PlansOrNone]
PlanFiles == [is : {"plan"}, plan : Plans, approved : PlansOrNone, stopped : Stops]
RunFiles == {NoFile, Torn} \cup PlanFiles
Drives == [plan : Plans, step : Nat, rounds : Nat, probing : BOOLEAN, turns : Nat,
           awaiting : {"turn", "verdict", "report"}, resumed : BOOLEAN]
Mains == [at : {"prompt", "edited", "turn", "hold", "report"}]
         \cup [at : {"talk"}, proposes : BOOLEAN, before : PlansOrNone]
         \cup [at : {"writing"}, file : PlanFiles, then : {"show", "stop", "run"}]
         \cup [at : {"next"}, next : Nexts]
Proposals == {NoProposal} \cup [at : {"checked", "truncated"}, plan : Plans]

SendItTypes ==
  /\ runFile \in RunFiles /\ drive \in Drives \cup {NotDriving} /\ main \in Mains
  /\ proposal \in Proposals /\ templates \subseteq Plans

\* The main loop drives from the end of the approval's write to the stop's.
DrivesInTurns == drive # NotDriving <=> main.at \in {"turn", "hold", "report", "next"}

\* What a write that is under way puts into the file.
WritesItsOwn ==
  main.at = "writing" => main.file.approved = (IF main.then = "run" THEN main.file.plan ELSE NoPlan)

\* While a run is driven, an approval in the file is the run's own.
OwnApproval == drive # NotDriving /\ Loads(runFile) => runFile.approved \in {NoPlan, drive.plan}

\* The steps before one were met since the plan was last begun anew.
Reached(step, p) == step <= Len(StepsOf[p]) /\ \A s \in 1..(step - 1) : <<p, s>> \in met
StopReached(f) == f.stopped.step # 0 => f.stopped.plan \in Plans /\ Reached(f.stopped.step, f.stopped.plan)

StopsAreReached ==
  /\ Loads(runFile) => StopReached(runFile)
  /\ main.at = "writing" => StopReached(main.file)
  /\ drive # NotDriving => drive.step # 0 /\ Reached(drive.step, drive.plan)

IInv ==
  /\ SendItTypes /\ DrivesInTurns /\ WritesItsOwn /\ OwnApproval /\ StopsAreReached
  /\ ApprovedOnlyWhileDriven

Events == {"met", "unmet", "nothing"}
InPlan(d) == d \in Drives /\ d.step \in 1..Len(StepsOf[d.plan])

\* A doing goes on with the plan at the step, or at the next one if it was met.
GoesOn(doing, d, met1) ==
  /\ doing.next \in Nexts \cup {"wait"} /\ doing.drive \in Drives /\ doing.drive.plan = d.plan
  /\ \/ doing.drive.step = d.step
     \/ met1 /\ doing.drive.step = d.step + 1 /\ d.step < Len(StepsOf[d.plan])

\* A driving with other numbers in it is a driving.
LEMMA DrivesAreTyped ==
  ASSUME NEW d \in Drives, NEW step \in Nat, NEW rounds \in Nat, NEW probing \in BOOLEAN
  PROVE  /\ [d EXCEPT !.step = step, !.rounds = rounds, !.probing = probing] \in Drives
         /\ [d EXCEPT !.rounds = rounds, !.probing = probing] \in Drives
         /\ [d EXCEPT !.probing = probing] \in Drives
  BY DEF Drives

\* Waiting leaves the driving alone.
LEMMA WaitsOnStep ==
  ASSUME NEW d, InPlan(d)
  PROVE  WaitOn(d).next \in {"hold", "watch", "judge"} /\ WaitOn(d).drive = d
<1>1. StepsOf[d.plan] \in Seq({"worker", "check", "judge"})
  BY SendItAssumption DEF InPlan, Drives
<1>2. Criterion(d) \in {"worker", "check", "judge"}
  BY <1>1 DEF Criterion, InPlan
<1> QED
  BY <1>2 DEF WaitOn, Doing

\* A step that is met is followed by the next one, or by the end.
LEMMA MeetsStep ==
  ASSUME NEW d, InPlan(d)
  PROVE  GoesOn(StepMet(d), d, TRUE) /\ StepMet(d).next \in Nexts
<1>1. [d EXCEPT !.step = @ + 1, !.rounds = 0, !.probing = FALSE] \in Drives
  <2>1. d \in Drives /\ d.step + 1 \in Nat
    BY DEF InPlan, Drives
  <2> QED
    BY <2>1, DrivesAreTyped
<1> QED
  BY <1>1 DEF GoesOn, StepMet, Doing, InPlan, Drives, Nexts

\* advance stays in the plan, and takes a step only when one was met.
LEMMA AdvancesInPlan ==
  ASSUME NEW d, InPlan(d), NEW event \in Events
  PROVE  GoesOn(AdvanceRun(d, event), d, event = "met")
<1>1. CASE event = "nothing" /\ d.awaiting # "verdict"
  BY <1>1 DEF AdvanceRun, GoesOn, Doing, InPlan, Nexts
<1>2. CASE event = "met"
  <2>1. AdvanceRun(d, event) = StepMet(d)
    BY <1>2 DEF AdvanceRun
  <2> QED
    BY <1>2, <2>1, MeetsStep DEF GoesOn
<1>3. CASE event = "unmet" /\ d.awaiting = "report" /\ d.probing
  <2>1. AdvanceRun(d, event) = Doing("send", [d EXCEPT !.probing = FALSE])
    BY <1>3 DEF AdvanceRun
  <2>2. [d EXCEPT !.probing = FALSE] \in Drives
    BY DEF InPlan, Drives
  <2> QED
    BY <2>1, <2>2 DEF GoesOn, Doing, InPlan, Drives, Nexts
<1>4. CASE event = "unmet" /\ d.awaiting = "report" /\ ~ d.probing
  BY <1>4 DEF AdvanceRun, GoesOn, Doing, InPlan, Nexts
<1>5. CASE (event = "nothing" /\ d.awaiting = "verdict") \/ (event = "unmet" /\ d.awaiting # "report")
  <2> DEFINE rounds == d.rounds + (IF d.probing THEN 0 ELSE 1)
  <2>1. AdvanceRun(d, event) = IF rounds >= JudgeRounds THEN Doing("stop", d)
          ELSE Doing("send", [d EXCEPT !.rounds = rounds, !.probing = FALSE])
    BY <1>5 DEF AdvanceRun
  <2>2. [d EXCEPT !.rounds = rounds, !.probing = FALSE] \in Drives
    <3>1. d \in Drives /\ rounds \in Nat
      BY DEF InPlan, Drives
    <3> QED
      BY <3>1, DrivesAreTyped
  <2> QED
    BY <2>1, <2>2 DEF GoesOn, Doing, InPlan, Drives, Nexts
<1> QED
  BY <1>1, <1>2, <1>3, <1>4, <1>5 DEF Events

\* So does tick, whatever cap it meets.
LEMMA DecidesInPlan ==
  ASSUME NEW d, InPlan(d), NEW event \in Events
  PROVE  GoesOn(Decide(d, event), d, event = "met") /\ Decide(d, event).next \in Nexts
<1> DEFINE decided == AdvanceRun(d, event)
           counted == [decided.drive EXCEPT !.turns = Counted(d, decided.next)]
<1>1. GoesOn(decided, d, event = "met")
  BY AdvancesInPlan
<1>2. Counted(d, decided.next) \in Nat
  BY DEF Counted, InPlan, Drives
<1>3. counted \in Drives /\ counted.plan = d.plan /\ counted.step = decided.drive.step
  BY <1>1, <1>2 DEF GoesOn, Drives
<1>4. InPlan(counted)
  BY <1>1, <1>3 DEF GoesOn, InPlan, Drives
<1>5. /\ WaitOn(counted).next \in Nexts /\ WaitOn(counted).drive = counted
  BY <1>4, WaitsOnStep DEF Nexts
<1>6. Decide(d, event) = IF decided.next \in {"stop", "done"} THEN Doing(decided.next, counted)
        ELSE IF counted.turns >= MaxTurns THEN Doing("stop", counted)
        ELSE IF decided.next = "wait" THEN WaitOn(counted)
        ELSE Doing(decided.next, counted)
  BY DEF Decide
<1>7. Decide(d, event).next \in Nexts /\ Decide(d, event).drive = counted
  BY <1>1, <1>5, <1>6 DEF Doing, Nexts, GoesOn
<1> QED
  BY <1>1, <1>3, <1>7 DEF GoesOn

\* The first step, or the one of the last stop, or the one after it.
LEMMA StartsInPlan ==
  ASSUME NEW f \in PlanFiles, NEW worker \in {"done", "known", "unknown"}
  PROVE  LET from == IF ResumeStep(f) = 0 THEN 1 ELSE ResumeStep(f)
             doing == StartRun(f, worker)
         IN  /\ doing.next \in Nexts /\ doing.drive \in Drives /\ doing.drive.plan = f.plan
             /\ from \in 1..Len(StepsOf[f.plan])
             /\ \/ doing.drive.step = from
                \/ /\ ResumeStep(f) # 0 /\ worker = "done" /\ StepsOf[f.plan][from] = "worker"
                   /\ doing.drive.step = from + 1 /\ from < Len(StepsOf[f.plan])
<1> DEFINE from == IF ResumeStep(f) = 0 THEN 1 ELSE ResumeStep(f)
           d == [plan |-> f.plan, step |-> from, rounds |-> 0, probing |-> FALSE, turns |-> 0,
                 awaiting |-> "turn", resumed |-> ResumeStep(f) # 0]
           e == [d EXCEPT !.probing = TRUE]
<1>1. f.plan \in Plans /\ StepsOf[f.plan] \in Seq({"worker", "check", "judge"})
      /\ StepsOf[f.plan] # <<>>
  BY SendItAssumption DEF PlanFiles
<1>2. from \in 1..Len(StepsOf[f.plan])
  BY <1>1 DEF ResumeStep
<1>3. InPlan(d) /\ InPlan(e)
  <2>1. from \in Nat /\ (ResumeStep(f) # 0) \in BOOLEAN
    BY <1>2
  <2>2. d \in Drives
    BY <1>1, <2>1 DEF Drives
  <2>3. e \in Drives
    BY <2>2, DrivesAreTyped
  <2>4. e.step = d.step /\ e.plan = d.plan /\ d.step = from /\ d.plan = f.plan
    OBVIOUS
  <2> QED
    BY <1>2, <2>2, <2>3, <2>4 DEF InPlan
<1>4. GoesOn(StepMet(d), d, TRUE) /\ StepMet(d).next \in Nexts
  BY <1>3, MeetsStep
<1>5. WaitOn(e).next \in Nexts /\ WaitOn(e).drive = e
  BY <1>3, WaitsOnStep DEF Nexts
<1>6. StartRun(f, worker) =
        IF ResumeStep(f) = 0 THEN Doing("send", d)
        ELSE IF Criterion(d) # "worker" THEN WaitOn(e)
        ELSE IF worker = "done" THEN StepMet(d)
        ELSE IF worker = "known" THEN Doing("hold", d)
        ELSE Doing("send", d)
  BY DEF StartRun
<1>7. CASE ResumeStep(f) # 0 /\ Criterion(d) = "worker" /\ worker = "done"
  BY <1>2, <1>4, <1>6, <1>7 DEF GoesOn, Criterion
<1>8. CASE ~ (ResumeStep(f) # 0 /\ Criterion(d) = "worker" /\ worker = "done")
  <2>1. \/ StartRun(f, worker) = WaitOn(e) \/ StartRun(f, worker) = Doing("send", d)
        \/ StartRun(f, worker) = Doing("hold", d)
    BY <1>6, <1>8
  <2>2. StartRun(f, worker).next \in Nexts /\ StartRun(f, worker).drive \in {d, e}
    BY <1>5, <2>1 DEF Doing, Nexts
  <2>3. d \in Drives /\ e \in Drives
    BY <1>3 DEF InPlan
  <2>4. e.step = from /\ e.plan = f.plan /\ d.step = from /\ d.plan = f.plan
    OBVIOUS
  <2> QED
    BY <1>2, <2>2, <2>3, <2>4
<1> QED
  BY <1>7, <1>8

\* At the start there is no file and nobody drives.
LEMMA InitSafe == SendItInit => IInv
<1> SUFFICES ASSUME SendItInit PROVE IInv
  OBVIOUS
<1>1. SendItTypes
  BY DEF SendItInit, SendItTypes, RunFiles, Mains, At, Proposals
<1>2. DrivesInTurns /\ WritesItsOwn /\ OwnApproval /\ StopsAreReached /\ ApprovedOnlyWhileDriven
  BY DEF SendItInit, DrivesInTurns, WritesItsOwn, OwnApproval, StopsAreReached,
         ApprovedOnlyWhileDriven, At, Loads, NoFile, IsApproved
<1> QED
  BY <1>1, <1>2 DEF IInv

\* Nothing that drives, and nothing that loads, is mistaken for its absence.
LEMMA Apart ==
  /\ \A d \in Drives : d # NotDriving
  /\ \A f \in RunFiles : Loads(f) <=> f \in PlanFiles
  /\ \A p \in Plans, stop \in Stops :
       File(p, NoPlan, stop) \in PlanFiles /\ ~ IsApproved(File(p, NoPlan, stop))
  /\ NotStopped \in Stops /\ ~ Loads(Torn) /\ ~ Loads(NoFile)
<1> USE SendItAssumption
<1>1. \A d \in Drives : d # NotDriving
  BY DEF Drives, NotDriving
<1>2. \A f \in RunFiles : Loads(f) <=> f \in PlanFiles
  BY DEF RunFiles, PlanFiles, NoFile, Torn, Loads
<1>3. \A p \in Plans, stop \in Stops :
        File(p, NoPlan, stop) \in PlanFiles /\ ~ IsApproved(File(p, NoPlan, stop))
  BY DEF PlanFiles, PlansOrNone, File, IsApproved, Loads
<1>4. NotStopped \in Stops /\ ~ Loads(Torn) /\ ~ Loads(NoFile)
  BY DEF NotStopped, Stops, PlansOrNone, Loads, Torn, NoFile
<1> QED
  BY <1>1, <1>2, <1>3, <1>4

\* A step that moves the file, or what is beside it, and not the driver.
LEMMA FileMoves ==
  ASSUME IInv, UNCHANGED <<drive, met, leftOver>>,
         main'.at = main.at \/ (drive = NotDriving /\ main'.at \in {"prompt", "talk", "edited"})
                            \/ (drive # NotDriving /\ main'.at = "report"),
         main'.at = "writing" => main' = main,
         main' \in Mains, proposal' \in Proposals, templates' \subseteq Plans,
         runFile' \in RunFiles,
         \/ UNCHANGED runFile /\ (main.at = "edited" => main' = main)
         \/ ~ Loads(runFile')
         \/ Loads(runFile') /\ runFile'.approved = NoPlan /\ StopReached(runFile')
  PROVE  IInv'
<1> USE SendItAssumption
<1>1. SendItTypes'
  BY DEF IInv, SendItTypes
<1>2. DrivesInTurns'
  BY DEF IInv, DrivesInTurns
<1>3. WritesItsOwn'
  BY DEF IInv, WritesItsOwn
<1>4. OwnApproval'
  BY DEF IInv, OwnApproval
<1>5. \A f : StopReached(f)' <=> StopReached(f)
  BY DEF StopReached, Reached
<1>6. StopsAreReached'
  <2>1. (Loads(runFile) => StopReached(runFile))'
    BY <1>5 DEF IInv, StopsAreReached, Loads
  <2>2. (main.at = "writing" => StopReached(main.file))'
    BY <1>5 DEF IInv, StopsAreReached
  <2>3. (drive # NotDriving => drive.step # 0 /\ Reached(drive.step, drive.plan))'
    BY DEF IInv, StopsAreReached, Reached
  <2> QED
    BY <2>1, <2>2, <2>3 DEF StopsAreReached
<1>7. ApprovedOnlyWhileDriven'
  <2>1. CASE UNCHANGED runFile /\ (main.at = "edited" => main' = main)
    <3>1. UNCHANGED IsApproved(runFile) /\ (main.at = "edited" => main'.at = "edited")
      BY <2>1 DEF IsApproved, Loads
    <3> QED
      BY <3>1 DEF IInv, ApprovedOnlyWhileDriven
  <2>2. CASE ~ Loads(runFile')
    BY <2>2 DEF ApprovedOnlyWhileDriven, IsApproved
  <2>3. CASE Loads(runFile') /\ runFile'.approved = NoPlan
    <3>1. runFile'.plan # NoPlan
      BY <2>3, Apart DEF PlanFiles
    <3> QED
      BY <2>3, <3>1 DEF ApprovedOnlyWhileDriven, IsApproved
  <2> QED
    BY <2>1, <2>2, <2>3
<1> QED
  BY <1>1, <1>2, <1>3, <1>4, <1>6, <1>7 DEF IInv

\* The agent and the person move the file, and nobody drives or nobody stops.
LEMMA PeopleSafe ==
  ASSUME IInv, NEW p, NEW result, NEW proposes \in BOOLEAN,
         \/ (p \in Plans /\ ProposeCheck(p)) \/ ProposeWrites \/ Refuse \/ RecordResult(result)
         \/ Talk(proposes) \/ EndTalk \/ Status \/ SaveTemplate \/ Off \/ Held
  PROVE  IInv'
<1> USE DEF IInv
<1>1. CASE p \in Plans /\ ProposeCheck(p)
  <2>1. proposal' \in Proposals
    BY <1>1 DEF ProposeCheck, Proposals
  <2> QED
    BY <1>1, <2>1, FileMoves DEF ProposeCheck, SendItTypes, history
<1>2. CASE ProposeWrites
  <2>1. proposal.plan \in Plans
    BY <1>2 DEF ProposeWrites, SendItTypes, Proposals
  <2>2. proposal' \in Proposals
    BY <1>2, <2>1 DEF ProposeWrites, SendItTypes, Proposals
  <2>3. CASE runFile' = Torn
    BY <1>2, <2>2, <2>3, Apart, FileMoves DEF ProposeWrites, SendItTypes, history, RunFiles
  <2>4. CASE runFile' = File(proposal.plan, NoPlan, NotStopped)
    <3>1. runFile' \in PlanFiles /\ Loads(runFile') /\ runFile'.approved = NoPlan
          /\ runFile'.stopped.step = 0
      BY <2>1, <2>4, Apart DEF File, NotStopped, Loads
    <3> QED
      BY <1>2, <2>2, <3>1, FileMoves DEF ProposeWrites, SendItTypes, history, RunFiles, StopReached
  <2> QED
    BY <1>2, <2>3, <2>4 DEF ProposeWrites
<1>3. CASE Refuse \/ RecordResult(result) \/ Status
  BY <1>3, FileMoves DEF Refuse, RecordResult, Status, SendItTypes, history
<1>4. CASE Talk(proposes)
  <2>1. Shown(runFile) \in PlansOrNone
    BY Apart DEF Shown, SendItTypes, PlanFiles, PlansOrNone
  <2>2. main' \in Mains /\ main'.at = "talk" /\ main.at = "prompt"
    BY <1>4, <2>1 DEF Talk, Mains
  <2>3. drive = NotDriving
    BY <2>2 DEF DrivesInTurns
  <2> QED
    BY <1>4, <2>2, <2>3, FileMoves DEF Talk, SendItTypes, history
<1>5. CASE EndTalk
  <2>1. main' \in Mains /\ main'.at = "prompt" /\ main.at = "talk"
    BY <1>5 DEF EndTalk, Mains, At
  <2>2. drive = NotDriving
    BY <2>1 DEF DrivesInTurns
  <2> QED
    BY <1>5, <2>1, <2>2, FileMoves DEF EndTalk, SendItTypes, history
<1>6. CASE SaveTemplate
  <2>1. runFile.plan \in Plans
    BY <1>6, Apart DEF SaveTemplate, SendItTypes, PlanFiles
  <2> QED
    BY <1>6, <2>1, FileMoves DEF SaveTemplate, SendItTypes
<1>7. CASE Off
  <2>1. proposal' \in Proposals
    BY <1>7 DEF Off, SendItTypes, Proposals
  <2> QED
    BY <1>7, <2>1, Apart, FileMoves DEF Off, SendItTypes, history, RunFiles
<1>8. CASE Held
  <2>1. main' \in Mains /\ main'.at = "report" /\ main.at = "hold"
    BY <1>8 DEF Held, Mains, At
  <2>2. drive # NotDriving
    BY <2>1 DEF DrivesInTurns
  <2> QED
    BY <1>8, <2>1, <2>2, FileMoves DEF Held, SendItTypes, history
<1> QED
  BY <1>1, <1>2, <1>3, <1>4, <1>5, <1>6, <1>7, <1>8

\* The file is torn while a write of the main loop is under way, and the
\* driver, if there was one, is gone.
LEMMA WriteBegins ==
  ASSUME IInv, NEW f \in PlanFiles, NEW then \in {"show", "stop", "run"}, Save(f, then),
         drive' = NotDriving, StopReached(f),
         f.approved = (IF then = "run" THEN f.plan ELSE NoPlan),
         UNCHANGED <<met, proposal, templates>>
  PROVE  IInv'
<1> USE DEF IInv
<1>1. main' \in Mains /\ main'.at = "writing" /\ main'.file = f /\ main'.then = then
  BY DEF Save, Writing, Mains
<1>2. runFile' = Torn /\ ~ Loads(runFile') /\ runFile' \in RunFiles
  BY Apart DEF Save, RunFiles
<1>3. SendItTypes'
  BY <1>1, <1>2 DEF SendItTypes
<1>4. DrivesInTurns' /\ WritesItsOwn'
  BY <1>1 DEF DrivesInTurns, WritesItsOwn
<1>5. OwnApproval' /\ ApprovedOnlyWhileDriven'
  BY <1>2 DEF OwnApproval, ApprovedOnlyWhileDriven, IsApproved
<1>6. StopReached(f)'
  BY DEF StopReached, Reached
<1>7. StopsAreReached'
  BY <1>1, <1>2, <1>6 DEF StopsAreReached
<1> QED
  BY <1>3, <1>4, <1>5, <1>7

\* What the person does at the prompt, where nobody drives.
LEMMA PromptSafe ==
  ASSUME IInv, NEW p, NEW f, Edit(f) \/ ClearApproval \/ UseTemplate(p) \/ Go
  PROVE  IInv'
<1> USE DEF IInv
<1>1. drive = NotDriving /\ drive' = NotDriving /\ UNCHANGED <<met, proposal, leftOver>>
  BY DEF Edit, ClearApproval, UseTemplate, Go, DrivesInTurns, history
<1>2. Loads(runFile) => runFile \in PlanFiles /\ StopReached(runFile)
  BY Apart DEF SendItTypes, StopsAreReached
<1>3. CASE Edit(f)
  <2>1. main' \in Mains /\ main'.at = "edited" /\ UNCHANGED templates
    BY <1>3 DEF Edit, Mains, At, history
  <2>2. runFile' \in RunFiles /\ (Loads(runFile') => StopReached(runFile'))
    <3>1. CASE runFile' = Torn
      BY <3>1, Apart DEF RunFiles
    <3>2. ASSUME NEW q \in Plans, NEW a \in PlansOrNone, NEW stop \in Stops,
                 stop = NotStopped \/ (Loads(runFile) /\ stop = runFile.stopped),
                 runFile' = File(q, a, stop)
          PROVE  runFile' \in RunFiles /\ (Loads(runFile') => StopReached(runFile'))
      <4>1. runFile' \in PlanFiles
        BY <3>2 DEF File, PlanFiles
      <4>2. runFile'.stopped = stop
        BY <3>2 DEF File
      <4>3. stop.step # 0 => stop.plan \in Plans /\ Reached(stop.step, stop.plan)
        BY <1>2, <3>2 DEF StopReached, NotStopped
      <4> QED
        BY <4>1, <4>2, <4>3 DEF RunFiles, StopReached
    <3>3. CASE \E q \in Plans : runFile' = File(q, IF Loads(runFile) THEN runFile.approved ELSE NoPlan,
                                                IF Loads(runFile) THEN runFile.stopped ELSE NotStopped)
      <4>1. PICK q \in Plans : runFile' = File(q, IF Loads(runFile) THEN runFile.approved ELSE NoPlan,
                                                IF Loads(runFile) THEN runFile.stopped ELSE NotStopped)
        BY <3>3
      <4>2. (IF Loads(runFile) THEN runFile.approved ELSE NoPlan) \in PlansOrNone
        BY <1>2 DEF PlanFiles, PlansOrNone
      <4>3. (IF Loads(runFile) THEN runFile.stopped ELSE NotStopped) \in Stops
        BY <1>2, Apart DEF PlanFiles
      <4> QED
        BY <3>2, <4>1, <4>2, <4>3
    <3> QED
      BY <1>3, <3>1, <3>3 DEF Edit
  <2>3. \A g : StopReached(g)' <=> StopReached(g)
    BY <1>1 DEF StopReached, Reached
  <2>4. SendItTypes'
    BY <1>1, <2>1, <2>2 DEF SendItTypes
  <2>5. DrivesInTurns' /\ WritesItsOwn' /\ OwnApproval' /\ ApprovedOnlyWhileDriven'
    BY <1>1, <2>1 DEF DrivesInTurns, WritesItsOwn, OwnApproval, ApprovedOnlyWhileDriven
  <2>6. StopsAreReached'
    BY <1>1, <2>1, <2>2, <2>3 DEF StopsAreReached
  <2> QED
    BY <2>4, <2>5, <2>6
<1>4. CASE ClearApproval
  <2>1. CASE Loads(runFile)
    <3> DEFINE g == [runFile EXCEPT !.approved = NoPlan]
    <3>1. g \in PlanFiles /\ g.stopped = runFile.stopped /\ g.approved = NoPlan
      BY <1>2, <2>1 DEF PlanFiles, PlansOrNone
    <3>2. StopReached(g)
      BY <1>2, <2>1, <3>1 DEF StopReached
    <3>3. Save(g, "show") /\ UNCHANGED templates
      BY <1>4, <2>1 DEF ClearApproval, history
    <3> QED
      BY <1>1, <3>1, <3>2, <3>3, WriteBegins
  <2>2. CASE ~ Loads(runFile)
    <3>1. main' \in Mains /\ main'.at = "prompt" /\ UNCHANGED <<runFile, templates>>
      BY <1>4, <2>2 DEF ClearApproval, Mains, At, history
    <3> QED
      BY <1>1, <2>2, <3>1, FileMoves DEF SendItTypes
  <2> QED
    BY <2>1, <2>2
<1>5. CASE UseTemplate(p)
  <2>1. p \in Plans
    BY <1>5 DEF UseTemplate, SendItTypes
  <2>2. File(p, NoPlan, NotStopped) \in PlanFiles /\ File(p, NoPlan, NotStopped).approved = NoPlan
        /\ StopReached(File(p, NoPlan, NotStopped))
    BY <2>1, Apart DEF File, StopReached, NotStopped
  <2> QED
    BY <1>1, <1>5, <2>2, WriteBegins DEF UseTemplate, history
<1>6. CASE Go
  <2> DEFINE g == [runFile EXCEPT !.approved = runFile.plan]
  <2>1. g \in PlanFiles /\ g.stopped = runFile.stopped /\ g.approved = g.plan
    BY <1>2, <1>6 DEF Go, PlanFiles, PlansOrNone
  <2>2. StopReached(g)
    BY <1>2, <1>6, <2>1 DEF Go, StopReached
  <2> QED
    <3>1. Save(g, "run") /\ UNCHANGED templates
      BY <1>6 DEF Go
    <3>2. g.approved = (IF "run" = "run" THEN g.plan ELSE NoPlan)
      BY <2>1
    <3> QED
      BY <1>1, <2>1, <2>2, <3>1, <3>2, WriteBegins
<1> QED
  BY <1>3, <1>4, <1>5, <1>6

\* What was met stays met, but for the plan of a run that begins anew.
LEMMA MetGrows ==
  ASSUME met \subseteq met'
  PROVE  /\ \A f : StopReached(f) => StopReached(f)'
         /\ \A step, p : Reached(step, p) => Reached(step, p)'
  BY DEF StopReached, Reached

\* The driver goes on with its plan.
LEMMA DriverMoves ==
  ASSUME IInv, drive # NotDriving, drive' \in Drives, drive'.plan = drive.plan,
         (drive.step # 0 /\ Reached(drive.step, drive.plan))',
         main' \in Mains, main'.at \in {"turn", "hold", "report", "next"},
         UNCHANGED <<runFile, proposal, templates>>, met \subseteq met'
  PROVE  IInv'
<1> USE DEF IInv
<1>1. drive' # NotDriving
  BY Apart
<1>2. SendItTypes' /\ DrivesInTurns' /\ WritesItsOwn'
  BY <1>1 DEF SendItTypes, DrivesInTurns, WritesItsOwn
<1>3. OwnApproval' /\ ApprovedOnlyWhileDriven'
  BY <1>1 DEF OwnApproval, ApprovedOnlyWhileDriven, Loads
<1>4. StopsAreReached'
  <2>1. (Loads(runFile) => StopReached(runFile))'
    BY MetGrows DEF StopsAreReached, Loads
  <2> QED
    BY <2>1 DEF StopsAreReached
<1> QED
  BY <1>2, <1>3, <1>4

\* A run stops or is done: the approval goes, and so does the driver.
LEMMA ReleaseSafe ==
  ASSUME IInv, drive # NotDriving, NEW step \in {0, drive.step}, Release(step),
         UNCHANGED <<met, leftOver, proposal, templates>>
  PROVE  IInv'
<1> USE DEF IInv
<1>1. drive \in Drives /\ drive.plan \in Plans /\ drive.step \in Nat
  BY DEF SendItTypes, Drives
<1>2. Loads(runFile) => runFile \in PlanFiles
  BY Apart DEF SendItTypes
<1>3. CASE Loads(runFile) /\ runFile.approved = drive.plan
  <2> DEFINE stop == IF step = 0 THEN NotStopped ELSE [step |-> step, plan |-> drive.plan]
             f == File(runFile.plan, NoPlan, stop)
  <2>1. stop \in Stops
    BY <1>1, Apart DEF Stops, PlansOrNone
  <2>2. f \in PlanFiles /\ f.approved = NoPlan /\ f.stopped = stop
    BY <1>2, <1>3, <2>1, Apart DEF File, PlanFiles
  <2>3. stop.step # 0 => stop.plan \in Plans /\ Reached(stop.step, stop.plan)
    BY <1>1 DEF NotStopped, StopsAreReached
  <2>4. StopReached(f)
    BY <2>2, <2>3 DEF StopReached
  <2>5. Save(f, "stop") /\ drive' = NotDriving
    BY <1>3 DEF Release
  <2> QED
    BY <2>2, <2>4, <2>5, WriteBegins
<1>4. CASE ~ (Loads(runFile) /\ runFile.approved = drive.plan)
  <2>1. main' \in Mains /\ main'.at = "prompt" /\ drive' = NotDriving /\ UNCHANGED runFile
    BY <1>4 DEF Release, Mains, At
  <2>2. ~ IsApproved(runFile')
    <3>1. Loads(runFile) => runFile.approved = NoPlan /\ runFile.plan # NoPlan
      BY <1>2, <1>4, SendItAssumption DEF OwnApproval, PlanFiles
    <3> QED
      BY <2>1, <3>1 DEF IsApproved, Loads
  <2>3. SendItTypes' /\ DrivesInTurns' /\ WritesItsOwn' /\ OwnApproval' /\ ApprovedOnlyWhileDriven'
    BY <2>1, <2>2 DEF SendItTypes, DrivesInTurns, WritesItsOwn, OwnApproval, ApprovedOnlyWhileDriven
  <2>4. (Loads(runFile) => StopReached(runFile))'
    BY <2>1, MetGrows DEF StopsAreReached, Loads
  <2>5. StopsAreReached'
    BY <2>1, <2>4 DEF StopsAreReached
  <2> QED
    BY <2>3, <2>5
<1> QED
  BY <1>3, <1>4

\* The next thing to do, the end of a run included.
LEMMA DispatchSafe ==
  ASSUME IInv, Dispatch \/ TakeOver
  PROVE  IInv'
<1> USE DEF IInv
<1>1. drive # NotDriving /\ drive \in Drives /\ UNCHANGED <<met, leftOver, proposal, templates>>
  BY DEF Dispatch, TakeOver, DrivesInTurns, SendItTypes, history
<1>2. (drive.step # 0 /\ Reached(drive.step, drive.plan))
  BY <1>1 DEF StopsAreReached
<1>3. ASSUME main' \in {At("turn"), At("hold")}, UNCHANGED <<runFile, drive>> PROVE IInv'
  <2>1. main' \in Mains /\ main'.at \in {"turn", "hold"}
    BY <1>3 DEF At, Mains
  <2>2. (drive.step # 0 /\ Reached(drive.step, drive.plan))'
    BY <1>1, <1>2, <1>3 DEF Reached
  <2> QED
    BY <1>1, <1>3, <2>1, <2>2, DriverMoves
<1>4. ASSUME Done PROVE IInv'
  <2>1. CASE Loads(runFile)
    BY <1>1, <1>4, <2>1, ReleaseSafe DEF Done
  <2>2. CASE ~ Loads(runFile)
    <3>1. Release(0)
      BY <1>4, <2>2 DEF Done, Release
    <3> QED
      BY <1>1, <3>1, ReleaseSafe
  <2> QED
    BY <2>1, <2>2
<1>5. ASSUME Release(drive.step) PROVE IInv'
  BY <1>1, <1>5, ReleaseSafe
<1>6. CASE Dispatch
  <2>1. main.next \in Nexts
    BY <1>6 DEF Dispatch, SendItTypes, Mains
  <2>2. \/ main' \in {At("turn"), At("hold")} /\ UNCHANGED <<runFile, drive>>
        \/ Release(drive.step) \/ Done
    BY <1>6, <2>1 DEF Dispatch, Nexts
  <2> QED
    BY <1>3, <1>4, <1>5, <2>2
<1> QED
  BY <1>5, <1>6 DEF TakeOver

\* What a driver waits for.
LEMMA AwaitingIsTyped == \A next : Awaiting(next) \in {"turn", "verdict", "report"}
  BY DEF Awaiting

\* The end of a turn of the run.
LEMMA TickSafe ==
  ASSUME IInv, NEW event \in Events, NEW stops \in BOOLEAN, Tick(event, stops)
  PROVE  IInv'
<1> USE DEF IInv
<1>1. drive # NotDriving /\ drive \in Drives /\ UNCHANGED <<runFile, proposal, templates>>
  BY DEF Tick, DrivesInTurns, SendItTypes
<1>2. drive.step # 0 /\ Reached(drive.step, drive.plan) /\ drive.step \in Nat
  BY <1>1 DEF StopsAreReached, Drives
<1>3. InPlan(drive)
  <2>1. Len(StepsOf[drive.plan]) \in Nat
    BY <1>1, SendItAssumption DEF Drives
  <2> QED
    BY <1>1, <1>2, <2>1 DEF InPlan, Reached
<1>4. CASE IsApproved(runFile) /\ runFile.plan = drive.plan /\ ~ refused /\ ~ stops
  <2> DEFINE doing == Decide(drive, event)
  <2>1. GoesOn(doing, drive, event = "met") /\ doing.next \in Nexts
    BY <1>3, DecidesInPlan
  <2>2. main' = [at |-> "next", next |-> doing.next]
        /\ drive' = [doing.drive EXCEPT !.awaiting = Awaiting(doing.next)]
        /\ met' = IF event = "met" THEN met \cup {<<drive.plan, drive.step>>} ELSE met
    BY <1>4 DEF Tick, ToDo
  <2>3. main' \in Mains /\ main'.at = "next"
    BY <2>1, <2>2 DEF Mains
  <2>4. drive' \in Drives /\ drive'.plan = drive.plan /\ drive'.step = doing.drive.step
    BY <2>1, <2>2, AwaitingIsTyped DEF GoesOn, Drives
  <2>5. met \subseteq met'
    BY <2>2
  <2>6. (drive.step # 0 /\ Reached(drive.step, drive.plan))'
    <3>1. CASE drive'.step = drive.step
      BY <1>2, <2>4, <2>5, <3>1, MetGrows DEF Reached
    <3>2. CASE event = "met" /\ drive'.step = drive.step + 1 /\ drive.step < Len(StepsOf[drive.plan])
      <4>1. <<drive.plan, drive.step>> \in met'
        BY <2>2, <3>2
      <4>2. \A s \in 1..drive.step : <<drive.plan, s>> \in met'
        BY <1>2, <2>5, <4>1 DEF Reached
      <4>3. drive'.step - 1 = drive.step /\ drive'.step # 0 /\ drive'.step <= Len(StepsOf[drive.plan])
        <5>1. Len(StepsOf[drive.plan]) \in Nat
          BY <1>1, SendItAssumption DEF Drives
        <5> QED
          BY <1>2, <3>2, <5>1
      <4> QED
        BY <2>4, <4>2, <4>3 DEF Reached
    <3> QED
      BY <2>1, <2>4, <3>1, <3>2 DEF GoesOn
  <2> QED
    BY <1>1, <2>3, <2>4, <2>5, <2>6, DriverMoves
<1>5. CASE ~ (IsApproved(runFile) /\ runFile.plan = drive.plan /\ ~ refused /\ ~ stops)
  <2>1. main' = [at |-> "next", next |-> "stop"] /\ drive' = [drive EXCEPT !.turns = @ + 1]
        /\ met' = met
    BY <1>5 DEF Tick
  <2>2. main' \in Mains /\ main'.at = "next"
    BY <2>1 DEF Mains, Nexts
  <2>3. drive' \in Drives /\ drive'.plan = drive.plan /\ drive'.step = drive.step
    <3>1. drive.turns + 1 \in Nat
      BY <1>1 DEF Drives
    <3> QED
      BY <1>1, <2>1, <3>1 DEF Drives
  <2>4. (drive.step # 0 /\ Reached(drive.step, drive.plan))'
    BY <1>2, <2>1, <2>3 DEF Reached
  <2> QED
    BY <1>1, <2>1, <2>2, <2>3, <2>4, DriverMoves
<1> QED
  BY <1>4, <1>5

\* The chat ends, and what it was doing is forgotten.
LEMMA QuitSafe == ASSUME IInv, Quit PROVE IInv'
<1> USE DEF IInv
<1>1. main' \in Mains /\ main'.at = "prompt" /\ drive' = NotDriving /\ proposal' \in Proposals
  BY DEF Quit, Mains, At, Proposals
<1>2. UNCHANGED <<runFile, templates, met>> /\ leftOver' = IsApproved(runFile)
  BY DEF Quit
<1>3. SendItTypes' /\ DrivesInTurns' /\ WritesItsOwn' /\ OwnApproval'
  BY <1>1, <1>2 DEF SendItTypes, DrivesInTurns, WritesItsOwn, OwnApproval
<1>4. ApprovedOnlyWhileDriven'
  BY <1>2 DEF ApprovedOnlyWhileDriven, IsApproved, Loads
<1>5. (Loads(runFile) => StopReached(runFile))'
  BY <1>2, MetGrows DEF StopsAreReached, Loads
<1>6. StopsAreReached'
  BY <1>1, <1>5 DEF StopsAreReached
<1> QED
  BY <1>3, <1>4, <1>6

\* A run begins: anew, which forgets what was met, or where it was stopped.
LEMMA RunBegins ==
  ASSUME IInv, NEW worker \in {"done", "known", "unknown"},
         main.at = "writing", main.then = "run", runFile' = main.file,
         ToDo(StartRun(main.file, worker)),
         met' = (IF ResumeStep(main.file) = 0 THEN {s \in met : s[1] # main.file.plan} ELSE met)
                \cup (IF ResumeStep(main.file) # 0 /\ worker = "done"
                         /\ StepsOf[main.file.plan][ResumeStep(main.file)] = "worker"
                      THEN {<<main.file.plan, ResumeStep(main.file)>>} ELSE {}),
         UNCHANGED <<proposal, templates>>
  PROVE  IInv'
<1> USE DEF IInv
<1>0. PICK f : f = main.file
  OBVIOUS
<1> DEFINE from == IF ResumeStep(f) = 0 THEN 1 ELSE ResumeStep(f)
           doing == StartRun(f, worker)
<1>1. f \in PlanFiles /\ f.approved = f.plan /\ StopReached(f) /\ f.plan \in Plans
  BY <1>0 DEF SendItTypes, Mains, WritesItsOwn, StopsAreReached, PlanFiles
<1>2. /\ doing.next \in Nexts /\ doing.drive \in Drives /\ doing.drive.plan = f.plan
      /\ from \in 1..Len(StepsOf[f.plan])
      /\ \/ doing.drive.step = from
         \/ /\ ResumeStep(f) # 0 /\ worker = "done" /\ StepsOf[f.plan][from] = "worker"
            /\ doing.drive.step = from + 1 /\ from < Len(StepsOf[f.plan])
  BY <1>1, StartsInPlan
<1>3. main' \in Mains /\ main'.at = "next"
  BY <1>0, <1>2 DEF ToDo, Mains
<1>4. drive' \in Drives /\ drive'.plan = f.plan /\ drive'.step = doing.drive.step
  BY <1>0, <1>2, AwaitingIsTyped DEF ToDo, Drives
<1>5. drive' # NotDriving
  BY <1>4, Apart
<1>6. runFile' \in RunFiles /\ runFile' = f
  BY <1>0, <1>1 DEF RunFiles
<1>7. SendItTypes' /\ DrivesInTurns' /\ WritesItsOwn'
  BY <1>3, <1>4, <1>5, <1>6 DEF SendItTypes, DrivesInTurns, WritesItsOwn
<1>8. OwnApproval' /\ ApprovedOnlyWhileDriven'
  BY <1>1, <1>4, <1>5, <1>6 DEF OwnApproval, ApprovedOnlyWhileDriven
<1>9. Len(StepsOf[f.plan]) \in Nat /\ from \in Nat /\ from # 0
  BY <1>1, <1>2, SendItAssumption
<1>10. StopReached(f)'
  <2>1. CASE ResumeStep(f) # 0
    <3>1. met \subseteq met'
      BY <1>0, <2>1
    <3> QED
      BY <1>1, <3>1, MetGrows
  <2>2. CASE ResumeStep(f) = 0
    <3>1. f.stopped.step \in Nat
      BY <1>1 DEF PlanFiles, Stops
    <3>2. f.stopped.step # 0 => f.stopped.plan # f.plan
      BY <1>1, <1>9, <2>2, <3>1 DEF ResumeStep, StopReached, Reached
    <3>3. \A s : <<f.stopped.plan, s>> \in met /\ f.stopped.plan # f.plan
            => <<f.stopped.plan, s>> \in met'
      BY <1>0, <2>2
    <3> QED
      BY <1>1, <3>2, <3>3 DEF StopReached, Reached
  <2> QED
    BY <2>1, <2>2
<1>11. (drive.step # 0 /\ Reached(drive.step, drive.plan))'
  <2>1. CASE ResumeStep(f) = 0
    <3>1. drive'.step = 1
      BY <1>2, <1>4, <2>1
    <3> QED
      BY <1>4, <1>9, <1>2, <2>1, <3>1 DEF Reached
  <2>2. CASE ResumeStep(f) # 0
    <3>1. ResumeStep(f) = from /\ f.stopped.step = from /\ f.stopped.plan = f.plan
      BY <2>2 DEF ResumeStep
    <3>2. met \subseteq met'
      BY <1>0, <2>2
    <3>3. \A s \in 1..(from - 1) : <<f.plan, s>> \in met'
      BY <1>1, <1>9, <3>1, <3>2 DEF StopReached, Reached
    <3>4. CASE drive'.step = from
      BY <1>2, <1>4, <1>9, <3>3, <3>4 DEF Reached
    <3>5. CASE worker = "done" /\ StepsOf[f.plan][from] = "worker"
               /\ drive'.step = from + 1 /\ from < Len(StepsOf[f.plan])
      <4>1. <<f.plan, from>> \in met'
        BY <1>0, <2>2, <3>1, <3>5
      <4>2. \A s \in 1..from : <<f.plan, s>> \in met'
        <5>1. \A s \in 1..from : s = from \/ s \in 1..(from - 1)
          BY <1>9
        <5> QED
          BY <3>3, <4>1, <5>1
      <4>3. drive'.step - 1 = from /\ drive'.step # 0 /\ drive'.step <= Len(StepsOf[f.plan])
        BY <1>9, <3>5
      <4> QED
        BY <1>4, <4>2, <4>3 DEF Reached
    <3> QED
      BY <1>2, <1>4, <3>4, <3>5
  <2> QED
    BY <2>1, <2>2
<1>12. (Loads(runFile) => StopReached(runFile))'
  BY <1>6, <1>10
<1>13. StopsAreReached'
  BY <1>3, <1>11, <1>12 DEF StopsAreReached
<1> QED
  BY <1>7, <1>8, <1>13

\* The second half of a write.
LEMMA WriteEndsSafe == ASSUME IInv, WriteEnds PROVE IInv'
<1> USE DEF IInv
<1>1. main.at = "writing" /\ runFile' = main.file /\ UNCHANGED <<proposal, templates>>
  BY DEF WriteEnds, slots
<1>2. CASE main.then \in {"show", "stop"}
  <2>1. main' \in Mains /\ main'.at = "prompt" /\ UNCHANGED <<drive, met, leftOver>>
    BY <1>2 DEF WriteEnds, Mains, At
  <2>2. drive = NotDriving
    BY <1>1 DEF DrivesInTurns
  <2>3. main.file \in PlanFiles /\ main.file.approved = NoPlan /\ StopReached(main.file)
    BY <1>1, <1>2 DEF SendItTypes, Mains, WritesItsOwn, StopsAreReached
  <2>4. runFile' \in RunFiles /\ Loads(runFile')
    BY <1>1, <2>3, Apart DEF RunFiles
  <2> QED
    BY <1>1, <2>1, <2>2, <2>3, <2>4, FileMoves DEF SendItTypes
<1>3. CASE main.then = "run"
  BY <1>1, <1>3, RunBegins DEF WriteEnds
<1> QED
  BY <1>1, <1>2, <1>3 DEF SendItTypes, Mains

\* Every step.
LEMMA StepSafe == IInv /\ [SendItNext]_sendItVars => IInv'
<1> SUFFICES ASSUME IInv, [SendItNext]_sendItVars PROVE IInv'
  OBVIOUS
<1>1. ASSUME NEW p \in Plans, ProposeCheck(p) \/ UseTemplate(p) PROVE IInv'
  BY <1>1, PeopleSafe, PromptSafe
<1>2. ASSUME NEW f, Edit(f) PROVE IInv'
  BY <1>2, PromptSafe
<1>3. CASE UNCHANGED sendItVars
  <2>1. UNCHANGED <<runFile, drive, main, proposal, templates, met, leftOver>>
    BY <1>3 DEF sendItVars, history
  <2> QED
    BY <2>1, FileMoves DEF IInv, SendItTypes
<1>4. ASSUME NEW event \in Events, NEW stops \in BOOLEAN, Tick(event, stops) PROVE IInv'
  BY <1>4, TickSafe
<1>5. CASE WriteEnds \/ Dispatch \/ TakeOver \/ Quit
  BY <1>5, WriteEndsSafe, DispatchSafe, QuitSafe
<1>6. ASSUME NEW result, RecordResult(result) PROVE IInv'
  BY <1>6, PeopleSafe
<1>7. ASSUME NEW b \in BOOLEAN, Talk(b) PROVE IInv'
  BY <1>7, PeopleSafe
<1>8. CASE ProposeWrites \/ Refuse \/ EndTalk \/ Status \/ SaveTemplate \/ Off \/ Held
  BY <1>8, PeopleSafe
<1>9. CASE ClearApproval \/ Go
  BY <1>9, PromptSafe
<1> QED
  BY <1>1, <1>2, <1>3, <1>4, <1>5, <1>6, <1>7, <1>8, <1>9 DEF SendItNext, Events

\* The tools of a plan are open only while a run of it is driven, for all
\* plans and limits and every order of the agent, the person and the chat.
THEOREM ApprovalEnds == SendItSpec => []ApprovedOnlyWhileDriven
<1>1. IInv => ApprovedOnlyWhileDriven
  BY DEF IInv
<1> QED
  BY InitSafe, StepSafe, <1>1, PTL DEF SendItSpec

\* No step is skipped: each step before the one a run is at was met since the
\* plan was last begun anew.
THEOREM StepsAreInOrder == SendItSpec => []EarlierStepsAreMet
<1>1. IInv => EarlierStepsAreMet
  BY DEF IInv, StopsAreReached, Reached, EarlierStepsAreMet
<1> QED
  BY InitSafe, StepSafe, <1>1, PTL DEF SendItSpec
(***************************************************************************)
(* How long a run can be.                                                  *)
(***************************************************************************)
\* The turns that a driving accounts for: those it counted, a report turn for
\* each step it has left behind, and one for the probe of a resumed run.
Spent(d) == d.turns + (d.step - 1) + (IF d.resumed /\ ~ d.probing THEN 1 ELSE 0)

\* A run that goes on has counted all its turns, and has one to spend.
GoesOnPaid ==
  /\ ran <= Spent(drive)
  /\ drive.turns < MaxTurns \/ drive.turns = 0

BoundInv ==
  /\ ran \in Nat
  /\ drive # NotDriving =>
       /\ drive.probing => drive.resumed
       /\ ~ (main.at = "next" /\ main.next \in {"stop", "done"}) => GoesOnPaid
       /\ RunIsBounded

\* Only a resumed run probes, and it probes its first step.
LEMMA StartsUnspent ==
  ASSUME NEW f \in PlanFiles, NEW worker \in {"done", "known", "unknown"}
  PROVE  LET e == StartRun(f, worker).drive
         IN  e.turns = 0 /\ e.resumed \in BOOLEAN /\ (e.probing => e.resumed)
<1> DEFINE from == IF ResumeStep(f) = 0 THEN 1 ELSE ResumeStep(f)
           d == [plan |-> f.plan, step |-> from, rounds |-> 0, probing |-> FALSE, turns |-> 0,
                 awaiting |-> "turn", resumed |-> ResumeStep(f) # 0]
           e == [d EXCEPT !.probing = TRUE]
<1>1. StartRun(f, worker) =
        IF ResumeStep(f) = 0 THEN Doing("send", d)
        ELSE IF Criterion(d) # "worker" THEN WaitOn(e)
        ELSE IF worker = "done" THEN StepMet(d)
        ELSE IF worker = "known" THEN Doing("hold", d)
        ELSE Doing("send", d)
  BY DEF StartRun
<1>2. f.plan \in Plans /\ StepsOf[f.plan] \in Seq({"worker", "check", "judge"})
      /\ StepsOf[f.plan] # <<>>
  BY SendItAssumption DEF PlanFiles
<1>3. from \in 1..Len(StepsOf[f.plan])
  BY <1>2 DEF ResumeStep
<1>4. d \in Drives
  BY <1>2, <1>3 DEF Drives
<1>5. e \in Drives /\ e.step = from /\ e.plan = f.plan
  BY <1>4, DrivesAreTyped
<1>6. WaitOn(e).drive = e
  BY <1>3, <1>5, WaitsOnStep DEF InPlan
<1> DEFINE m == [d EXCEPT !.step = @ + 1, !.rounds = 0, !.probing = FALSE]
<1>7. StepMet(d).drive \in {d, m}
  BY DEF StepMet, Doing
<1>8. CASE ResumeStep(f) # 0 /\ Criterion(d) # "worker"
  BY <1>1, <1>6, <1>8
<1>9. CASE ResumeStep(f) = 0 \/ Criterion(d) = "worker"
  <2>1. d.turns = 0 /\ d.probing = FALSE /\ d.resumed \in BOOLEAN
    OBVIOUS
  <2>2. m.turns = 0 /\ m.probing = FALSE /\ m.resumed \in BOOLEAN
    OBVIOUS
  <2> HIDE DEF d, m, e
  <2>3. Doing("send", d).drive = d /\ Doing("hold", d).drive = d
    BY DEF Doing
  <2>4. StartRun(f, worker) \in {Doing("send", d), Doing("hold", d), StepMet(d)}
    BY <1>1, <1>9
  <2>5. StartRun(f, worker).drive \in {d, m}
    BY <1>7, <2>3, <2>4
  <2> QED
    BY <2>1, <2>2, <2>5
<1> QED
  BY <1>8, <1>9

\* A decision leaves the driving a resumed one or not, and one that does not end
\* the run has accounted for the turn: the cap counts it, or a step was met, or
\* the probe is over.
LEMMA DecidesPaid ==
  ASSUME NEW d, InPlan(d), NEW event \in Events, d.probing => d.resumed
  PROVE  LET e == Decide(d, event).drive
         IN  /\ e.resumed = d.resumed /\ (e.probing => d.probing)
             /\ Decide(d, event).next \notin {"stop", "done"} =>
                  e.turns < MaxTurns /\ Spent(e) >= Spent(d) + 1
<1> DEFINE decided == AdvanceRun(d, event)
           c == decided.drive
           counted == [decided.drive EXCEPT !.turns = Counted(d, decided.next)]
           free == d.awaiting = "report" /\ decided.next # "wait"
<1>1. d \in Drives /\ d.step \in Nat /\ d.turns \in Nat /\ d.resumed \in BOOLEAN /\ d.probing \in BOOLEAN
  BY DEF InPlan, Drives
<1>2. GoesOn(decided, d, event = "met")
  BY AdvancesInPlan
<1>3. c \in Drives /\ c.step \in Nat /\ c.step >= d.step
  BY <1>1, <1>2 DEF GoesOn, Drives
<1>4. /\ c.resumed = d.resumed /\ (c.probing => d.probing)
      /\ free => \/ decided.next \in {"stop", "done"}
                 \/ c.step = d.step + 1
                 \/ d.probing /\ ~ c.probing
  <2>1. CASE event = "nothing" /\ d.awaiting # "verdict"
    BY <2>1 DEF AdvanceRun, Doing
  <2>2. CASE event = "met"
    <3>1. decided = StepMet(d)
      BY <2>2 DEF AdvanceRun
    <3>2. CASE d.step < Len(StepsOf[d.plan])
      <4>1. c = [d EXCEPT !.step = d.step + 1, !.rounds = 0, !.probing = FALSE]
        BY <3>1, <3>2 DEF StepMet, Doing
      <4> QED
        BY <1>1, <4>1 DEF Drives
    <3>3. CASE ~ (d.step < Len(StepsOf[d.plan]))
      BY <3>1, <3>3 DEF StepMet, Doing
    <3> QED
      BY <3>2, <3>3
  <2>3. CASE event = "unmet" /\ d.awaiting = "report" /\ d.probing
    <3>1. c = [d EXCEPT !.probing = FALSE]
      BY <2>3 DEF AdvanceRun, Doing
    <3> QED
      BY <1>1, <2>3, <3>1 DEF Drives
  <2>4. CASE event = "unmet" /\ d.awaiting = "report" /\ ~ d.probing
    BY <2>4 DEF AdvanceRun, Doing
  <2>5. CASE (event = "nothing" /\ d.awaiting = "verdict") \/ (event = "unmet" /\ d.awaiting # "report")
    <3> DEFINE rounds == d.rounds + (IF d.probing THEN 0 ELSE 1)
    <3>1. c \in {d, [d EXCEPT !.rounds = rounds, !.probing = FALSE]}
      BY <2>5 DEF AdvanceRun, Doing
    <3>2. ~ free
      BY <2>5
    <3> QED
      BY <1>1, <3>1, <3>2 DEF Drives
  <2> QED
    BY <2>1, <2>2, <2>3, <2>4, <2>5 DEF Events
<1>5. Counted(d, decided.next) = (IF free THEN d.turns ELSE d.turns + 1)
  BY DEF Counted
<1>6. Counted(d, decided.next) \in Nat
  BY <1>1, <1>5
<1>7. /\ counted \in Drives /\ counted.plan = c.plan /\ counted.step = c.step
      /\ counted.turns = Counted(d, decided.next)
      /\ counted.resumed = c.resumed /\ counted.probing = c.probing
  BY <1>3, <1>6 DEF Drives
<1>8. InPlan(counted)
  <2>1. counted.plan = d.plan /\ (counted.step = d.step \/ (counted.step = d.step + 1 /\ d.step < Len(StepsOf[d.plan])))
    BY <1>2, <1>7 DEF GoesOn
  <2> QED
    BY <1>7, <2>1 DEF InPlan, Drives
<1>9. WaitOn(counted).drive = counted
  BY <1>8, WaitsOnStep
<1>10. Decide(d, event) = IF decided.next \in {"stop", "done"} THEN Doing(decided.next, counted)
        ELSE IF counted.turns >= MaxTurns THEN Doing("stop", counted)
        ELSE IF decided.next = "wait" THEN WaitOn(counted)
        ELSE Doing(decided.next, counted)
  BY DEF Decide
<1>11. Decide(d, event).drive = counted
  BY <1>9, <1>10 DEF Doing
<1>12. ASSUME Decide(d, event).next \notin {"stop", "done"}
       PROVE  counted.turns < MaxTurns /\ Spent(counted) >= Spent(d) + 1
  <2>1. decided.next \notin {"stop", "done"} /\ ~ (counted.turns >= MaxTurns)
    BY <1>10, <1>12 DEF Doing
  <2>2. counted.turns < MaxTurns
    BY <1>6, <1>7, <2>1, SendItAssumption
  <2>3. CASE ~ free
    <3>1. counted.turns = d.turns + 1
      BY <1>5, <1>7, <2>3
    <3> QED
      BY <1>1, <1>3, <1>4, <1>7, <2>2, <3>1 DEF Spent
  <2>4. CASE free
    <3>1. counted.turns = d.turns
      BY <1>5, <1>7, <2>4
    <3> QED
      BY <1>1, <1>3, <1>4, <1>7, <2>1, <2>2, <2>4, <3>1 DEF Spent
  <2> QED
    BY <2>3, <2>4
<1> QED
  BY <1>4, <1>7, <1>11, <1>12

\* A run that has counted all its turns may have one more, and is then within
\* its bound, also if it stops there.
LEMMA PaidIsBounded ==
  ASSUME NEW d, InPlan(d), NEW n \in Nat, n <= Spent(d), d.turns < MaxTurns \/ d.turns = 0
  PROVE  n + 1 <= MaxTurns + Len(StepsOf[d.plan]) + (IF d.resumed THEN 1 ELSE 0)
<1>1. d.step \in Nat /\ d.turns \in Nat /\ d.resumed \in BOOLEAN /\ d.probing \in BOOLEAN
  BY DEF InPlan, Drives
<1>2. Len(StepsOf[d.plan]) \in Nat /\ d.step <= Len(StepsOf[d.plan]) /\ d.step >= 1 /\ MaxTurns \in Nat
  BY SendItAssumption DEF InPlan, Drives
<1>3. n <= d.turns + (d.step - 1) + (IF d.resumed THEN 1 ELSE 0)
  BY <1>1 DEF Spent
<1>4. d.turns + (d.step - 1) + 1 <= MaxTurns + Len(StepsOf[d.plan])
  BY <1>1, <1>2
<1> DEFINE len == Len(StepsOf[d.plan])
           probes == IF d.resumed THEN 1 ELSE 0
<1>5. probes \in Nat /\ len \in Nat /\ n <= d.turns + (d.step - 1) + probes
      /\ d.turns + (d.step - 1) + 1 <= MaxTurns + len
  BY <1>2, <1>3, <1>4
<1> HIDE DEF len, probes
<1>6. n + 1 <= MaxTurns + len + probes
  BY <1>1, <1>2, <1>5
<1> QED
  BY <1>6 DEF len, probes

\* The end of a turn of the run: the one step that counts.
LEMMA TickPaid ==
  ASSUME IInv, BoundInv, NEW event \in Events, NEW stops \in BOOLEAN, Tick(event, stops)
  PROVE  BoundInv'
<1>1. drive # NotDriving /\ drive \in Drives /\ main.at \in {"turn", "report"}
  BY DEF Tick, IInv, DrivesInTurns, SendItTypes
<1>2. InPlan(drive)
  <2>1. Len(StepsOf[drive.plan]) \in Nat /\ drive.step \in Nat
    BY <1>1, SendItAssumption DEF Drives
  <2> QED
    BY <1>1, <2>1 DEF InPlan, Reached, IInv, StopsAreReached
<1>3. ran \in Nat /\ ran' = ran + 1 /\ GoesOnPaid /\ (drive.probing => drive.resumed)
  BY <1>1 DEF BoundInv, Tick
<1>4. ran' <= MaxTurns + Len(StepsOf[drive.plan]) + (IF drive.resumed THEN 1 ELSE 0)
  BY <1>2, <1>3, PaidIsBounded DEF GoesOnPaid
<1>5. CASE IsApproved(runFile) /\ runFile.plan = drive.plan /\ ~ refused /\ ~ stops
  <2> DEFINE doing == Decide(drive, event)
             e == doing.drive
  <2>1. GoesOn(doing, drive, event = "met")
    BY <1>2, DecidesInPlan
  <2>2. main' = [at |-> "next", next |-> doing.next]
        /\ drive' = [doing.drive EXCEPT !.awaiting = Awaiting(doing.next)]
    BY <1>5 DEF Tick, ToDo
  <2>3. e \in Drives /\ e.plan = drive.plan
    BY <2>1 DEF GoesOn
  <2>4. /\ drive'.plan = e.plan /\ drive'.step = e.step /\ drive'.turns = e.turns
        /\ drive'.resumed = e.resumed /\ drive'.probing = e.probing
    BY <2>2, <2>3 DEF Drives
  <2>5. /\ e.resumed = drive.resumed /\ (e.probing => drive.probing)
        /\ doing.next \notin {"stop", "done"} =>
             e.turns < MaxTurns /\ Spent(e) >= Spent(drive) + 1
    BY <1>2, <1>3, DecidesPaid
  <2>6. Spent(e) \in Int /\ Spent(drive) \in Int
    BY <1>1, <2>3 DEF Spent, Drives
  <2>7. Spent(drive)' = Spent(e)
    BY <2>4 DEF Spent
  <2>8. (drive.probing => drive.resumed)'
    BY <1>3, <2>4, <2>5
  <2>9. RunIsBounded'
    BY <1>4, <2>3, <2>4, <2>5 DEF RunIsBounded
  <2>10. (~ (main.at = "next" /\ main.next \in {"stop", "done"}) => GoesOnPaid)'
    <3>1. SUFFICES ASSUME doing.next \notin {"stop", "done"} PROVE GoesOnPaid'
      BY <2>2
    <3> QED
      BY <1>3, <2>4, <2>5, <2>6, <2>7, <3>1 DEF GoesOnPaid
  <2> QED
    BY <1>3, <2>8, <2>9, <2>10 DEF BoundInv
<1>6. CASE ~ (IsApproved(runFile) /\ runFile.plan = drive.plan /\ ~ refused /\ ~ stops)
  <2>1. main' = [at |-> "next", next |-> "stop"] /\ drive' = [drive EXCEPT !.turns = @ + 1]
    BY <1>6 DEF Tick
  <2>2. /\ drive'.plan = drive.plan /\ drive'.resumed = drive.resumed
        /\ drive'.probing = drive.probing
    BY <1>1, <2>1 DEF Drives
  <2>3. RunIsBounded'
    BY <1>4, <2>2 DEF RunIsBounded
  <2> QED
    BY <1>3, <2>1, <2>2, <2>3 DEF BoundInv
<1> QED
  BY <1>5, <1>6

\* A run begins with nothing spent.
LEMMA BeginsPaid ==
  ASSUME IInv, WriteEnds, main.then = "run"
  PROVE  BoundInv'
<1>1. main.at = "writing" /\ main.then = "run" /\ ran' = 0
  BY DEF WriteEnds
<1>2. PICK worker \in {"done", "known", "unknown"} : ToDo(StartRun(main.file, worker))
  BY <1>1 DEF WriteEnds
<1>3. PICK f : f = main.file
  OBVIOUS
<1>4. f \in PlanFiles
  BY <1>1, <1>3 DEF IInv, SendItTypes, Mains
<1> DEFINE doing == StartRun(f, worker)
           e == doing.drive
<1>5. e.turns = 0 /\ e.resumed \in BOOLEAN /\ (e.probing => e.resumed)
  BY <1>4, StartsUnspent
<1>6. e \in Drives /\ e.plan = f.plan /\ e.step >= 1 /\ e.step \in Nat
  <2>1. LET from == IF ResumeStep(f) = 0 THEN 1 ELSE ResumeStep(f)
        IN  /\ e \in Drives /\ e.plan = f.plan /\ from \in 1..Len(StepsOf[f.plan])
            /\ (e.step = from \/ e.step = from + 1)
    BY <1>4, StartsInPlan
  <2> QED
    BY <2>1 DEF Drives
<1>7. drive' = [e EXCEPT !.awaiting = Awaiting(doing.next)]
  BY <1>2, <1>3 DEF ToDo
<1>8. /\ drive'.turns = 0 /\ drive'.resumed = e.resumed /\ drive'.probing = e.probing
      /\ drive'.step = e.step /\ drive'.plan = f.plan
  BY <1>5, <1>6, <1>7 DEF Drives
<1>9. GoesOnPaid'
  <2>1. Spent(drive)' >= 0
    BY <1>5, <1>6, <1>8 DEF Spent
  <2> QED
    BY <1>1, <1>8, <2>1 DEF GoesOnPaid
<1>10. RunIsBounded'
  <2>1. Len(StepsOf[f.plan]) \in Nat /\ MaxTurns \in Nat
    BY <1>4, SendItAssumption DEF PlanFiles
  <2>2. (IF e.resumed THEN 1 ELSE 0) \in Nat
    OBVIOUS
  <2>3. \A a, b, c \in Nat : 0 <= a + b + c
    OBVIOUS
  <2>4. 0 <= MaxTurns + Len(StepsOf[f.plan]) + (IF e.resumed THEN 1 ELSE 0)
    BY ONLY <2>1, <2>2, <2>3, Zenon
  <2> QED
    BY <1>1, <1>8, <2>4 DEF RunIsBounded
<1> QED
  BY <1>1, <1>5, <1>8, <1>9, <1>10 DEF BoundInv

\* A step that ends the driving, or leaves it and its turns as they are.
LEMMA LeavesPaid ==
  ASSUME BoundInv, ran' = ran,
         \/ drive' = NotDriving
         \/ /\ drive' = drive
            /\ \/ main' = main
               \/ main'.at # "next" /\ ~ (main.at = "next" /\ main.next \in {"stop", "done"})
  PROVE  BoundInv'
  BY DEF BoundInv, RunIsBounded, GoesOnPaid, Spent

LEMMA StepPaid == IInv /\ BoundInv /\ [SendItNext]_sendItVars => BoundInv'
<1> SUFFICES ASSUME IInv, BoundInv, [SendItNext]_sendItVars PROVE BoundInv'
  OBVIOUS
<1>1. ASSUME NEW p \in Plans, ProposeCheck(p) \/ UseTemplate(p) PROVE BoundInv'
  BY <1>1, LeavesPaid DEF ProposeCheck, UseTemplate, Save, Writing, history
<1>2. ASSUME NEW f, Edit(f) PROVE BoundInv'
  BY <1>2, LeavesPaid DEF Edit, At, history
<1>3. CASE UNCHANGED sendItVars
  BY <1>3, LeavesPaid DEF sendItVars, history
<1>4. ASSUME NEW event \in Events, NEW stops \in BOOLEAN, Tick(event, stops) PROVE BoundInv'
  BY <1>4, TickPaid
<1>5. CASE WriteEnds
  <2>1. CASE main.then = "run"
    BY <1>5, <2>1, BeginsPaid
  <2>2. CASE main.then # "run"
    BY <1>5, <2>2, LeavesPaid DEF WriteEnds, At
  <2> QED
    BY <2>1, <2>2
<1>6. CASE Dispatch
  <2>1. main.next \in Nexts /\ main.at = "next"
    BY <1>6 DEF Dispatch, IInv, SendItTypes, Mains
  <2>2. \/ drive' = NotDriving
        \/ /\ main' \in {At("turn"), At("hold")} /\ UNCHANGED drive
           /\ main.next \notin {"stop", "done"}
    BY <1>6, <2>1 DEF Dispatch, Nexts, Release, Done
  <2>3. ran' = ran
    BY <1>6 DEF Dispatch, history
  <2> QED
    BY <2>1, <2>2, <2>3, LeavesPaid DEF At
<1>7. CASE TakeOver \/ Quit
  BY <1>7, LeavesPaid DEF TakeOver, Quit, Release, history
<1>8. ASSUME NEW result, RecordResult(result) PROVE BoundInv'
  BY <1>8, LeavesPaid DEF RecordResult, history
<1>9. ASSUME NEW b \in BOOLEAN, Talk(b) PROVE BoundInv'
  BY <1>9, LeavesPaid DEF Talk, history
<1>10. CASE ProposeWrites \/ Refuse \/ Status \/ SaveTemplate \/ Off
  BY <1>10, LeavesPaid DEF ProposeWrites, Refuse, Status, SaveTemplate, Off, history
<1>11. CASE EndTalk \/ Held \/ ClearApproval \/ Go
  BY <1>11, LeavesPaid DEF EndTalk, Held, ClearApproval, Go, Save, Writing, At, history
<1> QED
  BY <1>1, <1>2, <1>3, <1>4, <1>5, <1>6, <1>7, <1>8, <1>9, <1>10, <1>11 DEF SendItNext, Events

\* A run ends by itself: it never has more turns than its cap, a report turn
\* for each step and one for the step a resumed run probes (Limits.max_turns and
\* the free report turns of chat_send_it/drive.rs).
THEOREM RunsEnd == SendItSpec => []RunIsBounded
<1>1. SendItInit => BoundInv
  BY DEF SendItInit, BoundInv
<1>2. BoundInv => RunIsBounded
  BY DEF BoundInv, RunIsBounded
<1> QED
  BY InitSafe, StepSafe, <1>1, <1>2, StepPaid, PTL DEF SendItSpec

(***************************************************************************)
(* The replies of a chat's turns, for any lines, reports and retries.      *)
(***************************************************************************)
Sayings == Lines \cup Reports
Heards == Sayings \cup {"ping"}
Results == [answers : Heards \cup {"stray"}, how : {"ok", "problem", "outage"}, late : BOOLEAN]
Entries == [kind : {"user", "worker", "reply"}, msg : Sayings, from : Sayings \cup Results]

\* The fields that no reply depends on are whatever they are.
TurnTypes ==
  /\ turn = [msg |-> turn.msg, before |-> turn.before, tries |-> turn.tries,
             reused |-> turn.reused, cut |-> turn.cut, result |-> turn.result, from |-> turn.from]
  /\ at \in {"prompt", "taking", "attempt", "checked", "exchange", "attempted"}
  /\ at # "prompt" => turn.msg \in Sayings
  /\ left \subseteq Sayings /\ log \in Seq(Entries) /\ strays \in Nat
ProcessTypes ==
  /\ process = [up |-> process.up, alive |-> process.alive, told |-> process.told,
                in |-> process.in, out |-> process.out]
  /\ process.in \in Seq(Heards) /\ process.out \in Seq(Results)

\* A result that the turn of a message may take for its answer.
MayAnswer(r, m) == r.answers = m \/ (strays > 0 /\ r.late)

\* What a turn may read, has read, and has logged.
MayBeRead ==
  at \in {"checked", "exchange"} => \A i \in 1..Len(process.out) : MayAnswer(process.out[i], turn.msg)
WasRead ==
  at = "attempted" /\ turn.result = "ok" => turn.from \in Results /\ MayAnswer(turn.from, turn.msg)
WasLogged ==
  \A i \in 1..Len(log) : log[i].kind = "reply" => MayAnswer(log[i].from, log[i].msg)

\* The turn and the ping have the process to themselves.
InTurns == pinging => at \in {"prompt", "taking"}

\* Unless the process writes by itself, one line at most waits in it, or its
\* result, and it is the line of the ping or of the turn that is on.
OneWaits ==
  strays = 0 =>
    /\ Len(process.in) + Len(process.out) <= (IF pinging \/ at = "exchange" THEN 1 ELSE 0)
    /\ at = "exchange" => \A i \in 1..Len(process.in) : process.in[i] = turn.msg

ReplyInv == TurnTypes /\ ProcessTypes /\ MayBeRead /\ WasRead /\ WasLogged /\ InTurns /\ OneWaits

LEMMA RepliesStart == ChatTurnInit => ReplyInv
<1> SUFFICES ASSUME ChatTurnInit PROVE ReplyInv
  OBVIOUS
<1>1. TurnTypes /\ ProcessTypes
  BY DEF ChatTurnInit, TurnTypes, ProcessTypes, Idle, NoProcess, Sayings
<1> QED
  BY <1>1 DEF ChatTurnInit, ReplyInv, MayBeRead, WasRead, WasLogged, InTurns, OneWaits, NoProcess

\* A sequence with one more entry.
LEMMA OneMore ==
  ASSUME NEW S, NEW s \in Seq(S), NEW e \in S
  PROVE  /\ s \o <<e>> \in Seq(S) /\ Len(s \o <<e>>) = Len(s) + 1
         /\ \A i \in 1..Len(s) : (s \o <<e>>)[i] = s[i]
         /\ (s \o <<e>>)[Len(s) + 1] = e
  OBVIOUS

\* A process that is gone, or that only its slot or its end changes.
LEMMA NoProcessIsTyped ==
  /\ NoProcess = [up |-> NoProcess.up, alive |-> NoProcess.alive, told |-> NoProcess.told,
                  in |-> NoProcess.in, out |-> NoProcess.out]
  /\ NoProcess.in = <<>> /\ NoProcess.out = <<>>
  BY DEF NoProcess

LEMMA TakingKeeps ==
  ASSUME ReplyInv, (\E m \in Sayings : Submit(m)) \/ Cancel \/ TakeSession \/ CutTurn
  PROVE  ReplyInv'
<1>1. CASE \E m \in Sayings : Submit(m)
  <2> PICK m \in Sayings : Submit(m)
    BY <1>1
  <2>1. process' = process /\ strays' = strays /\ pinging' = pinging /\ at = "prompt" /\ at' = "taking"
    BY DEF Submit
  <2>2. turn' = [Idle EXCEPT !.msg = m, !.before = Len(log)] /\ left' = left \ {m}
    BY DEF Submit
  <2>3. log' = log \/ log' = log \o <<[kind |-> "worker", msg |-> m, from |-> m]>>
    BY DEF Submit
  <2> DEFINE e == [kind |-> "worker", msg |-> m, from |-> m]
  <2>4. e \in Entries /\ e.kind = "worker"
    BY DEF Entries
  <2>5. TurnTypes' /\ ProcessTypes'
    <3>1. turn' = [msg |-> m, before |-> Len(log), tries |-> 0, reused |-> FALSE, cut |-> FALSE,
                   result |-> NoMessage, from |-> NoMessage]
      BY <2>2 DEF Idle
    <3>2. log' \in Seq(Entries)
      BY <2>3, <2>4, OneMore DEF ReplyInv, TurnTypes
    <3> QED
      BY <2>1, <2>2, <3>1, <3>2 DEF ReplyInv, TurnTypes, ProcessTypes
  <2>6. WasLogged'
    <3>1. CASE log' = log
      BY <2>1, <3>1 DEF ReplyInv, WasLogged, MayAnswer
    <3>2. CASE log' = log \o <<e>>
      <4>1. log \in Seq(Entries)
        BY DEF ReplyInv, TurnTypes
      <4>2. /\ Len(log') = Len(log) + 1 /\ log'[Len(log) + 1] = e
            /\ \A i \in 1..Len(log) : log'[i] = log[i]
        BY <2>4, <3>2, <4>1, OneMore
      <4>3. \A i \in 1..Len(log') : i \in 1..Len(log) \/ i = Len(log) + 1
        BY <4>1, <4>2
      <4> QED
        BY <2>1, <2>4, <4>2, <4>3 DEF ReplyInv, WasLogged, MayAnswer
    <3> QED
      BY <2>3, <3>1, <3>2
  <2> QED
    BY <2>1, <2>5, <2>6 DEF ReplyInv, MayBeRead, WasRead, InTurns, OneWaits
<1>2. CASE Cancel
  BY <1>2 DEF Cancel, ReplyInv, TurnTypes, ProcessTypes, MayBeRead, WasRead, WasLogged, InTurns, OneWaits,
     MayAnswer
<1>3. CASE TakeSession
  <2>1. process' \in {process, NoProcess} /\ at = "taking" /\ ~ pinging
    BY <1>3 DEF TakeSession
  <2>2. UNCHANGED <<log, strays, pinging>> /\ left' \subseteq Sayings
        /\ \/ at' = "attempt" /\ turn' = turn
           \/ at' = "prompt" /\ turn' = Idle
    <3>1. CASE cancel
      BY <1>3, <3>1 DEF TakeSession, Unanswered, ReplyInv, TurnTypes, Sayings
    <3>2. CASE ~ cancel
      BY <1>3, <3>2 DEF TakeSession, ReplyInv, TurnTypes
    <3> QED
      BY <3>1, <3>2
  <2>3. ProcessTypes' /\ Len(process'.in) <= Len(process.in) /\ Len(process'.out) <= Len(process.out)
    <3>1. CASE process' = process
      BY <3>1 DEF ReplyInv, ProcessTypes
    <3>2. CASE process' = NoProcess
      BY <3>2, NoProcessIsTyped DEF ReplyInv, ProcessTypes
    <3> QED
      BY <2>1, <3>1, <3>2
  <2>4. TurnTypes'
    BY <2>1, <2>2 DEF ReplyInv, TurnTypes, Idle
  <2>5. OneWaits'
    BY <2>1, <2>2, <2>3 DEF ReplyInv, OneWaits, ProcessTypes
  <2> QED
    BY <2>1, <2>2, <2>3, <2>4, <2>5 DEF ReplyInv, MayBeRead, WasRead, WasLogged, InTurns, MayAnswer
<1>4. CASE CutTurn
  <2>1. /\ turn' = [turn EXCEPT !.cut = TRUE]
        /\ UNCHANGED <<log, left, at, pinging, process, strays>> /\ at = "exchange"
    BY <1>4 DEF CutTurn
  <2>2. turn'.msg = turn.msg /\ TurnTypes' /\ ProcessTypes'
    BY <2>1 DEF ReplyInv, TurnTypes, ProcessTypes
  <2> QED
    BY <2>1, <2>2 DEF ReplyInv, MayBeRead, WasRead, WasLogged, InTurns, OneWaits, MayAnswer
<1> QED
  BY <1>1, <1>2, <1>3, <1>4

\* A process by its fields.
LEMMA ProcessOf ==
  ASSUME NEW u, NEW a, NEW t, NEW i \in Seq(Heards), NEW o \in Seq(Results),
         process' = [up |-> u, alive |-> a, told |-> t, in |-> i, out |-> o]
  PROVE  ProcessTypes' /\ process'.in = i /\ process'.out = o
  BY DEF ProcessTypes

\* Launch, CheckLeftover, SendPrompt.
LEMMA AttemptKeeps ==
  ASSUME ReplyInv, Launch \/ CheckLeftover \/ SendPrompt
  PROVE  ReplyInv'
<1>1. UNCHANGED <<log, left, pinging, strays>> /\ left \subseteq Sayings /\ log \in Seq(Entries)
      /\ strays \in Nat /\ at \in {"attempt", "checked"} /\ ~ pinging /\ turn.msg \in Sayings
  BY DEF Launch, CheckLeftover, SendPrompt, ReplyInv, TurnTypes, InTurns
<1>2. turn'.msg = turn.msg /\ (at' = "attempted" => turn'.result = "problem")
      /\ turn' = [msg |-> turn'.msg, before |-> turn'.before, tries |-> turn'.tries,
                  reused |-> turn'.reused, cut |-> turn'.cut, result |-> turn'.result,
                  from |-> turn'.from]
  BY DEF Launch, CheckLeftover, SendPrompt, ReplyInv, TurnTypes
<1>3. at' \in {"attempt", "checked", "exchange", "attempted"}
  BY DEF Launch, CheckLeftover, SendPrompt
<1>4. WasLogged' /\ TurnTypes' /\ InTurns' /\ WasRead'
  BY <1>1, <1>2, <1>3 DEF ReplyInv, WasLogged, WasRead, MayAnswer, TurnTypes, InTurns
<1>5. CASE process' = NoProcess /\ at' # "exchange"
  <2>1. ProcessTypes' /\ process'.in = <<>> /\ process'.out = <<>>
    BY <1>5, NoProcessIsTyped DEF ProcessTypes
  <2> QED
    BY <1>1, <1>4, <1>5, <2>1 DEF ReplyInv, MayBeRead, OneWaits
<1>6. CASE Launch
  <2>1. CASE process' = [NoProcess EXCEPT !.up = TRUE, !.alive = TRUE, !.told = View] /\ at' = "checked"
    <3>1. ProcessTypes' /\ process'.in = <<>> /\ process'.out = <<>>
      <4>1. process' = [up |-> TRUE, alive |-> TRUE, told |-> View, in |-> <<>>, out |-> <<>>]
        BY <2>1 DEF NoProcess
      <4>2. <<>> \in Seq(Heards) /\ <<>> \in Seq(Results)
        OBVIOUS
      <4> QED
        BY ONLY <4>1, <4>2, ProcessOf
    <3>2. Len(process'.in) = 0 /\ Len(process'.out) = 0
      BY <3>1
    <3>3. MayBeRead' /\ OneWaits'
      <4>1. at' = "checked"
        BY <2>1
      <4> QED
        BY ONLY <3>2, <4>1 DEF MayBeRead, OneWaits
    <3> QED
      BY <1>4, <3>1, <3>3 DEF ReplyInv
  <2>2. CASE process' = process /\ at' = "attempted"
    BY <1>1, <1>4, <1>6, <2>2 DEF Launch, ReplyInv, MayBeRead, OneWaits, ProcessTypes
  <2> QED
    BY <1>6, <2>1, <2>2 DEF Launch
<1>7. CASE CheckLeftover
  <2>1. CASE Leftover(process)
    BY <1>5, <1>7, <2>1 DEF CheckLeftover
  <2>2. CASE ~ Leftover(process)
    <3>1. process' = [process EXCEPT !.out = <<>>] /\ at' = "checked" /\ process.out = <<>>
      BY <1>7, <2>2 DEF CheckLeftover, Leftover
    <3>2. ProcessTypes' /\ process'.in = process.in /\ process'.out = <<>>
      BY <3>1 DEF ReplyInv, ProcessTypes
    <3> QED
      BY <1>1, <1>4, <1>7, <3>1, <3>2 DEF CheckLeftover, ReplyInv, MayBeRead, OneWaits
  <2> QED
    BY <2>1, <2>2
<1>8. CASE SendPrompt
  <2>1. CASE process.up
    <3>1. /\ process' = [process EXCEPT !.told = Append(@, turn.msg), !.in = Append(@, turn.msg)]
          /\ at' = "exchange"
      BY <1>8, <2>1 DEF SendPrompt
    <3>2. ProcessTypes' /\ process'.in = Append(process.in, turn.msg) /\ process'.out = process.out
      <4>1. process' = [up |-> process.up, alive |-> process.alive, told |-> Append(process.told, turn.msg),
                        in |-> Append(process.in, turn.msg), out |-> process.out]
        BY <3>1 DEF ReplyInv, ProcessTypes
      <4>2. Append(process.in, turn.msg) \in Seq(Heards) /\ process.out \in Seq(Results)
        BY <1>1 DEF ReplyInv, ProcessTypes, Heards
      <4> QED
        BY <4>1, <4>2, ProcessOf
    <3>3. MayBeRead'
      BY <1>1, <1>2, <1>8, <3>2 DEF SendPrompt, ReplyInv, MayBeRead, MayAnswer
    <3>4. OneWaits'
      BY <1>1, <1>2, <1>8, <3>1, <3>2 DEF SendPrompt, ReplyInv, OneWaits, ProcessTypes
    <3> QED
      BY <1>4, <3>2, <3>3, <3>4 DEF ReplyInv
  <2> QED
    BY <1>5, <1>8, <2>1 DEF SendPrompt
<1> QED
  BY <1>6, <1>7, <1>8

\* ReadResult, LoseProcess, Retry.
LEMMA ExchangeKeeps ==
  ASSUME ReplyInv, ReadResult \/ LoseProcess \/ Retry
  PROVE  ReplyInv'
<1>1. UNCHANGED <<log, left, pinging, strays>> /\ left \subseteq Sayings /\ log \in Seq(Entries)
      /\ strays \in Nat /\ at \in {"exchange", "attempted"} /\ ~ pinging /\ turn.msg \in Sayings
  BY DEF ReadResult, LoseProcess, Retry, ReplyInv, TurnTypes, InTurns
<1>2. turn'.msg = turn.msg
      /\ turn' = [msg |-> turn'.msg, before |-> turn'.before, tries |-> turn'.tries,
                  reused |-> turn'.reused, cut |-> turn'.cut, result |-> turn'.result,
                  from |-> turn'.from]
  BY DEF ReadResult, LoseProcess, Retry, ReplyInv, TurnTypes
<1>3. at' \in {"attempt", "attempted"}
  BY DEF ReadResult, LoseProcess, Retry
<1>4. WasLogged' /\ TurnTypes' /\ InTurns' /\ MayBeRead'
  BY <1>1, <1>2, <1>3 DEF ReplyInv, WasLogged, MayAnswer, TurnTypes, InTurns, MayBeRead
<1>5. CASE ReadResult
  <2>1. Head(process.out) \in Results /\ MayAnswer(Head(process.out), turn.msg)
    BY <1>5 DEF ReadResult, ReplyInv, ProcessTypes, MayBeRead
  <2>2. WasRead'
    <3>1. turn'.from = Head(process.out)
      BY <1>5 DEF ReadResult, ReplyInv, TurnTypes
    <3> QED
      BY <1>1, <1>2, <2>1, <3>1 DEF WasRead, MayAnswer
  <2>3. ProcessTypes' /\ process'.in = process.in /\ process'.out = <<>>
    <3>1. process' = [up |-> process.up, alive |-> process.up, told |-> process.told,
                      in |-> process.in, out |-> <<>>]
      BY <1>5 DEF ReadResult, ReplyInv, ProcessTypes
    <3>2. process.in \in Seq(Heards) /\ <<>> \in Seq(Results)
      BY DEF ReplyInv, ProcessTypes
    <3> QED
      BY <3>1, <3>2, ProcessOf
  <2>4. OneWaits'
    BY <1>1, <1>3, <1>5, <2>3 DEF ReadResult, ReplyInv, OneWaits, ProcessTypes
  <2> QED
    BY <1>4, <2>2, <2>3, <2>4 DEF ReplyInv
<1>6. CASE LoseProcess \/ Retry
  <2>1. process' = NoProcess
    BY <1>6 DEF LoseProcess, Retry
  <2>3. WasRead'
    <3> DEFINE r == [answers |-> turn.msg, how |-> "ok", late |-> FALSE]
    <3>1. at' = "attempted" => turn'.result # "ok" \/ turn'.from = r
      BY <1>6 DEF LoseProcess, Retry, ReplyInv, TurnTypes
    <3>2. r \in Results /\ r.answers = turn'.msg
      BY <1>1, <1>2 DEF Results, Heards
    <3> HIDE DEF r
    <3> QED
      BY <3>1, <3>2 DEF WasRead, MayAnswer
  <2>2. ProcessTypes' /\ process'.in = <<>> /\ process'.out = <<>>
    BY <2>1, NoProcessIsTyped DEF ProcessTypes
  <2> QED
    BY <1>1, <1>3, <1>4, <2>1, <2>2, <2>3 DEF ReplyInv, OneWaits
<1> QED
  BY <1>5, <1>6

\* The pings.
LEMMA PingKeeps ==
  ASSUME ReplyInv, Ping \/ PingResult \/ PingTimeout
  PROVE  ReplyInv'
<1>1. UNCHANGED turnState /\ strays' = strays /\ strays \in Nat /\ at \in {"prompt", "taking"}
  BY DEF Ping, PingResult, PingTimeout, NoTurnRuns, ReplyInv, InTurns, TurnTypes
<1>2. TurnTypes' /\ WasLogged' /\ WasRead' /\ MayBeRead' /\ InTurns'
  BY <1>1 DEF turnState, ReplyInv, TurnTypes, WasLogged, WasRead, MayBeRead, InTurns, MayAnswer
<1>3. CASE process' = NoProcess
  <2>1. ProcessTypes' /\ process'.in = <<>> /\ process'.out = <<>>
    BY <1>3, NoProcessIsTyped DEF ProcessTypes
  <2> QED
    BY <1>1, <1>2, <2>1 DEF turnState, ReplyInv, OneWaits
<1>4. CASE Ping /\ ~ Leftover(process)
  <2>1. /\ process' = [process EXCEPT !.out = <<>>, !.in = Append(@, "ping")]
        /\ pinging' /\ ~ pinging /\ process.out = <<>>
    BY <1>4 DEF Ping, Leftover
  <2>2. ProcessTypes' /\ process'.in = Append(process.in, "ping") /\ process'.out = <<>>
    <3>1. process' = [up |-> process.up, alive |-> process.alive, told |-> process.told,
                      in |-> Append(process.in, "ping"), out |-> <<>>]
      BY <2>1 DEF ReplyInv, ProcessTypes
    <3>2. Append(process.in, "ping") \in Seq(Heards) /\ <<>> \in Seq(Results)
      BY DEF ReplyInv, ProcessTypes, Heards
    <3> QED
      BY <3>1, <3>2, ProcessOf
  <2>3. OneWaits'
    BY <1>1, <2>1, <2>2 DEF turnState, ReplyInv, OneWaits, ProcessTypes
  <2> QED
    BY <1>2, <2>2, <2>3 DEF ReplyInv
<1>5. CASE PingResult /\ process.up
  <2>1. process' = [process EXCEPT !.out = <<>>] /\ pinging /\ ~ pinging' /\ process.out # <<>>
    BY <1>5 DEF PingResult
  <2>2. ProcessTypes' /\ process'.in = process.in /\ process'.out = <<>>
    BY <2>1 DEF ReplyInv, ProcessTypes
  <2>3. OneWaits'
    BY <1>1, <2>1, <2>2 DEF turnState, ReplyInv, OneWaits, ProcessTypes
  <2> QED
    BY <1>2, <2>2, <2>3 DEF ReplyInv
<1> QED
  BY <1>3, <1>4, <1>5 DEF Ping, PingResult, PingTimeout

\* The process writes, for what it heard or by itself, or exits.
LEMMA WritesKeep ==
  ASSUME ReplyInv, (\E how \in {"ok", "problem", "outage"} : Answer(how)) \/ Stray \/ Exit
  PROVE  ReplyInv'
<1>1. /\ UNCHANGED <<turnState, pinging>> /\ strays \in Nat /\ strays' \in Nat /\ strays <= strays'
      /\ \A m : Late(m) \in BOOLEAN
      /\ at \in {"checked", "exchange"} => turn.msg \in Sayings
  BY DEF Answer, Stray, Exit, WriteRest, ReplyInv, TurnTypes, Late
<1>2. \A r, m : MayAnswer(r, m) => MayAnswer(r, m)'
  BY <1>1 DEF MayAnswer
<1>3. TurnTypes' /\ WasLogged' /\ WasRead' /\ InTurns'
  BY <1>1 DEF turnState, ReplyInv, TurnTypes, WasLogged, WasRead, InTurns, MayAnswer
<1>4. ASSUME NEW m \in Heards \cup {"stray"}, NEW how \in {"ok", "problem", "outage"}, NEW i \in Seq(Heards),
             process' = [process EXCEPT !.in = i, !.out = Write(m, how)],
             at \in {"checked", "exchange"} /\ m # turn.msg => strays' > 0
      PROVE  ProcessTypes' /\ process'.in = i /\ Len(process'.out) = Len(process.out) + 1 /\ MayBeRead'
  <2> DEFINE r == [answers |-> m, how |-> how, late |-> Late(m)]
  <2>1. r \in Results
    BY <1>1 DEF Results
  <2>2. Write(m, how) = Append(process.out, r) /\ process.out \in Seq(Results)
    BY DEF Write, ReplyInv, ProcessTypes
  <2>3. process' = [up |-> process.up, alive |-> process.alive, told |-> process.told,
                    in |-> i, out |-> Append(process.out, r)]
    BY <1>4, <2>2 DEF ReplyInv, ProcessTypes
  <2>4. ProcessTypes' /\ process'.in = i /\ process'.out = Append(process.out, r)
    <3>1. Append(process.out, r) \in Seq(Results) /\ i \in Seq(Heards)
      BY <2>1, <2>2
    <3> HIDE DEF r
    <3> QED
      BY ONLY <2>3, <3>1, ProcessOf
  <2>5. at \in {"checked", "exchange"} => r.answers = turn.msg \/ (strays' > 0 /\ r.late)
    BY <1>4 DEF Late
  <2> HIDE DEF r
  <2>6. MayBeRead'
    BY <1>1, <2>1, <2>2, <2>4, <2>5 DEF turnState, ReplyInv, MayBeRead, MayAnswer
  <2> QED
    BY <2>1, <2>2, <2>4, <2>6
<1>5. ASSUME NEW how \in {"ok", "problem", "outage"}, Answer(how) PROVE ReplyInv'
  <2>1. /\ process.in # <<>> /\ strays' = strays
        /\ process' = [process EXCEPT !.in = Tail(@), !.out = Write(Head(process.in), how)]
    BY <1>5 DEF Answer
  <2>2. process.in \in Seq(Heards) /\ process.out \in Seq(Results)
    BY DEF ReplyInv, ProcessTypes
  <2>3. Head(process.in) \in Heards /\ Tail(process.in) \in Seq(Heards)
        /\ Len(Tail(process.in)) = Len(process.in) - 1 /\ Len(process.in) > 0
        /\ Head(process.in) = process.in[1]
        /\ \A i \in 1..Len(Tail(process.in)) : Tail(process.in)[i] = process.in[i + 1] /\ i + 1 \in 1..Len(process.in)
    BY <2>1, <2>2
  <2>4. at \in {"checked", "exchange"} /\ Head(process.in) # turn.msg => strays' > 0
    <3>1. SUFFICES ASSUME at \in {"checked", "exchange"}, Head(process.in) # turn.msg, strays = 0 PROVE FALSE
      BY <1>1, <2>1
    <3>2. ~ pinging
      BY <3>1 DEF ReplyInv, InTurns
    <3>3. at = "exchange"
      <4>1. CASE at = "checked"
        <5>1. Len(process.in) + Len(process.out) <= 0
          BY <3>1, <3>2, <4>1 DEF ReplyInv, OneWaits
        <5>2. Len(process.in) \in Nat /\ Len(process.out) \in Nat
          BY <2>2
        <5> DEFINE n == Len(process.in)
                   k == Len(process.out)
        <5>3. n > 0 /\ n + k <= 0 /\ n \in Nat /\ k \in Nat
          BY <2>3, <5>1, <5>2
        <5> HIDE DEF n, k
        <5> QED
          BY ONLY <5>3
      <4> QED
        BY <3>1, <4>1
    <3>4. process.in[1] = turn.msg
      <4>1. 1 \in 1..Len(process.in)
        BY <2>2, <2>3
      <4> QED
        BY <3>1, <3>3, <4>1 DEF ReplyInv, OneWaits
    <3> QED
      BY <2>3, <3>1, <3>4
  <2>5. process' = [process EXCEPT !.in = Tail(process.in), !.out = Write(Head(process.in), how)]
    BY <2>1 DEF ReplyInv, ProcessTypes
  <2>6. /\ ProcessTypes' /\ process'.in = Tail(process.in) /\ Len(process'.out) = Len(process.out) + 1
        /\ MayBeRead'
    BY <1>4, <2>3, <2>4, <2>5
  <2>7. OneWaits'
    <3> SUFFICES ASSUME strays = 0 PROVE OneWaits'
      BY <2>1 DEF OneWaits
    <3>1. /\ Len(process.in) + Len(process.out) <= (IF pinging \/ at = "exchange" THEN 1 ELSE 0)
          /\ at = "exchange" => \A i \in 1..Len(process.in) : process.in[i] = turn.msg
      BY DEF ReplyInv, OneWaits
    <3>2. /\ Len(process'.in) + Len(process'.out) <= (IF pinging \/ at = "exchange" THEN 1 ELSE 0)
          /\ at = "exchange" => \A i \in 1..Len(process'.in) : process'.in[i] = turn.msg
      <4>1. Len(process.in) \in Nat /\ Len(process.out) \in Nat
        BY <2>2
      <4>2. process'.in = Tail(process.in)
        BY <2>6
      <4>3. at = "exchange" => \A i \in 1..Len(process'.in) : process'.in[i] = turn.msg
        BY <2>3, <3>1, <4>2
      <4> DEFINE n == Len(process.in)
                 k == Len(process.out)
                 n1 == Len(process'.in)
                 k1 == Len(process'.out)
                 cap == IF pinging \/ at = "exchange" THEN 1 ELSE 0
      <4>4. n1 = n - 1 /\ k1 = k + 1 /\ n + k <= cap /\ n \in Nat /\ k \in Nat /\ cap \in {0, 1}
        BY <2>3, <2>6, <3>1, <4>1
      <4> HIDE DEF n, k, n1, k1, cap
      <4>5. n1 + k1 <= cap
        BY ONLY <4>4
      <4> QED
        BY <4>3, <4>5 DEF n1, k1, cap
    <3> QED
      BY <1>1, <3>2 DEF turnState, OneWaits
  <2> QED
    BY <1>3, <2>6, <2>7 DEF ReplyInv
<1>6. CASE Stray
  <2>1. strays' > 0 /\ process' = [process EXCEPT !.out = Write("stray", "ok")]
    BY <1>1, <1>6 DEF Stray
  <2>2. process' = [process EXCEPT !.in = process.in, !.out = Write("stray", "ok")]
    BY <2>1 DEF ReplyInv, ProcessTypes
  <2>3. ProcessTypes' /\ MayBeRead'
    BY <1>4, <2>1, <2>2 DEF ReplyInv, ProcessTypes
  <2> QED
    BY <1>3, <2>1, <2>3 DEF ReplyInv, OneWaits
<1>7. CASE Exit
  <2>1. process' = [up |-> FALSE, alive |-> process.alive, told |-> process.told,
                    in |-> <<>>, out |-> process.out] /\ strays' = strays
    BY <1>7 DEF Exit, ReplyInv, ProcessTypes
  <2>2. <<>> \in Seq(Heards) /\ process.out \in Seq(Results) /\ process.in \in Seq(Heards)
    BY DEF ReplyInv, ProcessTypes
  <2>3. ProcessTypes' /\ process'.in = <<>> /\ process'.out = process.out
    BY ONLY <2>1, <2>2, ProcessOf
  <2>4. UNCHANGED <<at, turn, pinging, strays>>
    BY <1>1, <2>1 DEF turnState
  <2>5. MayBeRead'
    BY <2>3, <2>4 DEF ReplyInv, MayBeRead, MayAnswer
  <2>6. Len(process'.in) = 0 /\ Len(process'.out) = Len(process.out) /\ Len(process.in) \in Nat
        /\ Len(process.out) \in Nat
    BY <2>2, <2>3
  <2>7. OneWaits'
    <3> SUFFICES ASSUME strays = 0 PROVE OneWaits'
      BY <2>4 DEF OneWaits
    <3>1. Len(process.in) + Len(process.out) <= (IF pinging \/ at = "exchange" THEN 1 ELSE 0)
      BY DEF ReplyInv, OneWaits
    <3>2. /\ Len(process'.in) + Len(process'.out) <= (IF pinging \/ at = "exchange" THEN 1 ELSE 0)
          /\ \A i \in 1..Len(process'.in) : FALSE
      <4> DEFINE n == Len(process.in)
                 k == Len(process.out)
                 n1 == Len(process'.in)
                 k1 == Len(process'.out)
                 cap == IF pinging \/ at = "exchange" THEN 1 ELSE 0
      <4>1. n1 = 0 /\ k1 = k /\ n + k <= cap /\ n \in Nat /\ k \in Nat /\ cap \in {0, 1}
        BY <2>6, <3>1
      <4> HIDE DEF n, k, n1, k1, cap
      <4>2. n1 + k1 <= cap /\ \A i \in 1..n1 : FALSE
        BY ONLY <4>1
      <4> QED
        BY <4>2 DEF n1, k1, cap
    <3> QED
      BY <2>4, <3>2 DEF OneWaits
  <2> QED
    BY <1>3, <2>3, <2>5, <2>7 DEF ReplyInv
<1> QED
  BY <1>5, <1>6, <1>7

\* The end of a turn.
LEMMA FinishKeeps ==
  ASSUME ReplyInv, FinishTurn
  PROVE  ReplyInv'
<1>1. at = "attempted" /\ at' = "prompt" /\ turn' = Idle /\ strays' = strays /\ pinging' = pinging
      /\ turn.msg \in Sayings /\ ~ pinging /\ left \subseteq Sayings /\ log \in Seq(Entries) /\ strays \in Nat
  BY DEF FinishTurn, Unanswered, ReplyInv, TurnTypes, InTurns
<1>2. process' \in {process, NoProcess} /\ left' \subseteq Sayings
  BY <1>1 DEF FinishTurn, Unanswered, Sayings
<1>3. ProcessTypes' /\ Len(process'.in) <= Len(process.in) /\ Len(process'.out) <= Len(process.out)
  <2>1. CASE process' = process
    BY <2>1 DEF ReplyInv, ProcessTypes
  <2>2. CASE process' = NoProcess
    BY <2>2, NoProcessIsTyped DEF ReplyInv, ProcessTypes
  <2> QED
    BY <1>2, <2>1, <2>2
<1>4. OneWaits'
  BY <1>1, <1>3 DEF ReplyInv, OneWaits, ProcessTypes
<1>5. log' \in Seq(Entries) /\ WasLogged'
  <2>1. CASE ~ (~ cancel /\ turn.result = "ok")
    BY <1>1, <2>1 DEF FinishTurn, ReplyInv, WasLogged, MayAnswer
  <2>2. CASE ~ cancel /\ turn.result = "ok"
    <3> DEFINE said == [kind |-> "user", msg |-> turn.msg, from |-> turn.msg]
               reply == [kind |-> "reply", msg |-> turn.msg, from |-> turn.from]
    <3>1. turn.from \in Results /\ MayAnswer(turn.from, turn.msg)
      BY <1>1, <2>2 DEF ReplyInv, WasRead
    <3>2. said \in Entries /\ said.kind = "user" /\ reply \in Entries
          /\ MayAnswer(reply.from, reply.msg)
      BY <1>1, <3>1 DEF Entries
    <3>3. log' = (log \o (IF turn.msg \in Reports THEN <<>> ELSE <<said>>)) \o <<reply>>
      BY <2>2 DEF FinishTurn, Entry
    <3> HIDE DEF said, reply
    <3>4. ASSUME NEW l \in Seq(Entries), log' = l \o <<reply>>,
                 \A i \in 1..Len(l) : l[i].kind = "reply" => MayAnswer(l[i].from, l[i].msg)
          PROVE  log' \in Seq(Entries) /\ WasLogged'
      <4>1. log' \in Seq(Entries) /\ Len(log') = Len(l) + 1 /\ log'[Len(l) + 1] = reply
            /\ \A i \in 1..Len(l) : log'[i] = l[i]
        BY <3>2, <3>4, OneMore
      <4>2. \A i \in 1..Len(log') : i \in 1..Len(l) \/ i = Len(l) + 1
        BY <4>1
      <4> QED
        BY <1>1, <3>2, <3>4, <4>1, <4>2 DEF WasLogged, MayAnswer
    <3>5. CASE turn.msg \in Reports
      <4>1. log' = log \o <<reply>>
        BY <1>1, <3>3, <3>5
      <4> QED
        BY <1>1, <3>4, <4>1 DEF ReplyInv, WasLogged
    <3>6. CASE turn.msg \notin Reports
      <4>1. log' = (log \o <<said>>) \o <<reply>>
        BY <3>3, <3>6
      <4>2. log \o <<said>> \in Seq(Entries) /\ Len(log \o <<said>>) = Len(log) + 1
            /\ (log \o <<said>>)[Len(log) + 1] = said
            /\ \A i \in 1..Len(log) : (log \o <<said>>)[i] = log[i]
        BY <1>1, <3>2, OneMore
      <4>3. \A i \in 1..Len(log \o <<said>>) : i \in 1..Len(log) \/ i = Len(log) + 1
        BY <1>1, <4>2
      <4>4. \A i \in 1..Len(log \o <<said>>) : (log \o <<said>>)[i].kind = "reply" =>
              MayAnswer((log \o <<said>>)[i].from, (log \o <<said>>)[i].msg)
        BY <3>2, <4>2, <4>3 DEF ReplyInv, WasLogged
      <4> QED
        BY <3>4, <4>1, <4>2, <4>4
    <3> QED
      BY <3>5, <3>6
  <2> QED
    BY <2>1, <2>2
<1>6. TurnTypes'
  BY <1>1, <1>2, <1>5 DEF TurnTypes, Idle
<1>7. MayBeRead' /\ WasRead' /\ InTurns'
  BY <1>1 DEF MayBeRead, WasRead, InTurns
<1> QED
  BY <1>3, <1>4, <1>5, <1>6, <1>7 DEF ReplyInv

LEMMA RepliesStep == ReplyInv /\ [ChatTurnNext]_chatTurnVars => ReplyInv'
<1> SUFFICES ASSUME ReplyInv, [ChatTurnNext]_chatTurnVars PROVE ReplyInv'
  OBVIOUS
<1>1. CASE ChatTurnNext
  BY <1>1, TakingKeeps, AttemptKeeps, ExchangeKeeps, PingKeeps, WritesKeep, FinishKeeps
     DEF ChatTurnNext, Sayings
<1>2. CASE UNCHANGED chatTurnVars
  BY <1>2 DEF chatTurnVars, turnState, ReplyInv, TurnTypes, ProcessTypes, MayBeRead, WasRead, WasLogged,
     InTurns, OneWaits, MayAnswer
<1> QED
  BY <1>1, <1>2

\* Whatever the person cancels, the keepalive pings and the process does, a reply
\* in the log answers its own message, save a result that the process wrote by
\* itself while the turn was on (chat/turn.rs, subprocess/session.rs, keepalive.rs).
THEOREM RepliesAreOwn == ChatTurnSpec => []OwnReply
<1>1. ReplyInv => OwnReply
  BY DEF ReplyInv, TurnTypes, WasLogged, OwnReply, MayAnswer
<1> QED
  BY <1>1, RepliesStart, RepliesStep, PTL DEF ChatTurnSpec

(***************************************************************************)
(* What a process has heard, for any lines, reports and retries.           *)
(***************************************************************************)
Words == Sayings \cup {"reply"}

OnceEach(s) == \A i, j \in DOMAIN s : s[i] = s[j] => i = j \/ s[i] = "reply"

\* The lines of the person that both have come in one order.
InOrder(s, h) ==
  \A i, j \in DOMAIN s, k, l \in DOMAIN h :
    s[i] = h[k] /\ s[j] = h[l] /\ {s[i], s[j]} \subseteq Lines => (i < j <=> k < l)

\* What a process was told, against the words of the log, while a turn with the
\* message m is at a place: the log, but for reports, and m once it was sent.
Told(s, h, where, m) ==
  /\ s \in Seq(Words) /\ OnceEach(s) /\ InOrder(s, h)
  /\ ToSet(s) \subseteq ToSet(h) \cup (IF where \in {"exchange", "attempted"} THEN {m} ELSE {})
  /\ ToSet(h) \cap Lines \subseteq ToSet(s)
  /\ where \in {"taking", "attempt", "checked"} => m \notin ToSet(s)
  /\ where \in {"exchange", "attempted"} => Len(s) > 0 /\ s[Len(s)] = m

\* A sequence with one more word.
LEMMA OneWord ==
  ASSUME NEW s \in Seq(Words), NEW w \in Words
  PROVE  /\ Append(s, w) \in Seq(Words) /\ Len(Append(s, w)) = Len(s) + 1 /\ Len(s) \in Nat
         /\ DOMAIN s = 1..Len(s) /\ DOMAIN Append(s, w) = 1..Len(s) + 1
         /\ \A i \in 1..Len(s) : Append(s, w)[i] = s[i]
         /\ Append(s, w)[Len(s) + 1] = w
         /\ ToSet(Append(s, w)) = ToSet(s) \cup {w}
<1>1. /\ Append(s, w) \in Seq(Words) /\ Len(Append(s, w)) = Len(s) + 1 /\ Len(s) \in Nat
      /\ DOMAIN s = 1..Len(s) /\ DOMAIN Append(s, w) = 1..Len(s) + 1
      /\ \A i \in 1..Len(s) : Append(s, w)[i] = s[i]
      /\ Append(s, w)[Len(s) + 1] = w
  OBVIOUS
<1>2. ToSet(Append(s, w)) = ToSet(s) \cup {w}
  <2>1. ASSUME NEW i \in 1..Len(s) + 1 PROVE i \in 1..Len(s) \/ i = Len(s) + 1
    BY <1>1
  <2> DEFINE t == Append(s, w)
  <2> HIDE DEF t
  <2>2. ToSet(t) = {t[i] : i \in 1..Len(s) + 1} /\ ToSet(s) = {s[i] : i \in 1..Len(s)}
    BY <1>1 DEF ToSet, t
  <2>3. Len(s) + 1 \in 1..Len(s) + 1 /\ \A i \in 1..Len(s) : i \in 1..Len(s) + 1
    BY <1>1
  <2>4. t[Len(s) + 1] = w /\ \A i \in 1..Len(s) : t[i] = s[i]
    BY <1>1 DEF t
  <2>5. ToSet(t) = ToSet(s) \cup {w}
    BY <2>1, <2>2, <2>3, <2>4
  <2> QED
    BY <2>5 DEF t
<1> QED
  BY <1>1, <1>2

\* A word that is said at most once stays so.
LEMMA OnceMore ==
  ASSUME NEW s \in Seq(Words), OnceEach(s), NEW w \in Words, w \notin ToSet(s) \/ w = "reply"
  PROVE  OnceEach(Append(s, w))
<1> DEFINE t == Append(s, w)
<1>1. /\ DOMAIN s = 1..Len(s) /\ DOMAIN t = 1..Len(s) + 1 /\ Len(s) \in Nat
      /\ t[Len(s) + 1] = w /\ \A i \in 1..Len(s) : t[i] = s[i] /\ s[i] \in ToSet(s)
  BY OneWord DEF ToSet
<1> HIDE DEF t
<1>2. ASSUME NEW i \in DOMAIN t, NEW j \in DOMAIN t, t[i] = t[j] PROVE i = j \/ t[i] = "reply"
  <2>1. (i \in 1..Len(s) \/ i = Len(s) + 1) /\ (j \in 1..Len(s) \/ j = Len(s) + 1)
    BY <1>1
  <2> QED
    BY <1>1, <1>2, <2>1 DEF OnceEach
<1> QED
  BY <1>2 DEF OnceEach, t

\* The log goes on with a report or a reply, which no order is about.
LEMMA LogMore ==
  ASSUME NEW s, NEW h \in Seq(Words), NEW where, NEW m, Told(s, h, where, m), NEW w \in Words \ Lines
  PROVE  Told(s, Append(h, w), where, m)
<1> DEFINE t == Append(h, w)
<1>1. /\ DOMAIN h = 1..Len(h) /\ DOMAIN t = 1..Len(h) + 1 /\ Len(h) \in Nat
      /\ t[Len(h) + 1] = w /\ (\A i \in 1..Len(h) : t[i] = h[i]) /\ ToSet(t) = ToSet(h) \cup {w}
  BY OneWord
<1> HIDE DEF t
<1>2. ASSUME NEW k \in DOMAIN t, t[k] \in Lines PROVE k \in DOMAIN h /\ t[k] = h[k]
  <2>1. k # Len(h) + 1
    BY <1>1, <1>2
  <2> QED
    BY <1>1, <2>1
<1>3. InOrder(s, t)
  BY <1>2 DEF Told, InOrder
<1>4. ToSet(t) \cap Lines \subseteq ToSet(s)
  BY <1>1 DEF Told
<1> QED
  BY <1>1, <1>3, <1>4 DEF Told, t

\* The message is sent: it is told last, and a line of it is not in the log yet.
LEMMA Sent ==
  ASSUME NEW s, NEW h \in Seq(Words), NEW m \in Sayings, Told(s, h, "checked", m),
         m \in Lines => m \notin ToSet(h)
  PROVE  Told(Append(s, m), h, "exchange", m)
<1> DEFINE t == Append(s, m)
<1>1. s \in Seq(Words) /\ m \in Words
  BY DEF Told, Words
<1>2. /\ t \in Seq(Words) /\ Len(t) = Len(s) + 1 /\ Len(s) \in Nat
      /\ DOMAIN s = 1..Len(s) /\ DOMAIN t = 1..Len(s) + 1
      /\ t[Len(s) + 1] = m /\ (\A i \in 1..Len(s) : t[i] = s[i]) /\ ToSet(t) = ToSet(s) \cup {m}
  BY <1>1, OneWord
<1>3. OnceEach(t)
  BY <1>1, OnceMore DEF Told
<1> HIDE DEF t
<1>4. ASSUME NEW i \in DOMAIN t, NEW k \in DOMAIN h, t[i] = h[k], t[i] \in Lines
      PROVE  i \in DOMAIN s /\ t[i] = s[i]
  <2>1. h[k] \in ToSet(h)
    BY DEF ToSet
  <2>2. i # Len(s) + 1
    BY <1>2, <1>4, <2>1
  <2> QED
    BY <1>2, <2>2
<1>5. InOrder(t, h)
  <2> SUFFICES ASSUME NEW i \in DOMAIN t, NEW j \in DOMAIN t, NEW k \in DOMAIN h, NEW l \in DOMAIN h,
                      t[i] = h[k], t[j] = h[l], t[i] \in Lines, t[j] \in Lines
               PROVE  i < j <=> k < l
    BY DEF InOrder
  <2>1. i \in DOMAIN s /\ t[i] = s[i] /\ j \in DOMAIN s /\ t[j] = s[j]
    BY <1>4
  <2>2. InOrder(s, h) /\ s[i] = h[k] /\ s[j] = h[l] /\ {s[i], s[j]} \subseteq Lines
    BY <2>1 DEF Told
  <2> QED
    BY <2>1, <2>2 DEF InOrder
<1> QED
  BY <1>2, <1>3, <1>5 DEF Told, t

\* The turn is over, and its line is logged as the last one told.
LEMMA LineLogged ==
  ASSUME NEW s, NEW h \in Seq(Words), NEW m \in Lines, Told(s, h, "attempted", m), m \notin ToSet(h)
  PROVE  Told(s, Append(h, m), "prompt", m)
<1> DEFINE t == Append(h, m)
           n == Len(s)
<1>1. /\ DOMAIN h = 1..Len(h) /\ DOMAIN t = 1..Len(h) + 1 /\ Len(h) \in Nat
      /\ t[Len(h) + 1] = m /\ (\A i \in 1..Len(h) : t[i] = h[i] /\ h[i] \in ToSet(h))
      /\ ToSet(t) = ToSet(h) \cup {m}
  BY OneWord DEF Words, Sayings, ToSet
<1>2. s \in Seq(Words) /\ n \in Nat /\ n > 0 /\ s[n] = m /\ DOMAIN s = 1..n /\ OnceEach(s)
  BY DEF Told
<1>3. m # "reply" /\ m \in ToSet(s)
  BY <1>2, ChatTurnAssumption DEF ToSet
<1> HIDE DEF t, n
<1>4. ASSUME NEW i \in DOMAIN s, NEW k \in DOMAIN t, s[i] = t[k]
      PROVE  (i = n /\ k = Len(h) + 1) \/ (i # n /\ i < n /\ k \in DOMAIN h /\ t[k] = h[k] /\ k < Len(h) + 1)
  <2>1. CASE i = n
    <3>1. t[k] = m
      BY <1>2, <1>4, <2>1
    <3>2. k \notin 1..Len(h)
      BY <1>1, <3>1
    <3> QED
      BY <1>1, <2>1, <3>2
  <2>2. CASE i # n
    <3>1. s[i] # m
      BY <1>2, <1>3, <2>2 DEF OnceEach
    <3>2. k # Len(h) + 1
      BY <1>1, <1>4, <3>1
    <3> QED
      BY <1>1, <1>2, <2>2, <3>2
  <2> QED
    BY <2>1, <2>2
<1>5. InOrder(s, t)
  <2> SUFFICES ASSUME NEW i \in DOMAIN s, NEW j \in DOMAIN s, NEW k \in DOMAIN t, NEW l \in DOMAIN t,
                      s[i] = t[k], s[j] = t[l], s[i] \in Lines, s[j] \in Lines
               PROVE  i < j <=> k < l
    BY DEF InOrder
  <2>1. CASE i # n /\ j # n
    BY <1>4, <2>1 DEF Told, InOrder
  <2>2. CASE i = n \/ j = n
    BY <1>1, <1>2, <1>4, <2>2
  <2> QED
    BY <2>1, <2>2
<1> QED
  BY <1>1, <1>2, <1>3, <1>5 DEF Told, t

\* The words of a log, and of its first entries.
LEMMA WordsOfLog ==
  ASSUME NEW l \in Seq(Entries)
  PROVE  /\ Heard(l) \in Seq(Words) /\ Len(Heard(l)) = Len(l) /\ DOMAIN Heard(l) = 1..Len(l)
         /\ \A i \in 1..Len(l) : Heard(l)[i] = IF l[i].kind = "reply" THEN "reply" ELSE l[i].msg
<1>1. DOMAIN l = 1..Len(l) /\ Len(l) \in Nat
  OBVIOUS
<1>2. \A i \in 1..Len(l) : (IF l[i].kind = "reply" THEN "reply" ELSE l[i].msg) \in Words
  <2> TAKE i \in 1..Len(l)
  <2>1. l[i] \in Entries
    BY <1>1
  <2> QED
    BY <2>1 DEF Entries, Words
<1> QED
  BY <1>1, <1>2 DEF Heard

LEMMA OneEntry ==
  ASSUME NEW l \in Seq(Entries), NEW e \in Entries
  PROVE  /\ l \o <<e>> \in Seq(Entries) /\ Len(l \o <<e>>) = Len(l) + 1
         /\ Heard(l \o <<e>>) = Append(Heard(l), IF e.kind = "reply" THEN "reply" ELSE e.msg)
<1> DEFINE t == l \o <<e>>
           w == IF e.kind = "reply" THEN "reply" ELSE e.msg
<1>1. /\ t \in Seq(Entries) /\ Len(t) = Len(l) + 1 /\ Len(l) \in Nat
      /\ (\A i \in 1..Len(l) : t[i] = l[i]) /\ t[Len(l) + 1] = e
  OBVIOUS
<1>2. w \in Words
  BY DEF Entries, Words
<1> HIDE DEF t
<1>3. Heard(t) \in Seq(Words) /\ Heard(l) \in Seq(Words)
      /\ Len(Heard(t)) = Len(l) + 1 /\ Len(Heard(l)) = Len(l) /\ DOMAIN Heard(t) = 1..Len(l) + 1
  BY <1>1, WordsOfLog
<1>4. \A i \in 1..Len(l) : Heard(t)[i] = Heard(l)[i]
  <2> TAKE i \in 1..Len(l)
  <2>1. i \in 1..Len(t)
    BY <1>1
  <2> QED
    BY <1>1, <2>1, WordsOfLog
<1>5. Heard(t)[Len(l) + 1] = w
  <2>1. Len(l) + 1 \in 1..Len(t)
    BY <1>1
  <2> QED
    BY <1>1, <2>1, WordsOfLog
<1> HIDE DEF w
<1>6. /\ Append(Heard(l), w) \in Seq(Words) /\ DOMAIN Append(Heard(l), w) = 1..Len(l) + 1
      /\ Len(Append(Heard(l), w)) = Len(l) + 1
      /\ \A i \in 1..Len(l) : Append(Heard(l), w)[i] = Heard(l)[i]
      /\ Append(Heard(l), w)[Len(l) + 1] = w
  BY <1>2, <1>3, OneWord
<1>7. \A i \in 1..Len(l) + 1 : Heard(t)[i] = Append(Heard(l), w)[i]
  <2> TAKE i \in 1..Len(l) + 1
  <2>1. i \in 1..Len(l) \/ i = Len(l) + 1
    BY <1>1
  <2> QED
    BY <1>4, <1>5, <1>6, <2>1
<1>8. Heard(t) = Append(Heard(l), w)
  BY <1>3, <1>6, <1>7
<1> QED
  BY <1>1, <1>8 DEF t, w

\* What the person said is in the log once, and what may still be said is not; the
\* process, if there is one, knows it.
PersonInv ==
  /\ \A m \in left : m \notin ToSet(Heard(log))
  /\ OnceEach(Heard(log))
  /\ at # "prompt" =>
       /\ turn.msg \notin left /\ turn.before \in Nat
       /\ turn.msg \in Lines => Len(log) = turn.before /\ turn.msg \notin ToSet(Heard(log))
       /\ turn.msg \in Reports => /\ Len(log) = turn.before + 1
                                  /\ Heard(log)[turn.before + 1] = turn.msg
  /\ process # NoProcess => Told(process.told, Heard(log), at, turn.msg)

LEMMA PersonStart == ChatTurnInit => PersonInv
<1> SUFFICES ASSUME ChatTurnInit PROVE PersonInv
  OBVIOUS
<1>1. Heard(log) = <<>>
  <2>1. log \in Seq(Entries) /\ Len(log) = 0
    BY DEF ChatTurnInit
  <2>2. Heard(log) \in Seq(Words) /\ Len(Heard(log)) = 0
    BY <2>1, WordsOfLog
  <2> QED
    BY <2>2
<1>2. ToSet(<<>>) = {} /\ OnceEach(<<>>)
  BY DEF ToSet, OnceEach
<1> QED
  BY <1>1, <1>2 DEF ChatTurnInit, PersonInv

\* A step within a turn, or of the process: it is enough to see to the process.
LEMMA ProcessOnly ==
  ASSUME PersonInv, UNCHANGED <<log, left>>, turn'.msg = turn.msg, turn'.before = turn.before,
         at' # "prompt" => at # "prompt",
         process' # NoProcess => Told(process'.told, Heard(log), at', turn.msg)
  PROVE  PersonInv'
  BY DEF PersonInv

\* The process that it was, or none.
LEMMA ProcessKept ==
  ASSUME PersonInv, UNCHANGED <<log, left, at>>, turn'.msg = turn.msg, turn'.before = turn.before,
         process' # NoProcess => process # NoProcess /\ process'.told = process.told
  PROVE  PersonInv'
<1>1. process' # NoProcess => Told(process'.told, Heard(log), at', turn.msg)
  BY DEF PersonInv
<1> QED
  BY <1>1, ProcessOnly

\* The pings, the writes of the process, its end, and the two signals of the person.
LEMMA OthersTell ==
  ASSUME ReplyInv, PersonInv,
         \/ Cancel \/ CutTurn \/ Ping \/ PingResult \/ PingTimeout
         \/ (\E how \in {"ok", "problem", "outage"} : Answer(how)) \/ Stray \/ Exit
  PROVE  PersonInv'
<1>1. UNCHANGED <<log, left, at>> /\ turn'.msg = turn.msg /\ turn'.before = turn.before
  BY DEF Cancel, CutTurn, Ping, PingResult, PingTimeout, Answer, Stray, Exit, WriteRest, turnState,
     ReplyInv, TurnTypes
<1>2. process' # NoProcess => process # NoProcess /\ process'.told = process.told
  <2>1. process = [up |-> process.up, alive |-> process.alive, told |-> process.told,
                   in |-> process.in, out |-> process.out]
    BY DEF ReplyInv, ProcessTypes
  <2>2. NoProcess.up = FALSE /\ NoProcess.alive = FALSE /\ NoProcess.out = <<>>
    BY DEF NoProcess
  <2>3. CASE Cancel \/ CutTurn
    BY <2>3 DEF Cancel, CutTurn
  <2>4. CASE Ping
    <3>1. process # NoProcess
      BY <2>2, <2>4 DEF Ping, Usable
    <3> QED
      BY <2>1, <2>4, <3>1 DEF Ping
  <2>5. CASE PingResult \/ PingTimeout
    BY <2>1, <2>2, <2>5 DEF PingResult, PingTimeout
  <2>6. CASE (\E how \in {"ok", "problem", "outage"} : Answer(how)) \/ Stray \/ Exit
    <3>1. process.up
      BY <2>6 DEF Answer, Stray, Exit
    <3>2. process # NoProcess
      BY <2>2, <3>1
    <3>3. process'.told = process.told
      <4>1. CASE Stray
        BY <2>1, <4>1 DEF Stray
      <4>2. CASE Exit
        BY <2>1, <4>2 DEF Exit
      <4>3. ASSUME NEW how \in {"ok", "problem", "outage"}, Answer(how) PROVE process'.told = process.told
        BY <2>1, <4>3 DEF Answer
      <4> QED
        BY <2>6, <4>1, <4>2, <4>3
    <3> QED
      BY <3>2, <3>3
  <2> QED
    BY <2>3, <2>4, <2>5, <2>6
<1> QED
  BY <1>1, <1>2, ProcessKept

\* A new process is told the log as it was when the turn began.
LEMMA ViewIsTold ==
  ASSUME ReplyInv, PersonInv, at = "attempt"
  PROVE  Told(View, Heard(log), "checked", turn.msg)
<1> DEFINE n == turn.before
           h == Heard(log)
           start == SubSeq(log, 1, n)
<1>1. log \in Seq(Entries) /\ Len(log) \in Nat /\ turn.msg \in Sayings /\ n \in Nat /\ OnceEach(h)
      /\ (turn.msg \in Lines => Len(log) = n /\ turn.msg \notin ToSet(h))
      /\ (turn.msg \in Reports => Len(log) = n + 1 /\ h[n + 1] = turn.msg)
  BY DEF ReplyInv, TurnTypes, PersonInv
<1>2. n <= Len(log)
  BY <1>1 DEF Sayings
<1>3. start \in Seq(Entries) /\ Len(start) = n /\ \A i \in 1..n : start[i] = log[i]
  <2>1. \A i \in 1..n : log[i] \in Entries
    BY <1>1, <1>2
  <2> QED
    BY <1>1, <1>2, <2>1
<1>4. h \in Seq(Words) /\ Len(h) = Len(log) /\ DOMAIN h = 1..Len(log)
  BY <1>1, WordsOfLog
<1>5. View \in Seq(Words) /\ DOMAIN View = 1..n
  BY <1>3, WordsOfLog DEF View
<1>6. \A i \in 1..n : View[i] = h[i] /\ i \in DOMAIN h
  <2> TAKE i \in 1..n
  <2>1. i \in 1..Len(log) /\ i \in 1..Len(start)
    BY <1>1, <1>2, <1>3
  <2> QED
    BY <1>1, <1>3, <1>4, <2>1, WordsOfLog DEF View
<1>7. turn.msg # "reply" /\ \A w \in Reports : w \notin Lines
  BY <1>1, ChatTurnAssumption DEF Sayings
<1> HIDE DEF h, start
<1>8. OnceEach(View)
  BY <1>1, <1>5, <1>6 DEF OnceEach
<1>9. InOrder(View, h)
  <2> SUFFICES ASSUME NEW i \in DOMAIN View, NEW j \in DOMAIN View, NEW k \in DOMAIN h, NEW l \in DOMAIN h,
                      View[i] = h[k], View[j] = h[l], View[i] \in Lines, View[j] \in Lines
               PROVE  i < j <=> k < l
    BY DEF InOrder
  <2>1. "reply" \notin Lines
    BY ChatTurnAssumption
  <2>2. i = k /\ j = l
    BY <1>1, <1>5, <1>6, <2>1 DEF OnceEach
  <2> QED
    BY <2>2
<1>10. ToSet(View) \subseteq ToSet(h)
  BY <1>5, <1>6 DEF ToSet
<1>11. ToSet(h) \cap Lines \subseteq ToSet(View)
  <2> SUFFICES ASSUME NEW k \in 1..Len(log), h[k] \in Lines PROVE h[k] \in ToSet(View)
    BY <1>4 DEF ToSet
  <2>1. k \in 1..n
    <3>1. CASE turn.msg \in Lines
      BY <1>1, <3>1
    <3>2. CASE turn.msg \in Reports
      <4>1. k # n + 1
        BY <1>1, <1>7, <3>2
      <4> QED
        BY <1>1, <3>2, <4>1
    <3> QED
      BY <1>1, <3>1, <3>2 DEF Sayings
  <2> QED
    BY <1>5, <1>6, <2>1 DEF ToSet
<1>12. turn.msg \notin ToSet(View)
  <2>1. CASE turn.msg \in Lines
    BY <1>1, <1>10, <2>1
  <2>2. CASE turn.msg \in Reports
    <3> SUFFICES ASSUME NEW i \in 1..n, View[i] = turn.msg PROVE FALSE
      BY <1>5 DEF ToSet
    <3>1. h[i] = h[n + 1] /\ i \in DOMAIN h /\ n + 1 \in DOMAIN h
      BY <1>1, <1>4, <1>6, <2>2
    <3>2. i = n + 1
      BY <1>1, <1>6, <1>7, <3>1 DEF OnceEach
    <3> QED
      BY <1>1, <3>2
  <2> QED
    BY <1>1, <2>1, <2>2 DEF Sayings
<1> QED
  BY <1>5, <1>8, <1>9, <1>10, <1>11, <1>12 DEF Told, h

LEMMA AttemptTells ==
  ASSUME ReplyInv, PersonInv, Launch \/ CheckLeftover \/ SendPrompt
  PROVE  PersonInv'
<1>1. /\ UNCHANGED <<log, left>> /\ turn'.msg = turn.msg /\ turn'.before = turn.before
      /\ at \in {"attempt", "checked"} /\ turn.msg \in Sayings
  BY DEF Launch, CheckLeftover, SendPrompt, ReplyInv, TurnTypes
<1>2. process = [up |-> process.up, alive |-> process.alive, told |-> process.told,
                 in |-> process.in, out |-> process.out]
  BY DEF ReplyInv, ProcessTypes
<1>3. CASE process' = NoProcess
  BY <1>1, <1>3, ProcessOnly
<1>4. CASE Launch /\ process' # NoProcess
  <2>1. process' = [NoProcess EXCEPT !.up = TRUE, !.alive = TRUE, !.told = View] /\ at' = "checked"
    BY <1>4 DEF Launch
  <2>2. process'.told = View
    BY <2>1 DEF NoProcess
  <2>3. Told(View, Heard(log), "checked", turn.msg)
    BY <1>4, ViewIsTold DEF Launch
  <2> QED
    BY <1>1, <2>1, <2>2, <2>3, ProcessOnly
<1>5. CASE CheckLeftover /\ process' # NoProcess
  <2>1. process' = [process EXCEPT !.out = <<>>] /\ at = "attempt" /\ at' = "checked"
        /\ process # NoProcess
    BY <1>5 DEF CheckLeftover
  <2>2. process'.told = process.told
    BY <1>2, <2>1
  <2>3. Told(process.told, Heard(log), "attempt", turn.msg)
    BY <2>1 DEF PersonInv
  <2>4. Told(process.told, Heard(log), "checked", turn.msg)
    BY <2>3 DEF Told
  <2> QED
    BY <1>1, <2>1, <2>2, <2>4, ProcessOnly
<1>6. CASE SendPrompt /\ process' # NoProcess
  <2>1. /\ process' = [process EXCEPT !.told = Append(@, turn.msg), !.in = Append(@, turn.msg)]
        /\ at = "checked" /\ at' = "exchange" /\ process.up
    BY <1>6 DEF SendPrompt
  <2>2. process'.told = Append(process.told, turn.msg) /\ process # NoProcess
    BY <1>2, <2>1 DEF NoProcess
  <2>3. Told(process.told, Heard(log), "checked", turn.msg)
    BY <2>1, <2>2 DEF PersonInv
  <2>4. Heard(log) \in Seq(Words)
    BY WordsOfLog DEF ReplyInv, TurnTypes
  <2>5. turn.msg \in Lines => turn.msg \notin ToSet(Heard(log))
    BY <2>1 DEF PersonInv
  <2>6. Told(Append(process.told, turn.msg), Heard(log), "exchange", turn.msg)
    BY <1>1, <2>3, <2>4, <2>5, Sent
  <2> QED
    BY <1>1, <2>1, <2>2, <2>6, ProcessOnly
<1> QED
  BY <1>3, <1>4, <1>5, <1>6

LEMMA ExchangeTells ==
  ASSUME ReplyInv, PersonInv, ReadResult \/ LoseProcess \/ Retry
  PROVE  PersonInv'
<1>1. /\ UNCHANGED <<log, left>> /\ turn'.msg = turn.msg /\ turn'.before = turn.before
      /\ at \in {"exchange", "attempted"}
  BY DEF ReadResult, LoseProcess, Retry, ReplyInv, TurnTypes
<1>2. CASE process' = NoProcess
  BY <1>1, <1>2, ProcessOnly
<1>3. CASE ReadResult
  <2>1. process' = [process EXCEPT !.out = <<>>, !.alive = process.up]
        /\ at = "exchange" /\ at' = "attempted" /\ process.out # <<>>
    BY <1>3 DEF ReadResult
  <2>2. process'.told = process.told /\ process # NoProcess
    BY <2>1 DEF NoProcess, ReplyInv, ProcessTypes
  <2>3. Told(process.told, Heard(log), "exchange", turn.msg)
    BY <2>1, <2>2 DEF PersonInv
  <2>4. Told(process.told, Heard(log), "attempted", turn.msg)
    BY <2>3 DEF Told
  <2> QED
    BY <1>1, <2>1, <2>2, <2>4, ProcessOnly
<1> QED
  BY <1>2, <1>3 DEF LoseProcess, Retry

\* A report is logged before its turn, a line after it.
LEMMA SubmitTells ==
  ASSUME ReplyInv, PersonInv, NEW m \in Sayings, Submit(m)
  PROVE  PersonInv'
<1> DEFINE e == [kind |-> "worker", msg |-> m, from |-> m]
           h == Heard(log)
<1>1. /\ at = "prompt" /\ m \in left /\ left' = left \ {m} /\ at' = "taking" /\ process' = process
      /\ log' = IF m \in Reports THEN log \o <<e>> ELSE log
  BY DEF Submit
<1>2. turn'.msg = m /\ turn'.before = Len(log)
  BY DEF Submit, Idle
<1>3. log \in Seq(Entries) /\ e \in Entries /\ Len(log) \in Nat /\ h \in Seq(Words) /\ Len(h) = Len(log)
  <2>1. log \in Seq(Entries)
    BY DEF ReplyInv, TurnTypes
  <2>2. e \in Entries
    BY DEF Entries
  <2>3. h \in Seq(Words) /\ Len(h) = Len(log)
    BY <2>1, WordsOfLog
  <2> QED
    BY <2>1, <2>2, <2>3
<1>4. m \notin ToSet(h) /\ OnceEach(h) /\ \A w \in left : w \notin ToSet(h)
  BY <1>1 DEF PersonInv
<1>5. m \in Words /\ (m \in Reports => m \notin Lines)
  BY ChatTurnAssumption DEF Words
<1>6. Heard(log') = (IF m \in Reports THEN Append(h, m) ELSE h)
      /\ Len(log') = (IF m \in Reports THEN Len(log) + 1 ELSE Len(log))
  <2>1. Heard(log \o <<e>>) = Append(h, m) /\ Len(log \o <<e>>) = Len(log) + 1
    BY <1>3, OneEntry
  <2> QED
    BY <1>1, <2>1
<1> HIDE DEF h
<1>7. process # NoProcess => Told(process.told, h, "taking", m)
  <2> SUFFICES ASSUME process # NoProcess PROVE Told(process.told, h, "taking", m)
    OBVIOUS
  <2>1. Told(process.told, h, "prompt", turn.msg)
    BY <1>1 DEF PersonInv, h
  <2> QED
    BY <1>4, <2>1 DEF Told
<1>8. CASE m \in Reports
  <2>1. Heard(log') = Append(h, m) /\ Len(log') = Len(log) + 1
    BY <1>6, <1>8
  <2>2. /\ ToSet(Append(h, m)) = ToSet(h) \cup {m} /\ Append(h, m)[Len(log) + 1] = m
        /\ OnceEach(Append(h, m))
    BY <1>3, <1>4, <1>5, OneWord, OnceMore
  <2>3. process # NoProcess => Told(process.told, Append(h, m), "taking", m)
    BY <1>3, <1>5, <1>7, <1>8, LogMore
  <2> QED
    BY <1>1, <1>2, <1>3, <1>4, <1>5, <1>8, <2>1, <2>2, <2>3 DEF PersonInv
<1>9. CASE m \notin Reports
  <2>1. Heard(log') = h /\ Len(log') = Len(log)
    BY <1>6, <1>9
  <2> QED
    BY <1>1, <1>2, <1>3, <1>4, <1>7, <1>9, <2>1 DEF PersonInv
<1> QED
  BY <1>8, <1>9

\* A cancel before anything was sent: the line is a draft again.
LEMMA TakeTells ==
  ASSUME ReplyInv, PersonInv, TakeSession
  PROVE  PersonInv'
<1>1. at = "taking" /\ log' = log /\ process' \in {process, NoProcess}
  BY DEF TakeSession
<1>2. CASE cancel
  <2>1. left' = (IF turn.msg \in Lines THEN left \cup {turn.msg} ELSE left) /\ at' = "prompt"
    BY <1>2 DEF TakeSession, Unanswered
  <2>2. \A m \in left' : m \notin ToSet(Heard(log))
    BY <1>1, <2>1 DEF PersonInv
  <2>3. ASSUME process # NoProcess PROVE Told(process.told, Heard(log), "prompt", turn'.msg)
    <3>1. Told(process.told, Heard(log), "taking", turn.msg)
      BY <1>1, <2>3 DEF PersonInv
    <3> QED
      BY <3>1 DEF Told
  <2> QED
    BY <1>1, <2>1, <2>2, <2>3 DEF PersonInv
<1>3. CASE ~ cancel
  <2>1. UNCHANGED <<turn, left>> /\ at' = "attempt"
    BY <1>3 DEF TakeSession
  <2>2. ASSUME process # NoProcess PROVE Told(process.told, Heard(log), "attempt", turn.msg)
    <3>1. Told(process.told, Heard(log), "taking", turn.msg)
      BY <1>1, <2>2 DEF PersonInv
    <3> QED
      BY <3>1 DEF Told
  <2> QED
    BY <1>1, <2>1, <2>2, ProcessOnly
<1> QED
  BY <1>2, <1>3

LEMMA FinishTells ==
  ASSUME ReplyInv, PersonInv, FinishTurn
  PROVE  PersonInv'
<1> DEFINE h == Heard(log)
           m == turn.msg
<1>1. /\ at = "attempted" /\ at' = "prompt" /\ process' \in {process, NoProcess}
      /\ log \in Seq(Entries) /\ m \in Sayings /\ h \in Seq(Words)
  BY WordsOfLog DEF FinishTurn, Unanswered, ReplyInv, TurnTypes
<1>2. /\ \A w \in left : w \notin ToSet(h)
      /\ OnceEach(h) /\ m \notin left
      /\ m \in Lines => m \notin ToSet(h)
      /\ process # NoProcess => Told(process.told, h, "attempted", m)
  BY <1>1 DEF PersonInv
<1>3. CASE ~ (~ cancel /\ turn.result = "ok")
  <2>1. process' = NoProcess /\ log' = log
        /\ left' = (IF m \in Lines THEN left \cup {m} ELSE left)
    BY <1>3 DEF FinishTurn, Unanswered
  <2> QED
    BY <1>1, <1>2, <2>1 DEF PersonInv
<1>4. CASE ~ cancel /\ turn.result = "ok"
  <2> DEFINE said == [kind |-> "user", msg |-> m, from |-> m]
             reply == [kind |-> "reply", msg |-> m, from |-> turn.from]
  <2>1. said \in Entries /\ reply \in Entries
    BY <1>1, <1>4 DEF Entries, ReplyInv, WasRead
  <2>2. log' = (log \o (IF m \in Reports THEN <<>> ELSE <<said>>)) \o <<reply>> /\ left' = left
    BY <1>4 DEF FinishTurn, Entry
  <2>3. said.kind = "user" /\ said.msg = m /\ reply.kind = "reply"
    OBVIOUS
  <2> HIDE DEF said, reply
  <2>4. "reply" \in Words \ Lines /\ m \in Words /\ m # "reply"
    BY <1>1, ChatTurnAssumption DEF Words, Sayings
  <2>5. ASSUME NEW t \in Seq(Words), Heard(log') = Append(t, "reply"), OnceEach(t),
               \A w \in left : w \notin ToSet(t),
               process # NoProcess => Told(process.told, t, "prompt", m)
        PROVE  PersonInv'
    <3>1. ToSet(Append(t, "reply")) = ToSet(t) \cup {"reply"} /\ OnceEach(Append(t, "reply"))
      BY <2>4, <2>5, OneWord, OnceMore
    <3>2. \A w \in left : w # "reply"
      BY ChatTurnAssumption DEF ReplyInv, TurnTypes, Sayings
    <3>3. process # NoProcess => Told(process.told, Append(t, "reply"), "prompt", m)
      BY <2>4, <2>5, LogMore
    <3>4. process # NoProcess => Told(process.told, Append(t, "reply"), "prompt", turn'.msg)
      BY <3>3 DEF Told
    <3> QED
      BY <1>1, <2>2, <2>5, <3>1, <3>2, <3>4 DEF PersonInv
  <2>6. CASE m \in Reports
    <3>1. log' = log \o <<reply>>
      BY <1>1, <2>2, <2>6
    <3>2. Heard(log') = Append(h, "reply")
      BY <1>1, <2>1, <2>3, <3>1, OneEntry
    <3>3. m \in ToSet(h)
      <4>1. Len(log) = turn.before + 1 /\ h[turn.before + 1] = m /\ turn.before \in Nat
        BY <1>1, <2>6 DEF PersonInv
      <4>2. turn.before + 1 \in DOMAIN h
        BY <1>1, <4>1, WordsOfLog
      <4> QED
        BY <4>1, <4>2 DEF ToSet
    <3>4. process # NoProcess => Told(process.told, h, "prompt", m)
      BY <1>2, <3>3 DEF Told
    <3> HIDE DEF h, m
    <3> QED
      BY <1>1, <1>2, <2>5, <3>2, <3>4
  <2>7. CASE m \notin Reports
    <3>1. log' = (log \o <<said>>) \o <<reply>> /\ m \in Lines
      BY <1>1, <2>2, <2>7 DEF Sayings
    <3>2. log \o <<said>> \in Seq(Entries) /\ Heard(log \o <<said>>) = Append(h, m)
      BY <1>1, <2>1, <2>3, OneEntry
    <3>3. Heard(log') = Append(Append(h, m), "reply")
      BY <2>1, <2>3, <3>1, <3>2, OneEntry
    <3>4. /\ Append(h, m) \in Seq(Words) /\ OnceEach(Append(h, m))
          /\ \A w \in left : w \notin ToSet(Append(h, m))
      BY <1>1, <1>2, <2>4, <3>1, OneWord, OnceMore
    <3>5. process # NoProcess => Told(process.told, Append(h, m), "prompt", m)
      BY <1>1, <1>2, <3>1, LineLogged
    <3> HIDE DEF h, m
    <3> QED
      BY <2>5, <3>3, <3>4, <3>5
  <2> QED
    BY <2>6, <2>7
<1> QED
  BY <1>3, <1>4

LEMMA PersonStep == ReplyInv /\ PersonInv /\ [ChatTurnNext]_chatTurnVars => PersonInv'
<1> SUFFICES ASSUME ReplyInv, PersonInv, [ChatTurnNext]_chatTurnVars PROVE PersonInv'
  OBVIOUS
<1>1. CASE ChatTurnNext
  BY <1>1, SubmitTells, TakeTells, AttemptTells, ExchangeTells, FinishTells, OthersTell
     DEF ChatTurnNext, Sayings
<1>2. CASE UNCHANGED chatTurnVars
  BY <1>2 DEF chatTurnVars, turnState, PersonInv
<1> QED
  BY <1>1, <1>2

\* Whatever is cancelled, retried or lost, a process that the next turn will use
\* has heard the person's lines as the log has them, in its order and once, and
\* nothing that is not in the log (chat/turn.rs, Turn::launch, retry_on_outage).
THEOREM ProcessKnowsThePerson == ChatTurnSpec => []KnowsThePerson
<1>1. ReplyInv /\ PersonInv => KnowsThePerson
  <2> SUFFICES ASSUME PersonInv, at = "prompt", Usable(process)
               PROVE  /\ SameMessages(process.told, Heard(log), Lines)
                      /\ ToSet(process.told) \subseteq ToSet(Heard(log))
                      /\ \A i, j \in DOMAIN process.told :
                           process.told[i] = process.told[j] => i = j \/ process.told[i] = "reply"
    BY DEF KnowsThePerson, Knows
  <2>1. process # NoProcess
    BY DEF Usable, NoProcess
  <2>2. Told(process.told, Heard(log), "prompt", turn.msg)
    BY <2>1 DEF PersonInv
  <2>3. /\ OnceEach(process.told) /\ InOrder(process.told, Heard(log))
        /\ ToSet(process.told) \subseteq ToSet(Heard(log))
        /\ ToSet(Heard(log)) \cap Lines \subseteq ToSet(process.told)
    BY <2>2 DEF Told
  <2> QED
    BY <2>3 DEF SameMessages, OnceEach, InOrder
<1> QED
  BY RepliesStart, RepliesStep, PersonStart, PersonStep, <1>1, PTL DEF ChatTurnSpec
=============================================================================
