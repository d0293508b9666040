-------------------------------- MODULE Turns --------------------------------
(***************************************************************************)
(* The turns of a headless worker, as values: which message runs, which    *)
(* wait, and what becomes of an interrupt (crates/core/src/worker/         *)
(* codex/turns.rs and acp/turns.rs).  An operator takes the turns and      *)
(* returns them changed, with the actions the host has to perform, in      *)
(* order.  Here is what the claude host uses of it; the requests to close  *)
(* a turn and the answers to an interrupt are the Codex host's alone.      *)
(***************************************************************************)
EXTENDS Naturals, SequencesExt

None == "none"
Reminder == "reminder"  \* the text that asks for the report
NoTurn == 0             \* a turn whose id is not known

NoTurns ==
  [pending |-> <<>>, busy |-> FALSE, cut |-> FALSE,
   running |-> None, turn |-> NoTurn, previous |-> NoTurn, interrupts |-> <<>>,
   sent |-> FALSE, gone |-> FALSE, reported |-> FALSE]

Do(act, what, how) == <<[act |-> act, what |-> what, how |-> how]>>
Each(act, items, how) == [i \in DOMAIN items |-> [act |-> act, what |-> items[i], how |-> how]]
With(t, acts) == [t |-> t, acts |-> acts]
\* One operation after the other.
Then(r, next) == With(next.t, r.acts \o next.acts)

\* PromptQueue::accept: a message waits its turn, an interrupt runs next.
QueuePrompt(q, text) == [q EXCEPT !.pending = Append(@, text)]
QueueInterrupt(q, text) ==
  [q EXCEPT !.pending = <<text>> \o @, !.cut = @ \/ q.busy]

\* PromptQueue::remind, start and finish.
Remind(q) == IF Contains(q.pending, Reminder) THEN q ELSE QueuePrompt(q, Reminder)
StartQueued(q) == [q EXCEPT !.pending = Tail(@), !.busy = TRUE, !.cut = FALSE]
FinishQueued(q) == [q EXCEPT !.busy = FALSE]

\* turn_outcome: what the end of a turn asks for.
TurnOutcome(end, reported, reminded, closing, interrupted) ==
  CASE closing -> "closed"
    [] reported /\ ~ closing -> "reported"
    [] ~ closing /\ ~ reported /\ end = "failed" -> "problem"
    [] ~ closing /\ ~ reported /\ end # "failed" ->
         IF interrupted THEN "cancelled" ELSE IF reminded THEN "unreported" ELSE "remind"

\* Turns::resolve_interrupts.
Resolve(t, how) ==
  With([t EXCEPT !.interrupts = <<>>], Each("result", t.interrupts, how))

\* Turns::send_interrupt: once per turn, when its id is known.
SendInterrupt(t) ==
  IF t.turn # NoTurn /\ t.interrupts # <<>> /\ ~ t.sent
  THEN With([t EXCEPT !.sent = TRUE], Do("interrupt", t.turn, None))
  ELSE With(t, <<>>)

\* Turns::advance: the next message starts when none runs.
Advance(t) ==
  IF t.running # None \/ t.pending = <<>> THEN With(t, <<>>)
  ELSE With([StartQueued(t) EXCEPT !.running = Head(t.pending), !.reported = FALSE,
                                   !.previous = t.turn, !.turn = NoTurn, !.sent = FALSE],
            Do("emit", "TurnStarted", None) \o Do("start", Head(t.pending), None))

\* Turns::accept and interrupt; the text of an interrupt names its entry.
Accept(t, text) == Advance(QueuePrompt(t, text))
Interrupt(t, text) ==
  IF t.gone THEN With(t, Do("result", text, "gone"))
  ELSE IF t.busy
       THEN SendInterrupt([QueueInterrupt(t, text) EXCEPT !.interrupts = Append(@, text)])
       ELSE Then(With(t, Do("result", text, "sent")), Advance(QueueInterrupt(t, text)))

\* Turns::process_gone.
ProcessGone(t) == Resolve([t EXCEPT !.gone = TRUE], "gone")

\* Turns::bind_turn.
BindTurn(t, id) ==
  IF t.running = None THEN With(t, <<>>) ELSE SendInterrupt([t EXCEPT !.turn = id])

\* FAULT: the interrupts of a turn that ended wait for the end of the next.
EndKeepsInterrupts(t, end, closing) ==
  IF t.running = None THEN With(t, <<>>)
  ELSE LET done == [FinishQueued(t) EXCEPT !.running = None]
       IN  Then(With(done, Do("emit", "TurnEnded", end)), Advance(done))

\* Turns::end.
End(t, end, closing) ==
  IF t.running = None THEN With(t, <<>>)
  ELSE LET done == [FinishQueued(t) EXCEPT !.running = None]
           out  == TurnOutcome(end, t.reported, t.running = Reminder, closing,
                               end = "interrupted" /\ t.sent)
           told == Resolve(done, IF end = "interrupted" THEN "cancelled" ELSE "sent")
           next == IF out = "remind" THEN Remind(told.t) ELSE told.t
           acts == (IF closing THEN <<>> ELSE Do("snapshot", None, None))
                   \o Do("emit", "TurnEnded", end) \o told.acts
                   \o (CASE out = "unreported" -> Do("unreported", None, None)
                         [] out = "problem" -> Do("failure", None, None)
                         [] OTHER -> <<>>)
       IN  Then(With(next, acts), Advance(next))

\* Turns::signal: a turn reported.
Reported(t) ==
  IF t.running # None /\ ~ t.reported
  THEN With([t EXCEPT !.reported = TRUE], Do("emit", "Reported", None))
  ELSE With(t, <<>>)
=============================================================================
