----------------------------- MODULE ClaudeHost -----------------------------
(***************************************************************************)
(* One headless claude worker in its chat (claude_headless_worker.rs,      *)
(* permission_queue.rs): the reader thread takes the lines of the agent,   *)
(* the poller thread delivers prompts, interrupts and answers and closes   *)
(* the worker.  Both drive Turns under one mutex and perform the actions   *)
(* that come out one by one, while the other thread goes on with all that  *)
(* needs no turn.                                                          *)
(*                                                                         *)
(* The agent is modelled by what the host relies on: it reads its stdin in *)
(* order, has one turn at a time, ends it when no request is open, and may *)
(* die at any moment.                                                      *)
(***************************************************************************)
EXTENDS Turns, FiniteSets, Functions

CONSTANTS
  Prompts,     \* messages sent to the worker, the task among them
  Interrupts,  \* messages sent as interrupts
  MaxAsks,     \* bound: permission requests
  MayDie       \* whether the agent may die by itself

ASSUME ClaudeHostAssumption ==
  /\ Prompts \cap Interrupts = {} /\ {None, Reminder} \cap (Prompts \cup Interrupts) = {}
  /\ MaxAsks \in Nat /\ MayDie \in BOOLEAN

VARIABLES
  turns, seq,      \* Shared.turns and how many turns were bound
  lock, todo,      \* the mutex of turns, and the actions its holder performs
  denial, poller,  \* what the reader and the poller have in hand between two steps
  queue, refusing, \* PermissionQueue
  events, phase, blocked,  \* Shared.events, HeadlessState, the blocked marker
  posted,          \* the entries in the prompt and interrupt folders
  results, lost,   \* interrupt results, prompts marked lost
  held, closing, exited, eof,  \* in the host's map; the flags; the reader's end
  stdin, stdout, agent

turnVars == <<turns, seq, lock, todo>>
queueVars == <<queue, refusing>>
viewVars == <<phase, blocked>>
mailVars == <<posted, results, lost>>
lifeVars == <<held, closing, exited, eof>>
agentVars == <<stdout, agent>>
hostVars == <<turnVars, denial, poller, queueVars, events, viewVars, mailVars, lifeVars>>
claudeVars == <<hostVars, stdin, agentVars>>

Messages == Prompts \cup Interrupts
Asks == 1..MaxAsks
Empty == <<"nothing", None>>
Turning == turns.running # None

Agent(is) == [is |-> is, run |-> None, cut |-> FALSE, asks |-> {}, asked |-> 0]

Init ==
  /\ turns = NoTurns /\ seq = 0 /\ lock = "free" /\ todo = <<>>
  /\ denial = 0 /\ poller = Empty
  /\ queue = <<>> /\ refusing = FALSE
  /\ events = <<>> /\ phase = "starting" /\ blocked = {}
  /\ posted = Messages /\ results = << >> /\ lost = {}
  /\ held = TRUE /\ closing = FALSE /\ exited = FALSE /\ eof = FALSE
  /\ stdin = <<>> /\ stdout = <<>>
  /\ agent = Agent("up")

(***************************************************************************)
(* Shared helpers: a line for the agent, an event for the poller, and the  *)
(* step that changes the turns and holds their mutex until all is done.    *)
(***************************************************************************)
Send(line) == stdin' = IF agent.is = "up" THEN Append(stdin, line) ELSE stdin
\* Of the events that wait, the ones that a later one makes moot, a start that
\* waits already, and those that change neither the phase nor the marker, are
\* left out.
Push(event) ==
  events' = CASE event[1] \in {"TurnEnded", "asked", "settled"} -> <<event>>
              [] event[1] = "TurnStarted" /\ ~ Contains(events, event) -> Append(events, event)
              [] OTHER -> events
\* PermissionQueue::publish: the whole queue, its front first, or settled.
Publish(q) == Push(IF q = <<>> THEN <<"settled">> ELSE <<"asked", ToSet(q)>>)
\* The agent numbers its requests: one at most is the one that is taken out.
WithoutAsk(q, a) ==
  IF a \in ToSet(q) THEN RemoveAt(q, CHOOSE i \in DOMAIN q : q[i] = a) ELSE q

\* write_interrupt_result: the file of an entry, which a later one replaces.
WriteResult(m, how) ==
  results' = [i \in DOMAIN results \cup {m} |-> IF i = m THEN how ELSE results[i]]

\* Shared::drive with bind_started_turn.
Drive(thread, r) ==
  LET starts == \E i \in DOMAIN r.acts : r.acts[i].act = "start"
      bound  == IF starts THEN Then(r, BindTurn(r.t, seq + 1)) ELSE r
  IN  /\ lock = "free"
      /\ turns' = bound.t /\ todo' = bound.acts
      /\ lock' = IF bound.acts = <<>> THEN "free" ELSE thread
      /\ seq' = IF starts THEN seq + 1 ELSE seq

(***************************************************************************)
(* Shared::perform, one action at a time.                                  *)
(***************************************************************************)
Performing(acts) == todo # <<>> /\ Head(todo).act \in acts
GoOn(rest) == todo' = rest /\ lock' = (IF rest = <<>> THEN "free" ELSE lock)
PerformRest == UNCHANGED <<turns, seq, denial, poller, viewVars, posted, lost, lifeVars, agentVars>>

\* A turn or a line of an interrupt goes to the agent.
PerformSend ==
  /\ Performing({"start", "verdict", "cut"})
  /\ Send(<<Head(todo).act, Head(todo).what>>) /\ GoOn(Tail(todo))
  /\ UNCHANGED <<queueVars, events, results>> /\ PerformRest

\* The end of a turn takes requests again before anyone hears of it.
PerformEmit ==
  /\ Performing({"emit"})
  /\ refusing' = (refusing /\ Head(todo).what # "TurnEnded")
  /\ Push(<<Head(todo).what>>) /\ GoOn(Tail(todo))
  /\ UNCHANGED <<queue, stdin, results>> /\ PerformRest

\* FAULT: the requests that the interrupt drops are not denied.
InterruptSendsOnly(dropped, turn) == Do("cut", turn, None)

\* interrupt_lines: a denial of each request, then the interrupt.
InterruptSends(dropped, turn) ==
  Each("verdict", dropped, None) \o Do("cut", turn, None)

\* PermissionQueue::drain_and_refuse.
PerformInterrupt ==
  /\ Performing({"interrupt"})
  /\ queue' = <<>> /\ refusing' = TRUE /\ Push(<<"settled">>)
  /\ GoOn(InterruptSends(queue, Head(todo).what) \o Tail(todo))
  /\ UNCHANGED <<stdin, results>> /\ PerformRest

PerformResult ==
  /\ Performing({"result"})
  /\ WriteResult(Head(todo).what, Head(todo).how) /\ GoOn(Tail(todo))
  /\ UNCHANGED <<queueVars, stdin, events>> /\ PerformRest

\* Reports and markers, which no thread of the host reads again.
PerformReport ==
  /\ Performing({"snapshot", "unreported", "failure"}) /\ GoOn(Tail(todo))
  /\ UNCHANGED <<queueVars, stdin, events, results>> /\ PerformRest

Perform == PerformSend \/ PerformEmit \/ PerformInterrupt \/ PerformResult \/ PerformReport

(***************************************************************************)
(* Shared::read, the reader thread.                                        *)
(***************************************************************************)
Reads(kind) == stdout # <<>> /\ Head(stdout)[1] = kind /\ denial = 0 /\ lock # "reader"
Line == Head(stdout)[2]
ReadRest == stdout' = Tail(stdout) /\ UNCHANGED <<poller, viewVars, mailVars, lifeVars, stdin, agent>>

\* Shared::signal.  An error that follows an interrupt is the interrupt's, and
\* whether the worker closes was looked at before the mutex was free.
Signal ==
  /\ \/ Reads("reported") /\ Drive("reader", Reported(turns))
     \/ /\ Reads("ended")
        /\ LET end == IF Line = "failed" /\ turns.sent THEN "interrupted" ELSE Line
           IN  \E closes \in {FALSE, closing} : Drive("reader", End(turns, end, closes))
  /\ UNCHANGED <<denial, queueVars, events>> /\ ReadRest

\* enqueue_unless_refusing.
Ask ==
  /\ Reads("ask")
  /\ IF refusing THEN denial' = Line /\ UNCHANGED <<queue, events>>
                 ELSE queue' = Append(queue, Line) /\ Publish(queue') /\ UNCHANGED denial
  /\ UNCHANGED <<turnVars, refusing>> /\ ReadRest

\* FAULT: a request that the agent takes back leaves the marker as it is.
SettleSilently ==
  /\ Reads("cancel")
  /\ queue' = WithoutAsk(queue, Line)
  /\ UNCHANGED <<turnVars, denial, refusing, events>> /\ ReadRest

\* PermissionQueue::settle.
Settle ==
  /\ Reads("cancel")
  /\ queue' = WithoutAsk(queue, Line)
  /\ IF queue' # queue THEN Publish(queue') ELSE UNCHANGED events
  /\ UNCHANGED <<turnVars, denial, refusing>> /\ ReadRest

SendDenial ==
  /\ denial # 0 /\ Send(<<"verdict", denial>>) /\ denial' = 0
  /\ UNCHANGED <<turnVars, poller, queueVars, events, viewVars, mailVars, lifeVars, agentVars>>

\* The agent's output ended: the turns learn it, then the host (report_exit).
EndOfFile ==
  /\ agent.is = "dead" /\ stdout = <<>> /\ denial = 0 /\ lock # "reader" /\ ~ eof
  /\ Drive("reader", ProcessGone(turns)) /\ eof' = TRUE
  /\ UNCHANGED <<denial, poller, queueVars, events, viewVars, mailVars, held, closing, exited, stdin, agentVars>>

ReportExit ==
  /\ eof /\ lock # "reader" /\ ~ exited
  /\ exited' = TRUE
  /\ IF closing THEN UNCHANGED events ELSE Push(<<"gone">>)
  /\ UNCHANGED <<turnVars, denial, poller, queueVars, viewVars, mailVars, held, closing, eof, stdin, agentVars>>

Read == Signal \/ Ask \/ Settle \/ SendDenial \/ EndOfFile \/ ReportExit

(***************************************************************************)
(* ClaudeHeadlessHost::poll, the poller thread.  The order of its parts in *)
(* one round is left open.                                                 *)
(***************************************************************************)
Polls == poller = Empty /\ lock # "poller"
PollRest == UNCHANGED <<denial, refusing, exited, eof, agentVars>>

\* reduce: what an event makes of the phase and the blocked marker.
Reduce(view, event) ==
  CASE event[1] = "TurnStarted" -> [view EXCEPT !.phase = "running"]
    [] event[1] = "TurnEnded"   -> [phase |-> "idle", blocked |-> {}]
    [] event[1] = "asked"       -> [phase |-> "blocked", blocked |-> event[2]]
    [] event[1] = "settled"     -> [phase |-> "running", blocked |-> {}]
    [] event[1] = "closed"      -> [phase |-> "closed", blocked |-> {}]
    [] OTHER                    -> view

\* The view when all of the events are applied, in their order.
Applied(view, all) ==
  LET after[n \in 0..Len(all)] == IF n = 0 THEN view ELSE Reduce(after[n - 1], all[n])
  IN  after[Len(all)]

ApplyEvents(all) ==
  LET view == Applied([phase |-> phase, blocked |-> blocked], all)
  IN  phase' = view.phase /\ blocked' = view.blocked

DrainEvents ==
  /\ Polls /\ held /\ events # <<>>
  /\ ApplyEvents(events) /\ events' = <<>>
  /\ UNCHANGED <<turnVars, poller, queue, posted, results, lost, held, closing, stdin>> /\ PollRest

\* Shared::answer: take_answer under the queue's lock, then the line.
TakeAnswer(a) ==
  /\ Polls /\ held /\ a \in ToSet(queue)
  /\ queue' = WithoutAsk(queue, a) /\ Publish(queue')
  /\ poller' = <<"answer", a>>
  /\ UNCHANGED <<turnVars, viewVars, posted, results, lost, held, closing, stdin>> /\ PollRest

SendAnswer ==
  /\ poller[1] = "answer" /\ Send(<<"verdict", poller[2]>>) /\ poller' = Empty
  /\ UNCHANGED <<turnVars, queue, events, viewVars, posted, results, lost, held, closing>> /\ PollRest

\* deliver_queued, where queued_disposition says Deliver.
Deliver(m) ==
  /\ Polls /\ m \in posted /\ held /\ ~ exited
  /\ Drive("poller", IF m \in Prompts THEN Accept(turns, m) ELSE Interrupt(turns, m))
  /\ posted' = posted \ {m}
  /\ UNCHANGED <<poller, queue, events, viewVars, results, lost, held, closing, stdin>> /\ PollRest

\* Lost: mark_prompt_lost, report_interrupt_gone.
Lose(m) ==
  /\ Polls /\ m \in posted /\ (held => exited)
  /\ posted' = posted \ {m}
  /\ IF m \in Prompts THEN lost' = lost \cup {m} /\ UNCHANGED results
                      ELSE WriteResult(m, "gone") /\ UNCHANGED lost
  /\ UNCHANGED <<turnVars, poller, queue, events, viewVars, held, closing, stdin>> /\ PollRest

\* close and terminate, step by step; forget takes the queued prompts along.
StartClose ==
  /\ Polls /\ held
  /\ held' = FALSE /\ closing' = TRUE /\ poller' = <<"drain", None>>
  /\ UNCHANGED <<turnVars, queue, events, viewVars, posted, results, lost, stdin>> /\ PollRest

CloseDrain ==
  /\ poller[1] = "drain" /\ queue' = <<>> /\ poller' = <<"settle", None>>
  /\ UNCHANGED <<turnVars, events, viewVars, posted, results, lost, held, closing, stdin>> /\ PollRest

CloseSettle ==
  /\ poller[1] = "settle" /\ Push(<<"settled">>) /\ poller' = <<"kill", None>>
  /\ UNCHANGED <<turnVars, queue, viewVars, posted, results, lost, held, closing, stdin>> /\ PollRest

CloseKill ==
  /\ poller[1] = "kill" /\ poller' = <<"forget", None>>
  /\ agent' = Agent("dead") /\ stdin' = <<>>
  /\ UNCHANGED <<turnVars, denial, queueVars, events, viewVars, mailVars, lifeVars, stdout>>

CloseForget ==
  /\ poller[1] = "forget" /\ poller' = Empty
  /\ ApplyEvents(Append(events, <<"closed">>)) /\ events' = <<>>
  /\ posted' = posted \ Prompts
  /\ UNCHANGED <<turnVars, queue, results, lost, held, closing, stdin>> /\ PollRest

(***************************************************************************)
(* The agent.                                                              *)
(***************************************************************************)
Up == agent.is = "up"
Says(line) == stdout' = Append(stdout, line)

Hear ==
  /\ Up /\ stdin # <<>> /\ stdin' = Tail(stdin)
  /\ LET line == Head(stdin) IN
     \/ /\ line[1] = "start" /\ agent.run = None
        /\ agent' = [agent EXCEPT !.run = line[2], !.cut = FALSE]
     \/ line[1] = "verdict" /\ agent' = [agent EXCEPT !.asks = @ \ {line[2]}]
     \/ line[1] = "cut" /\ agent' = [agent EXCEPT !.cut = agent.run # None]
  /\ UNCHANGED <<hostVars, stdout>>

RaiseAsk ==
  /\ Up /\ agent.run # None /\ ~ agent.cut /\ agent.asked < MaxAsks
  /\ agent' = [agent EXCEPT !.asked = @ + 1, !.asks = @ \cup {agent.asked + 1}]
  /\ Says(<<"ask", agent.asked + 1>>)
  /\ UNCHANGED <<hostVars, stdin>>

TakeBack(a) ==
  /\ Up /\ a \in agent.asks
  /\ agent' = [agent EXCEPT !.asks = @ \ {a}] /\ Says(<<"cancel", a>>)
  /\ UNCHANGED <<hostVars, stdin>>

\* A turn ends with or without a call of the report tool.
EndTurn(end) ==
  /\ Up /\ agent.run # None /\ agent.asks = {}
  /\ agent' = [agent EXCEPT !.run = None, !.cut = FALSE]
  /\ \E report \in {<<>>, <<<<"reported", None>>>>} : stdout' = stdout \o report \o <<<<"ended", end>>>>
  /\ UNCHANGED <<hostVars, stdin>>

Die ==
  /\ Up /\ MayDie
  /\ agent' = Agent("dead") /\ stdin' = <<>>
  /\ UNCHANGED <<hostVars, stdout>>

Unforced == RaiseAsk \/ Die \/ DrainEvents \/ StartClose \/ \E a \in Asks : TakeBack(a)

\* What happens in the end: the threads run, the person answers what they are
\* asked, and the agent reads its input and ends a turn that it may end.
Progress ==
  \/ Perform \/ Read \/ SendAnswer \/ CloseDrain \/ CloseSettle \/ CloseKill \/ CloseForget \/ Hear
  \/ \E a \in Asks : TakeAnswer(a)
  \/ \E m \in Messages : Deliver(m) \/ Lose(m)
  \/ \E end \in {"succeeded", "failed"} : EndTurn(end)

Next == Progress \/ Unforced

Spec == Init /\ [][Next]_claudeVars
-----------------------------------------------------------------------------
TypeOK ==
  /\ lock \in {"free", "reader", "poller"} /\ (lock = "free" <=> todo = <<>>)
  /\ denial \in 0..MaxAsks
  /\ poller[1] \in {"nothing", "answer", "drain", "settle", "kill", "forget"}
  /\ queue \in Seq(Asks) /\ refusing \in BOOLEAN /\ blocked \subseteq Asks
  /\ phase \in {"starting", "idle", "running", "blocked", "closed"}
  /\ posted \subseteq Messages /\ lost \subseteq Prompts
  /\ DOMAIN results \subseteq Interrupts
  /\ held \in BOOLEAN /\ closing \in BOOLEAN /\ exited \in BOOLEAN /\ eof \in BOOLEAN
  /\ agent.asks \subseteq 1..agent.asked /\ agent.asked \in 0..MaxAsks

\* Where a request that the agent waits on can be.
Count(s, x) == Cardinality({i \in DOMAIN s : s[i] = x})
Verdict(a) == [act |-> "verdict", what |-> a, how |-> None]
Places(a) ==
  Count(stdout, <<"ask", a>>) + Count(queue, a) + Count(stdin, <<"verdict", a>>) + Count(todo, Verdict(a))
  + (IF denial = a THEN 1 ELSE 0)
  + (IF poller = <<"answer", a>> THEN 1 ELSE 0)

\* A request of the agent is always in one place: none is forgotten and none
\* is answered twice, while answers, interrupts, new requests and requests
\* taken back cross each other.
OnePlace == ~ closing => \A a \in agent.asks : Places(a) = 1

\* When all events are applied and no thread is at work, the phase and the
\* blocked marker say what the turns and the queue are: events never overtake
\* each other, though three locks guard what they are about.
ViewIsTrue ==
  held /\ ~ closing /\ ~ exited /\ events = <<>> /\ lock = "free" /\ phase # "starting" =>
    /\ blocked = ToSet(queue)
    /\ phase = IF ~ Turning THEN "idle" ELSE IF queue = <<>> THEN "running" ELSE "blocked"

\* No step of Progress is enabled.
Quiet ==
  /\ todo = <<>> /\ stdout = <<>> /\ denial = 0 /\ poller = Empty /\ posted = {}
  /\ held => queue = <<>>
  /\ IF Up THEN /\ agent.run = None \/ agent.asks # {}
                /\ stdin = <<>> \/ (Head(stdin)[1] = "start" /\ agent.run # None)
           ELSE exited

\* Every interrupt gets a result, and every message that the host took is
\* given to the agent, unless the agent dies or the worker is closed.  No
\* behaviour goes on for ever, so what must happen in the end has happened
\* where no progress is possible: no thread waits for a line, a lock or an
\* answer that never comes.
NothingLeftBehind ==
  Quiet =>
    /\ Interrupts \subseteq DOMAIN results
    /\ Up => ~ Turning /\ turns.pending = <<>> /\ ~ refusing /\ stdin = <<>>
=============================================================================
