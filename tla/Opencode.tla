------------------------------ MODULE Opencode ------------------------------
(***************************************************************************)
(* One opencode worker in its chat (opencode_worker.rs and below, core's   *)
(* worker/opencode_http/turns.rs).  Its agent is a session of a server the *)
(* chat starts: the supervising thread follows the session through a       *)
(* stream of events, which may break, and repairs what it missed from      *)
(* snapshots it reads with several requests; the polling thread posts      *)
(* prompts, interrupts and answers.  They share the turn state and a list  *)
(* of events for the markers, each under a mutex of its own.               *)
(*                                                                         *)
(* The server is modelled by what the host relies on: a session runs one   *)
(* turn at a time, a prompt that comes during a turn joins it or waits,    *)
(* what happens is put on the stream if one is open, and a server that     *)
(* dies takes the turn and the requests with it.                           *)
(***************************************************************************)
EXTENDS Turns, FiniteSets

CONSTANTS
  Replies,        \* messages for the worker after its task
  MaxPermissions, \* bound: permission requests
  TransientRetries,
  StartAttempts,
  MaxOcFaults     \* bound: deaths, broken streams, failed turns and requests

ASSUME OpencodeAssumption ==
  /\ {MaxPermissions, TransientRetries, StartAttempts, MaxOcFaults} \subseteq Nat
  /\ None \notin Replies

VARIABLES
  server,       \* OpencodeHost.server
  session,      \* the session as the server has it
  link, feed,   \* the stream, and its lines the host has not taken
  turnState,    \* Session.turn
  sink,         \* Session.events
  reportedMark, blockedMark,  \* the markers of the worker
  sup, poll,    \* what the two threads have in hand
  replies,      \* the entries that wait in the prompt and interrupt folders
  seen,         \* history: the last end of a turn the host has settled
  drift,        \* history: the known limits a behaviour has met (see Drifts)
  faultsLeft

outsideVars == <<server, session, link, feed>>
markVars == <<sink, reportedMark, blockedMark>>
pastVars == <<seen, drift, faultsLeft>>
ocVars == <<outsideVars, turnState, markVars, sup, poll, replies, pastVars>>

Task == "task"
NoResult == [no |-> 0, end |-> None, told |-> FALSE]
Default == [inFlight |-> FALSE, reminded |-> FALSE, retries |-> 0, prompt |-> None,
            blocked |-> {}, requested |-> FALSE]
Resting(at) == [at |-> at, known |-> Default, active |-> FALSE, pending |-> {},
                updates |-> <<>>, effects |-> <<>>, batch |-> <<>>, starts |-> 0]
Idle == [at |-> "idle", text |-> None, was |-> FALSE, outcome |-> None, ask |-> 0, batch |-> <<>>]

\* TurnState::prompted.
Prompted(t, text) ==
  [t EXCEPT !.inFlight = TRUE, !.reminded = FALSE, !.retries = 0, !.prompt = text]

\* create has posted the task; the stream may be open already.
OcInit ==
  /\ server = "alive" /\ link \in {"none", "open"} /\ feed = <<>>
  /\ session = [run |-> None, told |-> FALSE, queue |-> <<Task>>, result |-> NoResult,
                asks |-> {}, asked |-> 0, ends |-> 0]
  /\ turnState = Prompted(Default, Task) /\ sink = <<>>
  /\ reportedMark = FALSE /\ blockedMark = {}
  /\ sup = Resting("loop") /\ poll = Idle /\ replies = Replies
  /\ seen = 0 /\ drift = {} /\ faultsLeft = MaxOcFaults

Fault == faultsLeft > 0 /\ faultsLeft' = faultsLeft - 1

(***************************************************************************)
(* What the host is known to miss (README.md, known limits): "blind", a    *)
(* snapshot could not be read; "failed", a prompt could not be posted      *)
(* while there was other work; "crossed", the server was lost between a    *)
(* prompt's mark and its post; "behind", an end was settled when newer     *)
(* work was there; "overtaken", both threads hold events for the markers.  *)
(***************************************************************************)
Drifts(why, if) == drift' = IF if THEN drift \cup {why} ELSE drift
Emits(event) == feed' = IF link = "open" THEN Append(feed, event) ELSE feed

(***************************************************************************)
(* The server and the agent.                                               *)
(***************************************************************************)
Outside == UNCHANGED <<turnState, sink, blockedMark, sup, poll, replies, seen, drift>>
Busy == session.run # None \/ session.queue # <<>>
Running == server = "alive" /\ session.run # None

StartTurn ==
  /\ server = "alive" /\ session.run = None /\ session.queue # <<>>
  /\ session' = [session EXCEPT !.run = Head(session.queue), !.queue = Tail(@), !.told = FALSE]
  /\ Emits(<<"started">>)
  /\ UNCHANGED <<server, link, reportedMark, faultsLeft>> /\ Outside

JoinTurn ==
  /\ Running /\ session.queue # <<>>
  /\ session' = [session EXCEPT !.queue = Tail(@)]
  /\ UNCHANGED <<server, link, feed, reportedMark, faultsLeft>> /\ Outside

Report ==
  /\ Running /\ ~ session.told
  /\ session' = [session EXCEPT !.told = TRUE] /\ reportedMark' = TRUE
  /\ UNCHANGED <<server, link, feed, faultsLeft>> /\ Outside

AskPermission ==
  /\ Running /\ session.asked < MaxPermissions
  /\ session' = [session EXCEPT !.asked = @ + 1, !.asks = @ \cup {session.asked + 1}]
  /\ Emits(<<"blocked", session.asked + 1>>)
  /\ UNCHANGED <<server, link, reportedMark, faultsLeft>> /\ Outside

\* The session after its turn ended so; what waits for an answer is dropped.
EndOf(s, end) == [no |-> s.ends + 1, end |-> end, told |-> s.told]
Ended(s, end) ==
  [s EXCEPT !.run = None, !.asks = {}, !.ends = @ + 1, !.result = EndOf(s, end)]

EndTurn ==
  /\ Running /\ session.asks = {}
  /\ \E end \in {"succeeded", "transient", "failed", "interrupted"} :
       /\ session' = Ended(session, end) /\ Emits(<<"ended", EndOf(session, end)>>)
       /\ IF end = "succeeded" THEN UNCHANGED faultsLeft ELSE Fault
  /\ UNCHANGED <<server, link, reportedMark>> /\ Outside

\* A turn the server never ends counts as one more end.
ServerDies ==
  /\ server = "alive" /\ Fault
  /\ server' = "dead" /\ link' = IF link = "open" THEN "broken" ELSE link
  /\ session' = [session EXCEPT !.run = None, !.queue = <<>>, !.asks = {}, !.result = NoResult,
                   !.ends = IF Busy THEN @ + 1 ELSE @]
  /\ UNCHANGED <<feed, reportedMark>> /\ Outside

StreamBreaks ==
  /\ link = "open" /\ Fault /\ link' = "broken"
  /\ UNCHANGED <<server, session, feed, reportedMark>> /\ Outside

AgentStep == StartTurn \/ JoinTurn \/ Report \/ AskPermission \/ EndTurn

(***************************************************************************)
(* TurnState: what an update makes of it, and the effects it asks for.     *)
(* Effects that nothing of the host reads again are left out: the ready,   *)
(* waiting and unreported markers, reports and snapshots.                  *)
(***************************************************************************)
Shows(t) == Do("publish", t.blocked, None)

\* TurnState::settle.
Settle(t, end, reported) ==
  IF end = "transient" /\ t.retries < TransientRetries /\ t.prompt # None
  THEN With([t EXCEPT !.retries = @ + 1, !.inFlight = TRUE], Do("send", t.prompt, None))
  ELSE LET cut  == end = "interrupted"
           out  == TurnOutcome(IF end = "transient" THEN "failed" ELSE end, reported,
                               t.reminded, FALSE, t.requested /\ cut)
           asks == out = "remind"
           next == [t EXCEPT !.inFlight = asks, !.reminded = asks, !.retries = 0,
                             !.requested = FALSE,
                             !.prompt = IF asks THEN Reminder ELSE @,
                             !.blocked = IF cut THEN {} ELSE @]
       IN  With(next, (IF cut /\ t.blocked # {} THEN Shows(next) ELSE <<>>)
                      \o CASE asks -> Do("send", Reminder, None)
                           [] out = "reported" -> Do("clear", None, None)
                           [] OTHER -> <<>>)

\* advance.
Updated(t, update, reported) ==
  CASE update[1] = "started" -> With([t EXCEPT !.inFlight = TRUE], <<>>)
    [] update[1] = "blocked" ->
         IF update[2] \in t.blocked THEN With(t, <<>>)
         ELSE LET next == [t EXCEPT !.blocked = @ \cup {update[2]}] IN With(next, Shows(next))
    [] update[1] = "unblocked" ->
         IF update[2] \notin t.blocked THEN With(t, <<>>)
         ELSE LET next == [t EXCEPT !.blocked = @ \ {update[2]}]
              IN  With(next, Shows(next))
    [] update[1] = "ended" -> Settle(t, update[2].end, reported)

\* FAULT: a request that was settled while the stream was down stays.
ReconcileKeepsSettled(known, active, pending, result) ==
  LET new == SetToSeq(pending \ known.blocked)
  IN  [i \in DOMAIN new |-> <<"blocked", new[i]>>]
      \o CASE ~ known.inFlight /\ active -> <<<<"started">>>>
           [] known.inFlight /\ ~ active /\ result # NoResult -> <<<<"ended", result>>>>
           [] OTHER -> <<>>

\* reconcile: the updates that were missed.
Reconcile(known, active, pending, result) ==
  LET gone == SetToSeq(known.blocked \ pending)
      new  == SetToSeq(pending \ known.blocked)
  IN  [i \in DOMAIN gone |-> <<"unblocked", gone[i]>>]
      \o [i \in DOMAIN new |-> <<"blocked", new[i]>>]
      \o CASE ~ known.inFlight /\ active -> <<<<"started">>>>
           [] known.inFlight /\ ~ active /\ result # NoResult -> <<<<"ended", result>>>>
           [] OTHER -> <<>>

\* What a list of events makes of the blocked marker (reduce, apply_effect).
IsMark(e) == e[1] = "marks"
HasMark(batch) == \E i \in DOMAIN batch : IsMark(batch[i])
MarkAfter(mark, batch) ==
  LET marks == {i \in DOMAIN batch : IsMark(batch[i])}
  IN  IF ~ HasMark(batch) THEN mark ELSE batch[CHOOSE i \in marks : \A j \in marks : j <= i][2]

(***************************************************************************)
(* Requests to the server, which fail if it is down and may fail anyway.   *)
(***************************************************************************)
Answers == server = "alive" /\ UNCHANGED faultsLeft
Fails == IF server = "alive" THEN Fault ELSE UNCHANGED faultsLeft

\* send: the prompt is posted, or no turn is in flight.
PostText(text, others) ==
  \/ /\ Answers /\ session' = [session EXCEPT !.queue = Append(@, text), !.result = NoResult]
     /\ UNCHANGED <<turnState, drift>>
  \/ /\ Fails /\ turnState' = [turnState EXCEPT !.inFlight = FALSE]
     /\ Drifts("failed", others \/ Busy \/ seen # session.ends)
     /\ UNCHANGED session

(***************************************************************************)
(* supervise.                                                              *)
(***************************************************************************)
SupRest == UNCHANGED <<poll, replies>>
At(at) == sup.at = at
GoTo(at) == sup' = [sup EXCEPT !.at = at]

\* take_dead and lose_server; the server is stopped before its turns are lost.
TakeDead ==
  /\ At("loop") /\ server = "dead"
  /\ server' = "none" /\ link' = "none" /\ feed' = <<>> /\ sup' = Resting("lose")
  /\ UNCHANGED <<session, turnState, markVars, pastVars>> /\ SupRest

\* reconnect gives up: the server is dead, or refuses the stream.
Unreachable ==
  /\ At("loop") /\ link = "none" /\ server = "alive" /\ Fault
  /\ server' = "none" /\ sup' = Resting("lose")
  /\ session' = [session EXCEPT !.run = None, !.queue = <<>>, !.asks = {}, !.result = NoResult,
                   !.ends = IF Busy THEN @ + 1 ELSE @]
  /\ UNCHANGED <<link, feed, turnState, markVars, seen, drift>> /\ SupRest

\* lose_sessions with TurnState::server_lost.
LoseSessions ==
  /\ At("lose")
  /\ turnState' = Default
  /\ sup' = [Resting("effects") EXCEPT !.effects =
               IF turnState.blocked # {} THEN Shows(Default) ELSE <<>>]
  /\ seen' = IF turnState.inFlight THEN session.ends ELSE seen
  /\ Drifts("crossed", poll.at = "post")
  /\ UNCHANGED <<outsideVars, markVars, faultsLeft>> /\ SupRest

StartServer ==
  /\ At("loop") /\ server = "none"
  /\ \/ server' = "alive" /\ sup' = Resting("loop") /\ UNCHANGED faultsLeft
     \/ /\ Fault /\ UNCHANGED server
        /\ sup' = IF sup.starts + 1 >= StartAttempts THEN Resting("gaveUp")
                                                     ELSE [sup EXCEPT !.starts = @ + 1]
  /\ UNCHANGED <<session, link, feed, turnState, markVars, seen, drift>> /\ SupRest

\* connect: the stream is open before anything is read.
Connect ==
  /\ At("loop") /\ link = "none" /\ server = "alive"
  /\ link' = "open" /\ feed' = <<>> /\ GoTo("active")
  /\ UNCHANGED <<server, session, turnState, markVars, pastVars>> /\ SupRest

\* A request of reconcile_all fails: nothing is repaired.
ReadFails ==
  /\ sup.at \in {"active", "pending", "messages"} /\ Fails
  /\ sup' = Resting("loop") /\ Drifts("blind", server = "alive")
  /\ UNCHANGED <<outsideVars, turnState, markVars, seen>> /\ SupRest

ReadActive ==
  /\ At("active") /\ Answers
  /\ sup' = [sup EXCEPT !.at = "clone", !.active = session.run # None]
  /\ UNCHANGED <<outsideVars, turnState, markVars, seen, drift>> /\ SupRest

CloneTurn ==
  /\ At("clone") /\ sup' = [sup EXCEPT !.at = "pending", !.known = turnState]
  /\ UNCHANGED <<outsideVars, turnState, markVars, pastVars>> /\ SupRest

\* The updates of what was read; the first is applied next, if there is one.
Repair(known, active, pending, result) ==
  LET updates == Reconcile(known, active, pending, result)
  IN  sup' = [Resting(IF updates = <<>> THEN "loop" ELSE "apply") EXCEPT !.updates = updates]

\* snapshot_of: the messages are read only if the turn seems to have ended.
ReadPending ==
  /\ At("pending") /\ Answers
  /\ IF sup.known.inFlight /\ ~ sup.active
     THEN sup' = [sup EXCEPT !.at = "messages", !.pending = session.asks]
     ELSE Repair(sup.known, sup.active, session.asks, NoResult)
  /\ UNCHANGED <<outsideVars, turnState, markVars, seen, drift>> /\ SupRest

ReadMessages ==
  /\ At("messages") /\ Answers
  /\ Repair(sup.known, sup.active, sup.pending, session.result)
  /\ UNCHANGED <<outsideVars, turnState, markVars, seen, drift>> /\ SupRest

\* A line of the stream becomes an update (route).
Route ==
  /\ At("loop") /\ server # "dead" /\ link # "none" /\ feed # <<>>
  /\ sup' = [Resting("apply") EXCEPT !.updates = <<Head(feed)>>] /\ feed' = Tail(feed)
  /\ UNCHANGED <<server, session, link, turnState, markVars, pastVars>> /\ SupRest

Drop ==
  /\ At("loop") /\ server # "dead" /\ link = "broken" /\ feed = <<>>
  /\ link' = "none"
  /\ UNCHANGED <<server, session, feed, turnState, markVars, sup, pastVars>> /\ SupRest

\* apply: advance under the mutex.
Apply ==
  /\ At("apply")
  /\ LET update == Head(sup.updates)
         next   == Updated(turnState, update, reportedMark)
     IN  /\ turnState' = next.t
         /\ sup' = [sup EXCEPT !.at = "effects", !.updates = Tail(@), !.effects = next.acts]
         /\ IF update[1] = "ended"
            THEN /\ seen' = IF update[2].no > seen THEN update[2].no ELSE seen
                 /\ Drifts("behind", update[2].no # session.ends \/ Busy \/ poll.at = "post")
            ELSE UNCHANGED <<seen, drift>>
  /\ UNCHANGED <<outsideVars, markVars, faultsLeft>> /\ SupRest

\* run: the effects one by one, with no mutex held in between.
NextEffect(act) == At("effects") /\ sup.effects # <<>> /\ Head(sup.effects).act = act
EffectDone == sup' = [sup EXCEPT !.effects = Tail(@)]

RunPublish ==
  /\ NextEffect("publish") /\ EffectDone
  /\ sink' = Append(sink, <<"marks", Head(sup.effects).what>>)
  /\ UNCHANGED <<outsideVars, turnState, reportedMark, blockedMark, pastVars>> /\ SupRest

RunClear ==
  /\ NextEffect("clear") /\ EffectDone /\ reportedMark' = FALSE
  /\ UNCHANGED <<outsideVars, turnState, sink, blockedMark, pastVars>> /\ SupRest

RunSend ==
  /\ NextEffect("send") /\ EffectDone /\ PostText(Head(sup.effects).what, poll.at = "post")
  /\ UNCHANGED <<server, link, feed, markVars, seen>> /\ SupRest

\* apply_events takes the events, and applies them under the other mutex.
AfterRun == IF sup.updates = <<>> THEN "loop" ELSE "apply"
TakeEvents ==
  /\ At("effects") /\ sup.effects = <<>>
  /\ sup' = IF sink = <<>> THEN [sup EXCEPT !.at = AfterRun]
                           ELSE [sup EXCEPT !.at = "batch", !.batch = sink]
  /\ sink' = <<>>
  /\ Drifts("overtaken", sink # <<>> /\ HasMark(poll.batch))
  /\ UNCHANGED <<outsideVars, turnState, reportedMark, blockedMark, seen, faultsLeft>> /\ SupRest

ApplyEvents ==
  /\ At("batch")
  /\ blockedMark' = MarkAfter(blockedMark, sup.batch)
  /\ sup' = [sup EXCEPT !.at = AfterRun, !.batch = <<>>]
  /\ UNCHANGED <<outsideVars, turnState, sink, reportedMark, pastVars>> /\ SupRest

Supervise ==
  \/ TakeDead \/ Unreachable \/ LoseSessions \/ StartServer \/ Connect
  \/ ReadFails \/ ReadActive \/ CloneTurn \/ ReadPending \/ ReadMessages
  \/ Route \/ Drop \/ Apply \/ RunPublish \/ RunClear \/ RunSend \/ TakeEvents \/ ApplyEvents

(***************************************************************************)
(* poll: prompts, interrupts and answers.                                  *)
(***************************************************************************)
PollRest == UNCHANGED <<server, link, reportedMark, sup, seen>>
Polls(at) == poll.at = at

TakePrompt ==
  /\ Polls("idle")
  /\ \E text \in replies :
       /\ replies' = replies \ {text}
       /\ \/ poll' = [Idle EXCEPT !.at = "prompt", !.text = text]
          \/ poll' = [Idle EXCEPT !.at = "request", !.text = text, !.was = turnState.inFlight]
  /\ UNCHANGED <<session, feed, turnState, sink, blockedMark, drift, faultsLeft>> /\ PollRest

RequestInterrupt ==
  /\ Polls("request")
  /\ turnState' = [turnState EXCEPT !.requested = TRUE] /\ poll' = [poll EXCEPT !.at = "interrupt"]
  /\ UNCHANGED <<session, feed, sink, blockedMark, replies, drift, faultsLeft>> /\ PollRest

\* The outcome goes through the list of events.
PostInterrupt ==
  /\ Polls("interrupt") /\ poll' = [poll EXCEPT !.at = "drain"]
  /\ \/ /\ Answers
        /\ sink' = Append(sink, <<"interrupted", IF session.run # None THEN "cut" ELSE "idle">>)
        /\ IF session.run # None
           THEN session' = Ended(session, "interrupted")
                /\ Emits(<<"ended", EndOf(session, "interrupted")>>)
           ELSE UNCHANGED <<session, feed>>
     \/ Fails /\ sink' = Append(sink, <<"interrupted", None>>) /\ UNCHANGED <<session, feed>>
  /\ UNCHANGED <<turnState, blockedMark, replies, drift>> /\ PollRest

DrainSink ==
  /\ Polls("drain") /\ poll' = [poll EXCEPT !.at = "batch", !.batch = sink] /\ sink' = <<>>
  /\ UNCHANGED <<session, feed, turnState, blockedMark, replies, drift, faultsLeft>> /\ PollRest

\* The outcome, unless the other thread took the event.
OutcomeIn(batch) ==
  LET told == {i \in DOMAIN batch : batch[i][1] = "interrupted"}
  IN  IF told = {} THEN None ELSE batch[CHOOSE i \in told : \A j \in told : i <= j][2]

ApplyOwn ==
  /\ Polls("batch") /\ blockedMark' = MarkAfter(blockedMark, poll.batch)
  /\ poll' = [poll EXCEPT !.at = "keep", !.outcome = OutcomeIn(poll.batch), !.batch = <<>>]
  /\ UNCHANGED <<session, feed, turnState, sink, replies, drift, faultsLeft>> /\ PollRest

\* keeps_interrupt_request.
Keeps(outcome, was) == outcome = "cut" \/ (outcome = None /\ was)
KeepRequest ==
  /\ Polls("keep") /\ poll' = [Idle EXCEPT !.at = "prompt", !.text = poll.text]
  /\ turnState' = IF Keeps(poll.outcome, poll.was) THEN turnState
                                                   ELSE [turnState EXCEPT !.requested = FALSE]
  /\ UNCHANGED <<session, feed, sink, blockedMark, replies, drift, faultsLeft>> /\ PollRest

BeginPrompt ==
  /\ Polls("prompt") /\ poll' = [poll EXCEPT !.at = "post"]
  /\ turnState' = Prompted(turnState, poll.text)
  /\ UNCHANGED <<session, feed, sink, blockedMark, replies, drift, faultsLeft>> /\ PollRest

PostPrompt ==
  /\ Polls("post") /\ poll' = Idle /\ PostText(poll.text, \E i \in DOMAIN sup.effects : sup.effects[i].act = "send")
  /\ UNCHANGED <<feed, sink, blockedMark, replies>> /\ PollRest

\* reply_permission: the request must be one the host knows.
TakeReply ==
  /\ Polls("idle")
  /\ \E ask \in turnState.blocked : poll' = [Idle EXCEPT !.at = "reply", !.ask = ask]
  /\ UNCHANGED <<session, feed, turnState, sink, blockedMark, replies, drift, faultsLeft>>
  /\ PollRest

PostReply ==
  /\ Polls("reply") /\ poll' = Idle
  /\ \/ Fails /\ UNCHANGED <<session, feed>>
     \/ /\ Answers /\ session' = [session EXCEPT !.asks = @ \ {poll.ask}]
        /\ IF poll.ask \in session.asks THEN Emits(<<"unblocked", poll.ask>>) ELSE UNCHANGED feed
  /\ UNCHANGED <<turnState, sink, blockedMark, replies, drift>> /\ PollRest

Poll ==
  \/ TakePrompt \/ RequestInterrupt \/ PostInterrupt \/ DrainSink \/ ApplyOwn \/ KeepRequest
  \/ BeginPrompt \/ PostPrompt \/ TakeReply \/ PostReply

OcNext == AgentStep \/ ServerDies \/ StreamBreaks \/ Supervise \/ Poll

OcSpec == OcInit /\ [][OcNext]_ocVars
-----------------------------------------------------------------------------
\* The host has nothing more to do by itself.
Quiet ==
  /\ At("loop") /\ server = "alive" /\ link = "open" /\ feed = <<>> /\ sink = <<>>
  /\ Polls("idle") /\ session.queue = <<>>

\* Whatever was lost with a broken stream or a dead server, and however the
\* stream, the snapshots and the polling thread overlap, the host ends up
\* with what the server has: a turn is in flight iff one runs, the requests it
\* knows, and its blocked marker names, are the ones that wait, and the last
\* end of a turn is settled, be it from the stream, a snapshot or the loss of
\* the server.
FollowsServer ==
  Quiet =>
    /\ drift \cap {"blind", "failed"} = {} => (turnState.inFlight <=> session.run # None)
    /\ "blind" \notin drift => turnState.blocked = session.asks
    /\ drift \cap {"blind", "overtaken"} = {} => blockedMark = session.asks
    /\ session.run = None /\ drift \subseteq {"overtaken"} => seen = session.ends

\* "The SSE turn state (`TurnState`) queues one `REPORT_REMINDER` prompt after
\* a turn that ended without a report" (docs/context/ralph-chat.md:678).
RemindsTheUnreported ==
  [][ turnState'.reminded /\ ~ turnState.reminded =>
        \E i \in DOMAIN sup.updates : sup.updates[i][1] = "ended" /\ ~ sup.updates[i][2].told ]_ocVars
=============================================================================
