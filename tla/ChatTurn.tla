------------------------------ MODULE ChatTurn ------------------------------
(***************************************************************************)
(* The turns of a chat and its claude process (chat/turn.rs,               *)
(* subprocess/session.rs, chat/keepalive.rs).  The process is started with *)
(* a view of the log and hears each later message as one line, so what it  *)
(* knows and what the log holds must not part.  A turn takes the process   *)
(* out of its slot; the keepalive thread pings it in the slot and keeps    *)
(* the slot's mutex for as long.  A person may cancel at any moment, and   *)
(* the process may exit or write a result nobody asked for.                *)
(***************************************************************************)
EXTENDS Naturals, SequencesExt

CONSTANTS
  Lines,      \* lines the person may send
  Reports,    \* reports that start a turn of their own
  MaxRetries, \* OUTAGE_BACKOFF_SECS has two entries
  MaxKeeps,   \* KEEPALIVE_MAX_KEEPS
  MaxStrays   \* bound: results that answer no message

ASSUME ChatTurnAssumption ==
  /\ Lines \cap Reports = {} /\ {"ping", "stray", "reply"} \cap (Lines \cup Reports) = {}
  /\ {MaxRetries, MaxKeeps, MaxStrays} \subseteq Nat

VARIABLES
  log,         \* the entries: [kind, msg, from]
  left,        \* what may still start a turn
  at,          \* where the turn is
  turn,        \* its message and what it has tried
  cancel,      \* the flag that Ctrl-C sets
  pinging,     \* the keepalive thread holds the slot's mutex
  keeps,       \* pings in a row that failed
  process,     \* the claude process, or NoProcess
  strays

turnState == <<log, left, at, turn, cancel>>
chatTurnVars == <<turnState, pinging, keeps, process, strays>>

NoProcess == [up |-> FALSE, alive |-> FALSE, told |-> <<>>, in |-> <<>>, out |-> <<>>]
NoMessage == "nothing"
Idle == [msg |-> NoMessage, before |-> 0, tries |-> 0, reused |-> FALSE, cut |-> FALSE, result |-> NoMessage, from |-> NoMessage]
Entry(kind, from) == <<[kind |-> kind, msg |-> turn.msg, from |-> from]>>
\* What a view of these entries tells; the replies are in it as well.
Heard(entries) ==
  [i \in DOMAIN entries |-> IF entries[i].kind = "reply" THEN "reply" ELSE entries[i].msg]
Usable(p) == p.alive /\ p.up

ChatTurnInit ==
  /\ log = <<>> /\ left = Lines \cup Reports /\ at = "prompt" /\ turn = Idle
  /\ cancel = FALSE /\ pinging = FALSE /\ keeps = 0 /\ process = NoProcess /\ strays = 0

(***************************************************************************)
(* Turn::run_turn up to the first attempt.                                 *)
(***************************************************************************)
\* A report is logged before the reply, a line of the person with it.
Submit(m) ==
  /\ at = "prompt" /\ m \in left
  /\ left' = left \ {m} /\ cancel' = FALSE /\ at' = "taking"
  /\ turn' = [Idle EXCEPT !.msg = m, !.before = Len(log)]
  /\ log' = IF m \in Reports THEN log \o <<[kind |-> "worker", msg |-> m, from |-> m]>> ELSE log
  /\ UNCHANGED <<pinging, keeps, process, strays>>

Cancel ==
  /\ at # "prompt" /\ ~ cancel /\ cancel' = TRUE
  /\ UNCHANGED <<log, left, at, turn, pinging, keeps, process, strays>>

\* draft_after: an unanswered line of the person is a draft again.  Every end
\* of a turn starts the count of failed pings anew (keeps_for_turn).
Unanswered ==
  /\ left' = (IF turn.msg \in Lines THEN left \cup {turn.msg} ELSE left)
  /\ at' = "prompt" /\ turn' = Idle /\ keeps' = 0

\* take_session waits for a ping; a cancel up to here sends nothing.
TakeSession ==
  /\ at = "taking" /\ ~ pinging
  /\ process' = IF Usable(process) THEN process ELSE NoProcess
  /\ cancel' = FALSE
  /\ IF cancel THEN Unanswered ELSE at' = "attempt" /\ UNCHANGED <<turn, left, keeps>>
  /\ UNCHANGED <<log, pinging, strays>>

(***************************************************************************)
(* Turn::attempt and Session::exchange.                                    *)
(***************************************************************************)
\* leftover_is_stale: a result that waits was asked for by nobody.
Leftover(p) == p.out # <<>>

\* FAULT: the view holds the report that the prompt brings once more.
WholeView == Heard(log)

\* Turn::launch: the view ends where the log ended when the turn began.
View == Heard(SubSeq(log, 1, turn.before))

Launch ==
  /\ at = "attempt" /\ process = NoProcess
  /\ \/ /\ process' = [NoProcess EXCEPT !.up = TRUE, !.alive = TRUE, !.told = View]
        /\ at' = "checked" /\ turn' = [turn EXCEPT !.reused = FALSE]
     \/ at' = "attempted" /\ turn' = [turn EXCEPT !.result = "problem"] /\ UNCHANGED process
  /\ UNCHANGED <<log, left, cancel, pinging, keeps, strays>>

\* A process that is used again; LeftoverResult has it started anew.
CheckLeftover ==
  /\ at = "attempt" /\ process # NoProcess
  /\ IF Leftover(process)
     THEN process' = NoProcess /\ UNCHANGED <<at, turn>>
     ELSE /\ process' = [process EXCEPT !.out = <<>>]
          /\ at' = "checked" /\ turn' = [turn EXCEPT !.reused = TRUE]
  /\ UNCHANGED <<log, left, cancel, pinging, keeps, strays>>

\* One that died before the line was written is replaced once (Stale).
SendPrompt ==
  /\ at = "checked"
  /\ IF process.up
     THEN /\ process' = [process EXCEPT !.told = Append(@, turn.msg), !.in = Append(@, turn.msg)]
          /\ at' = "exchange" /\ UNCHANGED turn
     ELSE /\ process' = NoProcess
          /\ IF turn.reused THEN at' = "attempt" /\ UNCHANGED turn
             ELSE at' = "attempted" /\ turn' = [turn EXCEPT !.result = "problem"]
  /\ UNCHANGED <<log, left, cancel, pinging, keeps, strays>>

CutTurn ==
  /\ at = "exchange" /\ cancel /\ ~ turn.cut /\ turn' = [turn EXCEPT !.cut = TRUE]
  /\ UNCHANGED <<log, left, at, cancel, pinging, keeps, process, strays>>

\* The first result ends the turn, and finish reads all that waits.
ReadResult ==
  /\ at = "exchange" /\ process.out # <<>>
  /\ turn' = [turn EXCEPT !.result = Head(process.out).how, !.from = Head(process.out)]
  /\ process' = [process EXCEPT !.out = <<>>, !.alive = process.up] /\ at' = "attempted"
  /\ UNCHANGED <<log, left, cancel, pinging, keeps, strays>>

\* INTERRUPT_GRACE is over, or the process ended without a result.  If it ended
\* by itself with exit code 0, the text it wrote so far is the reply.
LoseProcess ==
  /\ at = "exchange" /\ process.out = <<>> /\ (turn.cut \/ ~ process.up)
  /\ process' = NoProcess /\ at' = "attempted"
  /\ \/ \E how \in {"problem", "outage"} : turn' = [turn EXCEPT !.result = how]
     \/ /\ ~ process.up
        /\ turn' = [turn EXCEPT !.result = "ok",
                      !.from = [answers |-> turn.msg, how |-> "ok", late |-> FALSE]]
  /\ UNCHANGED <<log, left, cancel, pinging, keeps, strays>>

\* retry_on_outage: a failed attempt drops the process.
Retry ==
  /\ at = "attempted" /\ ~ cancel /\ turn.result = "outage" /\ turn.tries < MaxRetries
  /\ process' = NoProcess /\ at' = "attempt"
  /\ turn' = [turn EXCEPT !.tries = @ + 1, !.cut = FALSE]
  /\ UNCHANGED <<log, left, cancel, pinging, keeps, strays>>

\* The end of run_turn; a cancel counts until here.  reset_reason may ask for
\* a new process though the turn went well.
FinishTurn ==
  /\ at = "attempted"
  /\ cancel \/ ~ (turn.result = "outage" /\ turn.tries < MaxRetries)
  /\ cancel' = FALSE
  /\ IF ~ cancel /\ turn.result = "ok"
     THEN /\ log' = log \o (IF turn.msg \in Reports THEN <<>> ELSE Entry("user", turn.msg))
                        \o Entry("reply", turn.from)
          /\ at' = "prompt" /\ turn' = Idle /\ keeps' = 0 /\ UNCHANGED left
          /\ process' \in {IF Usable(process) THEN process ELSE NoProcess, NoProcess}
     ELSE Unanswered /\ process' = NoProcess /\ UNCHANGED log
  /\ UNCHANGED <<pinging, strays>>

(***************************************************************************)
(* KeepaliveWatch::ping_once, when a ping is due.                          *)
(***************************************************************************)
\* keepalive_action: the idle flag is read with the mutex held.
NoTurnRuns == at = "prompt"

Ping ==
  /\ ~ pinging /\ NoTurnRuns /\ Usable(process) /\ keeps < MaxKeeps
  /\ IF Leftover(process)
     THEN process' = NoProcess /\ keeps' = 0 /\ UNCHANGED pinging
     ELSE /\ process' = [process EXCEPT !.out = <<>>, !.in = Append(@, "ping")]
          /\ pinging' = TRUE /\ UNCHANGED keeps
  /\ UNCHANGED <<turnState, strays>>

\* ping_follow_up: Warm, Keep, or Kill when the process is dead.
PingResult ==
  /\ pinging /\ process.out # <<>> /\ pinging' = FALSE
  /\ keeps' = (IF process.up /\ Head(process.out).how # "ok" THEN keeps + 1 ELSE 0)
  /\ process' = IF process.up THEN [process EXCEPT !.out = <<>>] ELSE NoProcess
  /\ UNCHANGED <<turnState, strays>>

\* FAULT: a ping that times out leaves the process as it is.
PingGivesUp ==
  /\ pinging /\ process.out = <<>> /\ pinging' = FALSE /\ keeps' = 0
  /\ UNCHANGED <<turnState, process, strays>>

\* PING_TIMEOUT, or the process ended: Kill.
PingTimeout ==
  /\ pinging /\ process.out = <<>> /\ pinging' = FALSE /\ keeps' = 0 /\ process' = NoProcess
  /\ UNCHANGED <<turnState, strays>>

(***************************************************************************)
(* The process.  A result tells what it answers, and whether the turn of   *)
(* another message had already looked for leftovers when it was written.   *)
(***************************************************************************)
Late(m) == at \in {"checked", "exchange"} /\ turn.msg # m
Write(m, how) == Append(process.out, [answers |-> m, how |-> how, late |-> Late(m)])
WriteRest == UNCHANGED <<turnState, pinging, keeps>>

Answer(how) ==
  /\ process.up /\ process.in # <<>>
  /\ process' = [process EXCEPT !.in = Tail(@), !.out = Write(Head(process.in), how)]
  /\ UNCHANGED strays /\ WriteRest

Stray ==
  /\ process.up /\ strays < MaxStrays /\ strays' = strays + 1
  /\ process' = [process EXCEPT !.out = Write("stray", "ok")] /\ WriteRest

Exit ==
  /\ process.up /\ process' = [process EXCEPT !.up = FALSE, !.in = <<>>]
  /\ UNCHANGED strays /\ WriteRest

ChatTurnNext ==
  \/ \E m \in Lines \cup Reports : Submit(m)
  \/ Cancel \/ TakeSession \/ Launch \/ CheckLeftover \/ SendPrompt \/ CutTurn
  \/ ReadResult \/ LoseProcess \/ Retry \/ FinishTurn
  \/ Ping \/ PingResult \/ PingTimeout
  \/ \E how \in {"ok", "problem", "outage"} : Answer(how)
  \/ Stray \/ Exit

ChatTurnSpec == ChatTurnInit /\ [][ChatTurnNext]_chatTurnVars
-----------------------------------------------------------------------------
\* The reply that the log holds for a message is the answer of the process to
\* that message, never the rest of a ping, of a cancelled turn or of nothing.
\* Only where the process writes results by itself, one written after the
\* turn looked for leftovers is mistaken: a line does not say which turn it is of.
OwnReply ==
  \A i \in DOMAIN log : log[i].kind = "reply" => 
       log[i].from.answers = log[i].msg \/ (strays > 0 /\ log[i].from.late)

\* Two conversations have the same of these messages, once each, in one order.
SameMessages(one, other, mine) ==
  /\ ToSet(one) \cap mine = ToSet(other) \cap mine
  /\ \A i, j \in DOMAIN one, k, l \in DOMAIN other :
       one[i] = other[k] /\ one[j] = other[l] /\ {one[i], one[j]} \subseteq mine
         => (i < j <=> k < l)

Knows(mine) == at = "prompt" /\ Usable(process) => SameMessages(process.told, Heard(log), mine)

\* A process that the next turn will use has heard what the person and the
\* chat said as the log has it: no cancelled or failed message is in its
\* conversation, none of the person's is missing, and none was told twice by a
\* retry.
KnowsThePerson ==
  /\ Knows(Lines)
  /\ at = "prompt" /\ Usable(process) =>
       /\ ToSet(process.told) \subseteq ToSet(Heard(log))
       /\ \A i, j \in DOMAIN process.told :
            process.told[i] = process.told[j] => i = j \/ process.told[i] = "reply"

\* docs/context/ralph-chat.md: a cancelled turn also drops the process, so the
\* next one starts from the log; so no report that was logged stays unheard.
KnowsTheReports == Knows(Reports)
=============================================================================
