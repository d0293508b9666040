------------------------------- MODULE Handoff -------------------------------
(***************************************************************************)
(* How an answer to a permission request gets from the process that        *)
(* replies to the chat that hosts the worker, through files alone          *)
(* (crates/ralph/src/workers/reply.rs, crates/ralph/src/cursor_owner.rs).  *)
(*                                                                         *)
(* A reply holds the lock of its worker, waits for an earlier claim to     *)
(* clear, clears the error file, renames its answer into place, and waits  *)
(* until both the answer and the claim are gone. The poller of the host    *)
(* claims the answer by a rename, acts, writes the error file when it      *)
(* refused, and removes the claim last. Either waits by looking at one     *)
(* file after the other, and either may die at any step.                   *)
(***************************************************************************)
EXTENDS Naturals, FiniteSets

CONSTANTS
  Replies,        \* the replies to one worker; each writes one answer
  ForgetsAnswer,  \* closing a worker removes its answer: so for Cursor and Codex
  MaxCrashes,     \* bound: how often the hosting chat dies
  MaxKills        \* bound: how many replying processes are killed

None == "none"  \* no such file, or nobody

ASSUME HandoffAssumption ==
  /\ None \notin Replies /\ ForgetsAnswer \in BOOLEAN
  /\ MaxCrashes \in Nat /\ MaxKills \in Nat

VARIABLES
  owner,    \* the owner file of the worker exists
  answer,   \* <store>/<harness>-answer/<id>: whose answer it holds
  claim,    \* <store>/.claimed-<harness>-answer-<id>
  error,    \* the error file: the reply it was written for
  lock,     \* who holds <store>/.answer-<id>.lock
  pc,       \* where each reply stands
  told,     \* what each reply returned, and for "refused" whose error it was
  host,     \* where the poller of the host stands
  running,  \* the host has the worker
  handled,  \* what the host did with each answer
  ended,    \* the replies that began before the worker closed or its host died
  crashes, kills

reply == <<pc, told>>
files == <<owner, answer, claim, error>>
vars == <<owner, answer, claim, error, lock, pc, told, host, running, handled,
          ended, crashes, kills>>

Steps == {"idle", "lock", "claim", "clear", "place", "lookAnswer", "lookClaim",
          "withdraw", "lookClaimed", "read", "done"}
Placed == {"lookAnswer", "lookClaim", "withdraw", "lookClaimed", "read"}
Plain == {"none", "busy", "earlier", "notPickedUp", "unknown", "answered", "killed"}
Told == [is : Plain, of : {None}] \cup [is : {"refused"}, of : Replies]

Init ==
  /\ owner = TRUE /\ answer = None /\ claim = None /\ error = None /\ lock = None
  /\ pc = [r \in Replies |-> "idle"]
  /\ told = [r \in Replies |-> [is |-> "none", of |-> None]]
  /\ host = "idle" /\ running = TRUE
  /\ handled = [r \in Replies |-> "no"] /\ ended = {}
  /\ crashes = 0 /\ kills = 0
-----------------------------------------------------------------------------
Goto(r, step) == pc' = [pc EXCEPT ![r] = step] /\ UNCHANGED <<told, lock>>

\* The reply returns, and its lock goes with it.
Return(r, is, of) ==
  /\ pc' = [pc EXCEPT ![r] = "done"]
  /\ told' = [told EXCEPT ![r] = [is |-> is, of |-> of]]
  /\ lock' = IF lock = r THEN None ELSE lock

\* Workers::headless_files: without an owner file there is no worker to answer.
Start(r) ==
  /\ pc[r] = "idle" /\ owner
  /\ Goto(r, "lock")
  /\ UNCHANGED <<files, host, running, handled, ended, crashes, kills>>

\* lock_reply: an exclusive lock, waited for up to the close timeout.
LockReply(r) ==
  /\ pc[r] = "lock"
  /\ \/ lock = None /\ lock' = r /\ pc' = [pc EXCEPT ![r] = "claim"] /\ UNCHANGED told
     \/ lock # None /\ Return(r, "busy", None)
  /\ UNCHANGED <<files, host, running, handled, ended, crashes, kills>>

\* FAULT: an earlier answer that the host still handles is not waited for.
AwaitNothing(r) ==
  /\ pc[r] = "claim" /\ Goto(r, "clear")
  /\ UNCHANGED <<files, host, running, handled, ended, crashes, kills>>

\* FAULT: there is no deadline for an earlier claim.
AwaitForEver(r) ==
  /\ pc[r] = "claim" /\ claim = None /\ Goto(r, "clear")
  /\ UNCHANGED <<files, host, running, handled, ended, crashes, kills>>

\* answer_permission: settle until no earlier claim is left, or give up.
AwaitEarlier(r) ==
  /\ pc[r] = "claim"
  /\ \/ claim = None /\ Goto(r, "clear")
     \/ claim # None /\ Return(r, "earlier", None)
  /\ UNCHANGED <<files, host, running, handled, ended, crashes, kills>>

\* clear_marker on the error file.
ClearError(r) ==
  /\ pc[r] = "clear" /\ error' = None /\ Goto(r, "place")
  /\ UNCHANGED <<owner, answer, claim, host, running, handled, ended, crashes, kills>>

\* The staged answer is renamed into place.
Place(r) ==
  /\ pc[r] = "place" /\ answer' = r /\ Goto(r, "lookAnswer")
  /\ UNCHANGED <<owner, claim, error, host, running, handled, ended, crashes, kills>>

\* The first half of a look: while the answer is there it waits, and the
\* deadline may pass.
LookAnswer(r) ==
  /\ pc[r] = "lookAnswer"
  /\ \/ answer = None /\ Goto(r, "lookClaim")
     \/ answer # None /\ Goto(r, "withdraw")
  /\ UNCHANGED <<files, host, running, handled, ended, crashes, kills>>

\* The second half: no answer and no claim means that the host is done.
LookClaim(r) ==
  /\ pc[r] = "lookClaim"
  /\ \/ claim = None /\ Goto(r, "read")
     \/ claim # None /\ (Goto(r, "lookAnswer") \/ Goto(r, "withdraw"))
  /\ UNCHANGED <<files, host, running, handled, ended, crashes, kills>>

\* FAULT: a reply that gives up leaves its answer to the host.
WithdrawNothing(r) ==
  /\ pc[r] = "withdraw"
  /\ IF answer # None THEN Return(r, "notPickedUp", None) ELSE Goto(r, "lookClaimed")
  /\ UNCHANGED <<files, host, running, handled, ended, crashes, kills>>

\* At the deadline the reply removes its answer, if it is still there ...
Withdraw(r) ==
  /\ pc[r] = "withdraw"
  /\ IF answer # None THEN Return(r, "notPickedUp", None) ELSE Goto(r, "lookClaimed")
  /\ answer' = None
  /\ UNCHANGED <<owner, claim, error, host, running, handled, ended, crashes, kills>>

\* FAULT: the claim is not looked at: an answer that is gone was handled.
TimeoutFinished(r) ==
  /\ pc[r] = "lookClaimed" /\ Goto(r, "read")
  /\ UNCHANGED <<files, host, running, handled, ended, crashes, kills>>

\* ... and otherwise tells by the claim whether the host is done
\* (timeout_outcome).
TimeoutOutcome(r) ==
  /\ pc[r] = "lookClaimed"
  /\ IF claim # None THEN Return(r, "unknown", None) ELSE Goto(r, "read")
  /\ UNCHANGED <<files, host, running, handled, ended, crashes, kills>>

\* The error file, when there is one, is the result, and goes.
ReadError(r) ==
  /\ pc[r] = "read"
  /\ IF error = None THEN Return(r, "answered", None) ELSE Return(r, "refused", error)
  /\ error' = None
  /\ UNCHANGED <<owner, answer, claim, host, running, handled, ended, crashes, kills>>

\* The replying process is killed: its lock goes, its files stay.
Kill(r) ==
  /\ kills < MaxKills /\ kills' = kills + 1
  /\ pc[r] \notin {"idle", "done"} /\ Return(r, "killed", None)
  /\ UNCHANGED <<files, host, running, handled, ended, crashes>>
-----------------------------------------------------------------------------
\* take_answer: the rename to the claim, which only one file can win.
HostTake ==
  /\ host = "idle" /\ answer # None
  /\ claim' = answer /\ answer' = None /\ host' = "handling"
  /\ UNCHANGED <<owner, error, lock, reply, running, handled, ended, crashes, kills>>

\* The answer is for a request that waits, or is refused: as stale, for its
\* option, or because no agent runs. A refusal goes to the error file.
HostHandle ==
  /\ host = "handling" /\ host' = "handled"
  /\ \/ running /\ handled' = [handled EXCEPT ![claim] = "answered"] /\ UNCHANGED error
     \/ handled' = [handled EXCEPT ![claim] = "refused"] /\ error' = claim
  /\ UNCHANGED <<owner, answer, claim, lock, reply, running, ended, crashes, kills>>

\* The claim goes last.
HostDone ==
  /\ host = "handled" /\ claim' = None /\ host' = "idle"
  /\ UNCHANGED <<owner, answer, error, lock, reply, running, handled, ended, crashes, kills>>

Begun == {r \in Replies : pc[r] # "idle"}

\* close and forget, on the same thread as take_answer.
HostClose ==
  /\ host = "idle" /\ running
  /\ running' = FALSE /\ owner' = FALSE /\ ended' = Begun
  /\ answer' = IF ForgetsAnswer THEN None ELSE answer
  /\ UNCHANGED <<claim, error, lock, reply, host, handled, crashes, kills>>

\* The chat that hosts the worker dies: its files stay.
HostCrash ==
  /\ crashes < MaxCrashes /\ crashes' = crashes + 1
  /\ host # "down" /\ host' = "down" /\ running' = FALSE /\ ended' = Begun
  /\ UNCHANGED <<files, lock, reply, handled, kills>>

\* A chat starts: sweep_owner removes the files of an owner that is dead, and
\* the worker is resumed or not.
HostStart ==
  /\ host = "down" /\ host' = "idle"
  /\ IF owner THEN answer' = None /\ claim' = None /\ error' = None
              ELSE UNCHANGED <<answer, claim, error>>
  /\ owner' \in {owner, FALSE} /\ running' = owner'
  /\ ended' = Begun
  /\ UNCHANGED <<lock, reply, handled, crashes, kills>>

ReplyStep(r) ==
  \/ LockReply(r) \/ AwaitEarlier(r) \/ ClearError(r) \/ Place(r) \/ LookAnswer(r)
  \/ LookClaim(r) \/ Withdraw(r) \/ TimeoutOutcome(r) \/ ReadError(r)
HostStep == HostTake \/ HostHandle \/ HostDone
Next ==
  \/ \E r \in Replies : Start(r) \/ ReplyStep(r) \/ Kill(r)
  \/ HostStep \/ HostClose \/ HostCrash \/ HostStart

Spec == Init /\ [][Next]_vars

\* A reply that began goes on to its return. It is not assumed that the host
\* polls, nor that there is one: that is what the deadlines are for. LookClaim
\* may look again and again, but its deadline passes.
FairSpec ==
  /\ Spec
  /\ \A r \in Replies :
       /\ WF_vars(ReplyStep(r))
       /\ SF_vars(LookClaim(r) /\ pc'[r] # "lookAnswer")
-----------------------------------------------------------------------------
TypeOK ==
  /\ owner \in BOOLEAN /\ running \in BOOLEAN
  /\ {answer, claim, error, lock} \subseteq Replies \cup {None}
  /\ pc \in [Replies -> Steps] /\ told \in [Replies -> Told]
  /\ host \in {"idle", "handling", "handled", "down"}
  /\ handled \in [Replies -> {"no", "answered", "refused"}]
  /\ ended \subseteq Replies /\ crashes \in 0..MaxCrashes /\ kills \in 0..MaxKills

\* A reply that says its answer was not picked up withdrew it: whatever the
\* host does later, it never acts on that answer.
WithdrawnIsNeverHandled ==
  \A r \in Replies : told[r].is = "notPickedUp" => handled[r] = "no" /\ claim # r

\* A reply reads the result of its own answer, however late the host finished
\* the answer of an earlier one.
OwnRefusal ==
  kills = 0 =>
    \A r \in Replies : told[r].is = "refused" => told[r].of = r /\ handled[r] = "refused"

\* "Answered" means that the agent got the answer, unless the worker was closed
\* or its host died while the reply waited.
AnsweredWasHandled ==
  kills = 0 =>
    \A r \in Replies : told[r].is = "answered" /\ r \notin ended => handled[r] = "answered"

\* The answer of a reply is handled by the host once at most, and a later
\* answer does not replace what was decided.
HandledOnce ==
  [][\A r \in Replies : handled[r] # "no" => handled'[r] = handled[r] /\ answer' # r]_vars

\* Every reply returns, with the host alive or dead.
RepliesReturn == \A r \in Replies : pc[r] = "lock" ~> pc[r] = "done"
=============================================================================
