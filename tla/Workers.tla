------------------------------- MODULE Workers -------------------------------
(***************************************************************************)
(* The life of one claude-headless worker (crates/ralph/src/workers/       *)
(* spawn.rs and close.rs, claude_headless_worker.rs, codex_worker/         *)
(* resume.rs): a call of the chat spawns or closes it, in steps of git and *)
(* of files that may each be the last one; the host, a thread of the same  *)
(* chat, polls the files the calls leave; a second thread resumes the      *)
(* recorded session when a chat starts; and the chat may quit or die       *)
(* between any two steps.                                                  *)
(*                                                                         *)
(* Calls run one at a time; README.md says what two at once may do.  The   *)
(* prompts, answers and interrupts of a running worker are in ClaudeHost   *)
(* and Handoff.                                                            *)
(***************************************************************************)
EXTENDS Naturals

CONSTANTS
  MaxSessions,  \* bound: sessions ever made
  MaxUpsets     \* bound: chats that quit or die, worktrees the person removes

ASSUME WorkersAssumption == {MaxSessions, MaxUpsets} \subseteq Nat

VARIABLES
  repo,      \* what git knows: the worktree and the branch worker/<id>
  signs,     \* the worker's files in the store
  hosting,   \* the chat that is up, its poll thread and its resume thread
  running,   \* the sessions whose claude process runs
  call,      \* the call of spawn_worker or close_worker in progress
  sessions,  \* sessions made so far
  closedTo,  \* the sessions up to this one belong to workers that were closed
  upsets

workerVars == <<repo, signs, hosting, running, call, sessions, closedTo, upsets>>

NoSession == 0
NoSteps == [tree |-> FALSE, force |-> FALSE, branch |-> FALSE, headless |-> FALSE]
NoCall == [at |-> "none", abandon |-> FALSE, late |-> FALSE, disturbed |-> FALSE,
           newTree |-> FALSE, newBranch |-> FALSE, plan |-> NoSteps]
NoHost == [up |-> FALSE, at |-> "idle", starts |-> NoSession, has |-> NoSession,
           resume |-> "done", resumes |-> NoSession]

WorkersInit ==
  /\ repo = [dir |-> "none", registered |-> FALSE, branch |-> FALSE, unmerged |-> FALSE]
  /\ signs = [owner |-> "none", session |-> NoSession, spawn |-> FALSE, close |-> FALSE,
              ready |-> FALSE, error |-> FALSE]
  /\ hosting = NoHost
  /\ running = {} /\ call = NoCall /\ sessions = 0 /\ closedTo = 0
  /\ upsets = 0

bounded == <<sessions, closedTo, upsets>>
GoTo(place) == call' = [call EXCEPT !.at = place]
CallEnds == call' = NoCall

\* FAULT: locate_worktree does not prune.
PrunedNothing == repo

\* locate_worktree: spawn and close both prune stale entries first.
Pruned == [repo EXCEPT !.registered = repo.dir # "none"]

(***************************************************************************)
(* spawn_worker.                                                           *)
(***************************************************************************)
\* start: refused when the worker has an owner file, else what it will create.
SpawnLook ==
  /\ hosting.up /\ call = NoCall /\ signs.owner = "none"
  /\ repo' = Pruned
  /\ call' = [NoCall EXCEPT !.at = "looked", !.newTree = repo.dir = "none",
                            !.newBranch = ~ repo.branch]
  /\ UNCHANGED <<signs, hosting, running, bounded>>

\* ensure_worktree: an existing worktree and an existing branch are reused.
\* git refuses a path that is registered though it is gone.
EnsureWorktree ==
  /\ call.at = "looked"
  /\ IF repo.dir = "none" /\ repo.registered
       THEN CallEnds /\ UNCHANGED repo
       ELSE /\ repo' = [repo EXCEPT !.dir = IF @ = "none" THEN "clean" ELSE @,
                                    !.registered = TRUE, !.branch = TRUE]
            /\ GoTo("prepared")
  /\ UNCHANGED <<signs, hosting, running, bounded>>

\* launch and spawn_headless: clear every file of the handoff, the owner file
\* too, but not the session record; then write the request.
RequestSpawn ==
  /\ call.at = "prepared"
  /\ signs' = [signs EXCEPT !.owner = "none", !.spawn = TRUE, !.close = FALSE,
                            !.ready = FALSE, !.error = FALSE]
  /\ GoTo("waiting")
  /\ UNCHANGED <<repo, hosting, running, bounded>>

\* await_spawn: spawn_handoff looks at the error first; the request of a call
\* that gives up is removed.
AwaitSpawn ==
  /\ call.at = "waiting"
  /\ IF signs.error
       THEN signs' = [signs EXCEPT !.error = FALSE] /\ GoTo("failed")
       ELSE IF signs.ready
              THEN CallEnds /\ UNCHANGED signs
              ELSE signs' = [signs EXCEPT !.spawn = FALSE] /\ GoTo("failed")
  /\ UNCHANGED <<repo, hosting, running, bounded>>

\* FAULT: a branch that was there before the spawn is deleted as well.
RollbackPlanAnyBranch ==
  LET tree == call.newTree /\ signs.owner = "none"
  IN  [NoSteps EXCEPT !.tree = tree, !.branch = tree]

\* rollback_plan of what this spawn created and counted.
RollbackPlan ==
  LET tree == call.newTree /\ signs.owner = "none"
  IN  [NoSteps EXCEPT !.tree = tree, !.branch = tree /\ call.newBranch /\ ~ repo.unmerged]

PlanRollback ==
  /\ call.at = "failed"
  /\ IF RollbackPlan = NoSteps
       THEN CallEnds
       ELSE call' = [NoCall EXCEPT !.at = "rolling", !.plan = RollbackPlan]
  /\ UNCHANGED <<repo, signs, hosting, running, bounded>>

(***************************************************************************)
(* The git steps both calls end with.                                      *)
(***************************************************************************)
WorktreeGone == [repo EXCEPT !.dir = "none", !.registered = FALSE]
BranchGone == [repo EXCEPT !.branch = FALSE, !.unmerged = FALSE]

\* git worktree remove: without --force it refuses a dirty worktree.
MayRemoveTree == repo.registered /\ (repo.dir = "dirty" => call.plan.force)
\* git branch -D: refuses a branch that a registered worktree has checked out.
MayDeleteBranch == repo.branch /\ ~ repo.registered

\* roll_back stops at the first step that fails.
RollBackTree ==
  /\ call.at = "rolling"
  /\ IF MayRemoveTree
       THEN repo' = WorktreeGone /\ IF call.plan.branch THEN GoTo("dropping") ELSE CallEnds
       ELSE CallEnds /\ UNCHANGED repo
  /\ UNCHANGED <<signs, hosting, running, bounded>>

RollBackBranch ==
  /\ call.at = "dropping"
  /\ repo' = IF MayDeleteBranch THEN BranchGone ELSE repo
  /\ CallEnds
  /\ UNCHANGED <<signs, hosting, running, bounded>>

(***************************************************************************)
(* close_worker.                                                           *)
(***************************************************************************)
\* close_plan: the steps that this state asks for.
ClosePlan == [tree |-> repo.dir # "none", force |-> repo.dir = "dirty",
              branch |-> repo.branch, headless |-> signs.owner # "none"]
NothingLeft == repo.dir = "none" /\ ~ repo.branch /\ signs.owner = "none"

CloseLook(abandon) ==
  /\ hosting.up /\ call = NoCall
  /\ repo' = Pruned
  /\ IF NothingLeft
       THEN signs' = [signs EXCEPT !.ready = FALSE] /\ UNCHANGED call
       ELSE /\ abandon \/ ~ (repo.unmerged \/ repo.dir = "dirty")
            /\ call' = [NoCall EXCEPT !.at = "stopping", !.abandon = abandon, !.plan = ClosePlan]
            /\ UNCHANGED signs
  /\ UNCHANGED <<hosting, running, bounded>>

\* TerminateClaudeHeadless.  A worker without an owner file has the kind of a
\* tmux worker, and no session to kill.
AskHostToStop ==
  /\ call.at = "stopping"
  /\ IF call.plan.headless /\ signs.owner # "none"
       THEN signs' = [signs EXCEPT !.close = TRUE] /\ GoTo("closing")
       ELSE GoTo("removing") /\ UNCHANGED signs
  /\ UNCHANGED <<repo, hosting, running, bounded>>

\* terminate_headless: close_handoff waits for the owner file to vanish.
AwaitClose ==
  /\ call.at = "closing"
  /\ IF signs.owner = "none"
       THEN GoTo("removing") /\ UNCHANGED signs
       ELSE /\ signs' = [signs EXCEPT !.close = FALSE]
            /\ call' = [call EXCEPT !.at = "stopped", !.disturbed = TRUE]
  /\ UNCHANGED <<repo, hosting, running, bounded>>

RemoveWorktree ==
  /\ call.at = "removing"
  /\ IF call.plan.tree /\ ~ MayRemoveTree
       THEN GoTo("stopped") /\ UNCHANGED repo
       ELSE GoTo("deleting") /\ repo' = IF call.plan.tree THEN WorktreeGone ELSE repo
  /\ UNCHANGED <<signs, hosting, running, bounded>>

DeleteBranch ==
  /\ call.at = "deleting"
  /\ IF call.plan.branch /\ ~ MayDeleteBranch
       THEN GoTo("stopped") /\ UNCHANGED repo
       ELSE GoTo("clearing") /\ repo' = IF call.plan.branch THEN BranchGone ELSE repo
  /\ UNCHANGED <<signs, hosting, running, bounded>>

\* PruneWorktrees, ClearMarkers and what close does last: it clears the session
\* records of two other harnesses, not this one's.
ClearMarkers ==
  /\ call.at = "clearing"
  /\ repo' = Pruned /\ signs' = [signs EXCEPT !.ready = FALSE]
  /\ closedTo' = sessions /\ CallEnds
  /\ UNCHANGED <<hosting, running, sessions, upsets>>

\* The error of the step that stopped it.
CloseFails == call.at = "stopped" /\ CallEnds
              /\ UNCHANGED <<repo, signs, hosting, running, bounded>>

(***************************************************************************)
(* The poll thread of the host: close requests first, then spawn requests. *)
(***************************************************************************)
HostPolls == hosting.up /\ hosting.at = "idle"

\* ClaudeHeadlessHost::close, whether or not the host has the worker.
PollClose ==
  /\ HostPolls /\ signs.close
  /\ running' = running \ {hosting.has}
  /\ hosting' = [hosting EXCEPT !.has = NoSession]
  /\ signs' = [signs EXCEPT !.owner = "none", !.session = NoSession,
                            !.ready = FALSE, !.close = FALSE]
  /\ UNCHANGED <<repo, call, bounded>>

\* spawn: a stale request has no caller, a loaded worker refuses another.
PollSpawn ==
  /\ HostPolls /\ ~ signs.close /\ signs.spawn
  /\ \/ /\ call.at # "waiting"
        /\ signs' = [signs EXCEPT !.spawn = FALSE] /\ UNCHANGED hosting
     \/ /\ hosting.has # NoSession
        /\ signs' = [signs EXCEPT !.spawn = FALSE, !.error = TRUE] /\ UNCHANGED hosting
     \/ /\ hosting.has = NoSession
        /\ hosting' = [hosting EXCEPT !.at = "starting"] /\ UNCHANGED signs
  /\ UNCHANGED <<repo, running, call, bounded>>

\* ClaudeWorker::start: the process in the worktree, the owner, the record.
StartWorker ==
  /\ hosting.at = "starting"
  /\ \/ /\ repo.dir # "none" /\ sessions < MaxSessions
        /\ sessions' = sessions + 1
        /\ running' = running \cup {sessions'}
        /\ signs' = [signs EXCEPT !.owner = "live", !.session = sessions']
        /\ hosting' = [hosting EXCEPT !.at = "started", !.starts = sessions']
     \/ /\ signs' = [signs EXCEPT !.error = TRUE, !.spawn = FALSE]
        /\ hosting' = [hosting EXCEPT !.at = "idle"]
        /\ UNCHANGED <<running, sessions>>
  /\ UNCHANGED <<repo, call, closedTo, upsets>>

\* Inserting a worker drops the one that was there, and its owner file.
Insert(s) ==
  /\ running' = running \ {hosting.has}
  /\ hosting' = IF s = hosting.starts
                  THEN [hosting EXCEPT !.has = s, !.at = "idle", !.starts = NoSession]
                  ELSE [hosting EXCEPT !.has = s, !.resume = "done", !.resumes = NoSession]
OwnerAfterInsert == IF hosting.has = NoSession THEN signs.owner ELSE "none"

\* The claude process is ready; adopt: it is kept only if the request is still
\* there to be removed.
AdoptSpawned ==
  /\ hosting.at = "started"
  /\ IF signs.spawn
       THEN /\ Insert(hosting.starts)
            /\ signs' = [signs EXCEPT !.spawn = FALSE, !.ready = TRUE,
                                      !.session = hosting.starts, !.owner = OwnerAfterInsert]
       ELSE /\ running' = running \ {hosting.starts}
            /\ hosting' = [hosting EXCEPT !.at = "idle", !.starts = NoSession]
            /\ signs' = [signs EXCEPT !.owner = "none", !.session = NoSession, !.ready = FALSE]
  /\ UNCHANGED <<repo, call, bounded>>

\* It exits, or is not ready in time.
StartFails ==
  /\ hosting.at = "started"
  /\ running' = running \ {hosting.starts}
  /\ hosting' = [hosting EXCEPT !.at = "idle", !.starts = NoSession]
  /\ signs' = [signs EXCEPT !.owner = "none", !.session = NoSession,
                            !.error = TRUE, !.spawn = FALSE]
  /\ UNCHANGED <<repo, call, bounded>>

(***************************************************************************)
(* The resume thread of a chat that has just started.                      *)
(***************************************************************************)
\* Resumed::launch up to claim_owner, which creates the owner file or fails.
ClaimRecorded ==
  /\ hosting.up /\ hosting.resume = "todo"
  /\ IF signs.session # NoSession /\ signs.owner = "none" /\ repo.dir # "none"
       THEN /\ signs' = [signs EXCEPT !.owner = "live"]
            /\ hosting' = [hosting EXCEPT !.resume = "claimed", !.resumes = signs.session]
       ELSE /\ hosting' = [hosting EXCEPT !.resume = "done"]
            /\ signs' = [signs EXCEPT !.error = @ \/ (signs.session # NoSession
                                                  /\ signs.owner = "none")]
  /\ UNCHANGED <<repo, running, call, bounded>>

\* claude --resume; a failure gives the owner file back and keeps the record.
StartRecorded ==
  /\ hosting.resume = "claimed"
  /\ \/ /\ repo.dir # "none"
        /\ running' = running \cup {hosting.resumes}
        /\ signs' = [signs EXCEPT !.owner = "live"]
        /\ hosting' = [hosting EXCEPT !.resume = "started"]
     \/ /\ signs' = [signs EXCEPT !.owner = "none", !.error = TRUE]
        /\ hosting' = [hosting EXCEPT !.resume = "done", !.resumes = NoSession]
        /\ UNCHANGED running
  /\ UNCHANGED <<repo, call, bounded>>

AdoptRecorded ==
  /\ hosting.resume = "started"
  /\ Insert(hosting.resumes)
  /\ signs' = [signs EXCEPT !.ready = TRUE, !.error = FALSE, !.owner = OwnerAfterInsert]
  /\ UNCHANGED <<repo, call, bounded>>

(***************************************************************************)
(* Chats, the agent and the person.                                        *)
(***************************************************************************)
\* ClaudeHeadlessHost::new sweeps the owner files of dead chats.
ChatStarts ==
  /\ ~ hosting.up
  /\ hosting' = [NoHost EXCEPT !.up = TRUE, !.resume = "todo"]
  /\ running' = {}
  /\ signs' = IF signs.owner = "none" THEN signs
              ELSE [signs EXCEPT !.owner = "none", !.spawn = FALSE, !.close = FALSE,
                                 !.error = FALSE]
  /\ UNCHANGED <<repo, call, bounded>>

\* shutdown stops and forgets loaded and starting workers, the records stay;
\* a chat that dies leaves the owner file and the process to the next one.
ChatEnds(quits) ==
  /\ hosting.up /\ upsets < MaxUpsets
  /\ upsets' = upsets + 1
  /\ LET forgets == quits /\ (hosting.has # NoSession \/ hosting.at = "started")
     IN  signs' = [signs EXCEPT !.owner = IF forgets \/ @ = "none" THEN "none" ELSE "dead"]
  /\ running' = IF quits THEN {} ELSE running
  /\ hosting' = NoHost /\ call' = NoCall
  /\ UNCHANGED <<repo, sessions, closedTo>>

\* What happens once the call has counted and made its plan.
Disturb(what) == call' = IF call.plan = NoSteps THEN call ELSE [call EXCEPT ![what] = TRUE]

AgentWorks ==
  /\ running # {} /\ repo.dir # "none"
  /\ repo' \in {[repo EXCEPT !.dir = "dirty"],
                [repo EXCEPT !.dir = "clean", !.unmerged = repo.branch]}
  /\ Disturb("late")
  /\ UNCHANGED <<signs, hosting, running, bounded>>

AgentExits(s) ==
  /\ s \in running /\ running' = running \ {s}
  /\ UNCHANGED <<repo, signs, hosting, call, bounded>>

PersonMerges ==
  /\ repo.unmerged /\ repo' = [repo EXCEPT !.unmerged = FALSE]
  /\ UNCHANGED <<signs, hosting, running, call, bounded>>

\* rm -rf of the worktree: git still has it registered.
PersonRemovesTree ==
  /\ repo.dir # "none" /\ upsets < MaxUpsets
  /\ upsets' = upsets + 1
  /\ repo' = [repo EXCEPT !.dir = "none"]
  /\ Disturb("disturbed")
  /\ UNCHANGED <<signs, hosting, running, sessions, closedTo>>

CallStep ==
  \/ SpawnLook \/ EnsureWorktree \/ RequestSpawn \/ AwaitSpawn
  \/ PlanRollback \/ RollBackTree \/ RollBackBranch
  \/ (\E abandon \in BOOLEAN : CloseLook(abandon))
  \/ AskHostToStop \/ AwaitClose \/ RemoveWorktree \/ DeleteBranch \/ ClearMarkers \/ CloseFails
HostStep ==
  \/ PollClose \/ PollSpawn \/ StartWorker \/ AdoptSpawned \/ StartFails
  \/ ClaimRecorded \/ StartRecorded \/ AdoptRecorded
WorldStep ==
  \/ ChatStarts \/ (\E quits \in BOOLEAN : ChatEnds(quits))
  \/ AgentWorks \/ (\E s \in 1..MaxSessions : AgentExits(s)) \/ PersonMerges \/ PersonRemovesTree

WorkersNext == CallStep \/ HostStep \/ WorldStep

WorkersSpec == WorkersInit /\ [][WorkersNext]_workerVars
-----------------------------------------------------------------------------
WorkersTypeOK ==
  /\ repo \in [dir : {"none", "clean", "dirty"}, registered : BOOLEAN, branch : BOOLEAN,
               unmerged : BOOLEAN]
  /\ signs \in [owner : {"none", "live", "dead"}, session : 0..MaxSessions, spawn : BOOLEAN,
                close : BOOLEAN, ready : BOOLEAN, error : BOOLEAN]
  /\ running \subseteq 1..MaxSessions
  /\ sessions \in 0..MaxSessions /\ closedTo \in 0..MaxSessions
  /\ upsets \in 0..MaxUpsets

\* Neither a failed spawn nor a close without abandon takes the agent's work
\* away, save what it does after the call counted its commits: whatever a
\* timeout, a restart or an earlier call that stopped half-way left behind.
OnlyLateWorkIsLost ==
  [][/\ call.at \in {"rolling", "dropping", "removing", "deleting"} /\ call'.at # call.at
     /\ \/ repo.unmerged /\ ~ repo'.branch
        \/ repo.dir = "dirty" /\ repo'.dir = "none"
     => call.abandon \/ call.late]_workerVars

\* A close that stopped half-way, a spawn that did, a worktree the person
\* removed: a close with abandon still completes, unless the host does not
\* answer, or the agent or the person works on the worktree meanwhile.
CloseCompletes == call.at = "stopped" /\ call.abandon => call.late \/ call.disturbed

\* The session record is "removed by close" (docs/context/headless-workers.md:93):
\* the session of a worker that was closed never runs again.
ClosedStaysClosed == [][\A s \in running' \ running : s > closedTo]_workerVars
=============================================================================
