------------------------------ MODULE MCThreads ------------------------------
(***************************************************************************)
(* Instances of Threads and Inbox for TLC: a behaviour shows one scenario, *)
(* chosen in its first state.  "alone": one process runs every verb and    *)
(* the chat, one after another, so a dropped thread is forked again.       *)
(* "races": two chats run beside the one shell; CHAT is created once,      *)
(* because a second CHAT beside a process that still locks the first gives *)
(* the thread two owners (README.md, known limits).  "inbox": reports are  *)
(* posted to main's inbox and read there.                                  *)
(***************************************************************************)
EXTENDS Threads, Inbox

CONSTANTS p1, p2, p3, Scenarios

VARIABLE scenario

\* Two chats; the third process is the only one that rewrites thread.json.
CanOneShell == [p \in Procs |-> IF p = p3 THEN Activities ELSE {"chat"}]
\* Two shells run every verb, a third process chats.
CanTwoShells == [p \in Procs |-> IF p = p1 THEN {"chat"} ELSE Verbs]

ThreeReports == 1..3

OnlyShellMoves == \A p \in Procs \ {p3} : proc'[p] = proc[p]
ShellChats(p) == p = p3 /\ Can[p] = Activities /\ proc[p].at # "idle" /\ proc[p].verb = "chat"

ScenarioInit == Init /\ InboxInit /\ scenario \in Scenarios

ScenarioNext ==
  /\ UNCHANGED scenario
  /\ \/ scenario = "inbox" /\ InboxNext /\ UNCHANGED vars
     \/ scenario = "alone" /\ Next /\ OnlyShellMoves /\ UNCHANGED inboxVars
     \/ /\ scenario = "races" /\ Next /\ UNCHANGED inboxVars
        /\ inodes' <= 1 /\ \A p \in Procs : ~ShellChats(p)'

ScenarioSpec == ScenarioInit /\ [][ScenarioNext]_<<vars, inboxVars, scenario>>

\* The fairness of InboxFairSpec, in the scenario that has an inbox.
FairScenarioSpec ==
  /\ ScenarioSpec
  /\ WF_inboxVars(scenario = "inbox" /\ MonitorPeek)
  /\ WF_inboxVars(scenario = "inbox" /\ SyncStep)
=============================================================================
