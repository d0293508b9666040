---------------------------- MODULE ThreadsProofs ----------------------------
(***************************************************************************)
(* Proofs about Threads for every set of processes and every bound: the    *)
(* types; until CHAT is created again, that the claim has one owner and a  *)
(* chat only runs on an open thread; and, where one process runs the verbs *)
(* that rewrite thread.json, that Threads implements ThreadLifecycle and a *)
(* merged thread stays as it is.  Then about the Inbox of the chat that    *)
(* has the thread, for every set of reports, any number of syncs of its    *)
(* two threads and any number of crashes: no report is sent twice, and     *)
(* none is lost but by a crash.                                            *)
(***************************************************************************)
EXTENDS Threads, Inbox, FiniteSetTheorems, SequenceTheorems, WellFoundedInduction, TLAPS

\* Meta values that the program writes are well typed.
LEMMA MetaTypes ==
  /\ NoMeta \in Meta /\ TornMeta \in Meta
  /\ Idle \in Proc
  /\ \A n \in Nat : Whole(n) \in Meta
BY DEF NoMeta, TornMeta, Whole, Meta, Idle, Proc, Places, Activities, Parts

\* Type correctness of the thread's files and of every process.
THEOREM TypeCorrect == Spec => []TypeOK
<1>1. Init => TypeOK
  BY MetaTypes DEF Init, TypeOK
<1>2. TypeOK /\ [Next]_vars => TypeOK'
  <2> SUFFICES ASSUME TypeOK, [Next]_vars PROVE TypeOK'
    OBVIOUS
  <2> USE MetaTypes, ThreadsAssumption DEF TypeOK
  <2>1. ASSUME NEW p \in Procs, NEW v \in Verbs, Start(p, v) PROVE TypeOK'
    <3>1. v \in Activities /\ workers \in Nat /\ proc[p] \in Proc
      BY <2>1 DEF Activities
    <3>2. [proc[p] EXCEPT !.at = "started", !.verb = v, !.ran = workers] \in Proc
      BY <3>1 DEF Proc, Places
    <3> QED
      BY <2>1, <3>2 DEF Start
  <2>2. ASSUME NEW p \in Procs, Check(p) PROVE TypeOK'
    BY <2>2 DEF Check, Leave, Proc, Places
  <2>3. ASSUME NEW p \in Procs, StartChat(p) PROVE TypeOK'
    BY <2>3 DEF StartChat, Proc, Places, Activities
  <2>4. ASSUME NEW p \in Procs, OpenClaim(p) PROVE TypeOK'
    <3>1. chatFile' \in Nat /\ inodes' \in Nat
      BY <2>4 DEF OpenClaim
    <3>2. [proc[p] EXCEPT !.at = "opened", !.fd = chatFile'] \in Proc
      BY <3>1 DEF Proc, Places
    <3> QED
      BY <2>4, <3>1, <3>2 DEF OpenClaim
  <2>5. ASSUME NEW p \in Procs, LockClaim(p) PROVE TypeOK'
    BY <2>5 DEF LockClaim, Leave, Goto, Proc, Places
  <2>6. ASSUME NEW p \in Procs, Merge(p) \/ Park(p) \/ Revive(p) PROVE TypeOK'
    <3>1. PICK m \in Meta : Truncate(p, m)
      BY <2>6 DEF Merge, Park, Revive, Proc, Meta
    <3>2. [proc[p] EXCEPT !.at = "truncated", !.new = m] \in Proc
      BY DEF Proc, Places
    <3> QED
      BY <2>6, <3>1, <3>2 DEF Merge, Park, Revive, Truncate
  <2>7. ASSUME NEW p \in Procs, Pull(p) PROVE TypeOK'
    <3>1. [proc[p].seen EXCEPT !.base = mainLog] \in Meta
      BY DEF Proc, Meta
    <3>2. ASSUME NEW m \in Meta
          PROVE  [proc[p] EXCEPT !.at = "truncated", !.new = m] \in Proc
      BY DEF Proc, Places
    <3> QED
      BY <2>7, <3>1, <3>2 DEF Pull, Truncate, Leave
  <2>8. ASSUME NEW p \in Procs, CreateThread(p) PROVE TypeOK'
    BY <2>8 DEF CreateThread, Truncate, Proc, Places
  <2>9. ASSUME NEW p \in Procs, EnterChat(p) PROVE TypeOK'
    BY <2>9 DEF EnterChat, Leave, Goto, Proc, Places
  <2>10. ASSUME NEW p \in Procs, FinishWrite(p) PROVE TypeOK'
    BY <2>10 DEF FinishWrite, Leave, Goto, Proc, Places
  <2>11. ASSUME NEW p \in Procs, PostDigest(p) PROVE TypeOK'
    BY <2>11 DEF PostDigest, Leave
  <2>12. ASSUME NEW p \in Procs, DropThread(p) PROVE TypeOK'
    BY <2>12 DEF DropThread, Proc, Places
  <2>13. ASSUME NEW p \in Procs, NEW part \in Parts, Unlink(p, part) PROVE TypeOK'
    BY <2>13 DEF Unlink, Leave, Proc
  <2>14. ASSUME NEW p \in Procs, Chat(p) PROVE TypeOK'
    BY <2>14 DEF Chat, Leave
  <2>15. ASSUME NEW p \in Procs, Die(p) PROVE TypeOK'
    BY <2>15 DEF Die, Leave
  <2>16. CASE WorkerEnds \/ MainGrows
    BY <2>16 DEF WorkerEnds, MainGrows
  <2>17. CASE UNCHANGED vars
    BY <2>17 DEF vars
  <2> QED
    BY <2>1, <2>2, <2>3, <2>4, <2>5, <2>6, <2>7, <2>8, <2>9, <2>10, <2>11,
       <2>12, <2>13, <2>14, <2>15, <2>16, <2>17 DEF Next, ProcStep
<1> QED
  BY <1>1, <1>2, PTL DEF Spec
-----------------------------------------------------------------------------
\* A process that opened CHAT opened an inode that was created, and CHAT
\* names the newest one or none.
Inodes ==
  /\ chatFile \in {0, inodes}
  /\ \A p \in Procs : proc[p].at = "opened" \/ Holds(p) => proc[p].fd \in 1..inodes

\* A write in flight: the file is torn, and a forking chat writes an open meta.
WriteInFlight ==
  \A p \in Procs : proc[p].at = "truncated" =>
    /\ meta = TornMeta
    /\ proc[p].verb = "chat" => OpenThread(proc[p].new)

\* While there was one CHAT file, all that opened it opened the same inode.
ClaimInv ==
  /\ TypeOK
  /\ Inodes
  /\ inodes <= 1 => OneOwner /\ WriteInFlight /\ ChatSeesOpenThread

LEMMA ClaimInit == Init => ClaimInv
<1> SUFFICES ASSUME Init PROVE ClaimInv
  OBVIOUS
<1>1. TypeOK
  BY MetaTypes DEF Init, TypeOK
<1>2. \A p \in Procs : proc[p].at = "idle" /\ proc[p].verb = "chat"
  BY DEF Init, Idle
<1> QED
  BY <1>1, <1>2 DEF Init, ClaimInv, Inodes, OneOwner, WriteInFlight,
     ChatSeesOpenThread, Holds, Holding

\* Who opened CHAT opened an inode; no step makes one of them unknown.
LEMMA InodesStep ==
  ASSUME TypeOK, Inodes, [Next]_vars
  PROVE  Inodes' /\ inodes <= inodes'
<1> USE DEF Inodes, Holds, Holding
<1>0. proc \in [Procs -> Proc] /\ inodes \in Nat /\ chatFile \in Nat
  BY DEF TypeOK
<1> DEFINE Goal == Inodes' /\ inodes <= inodes'
<1>1. ASSUME NEW p \in Procs, NEW v \in Verbs, Start(p, v) PROVE Goal
  BY <1>0, <1>1 DEF Start
<1>2. ASSUME NEW p \in Procs, Check(p) \/ StartChat(p) PROVE Goal
  BY <1>0, <1>2 DEF Check, StartChat, Leave, Idle, Proc
<1>3. ASSUME NEW p \in Procs, OpenClaim(p) PROVE Goal
  BY <1>0, <1>3 DEF OpenClaim, Proc
<1>4. ASSUME NEW p \in Procs, LockClaim(p) PROVE Goal
  BY <1>0, <1>4 DEF LockClaim, Leave, Goto, Idle, Proc
<1>5. ASSUME NEW p \in Procs,
             Merge(p) \/ Park(p) \/ Revive(p) \/ Pull(p) \/ CreateThread(p)
      PROVE  Goal
  BY <1>0, <1>5 DEF Merge, Park, Revive, Pull, CreateThread, Claimed, Truncate, Leave, Idle, Proc
<1>6. ASSUME NEW p \in Procs, EnterChat(p) \/ DropThread(p) PROVE Goal
  BY <1>0, <1>6 DEF EnterChat, DropThread, Claimed, Leave, Goto, Idle, Proc
<1>7. ASSUME NEW p \in Procs, FinishWrite(p) PROVE Goal
  BY <1>0, <1>7 DEF FinishWrite, Leave, Goto, Idle, Proc
<1>8. ASSUME NEW p \in Procs, PostDigest(p) \/ Die(p) \/ Chat(p) PROVE Goal
  BY <1>0, <1>8 DEF PostDigest, Die, Chat, Leave, Idle, Proc
<1>9. ASSUME NEW p \in Procs, NEW part \in Parts, Unlink(p, part) PROVE Goal
  BY <1>0, <1>9 DEF Unlink, Leave, Idle, Proc
<1>10. CASE WorkerEnds \/ MainGrows \/ UNCHANGED vars
  BY <1>0, <1>10 DEF WorkerEnds, MainGrows, vars
<1> QED
  BY <1>1, <1>2, <1>3, <1>4, <1>5, <1>6, <1>7, <1>8, <1>9, <1>10 DEF Next, ProcStep

\* Every step keeps the invariant: a step that writes or unlinks thread.json is
\* a step of the owner, so no other process is chatting or writing.
LEMMA ClaimStep ==
  ASSUME ClaimInv, TypeOK', [Next]_vars
  PROVE  ClaimInv'
<1>1. Inodes' /\ inodes <= inodes'
  BY InodesStep DEF ClaimInv
<1> SUFFICES ASSUME inodes' <= 1
             PROVE  (OneOwner /\ WriteInFlight /\ ChatSeesOpenThread)'
  BY <1>1 DEF ClaimInv
<1>2. inodes <= 1 /\ inodes \in Nat /\ inodes' \in Nat
  BY <1>1 DEF ClaimInv, TypeOK
<1>3. /\ \A p \in Procs : proc[p].at = "opened" \/ Holds(p) => proc[p].fd = 1
      /\ \A p \in Procs : (proc[p].at = "opened" \/ Holds(p))' => proc'[p].fd = 1
  BY <1>1, <1>2 DEF ClaimInv, Inodes
<1>4. OneOwner /\ WriteInFlight /\ ChatSeesOpenThread
  BY <1>2 DEF ClaimInv
<1>5. proc \in [Procs -> Proc]
  BY DEF ClaimInv, TypeOK
<1> DEFINE Goal == (OneOwner /\ WriteInFlight /\ ChatSeesOpenThread)'
<1> USE <1>4, <1>5 DEF OneOwner, WriteInFlight, ChatSeesOpenThread, Holds, Holding
<1>6. ASSUME NEW p \in Procs, NEW v \in Verbs, Start(p, v) PROVE Goal
  BY <1>6 DEF Start, Proc
<1>7. ASSUME NEW p \in Procs, Check(p) \/ StartChat(p) PROVE Goal
  BY <1>7 DEF Check, StartChat, Leave, Idle, Proc
<1>8. ASSUME NEW p \in Procs, OpenClaim(p) PROVE Goal
  BY <1>8 DEF OpenClaim, Proc
<1>9. ASSUME NEW p \in Procs, LockClaim(p) PROVE Goal
  <2>1. CASE \E q \in Procs : Holds(q) /\ proc[q].fd = proc[p].fd
    BY <1>9, <2>1 DEF LockClaim, Leave, Idle, Proc
  <2>2. CASE ~\E q \in Procs : Holds(q) /\ proc[q].fd = proc[p].fd
    <3>1. \A q \in Procs : ~Holds(q)
      BY <1>3, <1>9, <2>2 DEF LockClaim
    <3> QED
      BY <1>9, <2>2, <3>1 DEF LockClaim, Goto, Proc
  <2> QED
    BY <2>1, <2>2
<1>10. ASSUME NEW p \in Procs, Merge(p) \/ Park(p) \/ Revive(p) PROVE Goal
  <2>1. \A q \in Procs \ {p} : ~Holds(q) /\ proc[p].verb # "chat"
    BY <1>10 DEF Merge, Park, Revive, Claimed
  <2> QED
    BY <1>10, <2>1 DEF Merge, Park, Revive, Claimed, Truncate, Proc
<1>11. ASSUME NEW p \in Procs, Pull(p) PROVE Goal
  BY <1>11 DEF Pull, Claimed, Truncate, Leave, Idle, Proc
<1>12. ASSUME NEW p \in Procs, CreateThread(p) PROVE Goal
  BY <1>12 DEF CreateThread, Claimed, Truncate, Whole, OpenThread
<1>13. ASSUME NEW p \in Procs, EnterChat(p) PROVE Goal
  BY <1>13 DEF EnterChat, Claimed, Leave, Goto, Idle, Proc
<1>14. ASSUME NEW p \in Procs, FinishWrite(p) PROVE Goal
  <2>1. meta' = proc[p].new /\ \A q \in Procs \ {p} : ~Holds(q)
    BY <1>14 DEF FinishWrite, TornMeta, Whole
  <2>2. CASE proc[p].verb = "merge"
    BY <1>14, <2>1, <2>2 DEF FinishWrite, Goto, Proc
  <2>3. CASE proc[p].verb = "chat"
    BY <1>14, <2>1, <2>3 DEF FinishWrite, Goto, Proc
  <2>4. CASE proc[p].verb \notin {"merge", "chat"}
    BY <1>14, <2>1, <2>4 DEF FinishWrite, Leave, Idle, Proc
  <2> QED
    BY <2>2, <2>3, <2>4
<1>15. ASSUME NEW p \in Procs, PostDigest(p) \/ Die(p) \/ Chat(p) PROVE Goal
  BY <1>15 DEF PostDigest, Die, Chat, Leave, Idle, Proc
<1>16. ASSUME NEW p \in Procs, DropThread(p) PROVE Goal
  BY <1>16 DEF DropThread, Claimed
<1>17. ASSUME NEW p \in Procs, NEW part \in Parts, Unlink(p, part) PROVE Goal
  <2>1. \A q \in Procs \ {p} : ~Holds(q)
    BY <1>17 DEF Unlink
  <2> QED
    BY <1>17, <2>1 DEF Unlink, Leave, Idle, Proc
<1>18. CASE WorkerEnds \/ MainGrows \/ UNCHANGED vars
  BY <1>18 DEF WorkerEnds, MainGrows, vars
<1> QED
  BY <1>6, <1>7, <1>8, <1>9, <1>10, <1>11, <1>12, <1>13, <1>14, <1>15,
     <1>16, <1>17, <1>18 DEF Next, ProcStep

\* Until CHAT is created a second time, the claim has one owner, and a chat
\* runs only on a thread that is neither parked, merged, dropped nor torn, for
\* every interleaving of every number of processes, crashes included.
THEOREM ClaimIsSafe == Spec => [](inodes <= 1 => OneOwner /\ ChatSeesOpenThread)
<1>1. Init => ClaimInv
  BY ClaimInit
<1>2. ClaimInv /\ TypeOK' /\ [Next]_vars => ClaimInv'
  BY ClaimStep
<1>3. ClaimInv => (inodes <= 1 => OneOwner /\ ChatSeesOpenThread)
  BY DEF ClaimInv
<1> QED
  BY <1>1, <1>2, <1>3, TypeCorrect, PTL DEF Spec
-----------------------------------------------------------------------------
\* Only a drop makes room for a second CHAT.
NobodyDrops == \A p \in Procs : "drop" \notin Can[p]

CreatedOnce ==
  /\ inodes = 0 \/ (inodes = 1 /\ chatFile = 1)
  /\ \A p \in Procs : proc[p].verb # "drop" /\ proc[p].at # "dropping"

LEMMA CreatedOnceStep ==
  ASSUME NobodyDrops, TypeOK, CreatedOnce, [Next]_vars
  PROVE  CreatedOnce'
<1> USE DEF CreatedOnce
<1>0. proc \in [Procs -> Proc]
  BY DEF TypeOK
<1>1. ASSUME NEW p \in Procs, NEW v \in Verbs, Start(p, v) PROVE CreatedOnce'
  BY <1>0, <1>1, ThreadsAssumption DEF Start, NobodyDrops
<1>2. ASSUME NEW p \in Procs,
             Check(p) \/ StartChat(p) \/ OpenClaim(p) \/ LockClaim(p)
      PROVE  CreatedOnce'
  BY <1>0, <1>2 DEF Check, StartChat, OpenClaim, LockClaim, Leave, Goto, Idle, Proc
<1>3. ASSUME NEW p \in Procs,
             Merge(p) \/ Park(p) \/ Revive(p) \/ Pull(p) \/ CreateThread(p)
      PROVE  CreatedOnce'
  BY <1>0, <1>3 DEF Merge, Park, Revive, Pull, CreateThread, Truncate, Leave, Idle, Proc
<1>4. ASSUME NEW p \in Procs, EnterChat(p) \/ FinishWrite(p) PROVE CreatedOnce'
  BY <1>0, <1>4 DEF EnterChat, FinishWrite, Leave, Goto, Idle, Proc
<1>5. ASSUME NEW p \in Procs, PostDigest(p) \/ Die(p) \/ Chat(p) PROVE CreatedOnce'
  BY <1>0, <1>5 DEF PostDigest, Die, Chat, Leave, Idle, Proc
<1>6. ASSUME NEW p \in Procs,
             DropThread(p) \/ \E part \in Parts : Unlink(p, part)
      PROVE  CreatedOnce'
  BY <1>6 DEF DropThread, Claimed, Unlink
<1>7. CASE WorkerEnds \/ MainGrows \/ UNCHANGED vars
  BY <1>7 DEF WorkerEnds, MainGrows, vars
<1> QED
  BY <1>1, <1>2, <1>3, <1>4, <1>5, <1>6, <1>7 DEF Next, ProcStep

\* Where nobody drops, a chat is on an open thread for good.
THEOREM ChatsStayOnOpenThreads ==
  ASSUME NobodyDrops
  PROVE  Spec => []ChatSeesOpenThread
<1>1. Init => CreatedOnce
  <2> SUFFICES ASSUME Init PROVE CreatedOnce
    OBVIOUS
  <2>1. \A p \in Procs : proc[p].verb = "chat" /\ proc[p].at = "idle"
    BY DEF Init, Idle
  <2> QED
    BY <2>1 DEF Init, CreatedOnce
<1>2. TypeOK /\ CreatedOnce /\ [Next]_vars => CreatedOnce'
  BY CreatedOnceStep
<1>3. CreatedOnce => inodes <= 1
  BY DEF CreatedOnce
<1>4. (inodes <= 1 => OneOwner /\ ChatSeesOpenThread) /\ inodes <= 1 => ChatSeesOpenThread
  OBVIOUS
<1> QED
  BY <1>1, <1>2, <1>3, <1>4, TypeCorrect, ClaimIsSafe, PTL DEF Spec
-----------------------------------------------------------------------------
(***************************************************************************)
(* The life of a thread, where one process runs the verbs that rewrite     *)
(* thread.json and the others chat.                                        *)
(***************************************************************************)
Rewrites(p) == Can[p] \ {"chat"} # {}
OneShell == \A p, q \in Procs : Rewrites(p) /\ Rewrites(q) => p = q

\* What a process is at fits what it runs, and it may run it.
Roles ==
  \A p \in Procs :
    /\ proc[p].at # "idle" => proc[p].verb \in Can[p]
    /\ proc[p].at = "idle" => proc[p].verb = "chat"
    /\ proc[p].at = "started" => proc[p].verb # "chat"
    /\ proc[p].at = "truncated" => proc[p].verb # "drop"
    /\ proc[p].at = "written" => proc[p].verb = "merge"
    /\ proc[p].at = "dropping" => proc[p].verb = "drop"
    /\ proc[p].at = "chatting" => proc[p].verb = "chat"

\* thread.json has nothing beside what a whole file says, and sees main no
\* further than it has grown.
MetaForm ==
  /\ meta.file = "none" => meta = NoMeta
  /\ meta.file = "torn" => meta = TornMeta
  /\ meta.base <= mainLog

\* Nobody changed what the shell read before it claimed.
SeenIsCurrent ==
  \A p \in Procs :
    /\ proc[p].verb # "chat" /\ proc[p].at \in {"checked", "opened", "claimed"} =>
         meta = proc[p].seen /\ MetaAllows(proc[p].verb, meta)
    /\ proc[p].at = "dropping" /\ "meta" \in proc[p].left => MetaAllows("drop", meta)

\* What a verb writes, given what it read.
Writes(v, seen, new) ==
  \/ v = "merge" /\ new = [seen EXCEPT !.life = "merged"]
  \/ v = "park" /\ new = [seen EXCEPT !.life = "parked"]
  \/ v = "revive" /\ new = [seen EXCEPT !.life = "open"]
  \/ v = "pull" /\ new.base > seen.base /\ new = [seen EXCEPT !.base = new.base]

\* One process writes at a time, over a file it found as it should be.
OneWriter ==
  /\ \A p, q \in Writers : p = q
  /\ \A p \in Writers :
       /\ meta = TornMeta /\ proc[p].new.base <= mainLog
       /\ proc[p].verb = "chat" => proc[p].new = Whole(proc[p].new.base)
       /\ proc[p].verb # "chat" =>
            /\ MetaAllows(proc[p].verb, proc[p].seen)
            /\ Writes(proc[p].verb, proc[p].seen, proc[p].new)

\* The digest is of a thread that is merged, and there is one.
OneDigest ==
  /\ posted = 0 \/ (posted = 1 /\ Merged(meta))
  /\ \A p \in Procs : proc[p].at = "written" => Merged(meta) /\ posted = 0

LifeInv == TypeOK /\ Roles /\ MetaForm /\ SeenIsCurrent /\ OneWriter /\ OneDigest

LEMMA LifeInit == Init => LifeInv
<1> SUFFICES ASSUME Init PROVE LifeInv
  OBVIOUS
<1>1. TypeOK
  BY MetaTypes DEF Init, TypeOK
<1>2. \A p \in Procs : proc[p].at = "idle" /\ proc[p].verb = "chat"
  BY DEF Init, Idle
<1>3. Writers = {}
  BY <1>2 DEF Writers
<1> QED
  BY <1>1, <1>2, <1>3 DEF Init, LifeInv, Roles, MetaForm, SeenIsCurrent, OneWriter,
     OneDigest, NoMeta, Whole

\* One process at most is not chatting, and none but it is anywhere that
\* only a verb gets to.
LEMMA TheShell ==
  ASSUME OneShell, TypeOK, Roles,
         NEW p \in Procs, NEW q \in Procs, proc[p].verb # "chat", proc[q].verb # "chat"
  PROVE  p = q
<1>1. proc[p].verb \in Can[p] /\ proc[q].verb \in Can[q]
  BY DEF Roles
<1> QED
  BY <1>1, ThreadsAssumption DEF OneShell, Rewrites

LEMMA RolesStep ==
  ASSUME TypeOK, Roles, [Next]_vars
  PROVE  Roles'
<1> USE DEF Roles
<1>0. proc \in [Procs -> Proc]
  BY DEF TypeOK
<1>1. ASSUME NEW p \in Procs, NEW v \in Verbs, Start(p, v) PROVE Roles'
  BY <1>0, <1>1 DEF Start, Proc
<1>2. ASSUME NEW p \in Procs,
             Check(p) \/ StartChat(p) \/ OpenClaim(p) \/ LockClaim(p)
      PROVE  Roles'
  BY <1>0, <1>2 DEF Check, StartChat, OpenClaim, LockClaim, Leave, Goto, Idle, Proc
<1>3. ASSUME NEW p \in Procs,
             Merge(p) \/ Park(p) \/ Revive(p) \/ Pull(p) \/ CreateThread(p)
      PROVE  Roles'
  BY <1>0, <1>3 DEF Merge, Park, Revive, Pull, CreateThread, Claimed, Truncate, Leave, Idle,
     Proc
<1>4. ASSUME NEW p \in Procs, EnterChat(p) PROVE Roles'
  BY <1>0, <1>4 DEF EnterChat, Claimed, Leave, Goto, Idle, Proc
<1>5. ASSUME NEW p \in Procs, FinishWrite(p) PROVE Roles'
  BY <1>0, <1>5 DEF FinishWrite, Leave, Goto, Idle, Proc
<1>6. ASSUME NEW p \in Procs, PostDigest(p) \/ Die(p) \/ Chat(p) \/ DropThread(p)
      PROVE  Roles'
  BY <1>0, <1>6 DEF PostDigest, Die, Chat, DropThread, Claimed, Leave, Idle, Proc
<1>7. ASSUME NEW p \in Procs, NEW part \in Parts, Unlink(p, part) PROVE Roles'
  BY <1>0, <1>7 DEF Unlink, Leave, Idle, Proc
<1>8. CASE WorkerEnds \/ MainGrows \/ UNCHANGED vars
  BY <1>8 DEF WorkerEnds, MainGrows, vars
<1> QED
  BY <1>1, <1>2, <1>3, <1>4, <1>5, <1>6, <1>7, <1>8 DEF Next, ProcStep

\* The steps of the shell on thread.json are the only ones beside the fork.
LEMMA LifeStep ==
  ASSUME OneShell, LifeInv, TypeOK', Roles', [Next]_vars
  PROVE  (MetaForm /\ SeenIsCurrent /\ OneWriter /\ OneDigest)'
<1> DEFINE Goal == (MetaForm /\ SeenIsCurrent /\ OneWriter /\ OneDigest)'
<1> USE DEF LifeInv, Roles, MetaForm, SeenIsCurrent, OneWriter, OneDigest, Writers
<1>0. proc \in [Procs -> Proc] /\ meta \in Meta /\ mainLog \in Nat
  BY DEF TypeOK
<1>a. \A p, q \in Procs : proc[p].verb # "chat" /\ proc[q].verb # "chat" => p = q
  BY TheShell
<1>b. ASSUME NEW p \in Procs, NEW m \in Meta, proc[p].at = "claimed", Truncate(p, m),
             m.base <= mainLog, mainLog' = mainLog, posted' = posted,
             \/ proc[p].verb = "chat" /\ meta.file = "none" /\ m = Whole(m.base)
             \/ proc[p].verb \notin {"chat", "drop"} /\ Writes(proc[p].verb, proc[p].seen, m)
      PROVE  Goal
  <2>1. /\ meta.file # "torn" /\ ~Merged(meta)
        /\ proc[p].verb # "chat" => meta = proc[p].seen /\ MetaAllows(proc[p].verb, meta)
    BY <1>b DEF MetaAllows, Merged
  <2>2. \A q \in Procs : proc[q].at # "truncated" /\ proc[q].at # "written"
    BY <2>1 DEF TornMeta, Whole
  <2>3. \A q \in Procs \ {p} :
          ~(proc[q].verb # "chat" /\ proc[q].at \in {"checked", "opened", "claimed"})
    BY <1>a, <1>b, <2>1 DEF MetaAllows
  <2>4. \A q \in Procs \ {p} : ~(proc[q].at = "dropping" /\ "meta" \in proc[q].left)
    BY <1>a, <1>b, <2>1 DEF MetaAllows
  <2>5. /\ proc'[p].at = "truncated" /\ proc'[p].new = m
        /\ proc'[p].verb = proc[p].verb /\ proc'[p].seen = proc[p].seen
        /\ \A q \in Procs \ {p} : proc'[q] = proc[q]
        /\ meta' = TornMeta
    BY <1>0, <1>b DEF Truncate, Proc
  <2>6. MetaForm'
    BY <1>0, <1>b, <2>5 DEF TornMeta, Whole
  <2>7. SeenIsCurrent'
    BY <2>3, <2>4, <2>5
  <2>8. OneWriter'
    BY <1>b, <2>1, <2>2, <2>5
  <2>9. OneDigest'
    BY <1>b, <2>1, <2>2, <2>5
  <2> QED
    BY <2>6, <2>7, <2>8, <2>9
<1>1. ASSUME NEW p \in Procs, NEW v \in Verbs, Start(p, v) PROVE Goal
  BY <1>0, <1>1 DEF Start, Proc
<1>2. ASSUME NEW p \in Procs, Check(p) PROVE Goal
  BY <1>0, <1>2 DEF Check, Leave, Idle, Proc
<1>3. ASSUME NEW p \in Procs, StartChat(p) \/ OpenClaim(p) \/ LockClaim(p) PROVE Goal
  BY <1>0, <1>3 DEF StartChat, OpenClaim, LockClaim, Leave, Goto, Idle, Proc
<1>4. ASSUME NEW p \in Procs, Merge(p) \/ Park(p) \/ Revive(p) PROVE Goal
  <2>1. proc[p].at = "claimed" /\ proc[p].verb \in {"merge", "park", "revive"}
    BY <1>4 DEF Merge, Park, Revive, Claimed
  <2>2. meta = proc[p].seen
    BY <2>1
  <2>3. PICK l \in {"open", "parked", "merged"} :
          /\ Truncate(p, [proc[p].seen EXCEPT !.life = l])
          /\ Writes(proc[p].verb, proc[p].seen, [proc[p].seen EXCEPT !.life = l])
    BY <1>4 DEF Merge, Park, Revive, Claimed, Writes
  <2>4. LET m == [proc[p].seen EXCEPT !.life = l]
        IN  m \in Meta /\ m.base = meta.base
    BY <1>0, <2>2 DEF Meta
  <2>5. mainLog' = mainLog /\ posted' = posted
    BY <1>4 DEF Merge, Park, Revive
  <2> QED
    BY <1>b, <2>1, <2>3, <2>4, <2>5
<1>5. ASSUME NEW p \in Procs, Pull(p) PROVE Goal
  <2>1. CASE mainLog = proc[p].seen.base
    BY <1>0, <1>5, <2>1 DEF Pull, Leave, Idle, Proc
  <2>2. CASE mainLog # proc[p].seen.base
    <3> DEFINE m == [proc[p].seen EXCEPT !.base = mainLog]
    <3>1. proc[p].at = "claimed" /\ proc[p].verb = "pull" /\ meta = proc[p].seen
      BY <1>5 DEF Pull, Claimed
    <3>2. m \in Meta /\ m.base = mainLog /\ meta.base < mainLog
      BY <1>0, <2>2, <3>1 DEF Meta
    <3>3. Writes("pull", proc[p].seen, m)
      BY <3>1, <3>2 DEF Writes
    <3>4. Truncate(p, m) /\ mainLog' = mainLog /\ posted' = posted
      BY <1>5, <2>2 DEF Pull
    <3> HIDE DEF m
    <3> QED
      BY <1>0, <1>b, <3>1, <3>2, <3>3, <3>4
  <2> QED
    BY <2>1, <2>2
<1>6. ASSUME NEW p \in Procs, CreateThread(p) PROVE Goal
  <2>1. /\ Truncate(p, Whole(mainLog)) /\ mainLog' = mainLog /\ posted' = posted
        /\ proc[p].at = "claimed" /\ proc[p].verb = "chat" /\ meta.file = "none"
    BY <1>6 DEF CreateThread, Claimed
  <2>2. Whole(mainLog) \in Meta /\ Whole(mainLog).base = mainLog
    BY <1>0, MetaTypes DEF Whole
  <2> QED
    BY <1>0, <1>b, <2>1, <2>2
<1>7. ASSUME NEW p \in Procs, EnterChat(p) PROVE Goal
  BY <1>0, <1>7 DEF EnterChat, Claimed, Leave, Goto, Idle, Proc
<1>8. ASSUME NEW p \in Procs, FinishWrite(p) PROVE Goal
  <2> DEFINE v == proc[p].verb
             new == proc[p].new
  <2>1. proc[p].at = "truncated" /\ meta = TornMeta /\ posted = 0
    BY <1>8 DEF FinishWrite, TornMeta, Whole, Merged
  <2>2. \A q \in Procs : proc[q].at # "written" /\ (q # p => proc[q].at # "truncated")
    BY <2>1 DEF TornMeta, Whole, Merged
  <2>3. \A q \in Procs :
          /\ ~(proc[q].verb # "chat" /\ proc[q].at \in {"checked", "opened", "claimed"})
          /\ ~(proc[q].at = "dropping" /\ "meta" \in proc[q].left)
    BY <2>1 DEF MetaAllows, TornMeta, Whole
  <2>4. /\ v = "chat" => new = Whole(new.base)
        /\ v # "chat" => proc[p].seen.file = "whole" /\ Writes(v, proc[p].seen, new)
        /\ new.base <= mainLog /\ proc[p].seen \in Meta
    BY <1>0, <2>1 DEF MetaAllows, Proc
  <2>5. new.file = "whole" /\ (v = "merge" => Merged(new))
    <3> HIDE DEF v, new
    <3> QED
      BY <2>4 DEF Whole, Writes, Merged, Meta
  <2>11. meta' = new
    BY <1>8, <2>1 DEF FinishWrite, TornMeta, Whole
  <2>6. /\ \A q \in Procs \ {p} : proc'[q] = proc[q]
        /\ proc'[p].at \in {"idle", "written", "chatting"}
        /\ proc'[p].at = "written" => v = "merge"
        /\ proc'[p].at # "idle" => proc'[p].verb = v
        /\ mainLog' = mainLog /\ posted' = posted
    BY <1>0, <1>8 DEF FinishWrite, Leave, Goto, Idle, Proc
  <2> HIDE DEF v, new
  <2>7. MetaForm'
    BY <2>4, <2>5, <2>6, <2>11
  <2>8. SeenIsCurrent'
    BY <2>3, <2>6
  <2>9. OneWriter'
    BY <2>2, <2>6
  <2>10. OneDigest'
    BY <2>1, <2>2, <2>5, <2>6, <2>11
  <2> QED
    BY <2>7, <2>8, <2>9, <2>10
<1>9. ASSUME NEW p \in Procs, PostDigest(p) PROVE Goal
  BY <1>0, <1>a, <1>9 DEF PostDigest, Leave, Idle, Proc
<1>10. ASSUME NEW p \in Procs, Die(p) \/ Chat(p) PROVE Goal
  BY <1>0, <1>10 DEF Die, Chat, Leave, Idle, Proc
<1>11. ASSUME NEW p \in Procs, DropThread(p) PROVE Goal
  BY <1>0, <1>11 DEF DropThread, Claimed, Proc
<1>12. ASSUME NEW p \in Procs, NEW part \in Parts, Unlink(p, part) PROVE Goal
  BY <1>0, <1>a, <1>12 DEF Unlink, Leave, Idle, Proc, MetaAllows, NoMeta, TornMeta, Whole,
     Merged
<1>13. CASE WorkerEnds \/ MainGrows \/ UNCHANGED vars
  BY <1>0, <1>13 DEF WorkerEnds, MainGrows, vars, Proc, Meta
<1> QED
  BY <1>1, <1>2, <1>3, <1>4, <1>5, <1>6, <1>7, <1>8, <1>9, <1>10, <1>11, <1>12, <1>13
     DEF Next, ProcStep

\* The invariant of a thread that one shell rewrites.
LEMMA LifeHolds ==
  ASSUME OneShell
  PROVE  Spec => []LifeInv
<1>1. Init => LifeInv
  BY LifeInit
<1>2. LifeInv /\ [Next]_vars /\ TypeOK' => LifeInv'
  <2> SUFFICES ASSUME LifeInv, [Next]_vars, TypeOK' PROVE LifeInv'
    OBVIOUS
  <2>1. Roles'
    BY RolesStep DEF LifeInv
  <2> QED
    BY <2>1, LifeStep DEF LifeInv
<1> QED
  BY <1>1, <1>2, TypeCorrect, PTL DEF Spec

\* What the person sees while a process writes: what it read, or nothing yet.
LEMMA SeenIs ==
  ASSUME OneWriter, OneWriter'
  PROVE  /\ Writers = {} => SeenMeta = meta
         /\ \A p \in Writers :
              SeenMeta = IF proc[p].verb = "chat" THEN NoMeta ELSE proc[p].seen
         /\ Writers' = {} => SeenMeta' = meta'
         /\ \A p \in Writers' :
              SeenMeta' = IF proc'[p].verb = "chat" THEN NoMeta ELSE proc'[p].seen
<1>1. ASSUME NEW p \in Writers PROVE meta.file = "torn" /\ (CHOOSE q \in Writers : TRUE) = p
  BY <1>1 DEF OneWriter, TornMeta, Whole
<1>2. ASSUME NEW p \in Writers'
      PROVE  meta'.file = "torn" /\ (CHOOSE q \in Writers' : TRUE) = p
  BY <1>2 DEF OneWriter, TornMeta, Whole
<1> QED
  BY <1>1, <1>2 DEF SeenMeta

LEMMA LifeStarts == Init => Life!LifeInit
<1> SUFFICES ASSUME Init PROVE Life!LifeInit
  OBVIOUS
<1>1. SeenMeta = NoMeta /\ posted = 0
  BY DEF Init, SeenMeta, NoMeta, Whole
<1> QED
  BY <1>1 DEF Life!LifeInit, LifeState, NoMeta, Whole

\* A step that leaves thread.json and its writers alone changes nothing of the
\* life of the thread but, with the digest, what main was told.
LEMMA Unseen ==
  ASSUME OneWriter, OneWriter', meta' = meta, Writers' = Writers,
         \A p \in Writers : proc'[p].verb = proc[p].verb /\ proc'[p].seen = proc[p].seen
  PROVE  SeenMeta' = SeenMeta /\ LifeState' = LifeState
<1>1. SeenMeta' = SeenMeta
  <2>1. CASE Writers = {}
    BY <2>1, SeenIs
  <2>2. CASE Writers # {}
    BY <2>2, SeenIs
  <2> QED
    BY <2>1, <2>2
<1> QED
  BY <1>1 DEF LifeState

\* Each step is a step of the thread's life or shows nothing of it: a rewrite
\* takes place when the text is written, a fork when the first one is.
LEMMA LifeMoves ==
  ASSUME OneShell, LifeInv, LifeInv', [Next]_vars
  PROVE  [Life!LifeNext]_(Life!lifeVars)
<1> DEFINE Same == LifeState' = LifeState /\ SeenMeta' = SeenMeta
           Goal == Life!LifeNext \/ (Same /\ posted' = posted)
<1> SUFFICES Goal
  BY DEF Life!lifeVars
<1>0. /\ proc \in [Procs -> Proc] /\ proc' \in [Procs -> Proc] /\ meta \in Meta /\ meta' \in Meta
      /\ mainLog \in Nat /\ Roles /\ MetaForm /\ SeenIsCurrent /\ OneWriter /\ OneWriter' /\ OneDigest
  BY DEF LifeInv, TypeOK
<1>a. ASSUME meta' = meta, posted' = posted,
             \A p \in Procs : \/ proc'[p].at # "truncated" /\ proc[p].at # "truncated"
                              \/ proc'[p] = proc[p]
      PROVE  Goal
  <2>1. /\ Writers' = Writers
        /\ \A p \in Writers : proc'[p].verb = proc[p].verb /\ proc'[p].seen = proc[p].seen
    BY <1>a DEF Writers
  <2> QED
    BY <1>0, <1>a, <2>1, Unseen
<1>1. ASSUME NEW p \in Procs, NEW v \in Verbs, Start(p, v) PROVE Goal
  BY <1>0, <1>1, <1>a DEF Start, Proc
<1>2. ASSUME NEW p \in Procs,
             Check(p) \/ StartChat(p) \/ OpenClaim(p) \/ LockClaim(p)
      PROVE  Goal
  BY <1>0, <1>2, <1>a DEF Check, StartChat, OpenClaim, LockClaim, Leave, Goto, Idle, Proc
<1>3. ASSUME NEW p \in Procs, NEW m, Truncate(p, m), proc[p].at = "claimed", posted' = posted,
             IF proc[p].verb = "chat" THEN meta = NoMeta ELSE proc[p].verb # "drop"
      PROVE  Goal
  <2>1. /\ proc'[p].at = "truncated" /\ proc'[p].verb = proc[p].verb
        /\ proc'[p].seen = proc[p].seen
    BY <1>0, <1>3 DEF Truncate, Proc
  <2>2. meta.file # "torn" /\ (proc[p].verb # "chat" => meta = proc[p].seen)
    BY <1>0, <1>3 DEF SeenIsCurrent, MetaAllows, NoMeta, Whole
  <2>3. Writers = {} /\ p \in Writers'
    BY <1>0, <2>1, <2>2 DEF OneWriter, Writers, TornMeta, Whole
  <2>4. SeenMeta' = SeenMeta
    BY <1>0, <1>3, <2>1, <2>2, <2>3, SeenIs
  <2> QED
    BY <1>3, <2>4 DEF LifeState
<1>4. ASSUME NEW p \in Procs, Merge(p) \/ Park(p) \/ Revive(p) PROVE Goal
  BY <1>3, <1>4 DEF Merge, Park, Revive, Claimed
<1>5. ASSUME NEW p \in Procs, Pull(p) PROVE Goal
  <2>1. CASE mainLog = proc[p].seen.base
    BY <1>0, <1>5, <2>1, <1>a DEF Pull, Claimed, Leave, Idle, Proc
  <2>2. CASE mainLog # proc[p].seen.base
    BY <1>3, <1>5, <2>2 DEF Pull, Claimed
  <2> QED
    BY <2>1, <2>2
<1>6. ASSUME NEW p \in Procs, CreateThread(p) PROVE Goal
  BY <1>0, <1>3, <1>6 DEF CreateThread, Claimed, MetaForm
<1>7. ASSUME NEW p \in Procs, EnterChat(p) \/ DropThread(p) PROVE Goal
  BY <1>0, <1>7, <1>a DEF EnterChat, DropThread, Claimed, Leave, Goto, Idle, Proc
<1>8. ASSUME NEW p \in Procs, FinishWrite(p) PROVE Goal
  <2> DEFINE v == proc[p].verb
             new == proc[p].new
             seen == proc[p].seen
  <2>1. /\ proc[p].at = "truncated" /\ p \in Writers /\ meta = TornMeta
        /\ meta' = new /\ posted' = posted
    BY <1>0, <1>8 DEF FinishWrite, OneWriter, Writers, TornMeta, Whole
  <2>2. Writers' = {}
    BY <1>0, <1>8, <2>1 DEF FinishWrite, Writers, OneWriter, Leave, Goto, Idle, Proc
  <2>3. SeenMeta = (IF v = "chat" THEN NoMeta ELSE seen) /\ SeenMeta' = new
    BY <1>0, <2>1, <2>2, SeenIs
  <2>4. /\ v = "chat" => new = Whole(new.base)
        /\ v # "chat" => MetaAllows(v, seen) /\ Writes(v, seen, new)
        /\ seen \in Meta /\ new \in Meta
    BY <1>0, <2>1 DEF OneWriter, Proc
  <2> HIDE DEF v, new, seen
  <2>5. CASE v = "chat"
    BY <2>1, <2>3, <2>4, <2>5 DEF Whole, NoMeta, LifeState, Meta, Life!LifeNext, Life!Fork
  <2>6. CASE v # "chat"
    <3>1. /\ LifeState = seen.life /\ SeenMeta.base = seen.base
          /\ LifeState' = new.life /\ SeenMeta'.base = new.base
          /\ seen.life \in {"open", "parked"} /\ new.file = "whole"
      BY <2>3, <2>4, <2>6 DEF LifeState, MetaAllows, Writes, Meta
    <3>2. CASE v = "merge"
      BY <2>1, <2>4, <2>6, <3>1, <3>2
         DEF Writes, Meta, Life!LifeNext, Life!MergeLife, Life!Alive
    <3>3. CASE v = "park"
      BY <2>1, <2>4, <2>6, <3>1, <3>3
         DEF Writes, MetaAllows, Meta, Life!LifeNext, Life!ParkLife
    <3>4. CASE v = "revive"
      BY <2>1, <2>4, <2>6, <3>1, <3>4
         DEF Writes, MetaAllows, Meta, Life!LifeNext, Life!ReviveLife
    <3>5. CASE v = "pull"
      BY <2>1, <2>4, <2>6, <3>1, <3>5
         DEF Writes, Meta, Life!LifeNext, Life!PullLife, Life!Alive
    <3> QED
      BY <2>4, <2>6, <3>2, <3>3, <3>4, <3>5 DEF Writes
  <2> QED
    BY <2>5, <2>6
<1>9. ASSUME NEW p \in Procs, PostDigest(p) PROVE Goal
  <2>1. proc[p].at = "written" /\ Merged(meta) /\ posted = 0 /\ posted' = 1
    BY <1>0, <1>9 DEF PostDigest, OneDigest
  <2>2. Writers' = Writers /\ meta' = meta /\ \A q \in Writers : proc'[q] = proc[q]
    BY <1>0, <1>9 DEF PostDigest, Leave, Idle, Writers, Proc
  <2>3. Same
    BY <1>0, <2>2, Unseen
  <2>4. Writers = {}
    BY <1>0, <2>1 DEF OneWriter, Merged, TornMeta, Whole
  <2>5. LifeState = "merged"
    BY <1>0, <2>1, <2>4, SeenIs DEF LifeState, Merged
  <2> QED
    BY <2>1, <2>3, <2>5 DEF Life!LifeNext, Life!Deliver
<1>10. ASSUME NEW p \in Procs, Die(p) PROVE Goal
  <2>1. CASE proc[p].at # "truncated"
    BY <1>0, <1>10, <2>1, <1>a DEF Die, Leave, Idle, Proc
  <2>2. CASE proc[p].at = "truncated"
    <3>1. p \in Writers /\ meta = TornMeta /\ meta' = meta /\ posted' = posted
      BY <1>0, <1>10, <2>2 DEF Die, OneWriter, Writers
    <3>2. Writers' = {}
      BY <1>0, <1>10, <3>1 DEF Die, Writers, OneWriter, Leave, Idle, Proc
    <3>3. SeenMeta' = TornMeta
      BY <1>0, <3>1, <3>2, SeenIs
    <3>4. LifeState # "merged"
      BY <1>0, <2>2, <3>1, SeenIs DEF OneWriter, LifeState, MetaAllows, NoMeta, Whole
    <3> QED
      BY <3>1, <3>3, <3>4 DEF LifeState, TornMeta, Whole, Life!LifeNext, Life!Break
  <2> QED
    BY <2>1, <2>2
<1>11. ASSUME NEW p \in Procs, Chat(p) PROVE Goal
  BY <1>0, <1>11, <1>a DEF Chat, Leave, Idle, Proc
<1>12. ASSUME NEW p \in Procs, NEW part \in Parts, Unlink(p, part) PROVE Goal
  <2>1. CASE part # "meta"
    BY <1>0, <1>12, <2>1, <1>a DEF Unlink, Leave, Idle, Proc
  <2>2. CASE part = "meta"
    <3>1. MetaAllows("drop", meta) /\ meta' = NoMeta /\ posted' = posted
      BY <1>0, <1>12, <2>2 DEF Unlink, SeenIsCurrent
    <3>2. Writers = {}
      BY <1>0, <3>1 DEF Writers, OneWriter, MetaAllows, TornMeta, Whole
    <3>3. Writers' = {}
      BY <1>0, <3>1 DEF Writers, OneWriter, NoMeta, TornMeta, Whole
    <3>4. SeenMeta = meta /\ SeenMeta' = NoMeta
      BY <1>0, <3>1, <3>2, <3>3, SeenIs
    <3> QED
      BY <1>0, <3>1, <3>4 DEF LifeState, MetaAllows, Meta, NoMeta, Whole, Life!LifeNext, Life!DropLife,
         Life!Alive
  <2> QED
    BY <2>1, <2>2
<1>13. CASE WorkerEnds \/ MainGrows \/ UNCHANGED vars
  BY <1>a, <1>13 DEF WorkerEnds, MainGrows, vars
<1> QED
  BY <1>1, <1>2, <1>4, <1>5, <1>6, <1>7, <1>8, <1>9, <1>10, <1>11, <1>12, <1>13
     DEF Next, ProcStep

\* The claim, the torn writes and the checks made before the claim add up to
\* the life docs/context/threads.md tells, for every number of chats beside
\* the one shell, every number of drops and forks, and deaths at any step.
THEOREM LifeIsKept ==
  ASSUME OneShell
  PROVE  Spec => ThreadLife
<1>1. Init => Life!LifeInit
  BY LifeStarts
<1>2. LifeInv /\ LifeInv' /\ [Next]_vars => [Life!LifeNext]_(Life!lifeVars)
  BY LifeMoves
<1> QED
  BY <1>1, <1>2, LifeHolds, PTL DEF Spec, ThreadLife, Life!LifeSpec

\* With one shell a merged thread is read-only.
THEOREM MergedStays ==
  ASSUME OneShell
  PROVE  Spec => MergedIsReadOnly
<1>1. LifeInv /\ [Next]_vars => [Merged(meta) => UNCHANGED meta]_vars
  <2> SUFFICES ASSUME LifeInv, Next, Merged(meta) PROVE meta' = meta
    BY DEF vars
  <2>1. /\ \A p \in Procs : proc[p].at # "truncated"
        /\ \A p \in Procs : proc[p].at = "claimed" => proc[p].verb = "chat"
        /\ \A p \in Procs : proc[p].at = "dropping" => "meta" \notin proc[p].left
    BY DEF LifeInv, OneWriter, Writers, SeenIsCurrent, MetaAllows, Merged, TornMeta, Whole
  <2>2. ASSUME NEW p \in Procs, ProcStep(p) PROVE meta' = meta
    BY <2>1, <2>2 DEF ProcStep, Start, Check, StartChat, OpenClaim, LockClaim, Merge, Park,
       Revive, Pull, CreateThread, EnterChat, FinishWrite, PostDigest, DropThread, Unlink,
       Chat, Die, Claimed, Merged
  <2> QED
    BY <2>2 DEF Next, WorkerEnds, MainGrows
<1> QED
  BY <1>1, LifeHolds, PTL DEF Spec, MergedIsReadOnly

(***************************************************************************)
(* Inbox.                                                                  *)
(***************************************************************************)
USE InboxAssumption

(***************************************************************************)
(* Sets of numbers: the least one, induction, and the sequence in order.   *)
(***************************************************************************)
\* A set of numbers that is not empty has a least one.
LEMMA LeastOf ==
  ASSUME NEW T, T \subseteq Nat, T # {}
  PROVE  \E n \in T : \A m \in T : n <= m
<1> DEFINE R == OpToRel(<, Nat)
<1>1. IsWellFoundedOn(R, Nat)
  BY NatLessThanWellFounded
<1>2. \A x, y \in Nat : <<y, x>> \in R <=> y < x
  BY DEF OpToRel
<1> HIDE DEF R
<1>3. PICK x \in T : \A y \in T : ~ (<<y, x>> \in R)
  BY <1>1, WFMin
<1>4. ASSUME NEW y \in T PROVE x <= y
  <2>1. x \in Nat /\ y \in Nat
    OBVIOUS
  <2>2. ~ (y < x)
    BY <1>2, <1>3, <2>1, Zenon
  <2> QED
    BY <2>1, <2>2
<1> QED
  BY <1>4

LEMMA SetInduction ==
  ASSUME NEW S, 0 \in S, \A n \in Nat : n \in S => n + 1 \in S
  PROVE  Nat \subseteq S
<1> SUFFICES ASSUME ~ (Nat \subseteq S) PROVE FALSE
  OBVIOUS
<1> DEFINE T == Nat \ S
<1>1. T \subseteq Nat /\ T # {}
  OBVIOUS
<1>2. PICK n \in T : \A m \in T : n <= m
  <2> HIDE DEF T
  <2> QED
    BY <1>1, LeastOf
<1>3. n # 0 /\ n - 1 \in Nat /\ n - 1 \notin T
  BY <1>2
<1> QED
  BY <1>2, <1>3

\* s lists S in rising order.
Lists(s, S) ==
  /\ s \in [1..Cardinality(S) -> S]
  /\ \A i, j \in 1..Cardinality(S) : i < j => s[i] < s[j]

LEMMA ListExists ==
  ASSUME NEW S \in SUBSET Nat, IsFiniteSet(S)
  PROVE  \E s : Lists(s, S)
<1> DEFINE Good == {n \in Nat : \A T \in SUBSET Nat :
                       (IsFiniteSet(T) /\ Cardinality(T) = n) => \E s : Lists(s, T)}
<1>1. 0 \in Good
  <2> SUFFICES ASSUME NEW T \in SUBSET Nat, IsFiniteSet(T), Cardinality(T) = 0
               PROVE  \E s : Lists(s, T)
    OBVIOUS
  <2>1. T = {} /\ 1..Cardinality(T) = {}
    BY FS_EmptySet
  <2>2. Lists(<<>>, T)
    BY <2>1 DEF Lists
  <2> QED
    BY <2>2
<1>2. ASSUME NEW n \in Nat, n \in Good PROVE n + 1 \in Good
  <2> SUFFICES ASSUME NEW T \in SUBSET Nat, IsFiniteSet(T), Cardinality(T) = n + 1
               PROVE  \E s : Lists(s, T)
    OBVIOUS
  <2>1. T # {}
    BY FS_EmptySet
  <2>2. PICK x \in T : \A y \in T : x <= y
    BY <2>1, LeastOf
  <2> DEFINE U == T \ {x}
  <2>3. U \in SUBSET Nat /\ IsFiniteSet(U) /\ Cardinality(U) = n
    <3>1. IsFiniteSet(U) /\ Cardinality(U) = Cardinality(T) - 1
      BY FS_RemoveElement, Zenon
    <3> QED
      BY <3>1
  <2>4. PICK s : Lists(s, U)
    BY <1>2, <2>3
  <2> DEFINE t == [i \in 1..n + 1 |-> IF i = 1 THEN x ELSE s[i - 1]]
  <2>5. /\ \A i \in 1..n : s[i] \in Nat /\ s[i] \in T /\ x < s[i]
        /\ \A i, j \in 1..n : i < j => s[i] < s[j]
    <3>1. s \in [1..n -> U] /\ \A i, j \in 1..n : i < j => s[i] < s[j]
      BY <2>3, <2>4 DEF Lists
    <3>2. \A y \in U : y \in Nat /\ y \in T /\ x < y
      BY <2>2
    <3> HIDE DEF U
    <3> QED
      BY <3>1, <3>2
  <2>6. t \in [1..n + 1 -> T]
    BY <2>5
  <2>7. ASSUME NEW i \in 1..n + 1, NEW j \in 1..n + 1, i < j PROVE t[i] < t[j]
    <3>1. j - 1 \in 1..n /\ t[j] = s[j - 1]
      BY <2>7
    <3>2. CASE i = 1
      BY <2>5, <3>1, <3>2
    <3>3. CASE i # 1
      <4>1. i - 1 \in 1..n /\ t[i] = s[i - 1] /\ i - 1 < j - 1
        BY <2>7, <3>3
      <4> QED
        BY <2>5, <3>1, <4>1
    <3> QED
      BY <3>2, <3>3
  <2>8. Lists(t, T)
    BY <2>6, <2>7 DEF Lists
  <2> QED
    BY <2>8
<1>3. Nat \subseteq Good
  <2> HIDE DEF Good
  <2> QED
    BY <1>1, <1>2, SetInduction
<1>4. Cardinality(S) \in Good
  BY <1>3, FS_CardinalityType
<1> QED
  BY <1>4

\* The reports of the folder in order: all of them, each once.
LEMMA ByStampLists ==
  ASSUME NEW S \in SUBSET Nat, IsFiniteSet(S)
  PROVE  /\ ByStamp(S) \in Seq(S) /\ ToSet(ByStamp(S)) = S /\ IsInjective(ByStamp(S))
<1> DEFINE c == Cardinality(S)
           s == ByStamp(S)
<1>1. c \in Nat
  BY FS_CardinalityType
<1>2. Lists(s, S)
  BY ListExists DEF ByStamp, Lists
<1>3. s \in Seq(S) /\ DOMAIN s = 1..c
  BY <1>1, <1>2 DEF Lists
<1>4. IsInjective(s)
  <2> SUFFICES ASSUME NEW i \in 1..c, NEW j \in 1..c, s[i] = s[j] PROVE i = j
    BY <1>3 DEF IsInjective
  <2>1. s \in [1..c -> S] /\ \A a, b \in 1..c : a < b => s[a] < s[b]
    BY <1>2 DEF Lists
  <2>2. s[i] \in Nat /\ s[j] \in Nat /\ (i < j => s[i] < s[j]) /\ (j < i => s[j] < s[i])
    <3> HIDE DEF s, c
    <3> QED
      BY <2>1
  <2> QED
    BY <1>1, <2>2
<1>5. ToSet(s) = S
  <2>1. s \in Injection(1..c, S)
    BY <1>2, <1>4 DEF Injection, Lists
  <2>2. Cardinality(1..c) = c
    BY <1>1, FS_Interval
  <2>3. s \in Surjection(1..c, S)
    BY <2>1, <2>2, FS_Injection
  <2> QED
    BY <1>3, <2>3 DEF Surjection, ToSet
<1> QED
  BY <1>3, <1>4, <1>5

LEMMA MinOf ==
  ASSUME NEW S \in SUBSET Nat, S # {}
  PROVE  Min(S) \in S
<1>1. \E n \in S : \A m \in S : n <= m
  BY LeastOf
<1> QED
  BY <1>1 DEF Min

(***************************************************************************)
(* What the ledger does: ingest, take, look.                               *)
(***************************************************************************)
LEMMA IngestFacts ==
  ASSUME NEW l \in Seq(Reports), IsInjective(l), NEW A \in SUBSET Reports, IsFiniteSet(A),
         NEW m, m = Ingest(l, A)
  PROVE  /\ m \in Seq(Reports) /\ IsInjective(m) /\ ToSet(m) = ToSet(l) \cup A
         /\ DOMAIN l \subseteq DOMAIN m /\ \A i \in DOMAIN l : m[i] = l[i]
         /\ A = {} => m = l
<1> DEFINE new == A \ ToSet(l)
           s   == ByStamp(new)
<1>1. new \in SUBSET Nat /\ IsFiniteSet(new)
  BY FS_Subset
<1>2. s \in Seq(new) /\ ToSet(s) = new /\ IsInjective(s)
  <2> HIDE DEF new
  <2> QED
    BY <1>1, ByStampLists
<1>3. s \in Seq(Reports)
  <2>1. new \subseteq Reports
    OBVIOUS
  <2> HIDE DEF new, s
  <2>2. Len(s) \in Nat /\ s \in [1..Len(s) -> new]
    BY <1>2
  <2>3. s \in [1..Len(s) -> Reports]
    BY <2>1, <2>2
  <2> QED
    BY <2>2, <2>3
<1>4. m = l \o s
  BY DEF Ingest
<1>5. new = A \ ToSet(l)
  OBVIOUS
<1> HIDE DEF s, new
<1>6. /\ DOMAIN l = 1..Len(l) /\ DOMAIN s = 1..Len(s) /\ DOMAIN m = 1..Len(l) + Len(s)
      /\ Len(l) \in Nat /\ Len(s) \in Nat /\ m \in Seq(Reports)
      /\ \A i \in 1..Len(l) : m[i] = l[i]
      /\ \A i \in 1..Len(s) : m[Len(l) + i] = s[i]
  BY <1>3, <1>4
<1>7. \A i \in DOMAIN m : \/ i \in DOMAIN l /\ m[i] = l[i]
                          \/ i - Len(l) \in DOMAIN s /\ m[i] = s[i - Len(l)]
  BY <1>6
<1>8. ToSet(m) = ToSet(l) \cup A
  <2>1. ToSet(l) \subseteq ToSet(m)
    BY <1>6 DEF ToSet
  <2>2. \A i \in DOMAIN s : Len(l) + i \in DOMAIN m /\ m[Len(l) + i] = s[i]
    BY <1>6
  <2>3. ToSet(s) \subseteq ToSet(m)
    BY <2>2 DEF ToSet
  <2>4. ToSet(m) \subseteq ToSet(l) \cup ToSet(s)
    BY <1>7 DEF ToSet
  <2> QED
    BY <1>2, <1>5, <2>1, <2>3, <2>4
<1>9. IsInjective(m)
  <2>1. \A i \in DOMAIN l, j \in DOMAIN s : l[i] # s[j]
    BY <1>2, <1>5 DEF ToSet
  <2> QED
    BY <1>2, <1>6, <1>7, <2>1 DEF IsInjective
<1>10. A = {} => m = l
  <2> SUFFICES ASSUME A = {} PROVE m = l
    OBVIOUS
  <2>1. \A i \in DOMAIN s : s[i] \in {}
    BY <1>2, <1>5 DEF ToSet
  <2>2. Len(s) = 0
    BY <1>6, <2>1
  <2> QED
    BY <1>3, <1>4, <2>2
<1> QED
  BY <1>6, <1>8, <1>9, <1>10

LEMMA SuffixFacts ==
  ASSUME NEW S, NEW m \in Seq(S), NEW k \in 1..Len(m)
  PROVE  /\ SubSeq(m, k + 1, Len(m)) \in Seq(S)
         /\ Len(SubSeq(m, k + 1, Len(m))) = Len(m) - k
         /\ \A i \in 1..Len(m) - k : SubSeq(m, k + 1, Len(m))[i] = m[k + i]
<1>1. SubSeq(m, k + 1, Len(m)) \in Seq(S)
  OBVIOUS
<1>2. Len(SubSeq(m, k + 1, Len(m))) = Len(m) - k
  OBVIOUS
<1>3. ASSUME NEW i \in 1..Len(m) - k PROVE SubSeq(m, k + 1, Len(m))[i] = m[k + i]
  OBVIOUS
<1> QED
  BY <1>1, <1>2, <1>3

LEMMA TakeFacts ==
  ASSUME NEW m \in Seq(Reports), IsInjective(m), NEW sel \in Nat
  PROVE  /\ Taken(m, sel) \in Seq(Reports) /\ Rest(m, sel) \in Seq(Reports)
         /\ IsInjective(Taken(m, sel)) /\ IsInjective(Rest(m, sel))
         /\ ToSet(Taken(m, sel)) \cap ToSet(Rest(m, sel)) = {}
         /\ ToSet(Taken(m, sel)) \cup ToSet(Rest(m, sel)) = ToSet(m)
         /\ (sel # 0 /\ sel \in DOMAIN m) => Taken(m, sel) = <<m[sel]>>
         /\ Taken(m, sel) = <<>> => Rest(m, sel) = m
<1>1. CASE sel = 0
  <2>1. Taken(m, sel) = m /\ Rest(m, sel) = <<>>
    BY <1>1 DEF Taken, Rest
  <2>2. ToSet(<<>>) = {} /\ IsInjective(<<>>) /\ <<>> \in Seq(Reports)
    BY DEF ToSet, IsInjective
  <2> QED
    BY <1>1, <2>1, <2>2
<1>2. CASE sel # 0 /\ sel \notin DOMAIN m
  <2>1. Taken(m, sel) = <<>> /\ Rest(m, sel) = m
    BY <1>2 DEF Taken, Rest
  <2>2. ToSet(<<>>) = {} /\ IsInjective(<<>>) /\ <<>> \in Seq(Reports)
    BY DEF ToSet, IsInjective
  <2> QED
    BY <1>2, <2>1, <2>2
<1>3. CASE sel # 0 /\ sel \in DOMAIN m
  <2> DEFINE r == Rest(m, sel)
  <2>1. Taken(m, sel) = <<m[sel]>> /\ r = SubSeq(m, 1, sel - 1) \o SubSeq(m, sel + 1, Len(m))
    BY <1>3 DEF Taken, Rest, RemoveAt
  <2>2. sel \in 1..Len(m) /\ Len(m) \in Nat /\ DOMAIN m = 1..Len(m)
    BY <1>3
  <2> HIDE DEF r
  <2>3. /\ r \in Seq(Reports) /\ Len(r) = Len(m) - 1
        /\ \A i \in 1..Len(m) - 1 : r[i] = IF i < sel THEN m[i] ELSE m[i + 1]
    <3> DEFINE a == SubSeq(m, 1, sel - 1)
               b == SubSeq(m, sel + 1, Len(m))
    <3>1. a \in Seq(Reports) /\ Len(a) = sel - 1 /\ \A i \in 1..sel - 1 : a[i] = m[i]
      BY <2>2
    <3>2. b \in Seq(Reports) /\ Len(b) = Len(m) - sel /\ \A i \in 1..Len(m) - sel : b[i] = m[sel + i]
      BY <2>2, SuffixFacts
    <3>3. r = a \o b
      BY <2>1
    <3> HIDE DEF a, b
    <3>4. r \in Seq(Reports) /\ Len(r) = Len(m) - 1
      <4>1. a \o b \in Seq(Reports) /\ Len(a \o b) = Len(a) + Len(b)
        BY <3>1, <3>2, ConcatProperties, Zenon
      <4> QED
        BY <2>2, <3>1, <3>2, <3>3, <4>1
    <3>5. ASSUME NEW i \in 1..Len(m) - 1 PROVE r[i] = IF i < sel THEN m[i] ELSE m[i + 1]
      <4>1. CASE i < sel
        BY <2>2, <3>1, <3>2, <3>3, <4>1
      <4>2. CASE ~ (i < sel)
        <5>1. r[i] = b[i - (sel - 1)] /\ i - (sel - 1) \in 1..Len(m) - sel
          BY <2>2, <3>1, <3>2, <3>3, <4>2
        <5> QED
          BY <2>2, <3>2, <4>2, <5>1
      <4> QED
        BY <4>1, <4>2
    <3> QED
      BY <3>4, <3>5
  <2>4. ToSet(<<m[sel]>>) = {m[sel]} /\ IsInjective(<<m[sel]>>) /\ <<m[sel]>> \in Seq(Reports)
    BY <2>2 DEF ToSet, IsInjective
  <2>9. /\ DOMAIN r = 1..Len(m) - 1
        /\ \A i \in 1..Len(m) - 1 : i < sel => i \in 1..Len(m) /\ r[i] = m[i]
        /\ \A i \in 1..Len(m) - 1 : ~ (i < sel) => i + 1 \in 1..Len(m) /\ r[i] = m[i + 1]
    BY <2>2, <2>3
  <2>5. ToSet(r) = ToSet(m) \ {m[sel]}
    <3>1. \A i \in DOMAIN r : \E k \in DOMAIN m : k # sel /\ r[i] = m[k]
      <4> SUFFICES ASSUME NEW i \in 1..Len(m) - 1 PROVE \E k \in DOMAIN m : k # sel /\ r[i] = m[k]
        BY <2>2, <2>9
      <4>1. CASE i < sel
        BY <2>2, <2>9, <4>1
      <4>2. CASE ~ (i < sel)
        BY <2>2, <2>9, <4>2
      <4> QED
        BY <4>1, <4>2
    <3>2. \A k \in DOMAIN m : k # sel => \E i \in DOMAIN r : r[i] = m[k]
      <4> SUFFICES ASSUME NEW k \in 1..Len(m), k # sel PROVE \E i \in 1..Len(m) - 1 : r[i] = m[k]
        BY <2>2, <2>9
      <4>1. CASE k < sel
        BY <2>2, <2>9, <4>1
      <4>2. CASE sel < k
        <5>1. k - 1 \in 1..Len(m) - 1 /\ r[k - 1] = m[k]
          BY <2>2, <2>9, <4>2
        <5> QED
          BY <5>1
      <4> QED
        BY <2>2, <4>1, <4>2
    <3> QED
      BY <2>2, <3>1, <3>2 DEF ToSet, IsInjective
  <2>6. IsInjective(r)
    <3> SUFFICES ASSUME NEW i \in 1..Len(m) - 1, NEW j \in 1..Len(m) - 1, i # j PROVE r[i] # r[j]
      BY <2>9 DEF IsInjective
    <3>1. \A k, n \in 1..Len(m) : k # n => m[k] # m[n]
      BY <2>2 DEF IsInjective
    <3>2. PICK k \in 1..Len(m) : r[i] = m[k] /\ k = IF i < sel THEN i ELSE i + 1
      BY <2>9
    <3>3. PICK n \in 1..Len(m) : r[j] = m[n] /\ n = IF j < sel THEN j ELSE j + 1
      BY <2>9
    <3>4. k # n
      BY <2>2, <3>2, <3>3
    <3> QED
      BY <3>1, <3>2, <3>3, <3>4
  <2>7. m[sel] \in ToSet(m)
    BY <2>2 DEF ToSet
  <2> QED
    <3>1. Taken(m, sel) # <<>>
      BY <2>1
    <3>2. Rest(m, sel) = r
      BY DEF r
    <3> QED
      BY <1>3, <2>1, <2>3, <2>4, <2>5, <2>6, <2>7, <3>1, <3>2
<1> QED
  BY <1>1, <1>2, <1>3

LEMMA MatchFacts ==
  ASSUME NEW l \in Seq(Reports), NEW filter, NEW pos, pos = FirstMatch(l, filter)
  PROVE  pos = 0 \/ (pos \in DOMAIN l /\ l[pos] \in filter)
<1> DEFINE fits == {i \in DOMAIN l : l[i] \in filter}
<1>1. fits \in SUBSET Nat
  OBVIOUS
<1>2. pos = IF fits = {} THEN 0 ELSE Min(fits)
  BY DEF FirstMatch
<1>3. fits # {} => Min(fits) \in fits
  <2> HIDE DEF fits
  <2> QED
    BY <1>1, MinOf
<1> QED
  BY <1>2, <1>3

LEMMA EmptyFacts == ToSet(<<>>) = {} /\ IsInjective(<<>>) /\ \A S : <<>> \in Seq(S)
BY DEF ToSet, IsInjective

LEMMA HeadFacts ==
  ASSUME NEW S, NEW s \in Seq(S), s # <<>>, IsInjective(s)
  PROVE  /\ Head(s) \in S /\ Tail(s) \in Seq(S) /\ IsInjective(Tail(s))
         /\ ToSet(s) = {Head(s)} \cup ToSet(Tail(s)) /\ Head(s) \notin ToSet(Tail(s))
<1>1. /\ DOMAIN s = 1..Len(s) /\ Len(s) \in Nat \ {0} /\ Head(s) = s[1]
      /\ Tail(s) \in Seq(S) /\ Len(Tail(s)) = Len(s) - 1 /\ DOMAIN Tail(s) = 1..Len(s) - 1
      /\ \A i \in 1..Len(s) - 1 : Tail(s)[i] = s[i + 1]
  OBVIOUS
<1>2. \A i \in 1..Len(s) - 1 : i + 1 \in 1..Len(s) /\ i + 1 # 1
  BY <1>1
<1>3. IsInjective(Tail(s))
  BY <1>1, <1>2 DEF IsInjective
<1>4. Head(s) \notin ToSet(Tail(s))
  BY <1>1, <1>2 DEF IsInjective, ToSet
<1>5. ToSet(s) \subseteq {Head(s)} \cup ToSet(Tail(s))
  <2> SUFFICES ASSUME NEW i \in 1..Len(s), i # 1 PROVE s[i] \in ToSet(Tail(s))
    BY <1>1 DEF ToSet
  <2>1. i - 1 \in 1..Len(s) - 1 /\ Tail(s)[i - 1] = s[i]
    BY <1>1
  <2> QED
    BY <1>1, <2>1 DEF ToSet
<1>6. {Head(s)} \cup ToSet(Tail(s)) \subseteq ToSet(s)
  BY <1>1, <1>2 DEF ToSet
<1> QED
  BY <1>1, <1>3, <1>4, <1>5, <1>6

LEMMA AppendFacts ==
  ASSUME NEW S, NEW s \in Seq(S), NEW x \in S, IsInjective(s), x \notin ToSet(s)
  PROVE  Append(s, x) \in Seq(S) /\ IsInjective(Append(s, x)) /\ ToSet(Append(s, x)) = ToSet(s) \cup {x}
<1>1. /\ DOMAIN s = 1..Len(s) /\ Len(s) \in Nat /\ Append(s, x) \in Seq(S)
      /\ DOMAIN Append(s, x) = 1..Len(s) + 1 /\ Append(s, x)[Len(s) + 1] = x
      /\ \A i \in 1..Len(s) : Append(s, x)[i] = s[i] /\ i \in 1..Len(s) + 1
  OBVIOUS
<1>2. \A i \in 1..Len(s) + 1 : i \in 1..Len(s) \/ i = Len(s) + 1
  BY <1>1
<1>3. \A i \in 1..Len(s) : s[i] # x
  BY <1>1 DEF ToSet
<1>4. IsInjective(Append(s, x))
  BY <1>1, <1>2, <1>3 DEF IsInjective
<1>5. Len(s) + 1 \in 1..Len(s) + 1
  BY <1>1
<1>6. ToSet(Append(s, x)) = ToSet(s) \cup {x}
  BY <1>1, <1>2, <1>5 DEF ToSet
<1> QED
  BY <1>1, <1>4, <1>6

(***************************************************************************)
(* The invariant.  A sync holds, from its first look on, every report of   *)
(* the ledger and of the files it read, and what it takes is in nothing it *)
(* puts back; a file it did not read is of a report nobody has seen.       *)
(***************************************************************************)
InOp == ToSet(op.mem) \cup ToSet(op.got)

KnownReports ==
  /\ IsFiniteSet(reported)
  /\ Queued \cup InOp \cup op.snap \cup ToSet(main.hand) \cup ToSet(logged) \cup dropLog \subseteq reported

\* Who syncs, and what the main loop has in hand.
MainFits ==
  /\ op.by = "main" <=> main.at \in {"syncing", "looking"}
  /\ op.by = "main" => (main.at = "syncing" <=> op.act \in {"drain", "drop"})
  /\ op.act \in {"drain", "drop"} => op.by = "main"
  /\ main.at # "logging" => main.hand = <<>>
  /\ main.at = "prompt" => main = Prompt

OpFits ==
  IF op.by = "none" THEN op = NoOp
  ELSE /\ IsInjective(op.mem) /\ IsInjective(op.got) /\ ToSet(op.mem) \cap ToSet(op.got) = {}
       /\ op.snap \subseteq reportFiles /\ op.snap \subseteq InOp
       /\ (reportFiles \ op.snap) \cap InOp = {}
       /\ op.changed <=> op.got # <<>>
       /\ op.got # <<>> => op.act \in {"drain", "drop"}
       /\ op.act = "drop" => ToSet(op.got) \subseteq dropLog
       /\ op.at = "loaded" => /\ InOp = ToSet(ledger) \cup op.snap
                              /\ (~ op.changed /\ op.snap = {}) => op.mem = ledger
       /\ op.at = "saved" => ledger = op.mem

Once ==
  /\ IsInjective(ledger) /\ IsInjective(main.hand) /\ IsInjective(logged)
  /\ ToSet(main.hand) \cap (Queued \cup InOp) = {}
  /\ ToSet(logged) \cap (Queued \cup InOp \cup ToSet(main.hand)) = {}

QueueInv == InboxTypeOK /\ KnownReports /\ MainFits /\ OpFits /\ Once

LEMMA NoOpFacts ==
  /\ NoOp.by = "none" /\ NoOp.act = "peek" /\ NoOp.mem = <<>> /\ NoOp.got = <<>> /\ NoOp.snap = {}
  /\ ToSet(NoOp.mem) = {} /\ ToSet(NoOp.got) = {}
BY EmptyFacts DEF NoOp

LEMMA QueueInit == InboxInit => QueueInv
<1> SUFFICES ASSUME InboxInit PROVE QueueInv
  OBVIOUS
<1>1. InboxTypeOK
  BY EmptyFacts DEF InboxInit, InboxTypeOK, NoOp, Prompt
<1>2. IsFiniteSet({})
  BY FS_EmptySet
<1> QED
  BY <1>1, <1>2, EmptyFacts, NoOpFacts
     DEF InboxInit, QueueInv, KnownReports, MainFits, OpFits, Once, InOp, Queued, Prompt

\* A sync up to its act.
LEMMA BeginFacts ==
  ASSUME QueueInv, NEW who \in {"monitor", "main"}, NEW act \in {"peek", "drain", "drop", "look"},
         NEW sel \in Nat, Begin(who, act, sel)
  PROVE  /\ op' \in [by : {"none", "monitor", "main"}, act : {"peek", "drain", "drop", "look"},
                     at : {"loaded", "saved"}, snap : SUBSET Reports, mem : Seq(Reports),
                     got : Seq(Reports), changed : BOOLEAN]
         /\ op'.by = who /\ op'.act = act /\ op'.at = "loaded" /\ op'.snap = reportFiles
         /\ IsInjective(op'.mem) /\ IsInjective(op'.got) /\ ToSet(op'.mem) \cap ToSet(op'.got) = {}
         /\ ToSet(op'.mem) \cup ToSet(op'.got) = ToSet(ledger) \cup reportFiles
         /\ op'.changed <=> op'.got # <<>>
         /\ op'.got # <<>> => act \in {"drain", "drop"}
         /\ (~ op'.changed /\ op'.snap = {}) => op'.mem = ledger
         /\ act \notin {"drain", "drop"} =>
              DOMAIN ledger \subseteq DOMAIN op'.mem /\ \A i \in DOMAIN ledger : op'.mem[i] = ledger[i]
         /\ (act \in {"drain", "drop"} /\ sel # 0 /\ sel \in DOMAIN ledger) => op'.got = <<ledger[sel]>>
<1> DEFINE m == Ingest(ledger, reportFiles)
           takes == act \in {"drain", "drop"}
<1>1. ledger \in Seq(Reports) /\ IsInjective(ledger) /\ reportFiles \in SUBSET Reports
  BY DEF QueueInv, InboxTypeOK, Once
<1>2. IsFiniteSet(reportFiles)
  BY FS_Subset DEF QueueInv, KnownReports, Queued
<1>3. /\ m \in Seq(Reports) /\ IsInjective(m) /\ ToSet(m) = ToSet(ledger) \cup reportFiles
      /\ DOMAIN ledger \subseteq DOMAIN m /\ \A i \in DOMAIN ledger : m[i] = ledger[i]
      /\ reportFiles = {} => m = ledger
  BY <1>1, <1>2, IngestFacts
<1>4. op' = [by |-> who, act |-> act, at |-> "loaded", snap |-> reportFiles,
             mem |-> IF takes THEN Rest(m, sel) ELSE m,
             got |-> IF takes THEN Taken(m, sel) ELSE <<>>,
             changed |-> takes /\ Taken(m, sel) # <<>>]
  BY DEF Begin
<1> HIDE DEF m
<1>5. CASE ~ takes
  BY <1>1, <1>3, <1>4, <1>5, EmptyFacts
<1>6. CASE takes
  <2>1. /\ Taken(m, sel) \in Seq(Reports) /\ Rest(m, sel) \in Seq(Reports)
        /\ IsInjective(Taken(m, sel)) /\ IsInjective(Rest(m, sel))
        /\ ToSet(Taken(m, sel)) \cap ToSet(Rest(m, sel)) = {}
        /\ ToSet(Taken(m, sel)) \cup ToSet(Rest(m, sel)) = ToSet(m)
        /\ (sel # 0 /\ sel \in DOMAIN m) => Taken(m, sel) = <<m[sel]>>
        /\ Taken(m, sel) = <<>> => Rest(m, sel) = m
    BY <1>3, TakeFacts
  <2> QED
    BY <1>1, <1>3, <1>4, <1>6, <2>1
<1> QED
  BY <1>5, <1>6

\* A sync begins: it holds what is queued.
LEMMA BeginKeeps ==
  ASSUME QueueInv, NEW who \in {"monitor", "main"}, NEW act \in {"peek", "drain", "drop", "look"},
         NEW sel \in Nat, Begin(who, act, sel),
         act \in {"drain", "drop"} => who = "main",
         UNCHANGED <<reported, reportFiles, ledger, logged, crashes>>,
         dropLog' = dropLog \/ (act = "drop" /\ dropLog' = dropLog \cup ToSet(op'.got)),
         act = "drop" => ToSet(op'.got) \subseteq dropLog',
         main'.hand = main.hand, main.at \notin {"syncing", "looking"},
         IF who = "monitor" THEN main' = main
         ELSE /\ main' = [main EXCEPT !.at = IF act \in {"drain", "drop"} THEN "syncing" ELSE "looking"]
              /\ main.at # "logging"
  PROVE  QueueInv'
<1>0. /\ op' \in [by : {"none", "monitor", "main"}, act : {"peek", "drain", "drop", "look"},
                  at : {"loaded", "saved"}, snap : SUBSET Reports, mem : Seq(Reports),
                  got : Seq(Reports), changed : BOOLEAN]
      /\ op'.by = who /\ op'.act = act /\ op'.at = "loaded" /\ op'.snap = reportFiles
      /\ IsInjective(op'.mem) /\ IsInjective(op'.got) /\ ToSet(op'.mem) \cap ToSet(op'.got) = {}
      /\ ToSet(op'.mem) \cup ToSet(op'.got) = ToSet(ledger) \cup reportFiles
      /\ op'.changed <=> op'.got # <<>>
      /\ op'.got # <<>> => act \in {"drain", "drop"}
      /\ (~ op'.changed /\ op'.snap = {}) => op'.mem = ledger
  BY BeginFacts
<1>1. InOp' = Queued /\ Queued' = Queued
  BY <1>0 DEF InOp, Queued
<1>2. ToSet(op'.got) \subseteq Queued
  BY <1>0 DEF Queued
<1>3. InboxTypeOK'
  <2>1. main' \in [at : {"prompt", "syncing", "holding", "looking", "matched", "logging"},
                   hand : Seq(Reports), filter : SUBSET Reports, pos : Nat]
    BY DEF QueueInv, InboxTypeOK
  <2>2. Queued \subseteq Reports
    BY DEF QueueInv, KnownReports, InboxTypeOK
  <2> QED
    BY <1>0, <1>2, <2>1, <2>2 DEF QueueInv, InboxTypeOK
<1>4. KnownReports'
  BY <1>0, <1>1, <1>2 DEF QueueInv, KnownReports, Queued
<1>5. MainFits'
  BY <1>0 DEF QueueInv, MainFits, InboxTypeOK, Prompt
<1>6. OpFits'
  BY <1>0, <1>1 DEF OpFits, Queued, InOp
<1>7. Once'
  BY <1>1 DEF QueueInv, Once
<1> QED
  BY <1>3, <1>4, <1>5, <1>6, <1>7 DEF QueueInv

\* The other steps of a sync.
LEMMA SyncKeeps ==
  ASSUME QueueInv, SyncStep
  PROVE  QueueInv'
<1>0. /\ op \in [by : {"none", "monitor", "main"}, act : {"peek", "drain", "drop", "look"},
                 at : {"loaded", "saved"}, snap : SUBSET Reports, mem : Seq(Reports),
                 got : Seq(Reports), changed : BOOLEAN]
      /\ main \in [at : {"prompt", "syncing", "holding", "looking", "matched", "logging"},
                   hand : Seq(Reports), filter : SUBSET Reports, pos : Nat]
      /\ InboxTypeOK /\ KnownReports /\ MainFits /\ OpFits /\ Once
  BY DEF QueueInv, InboxTypeOK
<1>1. CASE Save
  <2>1. /\ op.by # "none" /\ op.at = "loaded" /\ ledger' = op.mem
        /\ op' = [op EXCEPT !.at = "saved"]
        /\ UNCHANGED <<reported, reportFiles, main, logged, dropLog, crashes>>
    BY <1>0, <1>1 DEF Save, OpFits
  <2>2. InOp' = InOp /\ Queued' = reportFiles \cup ToSet(op.mem)
    BY <1>0, <2>1 DEF InOp, Queued
  <2>3. InboxTypeOK'
    BY <1>0, <2>1 DEF InboxTypeOK
  <2>4. KnownReports' /\ MainFits'
    BY <1>0, <2>1, <2>2 DEF KnownReports, MainFits, InOp, Queued
  <2>5. OpFits'
    BY <1>0, <2>1, <2>2 DEF OpFits
  <2>6. Once'
    BY <1>0, <2>1, <2>2 DEF Once, InOp, Queued, OpFits
  <2> QED
    BY <2>3, <2>4, <2>5, <2>6 DEF QueueInv
<1>2. CASE RemoveFile
  <2>1. PICK f \in op.snap : /\ op.by # "none" /\ op.at = "saved"
                             /\ reportFiles' = reportFiles \ {f}
                             /\ op' = [op EXCEPT !.snap = @ \ {f}]
    BY <1>0, <1>2, MinOf DEF RemoveFile
  <2>2. UNCHANGED <<reported, ledger, main, logged, dropLog, crashes>>
    BY <1>2 DEF RemoveFile
  <2>3. InOp' = InOp /\ Queued' \subseteq Queued
    BY <1>0, <2>1, <2>2 DEF InOp, Queued
  <2>4. InboxTypeOK'
    BY <1>0, <2>1, <2>2 DEF InboxTypeOK
  <2>5. KnownReports' /\ MainFits'
    BY <1>0, <2>1, <2>2, <2>3 DEF KnownReports, MainFits
  <2>6. OpFits'
    BY <1>0, <2>1, <2>2, <2>3 DEF OpFits
  <2>7. Once'
    BY <1>0, <2>1, <2>2, <2>3 DEF Once
  <2> QED
    BY <2>4, <2>5, <2>6, <2>7 DEF QueueInv
<1>3. CASE EndSync
  <2>1. /\ op.by # "none" /\ op.at = "saved" /\ op.snap = {} /\ op' = NoOp
        /\ UNCHANGED <<reported, reportFiles, ledger, logged, dropLog, crashes>>
    BY <1>3 DEF EndSync
  <2>2. InOp' = {} /\ Queued' = Queued /\ op'.by = "none" /\ op'.snap = {} /\ op'.act = "peek"
    BY <2>1, NoOpFacts DEF InOp, Queued
  <2>3. op' \in [by : {"none", "monitor", "main"}, act : {"peek", "drain", "drop", "look"},
                 at : {"loaded", "saved"}, snap : SUBSET Reports, mem : Seq(Reports),
                 got : Seq(Reports), changed : BOOLEAN]
    BY <2>1, EmptyFacts DEF NoOp
  <2>4. OpFits'
    BY <2>1, <2>2 DEF OpFits
  <2>5. \/ main' = main /\ op.by = "monitor"
        \/ /\ main' \in [at : {"holding", "matched", "prompt"}, hand : {main.hand, <<>>},
                         filter : SUBSET Reports, pos : Nat]
           /\ main'.at = "prompt" => main' = Prompt
           /\ op.by = "main"
        \/ /\ main' = [Prompt EXCEPT !.at = "logging", !.hand = op.got, !.filter = main.filter]
           /\ op.by = "main"
    <3>1. CASE op.by # "main"
      BY <1>0, <1>3, <2>1, <3>1 DEF EndSync
    <3>2. CASE op.by = "main" /\ op.act = "drain"
      BY <1>3, <3>2 DEF EndSync, Return
    <3>3. CASE op.by = "main" /\ op.act = "drop"
      BY <1>0, <1>3, <3>3 DEF EndSync, Return, Prompt
    <3>4. CASE op.by = "main" /\ op.act \notin {"drain", "drop"}
      <4> DEFINE pos == FirstMatch(op.mem, main.filter)
      <4>1. pos \in Nat
        <5>1. pos = 0 \/ pos \in DOMAIN op.mem
          BY <1>0, MatchFacts
        <5> QED
          BY <1>0, <5>1
      <4>2. main' = IF pos = 0 THEN [main EXCEPT !.at = "holding"]
                    ELSE [main EXCEPT !.at = "matched", !.pos = pos]
        BY <1>3, <3>4 DEF EndSync, Return
      <4> HIDE DEF pos
      <4> QED
        BY <1>0, <3>4, <4>1, <4>2
    <3> QED
      BY <3>1, <3>2, <3>3, <3>4
  <2>6. main' \in [at : {"prompt", "syncing", "holding", "looking", "matched", "logging"},
                   hand : Seq(Reports), filter : SUBSET Reports, pos : Nat]
    <3>1. <<>> \in Seq(Reports) /\ {} \in SUBSET Reports /\ op.got \in Seq(Reports)
      BY <1>0, EmptyFacts
    <3>2. CASE main' = main
      BY <1>0, <3>2
    <3>3. CASE main' \in [at : {"holding", "matched", "prompt"}, hand : {main.hand, <<>>},
                         filter : SUBSET Reports, pos : Nat]
      BY <1>0, <3>1, <3>3
    <3>4. CASE main' = [Prompt EXCEPT !.at = "logging", !.hand = op.got, !.filter = main.filter]
      BY <1>0, <3>1, <3>4 DEF Prompt
    <3> QED
      BY <2>5, <3>2, <3>3, <3>4
  <2>7. InboxTypeOK'
    BY <1>0, <2>1, <2>3, <2>6 DEF InboxTypeOK
  <2>8. ToSet(main'.hand) \cap Queued = {} /\ IsInjective(main'.hand)
        /\ ToSet(main'.hand) \subseteq ToSet(main.hand) \cup InOp
    <3>1. CASE main'.hand \in {main.hand, <<>>}
      BY <1>0, <3>1, EmptyFacts DEF Once
    <3>2. CASE main'.hand = op.got
      BY <1>0, <2>1, <3>2 DEF OpFits, InOp, Queued
    <3> QED
      BY <2>5, <3>1, <3>2 DEF Prompt
  <2>9. KnownReports'
    BY <1>0, <2>1, <2>2, <2>8 DEF KnownReports
  <2>10. MainFits'
    BY <1>0, <2>1, <2>2, <2>5 DEF MainFits, Prompt
  <2>11. Once'
    BY <1>0, <2>1, <2>2, <2>8 DEF Once
  <2> QED
    BY <2>4, <2>7, <2>9, <2>10, <2>11 DEF QueueInv
<1> QED
  BY <1>1, <1>2, <1>3 DEF SyncStep

LEMMA QueueStep == QueueInv /\ [InboxNext]_inboxVars => QueueInv'
<1> SUFFICES ASSUME QueueInv, [InboxNext]_inboxVars PROVE QueueInv'
  OBVIOUS
<1>0. /\ main \in [at : {"prompt", "syncing", "holding", "looking", "matched", "logging"},
                   hand : Seq(Reports), filter : SUBSET Reports, pos : Nat]
      /\ InboxTypeOK /\ KnownReports /\ MainFits /\ OpFits /\ Once
  BY DEF QueueInv, InboxTypeOK
<1>1. ASSUME NEW r \in Reports, Post(r) PROVE QueueInv'
  <2>1. /\ r \notin reported /\ reported' = reported \cup {r} /\ reportFiles' = reportFiles \cup {r}
        /\ UNCHANGED <<ledger, op, main, logged, dropLog, crashes>>
    BY <1>1 DEF Post
  <2>2. InboxTypeOK' /\ MainFits'
    BY <1>0, <2>1 DEF InboxTypeOK, MainFits
  <2>3. InOp' = InOp /\ Queued' = Queued \cup {r}
    BY <2>1 DEF InOp, Queued
  <2>4. KnownReports'
    <3>1. IsFiniteSet(reported')
      BY <1>0, <2>1, FS_AddElement DEF KnownReports
    <3> QED
      BY <1>0, <2>1, <2>3, <3>1 DEF KnownReports
  <2>5. OpFits'
    BY <1>0, <2>1, <2>3 DEF OpFits, KnownReports
  <2>6. Once'
    BY <1>0, <2>1, <2>3 DEF Once, KnownReports
  <2> QED
    BY <2>2, <2>4, <2>5, <2>6 DEF QueueInv
<1>2. CASE MonitorPeek
  <2>1. main.at \notin {"syncing", "looking"}
    BY <1>0, <1>2 DEF MonitorPeek, Begin, MainFits
  <2> QED
    BY <1>2, <2>1, BeginKeeps DEF MonitorPeek
<1>3. ASSUME NEW sel \in {0} \cup Positions, MainDrain(sel) \/ MainDrop(sel) PROVE QueueInv'
  <2>1. sel \in Nat
    BY DEF Positions
  <2>2. main.at = "prompt" /\ main' = [main EXCEPT !.at = "syncing"]
    BY <1>3 DEF MainDrain, MainDrop
  <2>3. CASE MainDrain(sel)
    BY <1>0, <2>1, <2>2, <2>3, BeginKeeps DEF MainDrain
  <2>4. CASE MainDrop(sel)
    BY <1>0, <2>1, <2>2, <2>4, BeginKeeps DEF MainDrop
  <2> QED
    BY <1>3, <2>3, <2>4
<1>4. CASE HoldLook
  BY <1>0, <1>4, BeginKeeps DEF HoldLook
<1>5. CASE DrainHeld
  <2>1. main.pos \in Nat
    BY <1>0
  <2> QED
    BY <1>0, <1>5, <2>1, BeginKeeps DEF DrainHeld
<1>6. ASSUME NEW filter \in SUBSET Reports, StartHold(filter) PROVE QueueInv'
  <2>1. /\ main.at = "prompt" /\ main' = [main EXCEPT !.at = "holding", !.filter = filter]
        /\ UNCHANGED <<reported, reportFiles, ledger, op, logged, dropLog, crashes>>
    BY <1>6 DEF StartHold
  <2>2. InboxTypeOK' /\ KnownReports' /\ MainFits' /\ OpFits' /\ Once'
    BY <1>0, <2>1 DEF InboxTypeOK, KnownReports, MainFits, OpFits, Once, InOp, Queued
  <2> QED
    BY <2>2 DEF QueueInv
<1>7. CASE LeaveHold \/ EndTurn
  <2>1. /\ main.at \in {"holding", "logging"} /\ main.hand = <<>> /\ main' = Prompt
        /\ UNCHANGED <<reported, reportFiles, ledger, op, logged, dropLog, crashes>>
    BY <1>0, <1>7 DEF LeaveHold, EndTurn, MainFits
  <2>2. Prompt.hand = <<>> /\ Prompt.at = "prompt" /\ ToSet(Prompt.hand) = {}
    BY EmptyFacts DEF Prompt
  <2>3. InboxTypeOK'
    BY <1>0, <2>1, EmptyFacts DEF InboxTypeOK, Prompt
  <2>4. KnownReports' /\ OpFits' /\ Once'
    BY <1>0, <2>1, <2>2 DEF KnownReports, OpFits, Once, InOp, Queued
  <2>5. MainFits'
    BY <1>0, <2>1, <2>2 DEF MainFits
  <2> QED
    BY <2>3, <2>4, <2>5 DEF QueueInv
<1>8. CASE LogReport
  <2>1. /\ main.at = "logging" /\ main.hand # <<>>
        /\ logged' = Append(logged, Head(main.hand))
        /\ main' = [main EXCEPT !.hand = Tail(@)]
        /\ UNCHANGED <<reported, reportFiles, ledger, op, dropLog, crashes>>
    BY <1>8 DEF LogReport
  <2>2. /\ Head(main.hand) \in Reports /\ Tail(main.hand) \in Seq(Reports) /\ IsInjective(Tail(main.hand))
        /\ ToSet(main.hand) = {Head(main.hand)} \cup ToSet(Tail(main.hand))
        /\ Head(main.hand) \notin ToSet(Tail(main.hand))
    BY <1>0, <2>1, HeadFacts DEF Once
  <2>3. Head(main.hand) \notin ToSet(logged)
    BY <1>0, <2>2 DEF Once
  <2>4. logged' \in Seq(Reports) /\ IsInjective(logged') /\ ToSet(logged') = ToSet(logged) \cup {Head(main.hand)}
    BY <1>0, <2>1, <2>2, <2>3, AppendFacts DEF Once, InboxTypeOK
  <2>5. main'.hand = Tail(main.hand) /\ main'.at = "logging"
    BY <1>0, <2>1
  <2>6. InboxTypeOK' /\ MainFits' /\ OpFits'
    BY <1>0, <2>1, <2>2, <2>4, <2>5 DEF InboxTypeOK, MainFits, OpFits, InOp
  <2>7. KnownReports' /\ Once'
    BY <1>0, <2>1, <2>2, <2>4, <2>5 DEF KnownReports, Once, InOp, Queued
  <2> QED
    BY <2>6, <2>7 DEF QueueInv
<1>9. CASE Crash
  <2>1. /\ op' = NoOp /\ main' = Prompt /\ crashes < MaxCrashes /\ crashes' = crashes + 1
        /\ UNCHANGED <<reported, reportFiles, ledger, logged, dropLog>>
    BY <1>9 DEF Crash
  <2>2. /\ Prompt.hand = <<>> /\ Prompt.at = "prompt" /\ ToSet(Prompt.hand) = {}
        /\ InOp' = {} /\ Queued' = Queued
    BY <2>1, EmptyFacts, NoOpFacts DEF Prompt, InOp, Queued
  <2>3. InboxTypeOK'
    BY <1>0, <2>1, EmptyFacts DEF InboxTypeOK, Prompt, NoOp
  <2>4. KnownReports' /\ OpFits' /\ Once' /\ MainFits'
    BY <1>0, <2>1, <2>2, EmptyFacts, NoOpFacts DEF KnownReports, OpFits, Once, MainFits
  <2> QED
    BY <2>3, <2>4 DEF QueueInv
<1>10. CASE UNCHANGED inboxVars
  <2>1. InboxTypeOK' /\ KnownReports' /\ MainFits' /\ OpFits' /\ Once'
    BY <1>0, <1>10 DEF inboxVars, InboxTypeOK, KnownReports, MainFits, OpFits, Once, InOp, Queued
  <2> QED
    BY <2>1 DEF QueueInv
<1> QED
  BY <1>1, <1>2, <1>3, <1>4, <1>5, <1>6, <1>7, <1>8, <1>9, <1>10, SyncKeeps
     DEF InboxNext, MainStep, Positions

\* The types of the inbox, its ledger, the sync under way and the main loop.
THEOREM InboxTypes == InboxSpec => []InboxTypeOK
<1>1. QueueInv => InboxTypeOK
  BY DEF QueueInv
<1> QED
  BY <1>1, QueueInit, QueueStep, PTL DEF InboxSpec

\* No report is sent to main twice, and none is queued once it is sent, for
\* any number of reports, syncs of either thread, and crashes at any step.
THEOREM NoReportTwice == InboxSpec => []SentOnce
<1>1. QueueInv => SentOnce
  BY DEF QueueInv, Once, SentOnce
<1> QED
  BY <1>1, QueueInit, QueueStep, PTL DEF InboxSpec

(***************************************************************************)
(* Nothing is lost.                                                        *)
(***************************************************************************)
\* A step takes a queued report only into the hand of the main loop or, with
\* its line in the drop log, out of the queue.
LEMMA DurableStep ==
  QueueInv /\ [InboxNext]_inboxVars => Queued \subseteq Queued' \cup InHand' \cup dropLog'
<1> SUFFICES ASSUME QueueInv, [InboxNext]_inboxVars
             PROVE  Queued \subseteq Queued' \cup InHand' \cup dropLog'
  OBVIOUS
<1>0. /\ op \in [by : {"none", "monitor", "main"}, act : {"peek", "drain", "drop", "look"},
                 at : {"loaded", "saved"}, snap : SUBSET Reports, mem : Seq(Reports),
                 got : Seq(Reports), changed : BOOLEAN]
      /\ MainFits /\ OpFits
  BY DEF QueueInv, InboxTypeOK
<1>1. CASE Save
  <2>1. /\ op.by # "none" /\ op.at = "loaded" /\ ledger' = op.mem
        /\ op' = [op EXCEPT !.at = "saved"] /\ UNCHANGED <<reportFiles, dropLog>>
    BY <1>0, <1>1 DEF Save, OpFits
  <2>2. ToSet(ledger) \subseteq ToSet(op.mem) \cup ToSet(op.got)
    BY <1>0, <2>1 DEF OpFits, InOp
  <2>3. CASE op.got = <<>>
    BY <2>1, <2>2, <2>3, EmptyFacts DEF Queued
  <2>4. CASE op.got # <<>> /\ op.act = "drain"
    <3>1. op'.by = "main" /\ op'.act = "drain" /\ op'.at = "saved" /\ op'.got = op.got
      BY <1>0, <2>1, <2>4 DEF MainFits
    <3> QED
      BY <2>1, <2>2, <3>1 DEF Queued, InHand
  <2>5. CASE op.got # <<>> /\ op.act = "drop"
    BY <1>0, <2>1, <2>2, <2>5 DEF OpFits, Queued
  <2> QED
    BY <1>0, <2>1, <2>3, <2>4, <2>5 DEF OpFits
<1>2. CASE RemoveFile
  <2>1. PICK f \in op.snap : /\ op.by # "none" /\ op.at = "saved"
                             /\ reportFiles' = reportFiles \ {f}
                             /\ op' = [op EXCEPT !.snap = @ \ {f}]
    BY <1>0, <1>2, MinOf DEF RemoveFile
  <2>2. UNCHANGED <<ledger, dropLog>>
    BY <1>2 DEF RemoveFile
  <2>3. f \in ToSet(ledger) \/ f \in ToSet(op.got)
    BY <1>0, <2>1 DEF OpFits, InOp
  <2>4. CASE f \in ToSet(ledger)
    BY <2>1, <2>2, <2>4 DEF Queued
  <2>5. CASE f \in ToSet(op.got) /\ op.act = "drain"
    <3>1. op'.by = "main" /\ op'.act = "drain" /\ op'.at = "saved" /\ op'.got = op.got
      BY <1>0, <2>1, <2>5 DEF MainFits
    <3> QED
      BY <2>1, <2>2, <2>5, <3>1 DEF Queued, InHand
  <2>6. CASE f \in ToSet(op.got) /\ op.act = "drop"
    BY <1>0, <2>1, <2>2, <2>6 DEF OpFits, Queued
  <2>7. op.got = <<>> => f \notin ToSet(op.got)
    BY EmptyFacts
  <2> QED
    BY <1>0, <2>1, <2>3, <2>4, <2>5, <2>6, <2>7 DEF OpFits
<1>3. CASE ~ Save /\ ~ RemoveFile
  <2>1. Queued \subseteq Queued'
    BY <1>3 DEF InboxNext, MainStep, SyncStep, Post, MonitorPeek, MainDrain, MainDrop, StartHold, HoldLook,
       LeaveHold, DrainHeld, LogReport, EndTurn, EndSync, Crash, Queued, inboxVars
  <2> QED
    BY <2>1
<1> QED
  BY <1>1, <1>2, <1>3

\* The queue is durable: with any number of reports, at every step and every
\* crash.
THEOREM QueueStays == InboxSpec => QueueIsDurable
<1>1. QueueInv /\ [InboxNext]_inboxVars => [Queued \subseteq Queued' \cup InHand' \cup dropLog']_inboxVars
  BY DurableStep
<1> QED
  BY <1>1, QueueInit, QueueStep, PTL DEF InboxSpec, QueueIsDurable

\* A report that was taken stays in hand until it is logged, if the chat lives.
LEMMA HandStep ==
  ASSUME QueueInv, [InboxNext]_inboxVars, ~ Crash
  PROVE  InHand \subseteq InHand' \cup ToSet(logged')
<1>0. /\ op \in [by : {"none", "monitor", "main"}, act : {"peek", "drain", "drop", "look"},
                 at : {"loaded", "saved"}, snap : SUBSET Reports, mem : Seq(Reports),
                 got : Seq(Reports), changed : BOOLEAN]
      /\ main \in [at : {"prompt", "syncing", "holding", "looking", "matched", "logging"},
                   hand : Seq(Reports), filter : SUBSET Reports, pos : Nat]
      /\ MainFits /\ OpFits /\ Once /\ logged \in Seq(Reports)
  BY DEF QueueInv, InboxTypeOK
<1>1. CASE LogReport
  <2>1. /\ main.hand # <<>> /\ logged' = Append(logged, Head(main.hand))
        /\ main'.hand = Tail(main.hand) /\ UNCHANGED op
    BY <1>0, <1>1 DEF LogReport
  <2>2. /\ Head(main.hand) \in Reports
        /\ ToSet(main.hand) = {Head(main.hand)} \cup ToSet(Tail(main.hand))
    BY <1>0, <2>1, HeadFacts DEF Once
  <2>3. Head(main.hand) \notin ToSet(logged)
    BY <1>0, <2>2 DEF Once
  <2>4. ToSet(logged') = ToSet(logged) \cup {Head(main.hand)}
    BY <1>0, <2>1, <2>2, <2>3, AppendFacts DEF Once
  <2> QED
    BY <2>1, <2>2, <2>4 DEF InHand
<1>2. CASE EndSync
  <2>1. CASE op.by = "main" /\ op.act = "drain"
    <3>1. main'.hand = op.got
      BY <1>2, <2>1 DEF EndSync, Return, Prompt
    <3>2. main.hand = <<>>
      BY <1>0, <2>1 DEF MainFits
    <3> QED
      BY <3>1, <3>2, EmptyFacts DEF InHand
  <2>2. CASE op.by = "main" /\ op.act # "drain"
    <3>1. main.hand = <<>>
      BY <1>0, <2>2 DEF MainFits
    <3> QED
      BY <2>2, <3>1, EmptyFacts DEF InHand
  <2>3. CASE op.by # "main"
    BY <1>2, <2>3 DEF EndSync, InHand
  <2> QED
    BY <2>1, <2>2, <2>3
<1>3. CASE LeaveHold \/ EndTurn
  <2>1. main.hand = <<>> /\ UNCHANGED op
    BY <1>0, <1>3 DEF LeaveHold, EndTurn, MainFits
  <2> QED
    BY <2>1, EmptyFacts DEF InHand
<1>4. CASE Save \/ RemoveFile
  <2>1. op'.by = op.by /\ op'.act = op.act /\ op'.got = op.got /\ op'.at = "saved" /\ main' = main
    BY <1>0, <1>4 DEF Save, RemoveFile
  <2> QED
    BY <2>1 DEF InHand
<1>5. ASSUME op.by = "none", main'.hand = main.hand PROVE InHand \subseteq InHand' \cup ToSet(logged')
  BY <1>5 DEF InHand
<1>6. CASE MonitorPeek \/ HoldLook \/ DrainHeld \/ (\E sel \in {0} \cup Positions : MainDrain(sel) \/ MainDrop(sel))
  <2>1. op.by = "none" /\ main'.hand = main.hand
    BY <1>0, <1>6 DEF MonitorPeek, HoldLook, DrainHeld, MainDrain, MainDrop, Begin
  <2> QED
    BY <1>5, <2>1
<1>7. CASE (\E filter \in SUBSET Reports : StartHold(filter)) \/ (\E r \in Reports : Post(r)) \/ UNCHANGED inboxVars
  <2>1. UNCHANGED op /\ main'.hand = main.hand
    BY <1>0, <1>7 DEF StartHold, Post, inboxVars
  <2> QED
    BY <2>1 DEF InHand
<1> QED
  BY <1>1, <1>2, <1>3, <1>4, <1>6, <1>7 DEF InboxNext, MainStep, SyncStep

\* As long as the chat does not die, every report that was posted is queued,
\* in hand, in main's log or in the drop log.
THEOREM NoneLostAlive == InboxSpec => []LostOnlyByCrash
<1>1. InboxInit => LostOnlyByCrash
  BY DEF InboxInit, LostOnlyByCrash
<1>2. QueueInv /\ LostOnlyByCrash /\ [InboxNext]_inboxVars => LostOnlyByCrash'
  <2> SUFFICES ASSUME QueueInv, LostOnlyByCrash, [InboxNext]_inboxVars, crashes' = 0
               PROVE  reported' \subseteq Queued' \cup InHand' \cup ToSet(logged') \cup dropLog'
    BY DEF LostOnlyByCrash
  <2>1. crashes = 0 /\ ~ Crash
    <3>1. crashes \in Nat
      BY DEF QueueInv, InboxTypeOK
    <3>2. crashes' = crashes \/ crashes' = crashes + 1
      BY DEF InboxNext, MainStep, SyncStep, Post, MonitorPeek, MainDrain, MainDrop, StartHold, HoldLook,
         LeaveHold, DrainHeld, LogReport, EndTurn, EndSync, Save, RemoveFile, Crash, inboxVars
    <3> QED
      BY <3>1, <3>2 DEF Crash
  <2>2. Queued \subseteq Queued' \cup InHand' \cup dropLog'
    BY DurableStep
  <2>3. InHand \subseteq InHand' \cup ToSet(logged')
    BY <2>1, HandStep
  <2>4. dropLog \subseteq dropLog'
    BY DEF InboxNext, MainStep, SyncStep, Post, MonitorPeek, MainDrain, MainDrop, StartHold, HoldLook,
       LeaveHold, DrainHeld, LogReport, EndTurn, EndSync, Save, RemoveFile, Crash, inboxVars
  <2>5. ToSet(logged) \subseteq ToSet(logged')
    <3>1. CASE LogReport
      <4>1. /\ main.hand # <<>> /\ logged' = Append(logged, Head(main.hand))
            /\ logged \in Seq(Reports) /\ main.hand \in Seq(Reports)
            /\ IsInjective(main.hand) /\ IsInjective(logged)
            /\ ToSet(logged) \cap ToSet(main.hand) = {}
        BY <3>1 DEF LogReport, QueueInv, InboxTypeOK, Once
      <4>2. Head(main.hand) \in Reports /\ Head(main.hand) \in ToSet(main.hand)
        BY <4>1, HeadFacts
      <4> QED
        BY <4>1, <4>2, AppendFacts
    <3>2. CASE ~ LogReport
      BY <3>2 DEF InboxNext, MainStep, SyncStep, Post, MonitorPeek, MainDrain, MainDrop, StartHold, HoldLook,
         LeaveHold, DrainHeld, EndTurn, EndSync, Save, RemoveFile, Crash, inboxVars
    <3> QED
      BY <3>1, <3>2
  <2>6. reported' \subseteq reported \cup Queued'
    BY DEF InboxNext, MainStep, SyncStep, Post, MonitorPeek, MainDrain, MainDrop, StartHold, HoldLook,
       LeaveHold, DrainHeld, LogReport, EndTurn, EndSync, Save, RemoveFile, Crash, inboxVars, Queued
  <2> QED
    BY <2>1, <2>2, <2>3, <2>4, <2>5, <2>6 DEF LostOnlyByCrash
<1> QED
  BY <1>1, <1>2, QueueInit, QueueStep, PTL DEF InboxSpec

(***************************************************************************)
(* /hold.  What the look found is still at its place when it is drained,   *)
(* whatever the monitor saved in between.                                  *)
(***************************************************************************)
HoldFits ==
  /\ main.at = "matched" =>
       /\ main.pos \in DOMAIN ledger /\ ledger[main.pos] \in main.filter
       /\ op.by # "none" => main.pos \in DOMAIN op.mem /\ op.mem[main.pos] = ledger[main.pos]
  /\ (main.at = "syncing" /\ main.filter # {}) =>
       /\ op.act = "drain" /\ Len(op.got) = 1 /\ ToSet(op.got) \subseteq main.filter
       /\ op.got \in Seq(Reports)

LEMMA HoldStep == QueueInv /\ QueueInv' /\ HoldFits /\ [InboxNext]_inboxVars => HoldFits'
<1> SUFFICES ASSUME QueueInv, HoldFits, [InboxNext]_inboxVars PROVE HoldFits'
  OBVIOUS
<1>0. /\ op \in [by : {"none", "monitor", "main"}, act : {"peek", "drain", "drop", "look"},
                 at : {"loaded", "saved"}, snap : SUBSET Reports, mem : Seq(Reports),
                 got : Seq(Reports), changed : BOOLEAN]
      /\ main \in [at : {"prompt", "syncing", "holding", "looking", "matched", "logging"},
                   hand : Seq(Reports), filter : SUBSET Reports, pos : Nat]
      /\ ledger \in Seq(Reports)
      /\ MainFits /\ OpFits
  BY DEF QueueInv, InboxTypeOK
<1>1. CASE MonitorPeek
  <2>1. main' = main /\ ledger' = ledger /\ main.at \notin {"syncing", "looking"}
    BY <1>0, <1>1 DEF MonitorPeek, Begin, MainFits
  <2>2. DOMAIN ledger \subseteq DOMAIN op'.mem /\ \A i \in DOMAIN ledger : op'.mem[i] = ledger[i]
    BY <1>1, BeginFacts DEF MonitorPeek
  <2> QED
    BY <2>1, <2>2 DEF HoldFits
<1>2. CASE DrainHeld
  <2>1. /\ main.at = "matched" /\ Begin("main", "drain", main.pos) /\ main.pos \in Nat
        /\ main' = [main EXCEPT !.at = "syncing"]
    BY <1>0, <1>2 DEF DrainHeld
  <2>2. main.pos \in DOMAIN ledger /\ main.pos # 0 /\ ledger[main.pos] \in main.filter
    BY <1>0, <2>1 DEF HoldFits
  <2>3. op'.act = "drain" /\ op'.got = <<ledger[main.pos]>>
    BY <2>1, <2>2, BeginFacts
  <2>4. Len(op'.got) = 1 /\ ToSet(op'.got) = {ledger[main.pos]} /\ op'.got \in Seq(Reports)
    BY <1>0, <2>2, <2>3 DEF ToSet
  <2>5. main'.at = "syncing" /\ main'.filter = main.filter
    BY <1>0, <2>1
  <2> QED
    BY <2>2, <2>3, <2>4, <2>5 DEF HoldFits
<1>3. CASE Save
  <2>1. ledger' = op.mem /\ op'.mem = op.mem /\ op'.got = op.got /\ op'.act = op.act /\ op'.by = op.by
        /\ op.by # "none" /\ main' = main
    BY <1>0, <1>3 DEF Save, OpFits
  <2> QED
    BY <2>1 DEF HoldFits
<1>4. CASE RemoveFile
  <2>1. ledger' = ledger /\ op'.mem = op.mem /\ op'.got = op.got /\ op'.act = op.act /\ op'.by = op.by
        /\ main' = main
    BY <1>0, <1>4 DEF RemoveFile
  <2> QED
    BY <2>1 DEF HoldFits
<1>5. CASE EndSync
  <2>0. /\ op.by # "none" /\ op.at = "saved" /\ op'.by = "none" /\ ledger' = ledger /\ ledger = op.mem
        /\ main' = IF op.by = "main" THEN Return(op.mem) ELSE main
    BY <1>0, <1>5, NoOpFacts DEF EndSync, OpFits
  <2>1. CASE op.by # "main"
    <3>1. main' = main /\ main.at # "syncing"
      BY <1>0, <2>0, <2>1 DEF MainFits
    <3> QED
      BY <2>0, <3>1 DEF HoldFits
  <2>2. CASE op.by = "main" /\ op.act \in {"drain", "drop"}
    <3>1. main'.at \in {"logging", "prompt"}
      BY <1>0, <2>0, <2>2 DEF Return, Prompt
    <3> QED
      BY <3>1 DEF HoldFits
  <2>3. CASE op.by = "main" /\ op.act \notin {"drain", "drop"}
    <3> DEFINE pos == FirstMatch(op.mem, main.filter)
    <3>1. pos = 0 \/ (pos \in DOMAIN op.mem /\ op.mem[pos] \in main.filter)
      BY <1>0, MatchFacts
    <3>2. main' = IF pos = 0 THEN [main EXCEPT !.at = "holding"]
                  ELSE [main EXCEPT !.at = "matched", !.pos = pos]
      BY <2>0, <2>3 DEF Return
    <3> HIDE DEF pos
    <3> QED
      BY <1>0, <2>0, <3>1, <3>2 DEF HoldFits
  <2> QED
    BY <2>1, <2>2, <2>3
<1>6. ASSUME NEW sel \in {0} \cup Positions, MainDrain(sel) \/ MainDrop(sel) PROVE HoldFits'
  <2>1. main = Prompt /\ main' = [main EXCEPT !.at = "syncing"]
    BY <1>0, <1>6 DEF MainDrain, MainDrop, MainFits
  <2>2. main'.at = "syncing" /\ main'.filter = {}
    BY <2>1 DEF Prompt
  <2> QED
    BY <2>2 DEF HoldFits
<1>7. CASE HoldLook \/ LeaveHold \/ LogReport \/ EndTurn \/ Crash \/ (\E filter \in SUBSET Reports : StartHold(filter))
  <2>1. main'.at \notin {"matched", "syncing"}
    <3>1. CASE HoldLook \/ (\E filter \in SUBSET Reports : StartHold(filter))
      BY <1>0, <3>1 DEF HoldLook, StartHold
    <3>2. CASE LogReport
      BY <1>0, <3>2 DEF LogReport
    <3>3. CASE LeaveHold \/ EndTurn \/ Crash
      BY <3>3 DEF LeaveHold, EndTurn, Crash, Prompt
    <3> QED
      BY <1>7, <3>1, <3>2, <3>3
  <2> QED
    BY <2>1 DEF HoldFits
<1>8. CASE (\E r \in Reports : Post(r)) \/ UNCHANGED inboxVars
  BY <1>8 DEF Post, inboxVars, HoldFits
<1> QED
  BY <1>1, <1>2, <1>3, <1>4, <1>5, <1>6, <1>7, <1>8 DEF InboxNext, MainStep, SyncStep

\* A hold sends one report, and one its filter matches.
THEOREM HoldsAreExact == InboxSpec => HoldSendsAMatch
<1>1. InboxInit => HoldFits
  BY DEF InboxInit, HoldFits, Prompt
<1>2. QueueInv /\ HoldFits /\ [InboxNext]_inboxVars =>
        [main.at = "syncing" /\ main.filter # {} /\ main'.at = "logging" =>
           Len(main'.hand) = 1 /\ ToSet(main'.hand) \subseteq main.filter]_inboxVars
  <2> SUFFICES ASSUME QueueInv, HoldFits, InboxNext, main.at = "syncing", main.filter # {}, main'.at = "logging"
               PROVE  Len(main'.hand) = 1 /\ ToSet(main'.hand) \subseteq main.filter
    BY DEF inboxVars
  <2>1. /\ main \in [at : {"prompt", "syncing", "holding", "looking", "matched", "logging"},
                     hand : Seq(Reports), filter : SUBSET Reports, pos : Nat]
        /\ MainFits
    BY DEF QueueInv, InboxTypeOK
  <2>2. EndSync
    BY <2>1 DEF InboxNext, MainStep, SyncStep, Post, MonitorPeek, MainDrain, MainDrop, StartHold, HoldLook,
       LeaveHold, DrainHeld, LogReport, EndTurn, Save, RemoveFile, Crash, Prompt
  <2>3. op.by = "main" /\ op.act = "drain"
    BY <2>1 DEF MainFits, HoldFits
  <2>4. main'.hand = op.got
    BY <2>2, <2>3 DEF EndSync, Return, Prompt
  <2> QED
    BY <2>4 DEF HoldFits
<1> QED
  BY <1>1, <1>2, QueueInit, QueueStep, HoldStep, PTL DEF InboxSpec, HoldSendsAMatch
=============================================================================
