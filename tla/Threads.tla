------------------------------- MODULE Threads -------------------------------
(***************************************************************************)
(* One chat thread of a store: its folder <store>/threads/<name>, the      *)
(* shell verbs `ralph thread merge | park | revive | pull | drop` and the  *)
(* chat `ralph chat --thread <name>`, each run by a process of its own     *)
(* (crates/ralph/src/chat/thread.rs, crates/core/src/chat_thread.rs).      *)
(*                                                                         *)
(* A verb reads thread.json and the guards first, takes the claim (a file  *)
(* lock on CHAT) next, and writes the meta it read, changed, last.         *)
(* fs::write truncates before it writes, so a crash leaves a torn file.    *)
(* A file lock belongs to an inode: dropping the folder unlinks CHAT, and  *)
(* a process that had it open still locks the inode that is gone.          *)
(*                                                                         *)
(* Threads share no file but main's log and inbox, so one is modelled.     *)
(***************************************************************************)
EXTENDS Naturals

CONSTANTS
  Procs,      \* processes that run ralph on this store
  Can,        \* what each process may run: a set of Activities
  Crashing,   \* the processes that may be killed or fail half-way
  MaxLive,    \* bound: saved records, and running workers, of the thread
  MaxLog,     \* bound: length of main's log
  MaxInodes,  \* bound: CHAT files ever created
  MaxPosts    \* bound: digests posted to main's inbox

Verbs == {"merge", "park", "revive", "pull", "drop"}
Activities == Verbs \cup {"chat"}

ASSUME ThreadsAssumption ==
  /\ Can \in [Procs -> SUBSET Activities]
  /\ Crashing \subseteq Procs
  /\ MaxLive \in Nat /\ MaxLog \in Nat /\ MaxInodes \in Nat /\ MaxPosts \in Nat

VARIABLES
  meta,      \* thread.json
  chatFile,  \* the inode at CHAT, 0 when there is none
  inodes,    \* CHAT inodes created so far
  records,   \* saved watches and schedules in the folder
  workers,   \* running workers of the thread
  mainLog,   \* length of main's log
  posted,    \* digests of this thread in main's inbox
  proc       \* the local state of each process

vars == <<meta, chatFile, inodes, records, workers, mainLog, posted, proc>>

\* ThreadMeta. `merged` and `parked` are one field: no meta has both, since
\* merge clears `parked` and park refuses a meta that is merged.
Meta == [file : {"none", "torn", "whole"}, base : Nat,
         life : {"open", "parked", "merged"}]
Whole(base) == [file |-> "whole", base |-> base, life |-> "open"]
NoMeta == [Whole(0) EXCEPT !.file = "none"]
TornMeta == [Whole(0) EXCEPT !.file = "torn"]

Places == {"idle", "started", "checked", "opened", "claimed", "truncated",
           "written", "dropping", "chatting"}
Parts == {"meta", "chat", "records"}
Proc == [at : Places, verb : Activities, ran : Nat, seen : Meta,
         fd : Nat, new : Meta, left : SUBSET Parts]
Idle == [at |-> "idle", verb |-> "chat", ran |-> 0, seen |-> NoMeta,
         fd |-> 0, new |-> NoMeta, left |-> {}]

\* The places where a process owns the lock on its CHAT inode.
Holding == {"claimed", "truncated", "written", "dropping", "chatting"}
Holds(p) == proc[p].at \in Holding

Merged(m) == m.file = "whole" /\ m.life = "merged"
OpenThread(m) == m.file = "whole" /\ m.life = "open"

\* FAULT: drop forgets merged_check.
MetaAllowsDrop(v, m) == m.file = "whole" /\ (v # "drop" => m.life # "merged")

\* merged_check, open_check and revive_check, each on the meta just read.
MetaAllows(v, m) ==
  /\ m.file = "whole"
  /\ m.life # "merged"
  /\ v = "park" => m.life = "open"
  /\ v = "revive" => m.life = "parked"

\* guard_check: running workers stop three verbs, saved records only a merge.
GuardAllows(v, running, saved) ==
  v \in {"merge", "park", "drop"} => running = 0 /\ (v = "merge" => saved = 0)

FolderExists == meta.file # "none" \/ chatFile # 0

Init ==
  /\ meta = NoMeta /\ chatFile = 0 /\ inodes = 0
  /\ records = 0 /\ workers = 0
  /\ mainLog = 0 /\ posted = 0
  /\ proc = [p \in Procs |-> Idle]

\* The process returns, or drops its claim when it held one.
Leave(p) == proc' = [proc EXCEPT ![p] = Idle]
Goto(p, place) == proc' = [proc EXCEPT ![p].at = place]

\* thread::run reads the running workers before it calls the verb.
Start(p, v) ==
  /\ proc[p].at = "idle" /\ v \in Can[p] \ {"chat"}
  /\ proc' = [proc EXCEPT ![p].at = "started", ![p].verb = v, ![p].ran = workers]
  /\ UNCHANGED <<meta, chatFile, inodes, records, workers, mainLog, posted>>

\* known_meta, the verb's check and its guard; nothing is claimed yet.
Check(p) ==
  /\ proc[p].at = "started"
  /\ IF MetaAllows(proc[p].verb, meta) /\ GuardAllows(proc[p].verb, proc[p].ran, records)
       THEN proc' = [proc EXCEPT ![p].at = "checked", ![p].seen = meta]
       ELSE Leave(p)
  /\ UNCHANGED <<meta, chatFile, inodes, records, workers, mainLog, posted>>

\* `ralph chat --thread`: it claims before it reads anything.
StartChat(p) ==
  /\ proc[p].at = "idle" /\ "chat" \in Can[p]
  /\ proc' = [proc EXCEPT ![p].at = "checked", ![p].verb = "chat"]
  /\ UNCHANGED <<meta, chatFile, inodes, records, workers, mainLog, posted>>

\* claim_chat, first half: create the folder and open CHAT.
OpenClaim(p) ==
  /\ proc[p].at = "checked"
  /\ \/ chatFile # 0 /\ UNCHANGED <<chatFile, inodes>>
     \/ chatFile = 0 /\ inodes < MaxInodes
        /\ inodes' = inodes + 1 /\ chatFile' = inodes + 1
  /\ proc' = [proc EXCEPT ![p].at = "opened", ![p].fd = chatFile']
  /\ UNCHANGED <<meta, records, workers, mainLog, posted>>

\* FAULT: CHAT is opened but never locked.
LockClaimAlways(p) ==
  /\ proc[p].at = "opened"
  /\ Goto(p, "claimed")
  /\ UNCHANGED <<meta, chatFile, inodes, records, workers, mainLog, posted>>

\* claim_chat, second half: try_lock on the inode that was opened.
LockClaim(p) ==
  /\ proc[p].at = "opened"
  /\ IF \E q \in Procs : Holds(q) /\ proc[q].fd = proc[p].fd
       THEN Leave(p)
       ELSE Goto(p, "claimed")
  /\ UNCHANGED <<meta, chatFile, inodes, records, workers, mainLog, posted>>

\* write_meta, first half: fs::write opens thread.json with truncation.
Truncate(p, m) ==
  /\ meta' = TornMeta
  /\ proc' = [proc EXCEPT ![p].at = "truncated", ![p].new = m]

Claimed(p, v) == proc[p].at = "claimed" /\ proc[p].verb = v

\* merge_with after its claim: the digest is written, then the meta it read
\* before the claim, marked merged. A digest that fails is Die.
Merge(p) ==
  /\ Claimed(p, "merge") /\ FolderExists
  /\ Truncate(p, [proc[p].seen EXCEPT !.life = "merged"])
  /\ UNCHANGED <<chatFile, inodes, records, workers, mainLog, posted>>

Park(p) ==
  /\ Claimed(p, "park") /\ FolderExists
  /\ Truncate(p, [proc[p].seen EXCEPT !.life = "parked"])
  /\ UNCHANGED <<chatFile, inodes, records, workers, mainLog, posted>>

Revive(p) ==
  /\ Claimed(p, "revive") /\ FolderExists
  /\ Truncate(p, [proc[p].seen EXCEPT !.life = "open"])
  /\ UNCHANGED <<chatFile, inodes, records, workers, mainLog, posted>>

\* pull_thread writes only when main has grown past the fork point.
Pull(p) ==
  /\ Claimed(p, "pull")
  /\ IF mainLog = proc[p].seen.base
       THEN Leave(p) /\ UNCHANGED meta
       ELSE FolderExists /\ Truncate(p, [proc[p].seen EXCEPT !.base = mainLog])
  /\ UNCHANGED <<chatFile, inodes, records, workers, mainLog, posted>>

\* thread::ensure, when there is no thread.json: fork at main's end.
CreateThread(p) ==
  /\ Claimed(p, "chat") /\ meta.file = "none"
  /\ Truncate(p, Whole(mainLog))
  /\ UNCHANGED <<chatFile, inodes, records, workers, mainLog, posted>>

\* FAULT: merged_check in place of open_check.
EnterChatParked(p) ==
  /\ Claimed(p, "chat") /\ meta.file # "none"
  /\ IF meta.file = "whole" /\ ~Merged(meta) THEN Goto(p, "chatting") ELSE Leave(p)
  /\ UNCHANGED <<meta, chatFile, inodes, records, workers, mainLog, posted>>

\* thread::ensure and open_check, when there is one.
EnterChat(p) ==
  /\ Claimed(p, "chat") /\ meta.file # "none"
  /\ IF OpenThread(meta) THEN Goto(p, "chatting") ELSE Leave(p)
  /\ UNCHANGED <<meta, chatFile, inodes, records, workers, mainLog, posted>>

\* write_meta, second half. A file unlinked meanwhile takes the text with it.
FinishWrite(p) ==
  /\ proc[p].at = "truncated"
  /\ meta' = IF meta.file = "none" THEN meta ELSE proc[p].new
  /\ CASE proc[p].verb = "merge" -> Goto(p, "written")
       [] proc[p].verb = "chat" -> Goto(p, "chatting")
       [] OTHER -> Leave(p)
  /\ UNCHANGED <<chatFile, inodes, records, workers, mainLog, posted>>

\* The last call of merge_with: Inbox::post to main's inbox.
PostDigest(p) ==
  /\ proc[p].at = "written" /\ posted < MaxPosts
  /\ posted' = posted + 1
  /\ Leave(p)
  /\ UNCHANGED <<meta, chatFile, inodes, records, workers, mainLog>>

\* remove_dir_all unlinks the entries one by one, in the directory's order.
DropThread(p) ==
  /\ Claimed(p, "drop")
  /\ proc' = [proc EXCEPT ![p].at = "dropping", ![p].left = Parts]
  /\ UNCHANGED <<meta, chatFile, inodes, records, workers, mainLog, posted>>

Unlink(p, part) ==
  /\ proc[p].at = "dropping" /\ part \in proc[p].left
  /\ meta' = IF part = "meta" THEN NoMeta ELSE meta
  /\ chatFile' = IF part = "chat" THEN 0 ELSE chatFile
  /\ records' = IF part = "records" THEN 0 ELSE records
  /\ IF proc[p].left = {part} THEN Leave(p)
       ELSE proc' = [proc EXCEPT ![p].left = @ \ {part}]
  /\ UNCHANGED <<inodes, workers, mainLog, posted>>

\* What an open chat does to the thread: persistent watches and schedules
\* come and go, workers start. Quitting leaves both behind.
Chat(p) ==
  /\ proc[p].at = "chatting"
  /\ \/ records' \in 0..MaxLive /\ UNCHANGED <<workers, proc>>
     \/ workers < MaxLive /\ workers' = workers + 1 /\ UNCHANGED <<records, proc>>
     \/ Leave(p) /\ UNCHANGED <<records, workers>>
  /\ UNCHANGED <<meta, chatFile, inodes, mainLog, posted>>

\* Workers run in tmux and end, or are closed, whether or not a chat is open.
WorkerEnds ==
  /\ workers > 0 /\ workers' = workers - 1
  /\ UNCHANGED <<meta, chatFile, inodes, records, mainLog, posted, proc>>

\* A turn of main's chat.
MainGrows ==
  /\ mainLog < MaxLog /\ mainLog' = mainLog + 1
  /\ UNCHANGED <<meta, chatFile, inodes, records, workers, posted, proc>>

\* The process is killed, or one of its calls fails and it returns an error:
\* either way it is gone and the kernel drops its lock.
Die(p) ==
  /\ p \in Crashing /\ proc[p].at # "idle"
  /\ Leave(p)
  /\ UNCHANGED <<meta, chatFile, inodes, records, workers, mainLog, posted>>

ProcStep(p) ==
  \/ \E v \in Verbs : Start(p, v)
  \/ Check(p) \/ StartChat(p) \/ OpenClaim(p) \/ LockClaim(p)
  \/ Merge(p) \/ Park(p) \/ Revive(p) \/ Pull(p)
  \/ CreateThread(p) \/ EnterChat(p) \/ FinishWrite(p) \/ PostDigest(p)
  \/ DropThread(p) \/ (\E part \in Parts : Unlink(p, part))
  \/ Chat(p) \/ Die(p)

Next == (\E p \in Procs : ProcStep(p)) \/ WorkerEnds \/ MainGrows

Spec == Init /\ [][Next]_vars
-----------------------------------------------------------------------------
TypeOK ==
  /\ meta \in Meta
  /\ chatFile \in Nat /\ inodes \in Nat
  /\ records \in Nat /\ workers \in Nat
  /\ mainLog \in Nat /\ posted \in Nat
  /\ proc \in [Procs -> Proc]

\* Claim: at most one process owns the thread at a time, whatever the order
\* in which CHAT is opened and locked. It needs that no process drops.
OneOwner == \A p, q \in Procs : Holds(p) /\ Holds(q) => p = q

\* A chat runs only on a thread that is open: no verb that passed its checks
\* earlier parks, merges or tears the thread under it.
ChatSeesOpenThread ==
  \A p \in Procs : proc[p].at = "chatting" => OpenThread(meta)

\* A merged thread is read-only (docs/context/threads.md:102): no verb, chat
\* or late write of a stale meta changes its thread.json.
MergedIsReadOnly == [][Merged(meta) => UNCHANGED meta]_vars

\* The thread as its user sees it. While a live process rewrites thread.json
\* the old meta stands; a torn file that nobody is writing is a broken thread.
Writers == {p \in Procs : proc[p].at = "truncated"}
SeenMeta ==
  IF meta.file = "torn" /\ Writers # {}
    THEN LET p == CHOOSE p \in Writers : TRUE
         IN  IF proc[p].verb = "chat" THEN NoMeta ELSE proc[p].seen
    ELSE meta
LifeState ==
  CASE SeenMeta.file = "none" -> "none"
    [] SeenMeta.file = "torn" -> "broken"
    [] OTHER -> SeenMeta.life

Life == INSTANCE ThreadLifecycle
  WITH state <- LifeState, base <- SeenMeta.base, digests <- posted

\* With one process that rewrites thread.json, the claim, the torn writes and
\* the checks made before the claim add up to the life the docs tell.
ThreadLife == Life!LifeSpec
=============================================================================
