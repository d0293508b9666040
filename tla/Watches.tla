------------------------------- MODULE Watches -------------------------------
(***************************************************************************)
(* The watches of a chat: shell commands that run beside it and report to  *)
(* its inbox when they end (ralph/src/watches.rs, watch_store.rs,          *)
(* watch_requests.rs, chat/watch.rs and their pure halves in core).        *)
(*                                                                         *)
(* Four kinds of threads share the registry `active` and the folder of     *)
(* saved records: the main loop (restore, /watch start, /watch stop,       *)
(* kill_all), the monitor (start_queued), one waiter per watch, and the    *)
(* socket server, which queues requests.  A chat is opened, closed and     *)
(* killed several times; records and queued requests stay on disk.         *)
(*                                                                         *)
(* A watch is a number: how many were started before it.  A restored watch *)
(* keeps its number, which its record carries.                             *)
(***************************************************************************)
EXTENDS Naturals, Sequences, FiniteSets

CONSTANTS
  LocalIds,    \* ids next_watch_id hands out to /watch start
  Requests,    \* what the model may ask for: records [id, kind]
  StopIds,     \* ids the person stops
  MaxWatches,  \* bound: watches started
  MaxOpens,    \* bound: how often the chat is opened
  MaxCrashes   \* bound: how often it dies

Ids == LocalIds \cup {r.id : r \in Requests}
Kinds == {"normal", "persistent"}

ASSUME WatchesAssumption ==
  /\ Requests \subseteq [id : Ids, kind : Kinds] /\ StopIds \subseteq Ids
  /\ MaxWatches \in Nat /\ MaxOpens \in Nat /\ MaxCrashes \in Nat

VARIABLES
  main,     \* the main loop
  monitor,  \* the requests start_queued has taken and not yet started
  launch,   \* the launch that holds the mutex of `active`
  active,   \* the registry: the watch that runs under each id, or 0
  closing,  \* kill_all began
  run,      \* the child and the waiter of each watch
  saved,    \* the records on disk: a watch under each id, or 0
  queue,    \* the request files on disk
  made,     \* every watch started so far: its id and kind
  posted,   \* how many reports of each watch the inbox got
  gone,     \* watches that never ran, or whose record /watch stop removed
  late,     \* watches launched after kill_all began
  crowd,    \* persistent watches that met another one of their id (see Met)
  opens, crashes

vars == <<main, monitor, launch, active, closing, run, saved, queue, made,
          posted, gone, late, crowd, opens, crashes>>
disk == <<saved, queue, posted>>
ghosts == <<gone, late, crowd>>
bounds == <<opens, crashes>>

Numbers == 1..MaxWatches
NoLaunch == [by |-> "none", w |-> 0, of |-> "none"]
NoRun == [at |-> "none", stop |-> "none"]
Over(at) == [at |-> at, stop |-> "none"]  \* nobody reads the stop slot again
Main(at, id, w, ends, todo) ==
  [at |-> at, id |-> id, w |-> w, ends |-> ends, todo |-> todo]
Idle(at) == Main(at, "none", 0, {}, {})

Init ==
  /\ main = Idle("closed") /\ monitor = {} /\ launch = NoLaunch
  /\ active = [i \in Ids |-> 0] /\ closing = "no"
  /\ run = [w \in Numbers |-> NoRun]
  /\ saved = [i \in Ids |-> 0] /\ queue = {}
  /\ made = <<>> /\ posted = [w \in Numbers |-> 0]
  /\ gone = {} /\ late = {} /\ crowd = {} /\ opens = 0 /\ crashes = 0

Up == main.at \notin {"closed", "dead"}
IdOf(w) == made[w].id
Persistent(w) == made[w].kind = "persistent"
MainAt(at) == main.at = at /\ launch.by # "main"
MutexFree == launch = NoLaunch
Used(id) == active[id] # 0 \/ saved[id] # 0

(***************************************************************************)
(* Watches::launch.  It holds the mutex from the duplicate check to the    *)
(* insert, and the thread that calls it goes on when it is over.           *)
(***************************************************************************)
\* The persistent watches that a launch of this id meets: one whose record is
\* still there is overwritten, one whose waiter is not over will remove the
\* record by its id.
Met(id) ==
  {w \in DOMAIN made : IdOf(w) = id /\ Persistent(w)
                      /\ (saved[id] = w \/ run[w].at \in {"running", "post", "remove"})}

\* The duplicate check passed: save the record of a fresh persistent watch.
Launch(t, id, kind) ==
  /\ MutexFree /\ active[id] = 0 /\ Len(made) < MaxWatches
  /\ made' = Append(made, [id |-> id, kind |-> kind])
  /\ launch' = [by |-> t, w |-> Len(made'), of |-> "start"]
  /\ saved' = IF kind = "persistent" THEN [saved EXCEPT ![id] = Len(made')] ELSE saved
  /\ crowd' = IF kind = "persistent" /\ Met(id) # {} THEN crowd \cup Met(id) \cup {Len(made')}
              ELSE crowd
  /\ UNCHANGED <<active, closing, run, posted, gone, late, bounds>>

\* The child and its waiter start; the watch enters the registry.
Spawned ==
  /\ Up /\ launch.by # "none"
  /\ run' = [run EXCEPT ![launch.w] = [at |-> "running", stop |-> "none"]]
  /\ active' = [active EXCEPT ![IdOf(launch.w)] = launch.w]
  /\ late' = IF closing = "yes" THEN late \cup {launch.w} ELSE late
  /\ launch' = NoLaunch
  /\ UNCHANGED <<main, monitor, closing, disk, made, gone, crowd, bounds>>

\* sh does not start: a fresh record goes, a restored one stays.
SpawnFails ==
  /\ Up /\ launch.by # "none"
  /\ IF launch.of = "start"
       THEN /\ gone' = gone \cup {launch.w}
            /\ saved' = IF Persistent(launch.w) THEN [saved EXCEPT ![IdOf(launch.w)] = 0] ELSE saved
       ELSE UNCHANGED <<gone, saved>>
  /\ launch' = NoLaunch
  /\ UNCHANGED <<main, monitor, active, closing, run, queue, made, posted, late, crowd, bounds>>

(***************************************************************************)
(* The waiter thread of a watch.                                           *)
(***************************************************************************)
\* FAULT: a watch that shutdown ends loses its record.
FinishAndForget(w) ==
  /\ Up /\ run[w].at = "running"
  /\ run' = [run EXCEPT ![w] = IF @.stop = "shutdown" THEN Over("remove") ELSE Over("post")]
  /\ UNCHANGED <<main, monitor, launch, active, closing, disk, made, ghosts, bounds>>

\* wait_for_outcome: a stop, the timeout or the end of the child; whichever
\* it was, the process group is killed.
Finish(w) ==
  /\ Up /\ run[w].at = "running"
  /\ run' = [run EXCEPT ![w] = IF @.stop = "shutdown" THEN Over("leave") ELSE Over("post")]
  /\ UNCHANGED <<main, monitor, launch, active, closing, disk, made, ghosts, bounds>>

Post(w) ==
  /\ Up /\ run[w].at = "post"
  /\ posted' = [posted EXCEPT ![w] = @ + 1]
  /\ run' = [run EXCEPT ![w] = IF Persistent(w) THEN Over("remove") ELSE Over("leave")]
  /\ UNCHANGED <<main, monitor, launch, active, closing, saved, queue, made, ghosts, bounds>>

\* WatchStore::remove: the record of that id, whoever saved it.
Remove(w) ==
  /\ Up /\ run[w].at = "remove"
  /\ saved' = [saved EXCEPT ![IdOf(w)] = 0]
  /\ run' = [run EXCEPT ![w] = Over("leave")]
  /\ UNCHANGED <<main, monitor, launch, active, closing, queue, made, posted, ghosts, bounds>>

\* FAULT: the waiter takes the entry of its id, whoever's it is.
LeaveAny(w) ==
  /\ Up /\ run[w].at = "leave" /\ MutexFree
  /\ active' = [active EXCEPT ![IdOf(w)] = 0]
  /\ run' = [run EXCEPT ![w] = NoRun]
  /\ UNCHANGED <<main, monitor, launch, closing, disk, made, ghosts, bounds>>

\* FAULT: stop and kill_all still hold the mutex while they join.
LeaveUnlessJoined(w) ==
  /\ Up /\ run[w].at = "leave" /\ MutexFree /\ main.at # "join"
  /\ active' = IF active[IdOf(w)] = w THEN [active EXCEPT ![IdOf(w)] = 0] ELSE active
  /\ run' = [run EXCEPT ![w] = NoRun]
  /\ UNCHANGED <<main, monitor, launch, closing, disk, made, ghosts, bounds>>

\* The waiter ends; it takes its entry, known by its stop slot, with it.
Leave(w) ==
  /\ Up /\ run[w].at = "leave" /\ MutexFree
  /\ active' = IF active[IdOf(w)] = w THEN [active EXCEPT ![IdOf(w)] = 0] ELSE active
  /\ run' = [run EXCEPT ![w] = NoRun]
  /\ UNCHANGED <<main, monitor, launch, closing, disk, made, ghosts, bounds>>

Waiter(w) == Finish(w) \/ Post(w) \/ Remove(w) \/ Leave(w)

(***************************************************************************)
(* Requests: the watch tool queues a file, the monitor thread takes all.   *)
(***************************************************************************)
\* queue: the file of an id can be claimed once.  The tool is for turns, and
\* the main loop takes no other step while one runs.
Queue(r) ==
  /\ MainAt("prompt") /\ \A q \in queue : q.id # r.id
  /\ queue' = queue \cup {r}
  /\ UNCHANGED <<main, monitor, launch, active, closing, run, saved, made, posted, ghosts, bounds>>

\* start_queued: the files go first, and requests for ids in use are refused.
\* used_ids is two reads; launch looks again for what came in between.
TakeRequests ==
  /\ Up /\ main.at # "restoring" /\ main.at # "reported"
  /\ launch.by = "none" /\ monitor = {} /\ queue # {}
  /\ monitor' = {r \in queue : ~ Used(r.id)} /\ queue' = {}
  /\ UNCHANGED <<main, launch, active, closing, run, saved, made, posted, ghosts, bounds>>

StartRequest(r) ==
  /\ Up /\ r \in monitor
  /\ monitor' = monitor \ {r}
  /\ IF active[r.id] # 0
       THEN /\ MutexFree      \* WatchError::Duplicate: a failure report
            /\ UNCHANGED <<launch, active, closing, run, saved, made, posted, ghosts, bounds>>
       ELSE Launch("monitor", r.id, r.kind)
  /\ UNCHANGED <<main, queue>>

(***************************************************************************)
(* The main loop.                                                          *)
(***************************************************************************)
\* A new process; restore reads every record.
Open ==
  /\ ~ Up /\ opens < MaxOpens /\ opens' = opens + 1
  /\ main' = Main("restoring", "none", 0, {}, {i \in Ids : saved[i] # 0})
  /\ closing' = "no" /\ run' = [w \in Numbers |-> NoRun]
  /\ UNCHANGED <<monitor, launch, active, disk, made, ghosts, crashes>>

\* RestoreAction::Restart.
Restart(id) ==
  /\ MainAt("restoring") /\ id \in main.todo
  /\ main' = Main("restoring", "none", 0, {}, main.todo \ {id})
  /\ launch' = [by |-> "main", w |-> saved[id], of |-> "restore"]
  /\ UNCHANGED <<monitor, active, closing, run, disk, made, ghosts, bounds>>

\* RestoreAction::Report: a deadline passed while the chat was closed.
ReportNow(id) ==
  /\ MainAt("restoring") /\ id \in main.todo
  /\ posted' = [posted EXCEPT ![saved[id]] = @ + 1]
  /\ main' = Main("reported", id, 0, {}, main.todo)
  /\ UNCHANGED <<monitor, launch, active, closing, run, saved, queue, made, ghosts, bounds>>

RemoveReported ==
  /\ MainAt("reported")
  /\ saved' = [saved EXCEPT ![main.id] = 0]
  /\ main' = Main("restoring", "none", 0, {}, main.todo \ {main.id})
  /\ UNCHANGED <<monitor, launch, active, closing, run, queue, made, posted, ghosts, bounds>>

Restored ==
  /\ MainAt("restoring") /\ main.todo = {}
  /\ main' = Idle("prompt")
  /\ UNCHANGED <<monitor, launch, active, closing, run, disk, made, ghosts, bounds>>

\* /watch start, with an id that is not used.
StartLocal(id, kind) ==
  /\ MainAt("prompt") /\ ~ Used(id)
  /\ Launch("main", id, kind)
  /\ UNCHANGED <<main, monitor, queue>>

\* /watch stop: the running ids are listed, then the saved ones.
StopList(id) ==
  /\ MainAt("prompt") /\ MutexFree
  /\ main' = Main(IF active[id] # 0 THEN "found" ELSE "missing", id, 0, {}, {})
  /\ UNCHANGED <<monitor, launch, active, closing, run, disk, made, ghosts, bounds>>

About(at) == Main(at, main.id, 0, {}, {})

\* decide_stop.
StopDecide ==
  /\ MainAt("found") \/ MainAt("missing")
  /\ main' = IF main.at = "found" THEN About("take")
             ELSE IF saved[main.id] # 0 THEN About("unlink") ELSE Idle("prompt")
  /\ UNCHANGED <<monitor, launch, active, closing, run, disk, made, ghosts, bounds>>

\* StopAction::RemoveSaved.
RemoveSaved ==
  /\ MainAt("unlink")
  /\ saved' = [saved EXCEPT ![main.id] = 0]
  /\ gone' = IF saved[main.id] = 0 THEN gone ELSE gone \cup {saved[main.id]}
  /\ main' = Idle("prompt")
  /\ UNCHANGED <<monitor, launch, active, closing, run, queue, made, posted, late, crowd, bounds>>

\* StopAction::KillRunning: the entry, if its waiter has not removed it.
TakeEntry ==
  /\ MainAt("take") /\ MutexFree
  /\ active' = [active EXCEPT ![main.id] = 0]
  /\ main' = IF active[main.id] = 0 THEN Idle("prompt")
             ELSE Main("end", "none", 0, {active[main.id]}, {})
  /\ UNCHANGED <<monitor, launch, closing, run, disk, made, ghosts, bounds>>

\* CloseGuard, kill_all: from here on the chat closes.
Quit ==
  /\ MainAt("prompt")
  /\ closing' = "yes" /\ main' = Idle("drain")
  /\ UNCHANGED <<monitor, launch, active, run, disk, made, ghosts, bounds>>

Drain ==
  /\ MainAt("drain") /\ MutexFree
  /\ active' = [i \in Ids |-> 0]
  /\ main' = Main("end", "none", 0, {active[i] : i \in Ids} \ {0}, {})
  /\ UNCHANGED <<monitor, launch, closing, run, disk, made, ghosts, bounds>>

Reason == IF closing = "yes" THEN "shutdown" ELSE "requested"

\* end: request_stop (the first reason stays), then join the waiter.
End(w) ==
  /\ MainAt("end") /\ w \in main.ends
  /\ run' = IF run[w] = [at |-> "running", stop |-> "none"]
              THEN [run EXCEPT ![w] = [at |-> "running", stop |-> Reason]]
              ELSE run
  /\ main' = Main("join", "none", w, main.ends \ {w}, {})
  /\ UNCHANGED <<monitor, launch, active, closing, disk, made, ghosts, bounds>>

\* FAULT: the thread asks a watch to stop and does not wait for it.
JoinNone ==
  /\ MainAt("join")
  /\ main' = Main("end", "none", 0, main.ends, {})
  /\ UNCHANGED <<monitor, launch, active, closing, run, disk, made, ghosts, bounds>>

Join ==
  /\ MainAt("join") /\ run[main.w] = NoRun
  /\ main' = Main("end", "none", 0, main.ends, {})
  /\ UNCHANGED <<monitor, launch, active, closing, run, disk, made, ghosts, bounds>>

\* stop returns to the prompt.
Stopped ==
  /\ MainAt("end") /\ main.ends = {} /\ closing = "no"
  /\ main' = Idle("prompt")
  /\ UNCHANGED <<monitor, launch, active, closing, run, disk, made, ghosts, bounds>>

\* The threads of a process go with it: its registry, and what it had begun.
Dies(how) ==
  /\ main' = Idle(how) /\ monitor' = {} /\ launch' = NoLaunch
  /\ active' = [i \in Ids |-> 0]
  /\ UNCHANGED <<disk, made, ghosts>>

\* kill_all returned and the process exits.
Exit ==
  /\ MainAt("end") /\ main.ends = {} /\ closing = "yes"
  /\ Dies("closed")
  /\ UNCHANGED <<closing, run, bounds>>

\* The chat is killed; what its children do from now on is not modelled.
Crash ==
  /\ Up /\ crashes < MaxCrashes /\ crashes' = crashes + 1
  /\ Dies("dead")
  /\ closing' = "no" /\ run' = [w \in Numbers |-> NoRun]
  /\ UNCHANGED opens
-----------------------------------------------------------------------------
Restore == (\E id \in Ids : Restart(id) \/ ReportNow(id)) \/ RemoveReported \/ Restored
EndStep == Join \/ \E w \in Numbers : End(w)
Stop == StopDecide \/ RemoveSaved \/ TakeEntry \/ Stopped
Close == Drain \/ Exit
LaunchStep == Spawned \/ SpawnFails

Next ==
  \/ Open \/ Restore
  \/ \E id \in LocalIds, kind \in Kinds : StartLocal(id, kind)
  \/ (\E id \in StopIds : StopList(id)) \/ Stop
  \/ Quit \/ Close \/ EndStep
  \/ LaunchStep
  \/ \E w \in Numbers : Waiter(w)
  \/ \E r \in Requests : Queue(r) \/ StartRequest(r)
  \/ TakeRequests \/ Crash

Spec == Init /\ [][Next]_vars

\* Every thread takes its steps; the mutex is free again and again, and a
\* thread that waits for it gets it.  Finish is fair because every watch has
\* a timeout (with_default_timeout).
FairSpec ==
  /\ Spec /\ WF_vars(LaunchStep) /\ WF_vars(EndStep)
  /\ SF_vars(TakeEntry) /\ SF_vars(Drain)
  /\ WF_vars(StopDecide \/ RemoveSaved \/ Stopped \/ Exit)
  /\ \A w \in Numbers : WF_vars(Finish(w) \/ Post(w) \/ Remove(w)) /\ SF_vars(Leave(w))
-----------------------------------------------------------------------------
TypeOK ==
  /\ main \in [at : {"closed", "dead", "restoring", "reported", "prompt", "found", "missing",
                     "take", "unlink", "drain", "end", "join"},
               id : Ids \cup {"none"}, w : {0} \cup Numbers,
               ends : SUBSET Numbers, todo : SUBSET Ids]
  /\ monitor \subseteq Requests /\ queue \subseteq Requests
  /\ launch \in [by : {"none", "main", "monitor"}, w : {0} \cup Numbers,
                of : {"none", "start", "restore"}]
  /\ active \in [Ids -> {0} \cup Numbers] /\ saved \in [Ids -> {0} \cup Numbers]
  /\ closing \in {"no", "yes"}
  /\ run \in [Numbers -> [at : {"none", "running", "post", "remove", "leave"},
                          stop : {"none", "requested", "shutdown"}]]
  /\ made \in Seq([id : Ids, kind : Kinds]) /\ Len(made) <= MaxWatches
  /\ posted \in [Numbers -> Nat]
  /\ gone \subseteq Numbers /\ late \subseteq Numbers /\ crowd \subseteq Numbers
  /\ opens \in 0..MaxOpens /\ crashes \in 0..MaxCrashes

\* ralph-chat.md:300, 304: the record of a persistent watch is on disk as long
\* as the watch runs, so that a chat that dies brings it back.  It is not when
\* /watch stop, which reads the registry before the folder, took the watch for
\* a saved one, or when two watches of one id met.
RunningIsSaved ==
  \A w \in Numbers : run[w].at = "running" /\ Persistent(w) =>
    saved[IdOf(w)] = w \/ w \in gone \cup crowd

\* A persistent watch is never forgotten, whenever the chat dies or closes: it
\* has reported, or its record will bring it back, or the person removed it.
\* Only two that met under one id can lose each other's record.
NeverForgotten ==
  \A w \in DOMAIN made :
    Persistent(w) => posted[w] > 0 \/ saved[IdOf(w)] = w \/ w \in gone \cup crowd

\* The registry and the watches agree: an entry is of a watch that is not
\* over (else its id would be refused for ever), and a watch that runs in no
\* entry is one that stop or kill_all has taken and is ending.
RegistryIsExact ==
  Up => /\ \A i \in Ids : active[i] # 0 => run[active[i]].at # "none" /\ IdOf(active[i]) = i
        /\ \A w \in Numbers : run[w].at = "running" =>
             active[IdOf(w)] = w \/ w \in main.ends \cup {main.w}

\* ralph-chat.md:298: "Closing the chat kills every watch".
CloseKillsAll ==
  main.at = "closed" /\ closing = "yes" => \A w \in Numbers : run[w].at # "running"

\* What does hold of it: a watch survives a close only if it was launched
\* after kill_all began.
OnlyLateStartsSurvive ==
  main.at = "closed" /\ closing = "yes" => \A w \in Numbers : run[w].at = "running" => w \in late

\* stop and kill_all join waiters that themselves need the mutex: both end.
StopsEnd == main.at \in {"take", "drain", "end", "join"} ~> main.at \in {"prompt", "closed", "dead"}
=============================================================================
