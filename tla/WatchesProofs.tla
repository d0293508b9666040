---------------------------- MODULE WatchesProofs ----------------------------
(***************************************************************************)
(* Watches, proved for any number of watches, openings and crashes: the    *)
(* types, and what links the registry, the saved records, the reports and  *)
(* the watches that run.  Sound is inductive by itself; Safe adds what     *)
(* keeps a persistent watch from being forgotten, whoever uses which ids.  *)
(***************************************************************************)
EXTENDS Watches, TLAPS

\* A watch that has, or is about to have, a use for its record.
Busy(w) ==
  \/ run[w].at \in {"running", "post", "remove"}
  \/ launch.by # "none" /\ launch.w = w

\* A record is of a persistent watch of that id.
Records == \A i \in Ids : saved[i] # 0 =>
             /\ saved[i] \in 1..Len(made)
             /\ IdOf(saved[i]) = i /\ Persistent(saved[i])

\* An entry is of a watch of that id whose waiter is not over.
Entries == \A i \in Ids : active[i] # 0 =>
             /\ active[i] \in 1..Len(made)
             /\ IdOf(active[i]) = i /\ run[active[i]].at # "none"

\* What runs was started; what is launched does not run yet, and its id is free.
Started ==
  /\ \A w \in Numbers : run[w].at # "none" => w \in 1..Len(made)
  /\ launch.by # "none" =>
       launch.w \in 1..Len(made) /\ active[IdOf(launch.w)] = 0 /\ run[launch.w].at = "none"

\* The record is there until the waiter removes it, unless a stop removed it
\* or the watch met another one of its id.
Kept == \A w \in 1..Len(made) : Persistent(w) /\ Busy(w) =>
          saved[IdOf(w)] = w \/ w \in gone \cup crowd

\* The record that a launch which fails removes is its own.
Fresh == launch.by # "none" /\ launch.of = "start" /\ Persistent(launch.w) =>
           saved[IdOf(launch.w)] \in {0, launch.w}

\* A record is of the one watch of its id that will remove it, or of a crowd.
Alone == \A v, w \in 1..Len(made) :
  v # w /\ IdOf(v) = IdOf(w) /\ Persistent(v) /\ Busy(v) /\ saved[IdOf(w)] = w => w \in crowd

\* A waiter removes a record after it has posted.
Reported == \A w \in Numbers : run[w].at = "remove" => posted[w] > 0 /\ Persistent(w)

\* A waiter has an entry, or main is about to join it or joins it.
Owned == Up => \A w \in Numbers : run[w].at # "none" =>
           active[IdOf(w)] = w \/ w \in main.ends \/ w = main.w

\* While the chat restores, nothing runs under the ids that are still to do.
Restoring == main.at \in {"restoring", "reported"} =>
  /\ monitor = {}
  /\ \A i \in main.todo : saved[i] # 0 /\ active[i] = 0
  /\ \A w \in Numbers : run[w].at # "none" \/ Busy(w) => IdOf(w) \notin main.todo
  /\ main.at = "reported" => main.id \in main.todo /\ posted[saved[main.id]] > 0

\* Where main is, and what it has in hand there.
Hands ==
  /\ main.at \in {"reported", "found", "missing", "take", "unlink"} => main.id \in Ids
  /\ main.at \notin {"end", "join"} => main.ends = {}
  /\ main.at # "join" => main.w = 0
  /\ closing = "yes" => main.at \in {"drain", "end", "join", "closed"}
  /\ ~ Up => monitor = {} /\ launch = NoLaunch /\ \A i \in Ids : active[i] = 0

\* Once the registry is drained, what still runs is late or being ended.
Drained == closing = "yes" /\ main.at \in {"end", "join", "closed"} =>
  \A w \in Numbers : run[w].at = "running" => w \in late \/ w \in main.ends \/ w = main.w

Sound == /\ TypeOK /\ Records /\ Entries /\ Started /\ Owned /\ Reported
         /\ Restoring /\ Hands /\ Drained
Remembered == Kept /\ Fresh /\ Alone /\ NeverForgotten
Safe == Sound /\ Remembered
-----------------------------------------------------------------------------
(***************************************************************************)
(* What every step uses.                                                   *)
(***************************************************************************)
LEMMA RequestType == \A r \in Requests : r.id \in Ids /\ r.kind \in Kinds
BY WatchesAssumption

LEMMA LocalType == LocalIds \subseteq Ids
BY DEF Ids

\* A watch that is started gets the next number; the others keep theirs.
LEMMA Launched ==
  ASSUME TypeOK, NEW t, NEW id \in Ids, NEW kind \in Kinds, Launch(t, id, kind)
  PROVE  /\ made' \in Seq([id : Ids, kind : Kinds])
         /\ Len(made') = Len(made) + 1 /\ Len(made') \in Numbers
         /\ made'[Len(made')] = [id |-> id, kind |-> kind]
         /\ \A w \in 1..Len(made) : made'[w] = made[w]
<1> DEFINE m == [id |-> id, kind |-> kind]
<1>1. m \in [id : Ids, kind : Kinds]
  OBVIOUS
<1>2. made \in Seq([id : Ids, kind : Kinds]) /\ made' = Append(made, m) /\ Len(made) < MaxWatches
  BY DEF TypeOK, Launch
<1> HIDE DEF m
<1>3. /\ made' \in Seq([id : Ids, kind : Kinds])
      /\ Len(made') = Len(made) + 1
      /\ made'[Len(made')] = m
      /\ \A w \in 1..Len(made) : made'[w] = made[w]
  BY <1>1, <1>2
<1> QED
  BY <1>2, <1>3, WatchesAssumption DEF m, Numbers

\* A watch that was started has a number, an id and a kind.
LEMMA IdType ==
  TypeOK => \A w \in 1..Len(made) :
    w \in Numbers /\ made[w].id \in Ids /\ made[w].kind \in Kinds
<1> DEFINE M == [id : Ids, kind : Kinds]
<1> SUFFICES ASSUME TypeOK, NEW w \in 1..Len(made)
             PROVE  w \in Numbers /\ made[w].id \in Ids /\ made[w].kind \in Kinds
  OBVIOUS
<1>1. made \in Seq(M) /\ Len(made) \in Nat /\ Len(made) <= MaxWatches
  BY DEF TypeOK
<1> HIDE DEF M
<1>2. made[w] \in M
  BY <1>1
<1> QED
  BY <1>1, <1>2, WatchesAssumption DEF Numbers, M
-----------------------------------------------------------------------------
(***************************************************************************)
(* Types.  The numbers and ids of a step come from Started and Hands.      *)
(***************************************************************************)
LEMMA TypeInit == Init => TypeOK
<1> SUFFICES ASSUME Init PROVE TypeOK
  OBVIOUS
<1>1. made \in Seq([id : Ids, kind : Kinds]) /\ Len(made) <= MaxWatches
  BY WatchesAssumption DEF Init
<1>2. main \in [at : {"closed", "dead", "restoring", "reported", "prompt", "found", "missing",
                      "take", "unlink", "drain", "end", "join"},
                id : Ids \cup {"none"}, w : {0} \cup Numbers,
                ends : SUBSET Numbers, todo : SUBSET Ids]
  BY DEF Init, Idle, Main
<1> QED
  BY <1>1, <1>2, WatchesAssumption DEF Init, TypeOK, NoLaunch, NoRun, Numbers

LEMMA LaunchType ==
  ASSUME TypeOK, NEW t \in {"main", "monitor"}, NEW id \in Ids, NEW kind \in Kinds,
         Launch(t, id, kind)
  PROVE  /\ launch' \in [by : {"none", "main", "monitor"}, w : {0} \cup Numbers,
                         of : {"none", "start", "restore"}]
         /\ saved' \in [Ids -> {0} \cup Numbers]
         /\ made' \in Seq([id : Ids, kind : Kinds]) /\ Len(made') <= MaxWatches
         /\ crowd' \subseteq Numbers
         /\ UNCHANGED <<active, closing, run, posted, gone, late, opens, crashes>>
<1>1. Len(made') \in Numbers /\ made' \in Seq([id : Ids, kind : Kinds])
  BY Launched
<1>2. launch' = [by |-> t, w |-> Len(made'), of |-> "start"]
  BY DEF Launch
<1>3. saved' = saved \/ saved' = [saved EXCEPT ![id] = Len(made')]
  BY DEF Launch
<1>4. saved \in [Ids -> {0} \cup Numbers] /\ crowd \subseteq Numbers
  BY DEF TypeOK
<1>5. crowd' \subseteq Numbers
  <2>1. Met(id) \subseteq Numbers
    BY IdType DEF Met, TypeOK
  <2> QED
    BY <1>1, <1>4, <2>1 DEF Launch
<1> QED
  BY <1>1, <1>2, <1>3, <1>4, <1>5, WatchesAssumption DEF Launch, bounds, Numbers

LEMMA TypeNext == Sound /\ [Next]_vars => TypeOK'
<1> SUFFICES ASSUME Sound, [Next]_vars PROVE TypeOK'
  OBVIOUS
<1>a. TypeOK
  BY DEF Sound
<1>b. WatchesAssumption
  BY WatchesAssumption
<1> USE <1>a, <1>b DEF WatchesAssumption, TypeOK, disk, ghosts, bounds
<1>1. CASE Open
  BY <1>1 DEF Open, Main, NoRun
<1>2. CASE Restore
  <2>1. ASSUME NEW id \in Ids, Restart(id) PROVE TypeOK'
    BY <2>1 DEF Restart, Main
  <2>2. ASSUME NEW id \in Ids, ReportNow(id) PROVE TypeOK'
    <3>1. saved[id] \in Numbers
      BY <2>2 DEF ReportNow, MainAt, Sound, Restoring
    <3>2. posted' \in [Numbers -> Nat]
      BY <2>2, <3>1 DEF ReportNow
    <3>3. main' = Main("reported", id, 0, {}, main.todo)
      BY <2>2 DEF ReportNow
    <3> QED
      BY <2>2, <3>2, <3>3 DEF ReportNow, Main
  <2>3. CASE RemoveReported
    BY <2>3 DEF RemoveReported, Main, Sound, Hands, MainAt
  <2>4. CASE Restored
    BY <2>4 DEF Restored, Idle, Main
  <2> QED
    BY <1>2, <2>1, <2>2, <2>3, <2>4 DEF Restore
<1>3. ASSUME NEW id \in LocalIds, NEW kind \in Kinds, StartLocal(id, kind) PROVE TypeOK'
  BY <1>3, LocalType, LaunchType DEF StartLocal
<1>4. ASSUME NEW id \in StopIds, StopList(id) PROVE TypeOK'
  BY <1>4 DEF StopList, Main
<1>5. CASE Stop
  <2>1. CASE StopDecide
    BY <2>1 DEF StopDecide, About, Idle, Main
  <2>2. CASE RemoveSaved
    <3>1. main.id \in Ids
      BY <2>2 DEF RemoveSaved, MainAt, Sound, Hands
    <3>2. gone' \subseteq Numbers
      BY <2>2, <3>1 DEF RemoveSaved
    <3> QED
      BY <2>2, <3>1, <3>2 DEF RemoveSaved, Idle, Main
  <2>3. CASE TakeEntry
    <3>1. main.id \in Ids
      BY <2>3 DEF TakeEntry, MainAt, Sound, Hands
    <3>2. CASE active[main.id] = 0
      BY <2>3, <3>1, <3>2 DEF TakeEntry, Idle, Main
    <3>3. CASE active[main.id] # 0
      <4>1. main' = Main("end", "none", 0, {active[main.id]}, {}) /\ active[main.id] \in Numbers
        BY <2>3, <3>1, <3>3 DEF TakeEntry
      <4> QED
        BY <2>3, <3>1, <4>1 DEF TakeEntry, Main
    <3> QED
      BY <3>2, <3>3
  <2>4. CASE Stopped
    BY <2>4 DEF Stopped, Idle, Main
  <2> QED
    BY <1>5, <2>1, <2>2, <2>3, <2>4 DEF Stop
<1>6. CASE Quit
  BY <1>6 DEF Quit, Idle, Main
<1>7. CASE Close
  BY <1>7 DEF Close, Drain, Exit, Dies, Idle, Main, NoLaunch
<1>8. CASE EndStep
  <2>1. CASE Join
    BY <2>1 DEF Join, Main
  <2>2. ASSUME NEW w \in Numbers, End(w) PROVE TypeOK'
    <3>1. Reason \in {"requested", "shutdown"}
      BY DEF Reason
    <3>2. CASE run' = run
      BY <2>2, <3>2 DEF End, Main
    <3>3. CASE run' = [run EXCEPT ![w] = [at |-> "running", stop |-> Reason]]
      <4>1. [at |-> "running", stop |-> Reason] \in
              [at : {"none", "running", "post", "remove", "leave"},
               stop : {"none", "requested", "shutdown"}]
        BY <3>1
      <4>2. run' \in [Numbers -> [at : {"none", "running", "post", "remove", "leave"},
                              stop : {"none", "requested", "shutdown"}]]
        BY <3>3, <4>1
      <4> QED
        BY <2>2, <4>2 DEF End, Main
    <3> QED
      BY <2>2, <3>2, <3>3 DEF End
  <2> QED
    BY <1>8, <2>1, <2>2 DEF EndStep
<1>9. CASE LaunchStep
  <2>1. launch.w \in Numbers
    BY <1>9, IdType DEF LaunchStep, Spawned, SpawnFails, Sound, Started
  <2>2. IdOf(launch.w) \in Ids
    BY <1>9, IdType DEF LaunchStep, Spawned, SpawnFails, Sound, Started, IdOf
  <2>3. CASE Spawned
    <3>1. run' \in [Numbers -> [at : {"none", "running", "post", "remove", "leave"},
                              stop : {"none", "requested", "shutdown"}]]
      BY <2>1, <2>3 DEF Spawned
    <3>2. active' \in [Ids -> {0} \cup Numbers]
      BY <2>1, <2>2, <2>3 DEF Spawned
    <3> QED
      BY <2>1, <2>3, <3>1, <3>2 DEF Spawned, NoLaunch
  <2>4. CASE SpawnFails
    <3>1. saved' \in [Ids -> {0} \cup Numbers]
      BY <2>2, <2>4 DEF SpawnFails
    <3> QED
      BY <2>1, <2>4, <3>1 DEF SpawnFails, NoLaunch
  <2> QED
    BY <1>9, <2>3, <2>4 DEF LaunchStep
<1>10. ASSUME NEW w \in Numbers, Waiter(w) PROVE TypeOK'
  <2>1. \A at : Over(at) = [at |-> at, stop |-> "none"]
    BY DEF Over
  <2>2. run[w].at # "none" => IdOf(w) \in Ids
    BY IdType DEF Sound, Started, IdOf
  <2>3. CASE Finish(w)
    <3>1. run' = [run EXCEPT ![w] = Over("leave")] \/ run' = [run EXCEPT ![w] = Over("post")]
      BY <2>3 DEF Finish
    <3> QED
      BY <2>1, <2>3, <3>1 DEF Finish
  <2>4. CASE Post(w)
    <3>1. run' = [run EXCEPT ![w] = Over("leave")] \/ run' = [run EXCEPT ![w] = Over("remove")]
      BY <2>4 DEF Post
    <3>2. posted' \in [Numbers -> Nat]
      BY <2>4 DEF Post
    <3> QED
      BY <2>1, <2>4, <3>1, <3>2 DEF Post
  <2>5. CASE Remove(w)
    BY <2>1, <2>2, <2>5 DEF Remove
  <2>6. CASE Leave(w)
    BY <2>2, <2>6 DEF Leave, NoRun
  <2> QED
    BY <1>10, <2>3, <2>4, <2>5, <2>6 DEF Waiter
<1>11. ASSUME NEW r \in Requests, Queue(r) PROVE TypeOK'
  BY <1>11 DEF Queue
<1>12. ASSUME NEW r \in Requests, StartRequest(r) PROVE TypeOK'
  <2>1. r.id \in Ids /\ r.kind \in Kinds
    BY <1>12, RequestType
  <2>2. CASE active[r.id] # 0
    BY <1>12, <2>2 DEF StartRequest
  <2>3. CASE active[r.id] = 0
    <3>1. Launch("monitor", r.id, r.kind)
      BY <1>12, <2>3 DEF StartRequest
    <3> QED
      BY <1>12, <2>1, <3>1, LaunchType DEF StartRequest
  <2> QED
    BY <2>2, <2>3
<1>13. CASE TakeRequests
  BY <1>13 DEF TakeRequests
<1>14. CASE Crash
  BY <1>14 DEF Crash, Dies, Idle, Main, NoLaunch, NoRun
<1>15. CASE UNCHANGED vars
  BY <1>15 DEF vars
<1> QED
  BY <1>1, <1>2, <1>3, <1>4, <1>5, <1>6, <1>7, <1>8, <1>9, <1>10, <1>11, <1>12, <1>13, <1>14, <1>15
     DEF Next
-----------------------------------------------------------------------------
(***************************************************************************)
(* The parts of Sound, one lemma for each: a step that leaves what the     *)
(* part is about alone, then every action that does not.                   *)
(***************************************************************************)
LEMMA RecordsNext == Sound /\ [Next]_vars => Records'
<1> SUFFICES ASSUME Sound, [Next]_vars PROVE Records'
  OBVIOUS
<1> USE IdType DEF disk, ghosts, bounds, Sound, TypeOK, Records, Started, IdOf, Persistent,
  Reported, Hands
<1>1. CASE UNCHANGED <<saved, made>>
  BY <1>1 DEF Busy
<1>2. ASSUME NEW t, NEW id \in Ids, NEW kind \in Kinds, Launch(t, id, kind) PROVE Records'
  BY <1>2, Launched DEF Launch
<1>3. CASE SpawnFails
  BY <1>3 DEF SpawnFails
<1>4. ASSUME NEW w \in Numbers, Remove(w) PROVE Records'
  BY <1>4 DEF Remove
<1>5. CASE RemoveReported \/ RemoveSaved
  BY <1>5 DEF RemoveReported, RemoveSaved, MainAt
<1> HIDE DEF disk, ghosts, bounds, Sound, TypeOK, Records, Started, IdOf, Persistent, Reported, Hands
<1> QED
  BY RequestType, LocalType, <1>1, <1>2, <1>3, <1>4, <1>5 DEF Next, vars, disk, ghosts, bounds,
    Restore, Stop, Close, EndStep, LaunchStep, Waiter, Open, Restart, ReportNow,
    RemoveReported, Restored, StartLocal, StopList, StopDecide, RemoveSaved, TakeEntry,
    Stopped, Quit, Drain, Exit, Dies, Join, End, Spawned, SpawnFails, Finish, Post, Remove,
    Leave, Queue, StartRequest, TakeRequests, Crash

LEMMA EntriesNext == Sound /\ [Next]_vars => Entries'
<1> SUFFICES ASSUME Sound, [Next]_vars PROVE Entries'
  OBVIOUS
<1> USE IdType DEF disk, ghosts, bounds, Sound, TypeOK, Entries, Started, Hands, IdOf
<1>1. CASE UNCHANGED <<active, run, made>>
  BY <1>1 DEF Busy
<1>2. ASSUME NEW t, NEW id \in Ids, NEW kind \in Kinds, Launch(t, id, kind) PROVE Entries'
  BY <1>2, Launched DEF Launch
<1>3. CASE Open
  BY <1>3 DEF Open, NoRun, Up
<1>4. CASE Spawned
  BY <1>4 DEF Spawned
<1>5. CASE TakeEntry
  BY <1>5 DEF TakeEntry, MainAt
<1>6. CASE Drain
  BY <1>6 DEF Drain
<1>7. CASE Exit \/ Crash
  BY <1>7 DEF Exit, Crash, Dies
<1>8. ASSUME NEW w \in Numbers, End(w) PROVE Entries'
  BY <1>8 DEF End
<1>9. ASSUME NEW w \in Numbers, Finish(w) PROVE Entries'
  BY <1>9 DEF Finish, Over
<1>10. ASSUME NEW w \in Numbers, Post(w) PROVE Entries'
  BY <1>10 DEF Post, Over
<1>11. ASSUME NEW w \in Numbers, Remove(w) PROVE Entries'
  BY <1>11 DEF Remove, Over
<1>12. ASSUME NEW w \in Numbers, Leave(w) PROVE Entries'
  BY <1>12 DEF Leave, NoRun
<1> HIDE DEF disk, ghosts, bounds, Sound, TypeOK, Entries, Started, Hands, IdOf
<1> QED
  BY RequestType, LocalType, <1>1, <1>2, <1>3, <1>4, <1>5, <1>6, <1>7, <1>8, <1>9, <1>10,
    <1>11, <1>12 DEF Next, vars, disk, ghosts, bounds, Restore, Stop, Close, EndStep,
    LaunchStep, Waiter, Open, Restart, ReportNow, RemoveReported, Restored, StartLocal,
    StopList, StopDecide, RemoveSaved, TakeEntry, Stopped, Quit, Drain, Exit, Dies, Join, End,
    Spawned, SpawnFails, Finish, Post, Remove, Leave, Queue, StartRequest, TakeRequests, Crash

LEMMA StartedNext == Sound /\ [Next]_vars => Started'
<1> SUFFICES ASSUME Sound, [Next]_vars PROVE Started'
  OBVIOUS
<1> USE IdType DEF disk, ghosts, bounds, Sound, TypeOK, Entries, Records, Started, Restoring,
  IdOf
<1>1. CASE UNCHANGED <<active, run, made, launch>>
  BY <1>1 DEF Busy
<1>2. ASSUME NEW t, NEW id \in Ids, NEW kind \in Kinds, Launch(t, id, kind) PROVE Started'
  <2> DEFINE n == Len(made) + 1
  <2>1. launch'.w = n /\ run' = run /\ active' = active /\ active[id] = 0 /\ n \in Numbers
    BY <1>2, Launched DEF Launch
  <2>a. Len(made') = n /\ Len(made) \in Nat /\ made'[Len(made')] = [id |-> id, kind |-> kind]
    BY <1>2, Launched
  <2>2. made'[n].id = id /\ Len(made') = n /\ Len(made) \in Nat
    BY <2>a
  <2>3. run[n].at = "none"
    BY <2>1, <2>2
  <2>4. \A w \in 1..Len(made) : w \in 1..n
    BY <2>2
  <2> QED
    BY <2>1, <2>2, <2>3, <2>4
<1>3. CASE Open
  BY <1>3 DEF Open, NoRun
<1>4. ASSUME NEW id \in Ids, Restart(id) PROVE Started'
  BY <1>4 DEF Restart, MainAt
<1>5. CASE Spawned
  BY <1>5 DEF Spawned, NoLaunch
<1>6. CASE SpawnFails
  BY <1>6 DEF SpawnFails, NoLaunch
<1>7. CASE TakeEntry
  BY <1>7 DEF TakeEntry, MutexFree, NoLaunch
<1>8. CASE Drain
  BY <1>8 DEF Drain, MutexFree, NoLaunch
<1>9. CASE Exit \/ Crash
  BY <1>9 DEF Exit, Crash, Dies, NoLaunch, NoRun
<1>10. ASSUME NEW w \in Numbers, End(w) PROVE Started'
  BY <1>10 DEF End
<1>11. ASSUME NEW w \in Numbers, Finish(w) PROVE Started'
  BY <1>11 DEF Finish, Over
<1>12. ASSUME NEW w \in Numbers, Post(w) PROVE Started'
  BY <1>12 DEF Post, Over
<1>13. ASSUME NEW w \in Numbers, Remove(w) PROVE Started'
  BY <1>13 DEF Remove, Over
<1>14. ASSUME NEW w \in Numbers, Leave(w) PROVE Started'
  BY <1>14 DEF Leave, NoRun, MutexFree, NoLaunch
<1> HIDE DEF disk, ghosts, bounds, Sound, TypeOK, Entries, Records, Started, Restoring, IdOf
<1> QED
  BY RequestType, LocalType, <1>1, <1>2, <1>3, <1>4, <1>5, <1>6, <1>7, <1>8, <1>9, <1>10,
    <1>11, <1>12, <1>13, <1>14 DEF Next, vars, disk, ghosts, bounds, Restore, Stop, Close,
    EndStep, LaunchStep, Waiter, Open, Restart, ReportNow, RemoveReported, Restored,
    StartLocal, StopList, StopDecide, RemoveSaved, TakeEntry, Stopped, Quit, Drain, Exit, Dies,
    Join, End, Spawned, SpawnFails, Finish, Post, Remove, Leave, Queue, StartRequest,
    TakeRequests, Crash

LEMMA OwnedNext == Sound /\ [Next]_vars => Owned'
<1> SUFFICES ASSUME Sound, [Next]_vars PROVE Owned'
  OBVIOUS
<1> USE IdType DEF disk, ghosts, bounds, Sound, TypeOK, Owned, Started, Entries, Hands, IdOf,
  Up
<1>1. CASE UNCHANGED <<active, run, made, main>>
  BY <1>1 DEF Busy
<1>2. ASSUME NEW t, NEW id \in Ids, NEW kind \in Kinds, Launch(t, id, kind), UNCHANGED main
  PROVE Owned'
  BY <1>2, Launched DEF Launch
<1>3. CASE Open
  BY <1>3 DEF Open, NoRun, Main
<1>4. ASSUME NEW id \in Ids, Restart(id) \/ ReportNow(id) PROVE Owned'
  BY <1>4 DEF Restart, ReportNow, Main, MainAt
<1>5. CASE RemoveReported \/ Restored
  BY <1>5 DEF RemoveReported, Restored, Idle, Main, MainAt
<1>6. ASSUME NEW id \in StopIds, StopList(id) PROVE Owned'
  BY <1>6 DEF StopList, Main, MainAt
<1>7. CASE StopDecide \/ RemoveSaved \/ Quit
  BY <1>7 DEF StopDecide, RemoveSaved, Quit, Idle, Main, About, MainAt
<1>8. CASE TakeEntry
  BY <1>8 DEF TakeEntry, Idle, Main, MainAt
<1>9. CASE Stopped \/ Join
  BY <1>9 DEF Stopped, Join, Idle, Main, MainAt, NoRun
<1>10. CASE Spawned
  BY <1>10 DEF Spawned
<1>11. CASE Drain
  BY <1>11 DEF Drain, Main, MainAt
<1>12. CASE Exit \/ Crash
  BY <1>12 DEF Exit, Crash, Dies, Idle, Main, NoRun
<1>13. ASSUME NEW w \in Numbers, End(w) PROVE Owned'
  BY <1>13 DEF End, Main, MainAt
<1>14. ASSUME NEW w \in Numbers, Finish(w) PROVE Owned'
  BY <1>14 DEF Finish, Over
<1>15. ASSUME NEW w \in Numbers, Post(w) PROVE Owned'
  BY <1>15 DEF Post, Over
<1>16. ASSUME NEW w \in Numbers, Remove(w) PROVE Owned'
  BY <1>16 DEF Remove, Over
<1>17. ASSUME NEW w \in Numbers, Leave(w) PROVE Owned'
  BY <1>17 DEF Leave, NoRun
<1> HIDE DEF disk, ghosts, bounds, Sound, TypeOK, Owned, Started, Entries, Hands, IdOf, Up
<1> QED
  BY ZenonT(30), RequestType, LocalType, <1>1, <1>2, <1>3, <1>4, <1>5, <1>6, <1>7, <1>8, <1>9,
    <1>10, <1>11, <1>12, <1>13, <1>14, <1>15, <1>16, <1>17 DEF Next, vars, disk, ghosts,
    bounds, Restore, Stop, Close, EndStep, LaunchStep, Waiter, Open, Restart, ReportNow,
    RemoveReported, Restored, StartLocal, StopList, StopDecide, RemoveSaved, TakeEntry,
    Stopped, Quit, Drain, Exit, Dies, Join, End, Spawned, SpawnFails, Finish, Post, Remove,
    Leave, Queue, StartRequest, TakeRequests, Crash

LEMMA ReportedNext == Sound /\ [Next]_vars => Reported'
<1> SUFFICES ASSUME Sound, [Next]_vars PROVE Reported'
  OBVIOUS
<1> USE WatchesAssumption DEF disk, ghosts, bounds, Sound, TypeOK, Reported, Persistent
<1>1. CASE UNCHANGED <<run, posted, made>>
  BY <1>1 DEF Busy
<1>2. ASSUME NEW t, NEW id \in Ids, NEW kind \in Kinds, Launch(t, id, kind) PROVE Reported'
  BY <1>2, Launched DEF Launch, Started
<1>3. CASE Open
  BY <1>3 DEF Open, NoRun
<1>4. ASSUME NEW id \in Ids, ReportNow(id) PROVE Reported'
  BY <1>4 DEF ReportNow
<1>5. CASE Spawned
  BY <1>5 DEF Spawned
<1>6. CASE Crash
  BY <1>6 DEF Crash, Dies, NoRun
<1>7. ASSUME NEW w \in Numbers, End(w) PROVE Reported'
  BY <1>7 DEF End
<1>8. ASSUME NEW w \in Numbers, Finish(w) PROVE Reported'
  BY <1>8 DEF Finish, Over
<1>9. ASSUME NEW w \in Numbers, Post(w) PROVE Reported'
  BY <1>9 DEF Post, Over
<1>10. ASSUME NEW w \in Numbers, Remove(w) PROVE Reported'
  BY <1>10 DEF Remove, Over
<1>11. ASSUME NEW w \in Numbers, Leave(w) PROVE Reported'
  BY <1>11 DEF Leave, NoRun
<1> HIDE DEF disk, ghosts, bounds, Sound, TypeOK, Reported, Persistent
<1> QED
  BY RequestType, LocalType, <1>1, <1>2, <1>3, <1>4, <1>5, <1>6, <1>7, <1>8, <1>9, <1>10, <1>11
    DEF Next, vars, disk, ghosts, bounds, Restore, Stop, Close, EndStep, LaunchStep, Waiter,
    Open, Restart, ReportNow, RemoveReported, Restored, StartLocal, StopList, StopDecide,
    RemoveSaved, TakeEntry, Stopped, Quit, Drain, Exit, Dies, Join, End, Spawned, SpawnFails,
    Finish, Post, Remove, Leave, Queue, StartRequest, TakeRequests, Crash

LEMMA DrainedNext == Sound /\ [Next]_vars => Drained'
<1> SUFFICES ASSUME Sound, [Next]_vars PROVE Drained'
  OBVIOUS
<1> USE IdType DEF disk, ghosts, bounds, Sound, TypeOK, Drained, Hands
<1>1. CASE UNCHANGED <<run, main, closing, late>>
  BY <1>1 DEF Busy
<1>2. CASE Open
  BY <1>2 DEF Open, NoRun, Main
<1>3. CASE Restore
  BY <1>3 DEF Restore, Restart, ReportNow, RemoveReported, Restored, Idle, Main, MainAt
<1>4. ASSUME NEW id \in StopIds, StopList(id) PROVE Drained'
  BY <1>4 DEF StopList, Main, MainAt
<1>5. CASE Stop
  BY <1>5 DEF Stop, StopDecide, RemoveSaved, TakeEntry, Stopped, Idle, Main, About, MainAt
<1>6. CASE Quit
  BY <1>6 DEF Quit, Idle, Main, MainAt
<1>7. CASE Join
  BY <1>7 DEF Join, Main, MainAt, NoRun
<1>8. CASE Spawned
  BY <1>8 DEF Spawned
<1>9. CASE Drain
  <2>1. main.at = "drain" /\ main.ends = {} /\ main.w = 0 /\ run' = run /\ 0 \notin Numbers
    BY <1>9 DEF Drain, MainAt, Numbers
  <2>2. main' = Main("end", "none", 0, {active[i] : i \in Ids} \ {0}, {})
    BY <1>9 DEF Drain
  <2>3. \A w \in Numbers : run[w].at # "none" => active[IdOf(w)] = w /\ IdOf(w) \in Ids
    BY <2>1 DEF Owned, Started, Up, IdOf
  <2>4. \A w \in Numbers : run[w].at # "none" => w \in {active[i] : i \in Ids} \ {0}
    BY <2>1, <2>3
  <2> QED
    BY <2>1, <2>2, <2>4 DEF Main
<1>10. CASE Exit
  BY <1>10 DEF Exit, Dies, Idle, Main, MainAt
<1>11. CASE Crash
  BY <1>11 DEF Crash
<1>12. ASSUME NEW v \in Numbers, End(v) PROVE Drained'
  <2>1. UNCHANGED <<closing, late>> /\ main.at = "end" /\ main' = Main("join", "none", v, main.ends \ {v}, {})
    BY <1>12 DEF End, MainAt
  <2>2. \A w \in Numbers : run'[w].at = "running" => run[w].at = "running"
    BY <1>12 DEF End
  <2>3. 0 \notin Numbers
    BY DEF Numbers
  <2> QED
    BY <2>1, <2>2, <2>3 DEF Main
<1>13. ASSUME NEW w \in Numbers, Finish(w) PROVE Drained'
  BY <1>13 DEF Finish, Over
<1>14. ASSUME NEW w \in Numbers, Post(w) PROVE Drained'
  BY <1>14 DEF Post, Over
<1>15. ASSUME NEW w \in Numbers, Remove(w) PROVE Drained'
  BY <1>15 DEF Remove, Over
<1>16. ASSUME NEW w \in Numbers, Leave(w) PROVE Drained'
  BY <1>16 DEF Leave, NoRun
<1> HIDE DEF disk, ghosts, bounds, Sound, TypeOK, Drained, Hands
<1> QED
  BY RequestType, LocalType, <1>1, <1>2, <1>3, <1>4, <1>5, <1>6, <1>7, <1>8, <1>9, <1>10,
    <1>11, <1>12, <1>13, <1>14, <1>15, <1>16 DEF Launch, Next, vars, disk, ghosts, bounds,
    Restore, Stop, Close, EndStep, LaunchStep, Waiter, Open, Restart, ReportNow,
    RemoveReported, Restored, StartLocal, StopList, StopDecide, RemoveSaved, TakeEntry,
    Stopped, Quit, Drain, Exit, Dies, Join, End, Spawned, SpawnFails, Finish, Post, Remove,
    Leave, Queue, StartRequest, TakeRequests, Crash

LEMMA HandsNext == Sound /\ [Next]_vars => Hands'
<1> SUFFICES ASSUME Sound, [Next]_vars PROVE Hands'
  OBVIOUS
<1> USE IdType DEF disk, ghosts, bounds, Sound, TypeOK, Hands, Restoring, Up
<1>1. CASE UNCHANGED <<main, closing, monitor, launch, active>>
  BY <1>1 DEF Busy
<1>2. ASSUME NEW id \in LocalIds, NEW kind \in Kinds, StartLocal(id, kind) PROVE Hands'
  BY <1>2, LocalType DEF StartLocal, Launch, MainAt, MutexFree, NoLaunch
<1>3. ASSUME NEW r \in Requests, StartRequest(r) PROVE Hands'
  BY <1>3, RequestType DEF StartRequest, Launch, MutexFree, NoLaunch
<1>4. CASE Open
  BY <1>4 DEF Open, Main
<1>5. CASE Restore
  BY <1>5 DEF Restore, Restart, ReportNow, RemoveReported, Restored, Idle, Main, MainAt
<1>6. ASSUME NEW id \in StopIds, StopList(id) PROVE Hands'
  BY <1>6, WatchesAssumption DEF StopList, Main, MainAt
<1>7. CASE Stop
  BY <1>7 DEF Stop, StopDecide, RemoveSaved, TakeEntry, Stopped, Idle, Main, About, MainAt
<1>8. CASE Quit \/ Close
  BY <1>8 DEF Quit, Close, Drain, Exit, Dies, Idle, Main, MainAt, NoLaunch
<1>9. CASE Join
  BY <1>9 DEF Join, Main, MainAt
<1>10. ASSUME NEW v \in Numbers, End(v) PROVE Hands'
  BY <1>10 DEF End, Main, MainAt
<1>11. CASE LaunchStep
  BY <1>11 DEF LaunchStep, Spawned, SpawnFails
<1>12. ASSUME NEW w \in Numbers, Leave(w) PROVE Hands'
  BY <1>12 DEF Leave
<1>13. CASE TakeRequests \/ Crash
  BY <1>13 DEF TakeRequests, Crash, Dies, Idle, Main, NoLaunch
<1> HIDE DEF disk, ghosts, bounds, Sound, TypeOK, Hands, Restoring, Up
<1> QED
  BY RequestType, LocalType, <1>1, <1>2, <1>3, <1>4, <1>5, <1>6, <1>7, <1>8, <1>9, <1>10,
    <1>11, <1>12, <1>13 DEF Launch, Next, vars, disk, ghosts, bounds, Restore, Stop, Close,
    EndStep, LaunchStep, Waiter, Open, Restart, ReportNow, RemoveReported, Restored,
    StartLocal, StopList, StopDecide, RemoveSaved, TakeEntry, Stopped, Quit, Drain, Exit, Dies,
    Join, End, Spawned, SpawnFails, Finish, Post, Remove, Leave, Queue, StartRequest,
    TakeRequests, Crash

LEMMA RestoringNext == Sound /\ [Next]_vars => Restoring'
<1> SUFFICES ASSUME Sound, [Next]_vars PROVE Restoring'
  OBVIOUS
<1> USE IdType DEF disk, ghosts, bounds, Sound, TypeOK, Restoring, Records, Started, Entries,
  Hands, IdOf, Busy, Up
<1>1. CASE UNCHANGED <<main, monitor, active, launch, run, saved, made, posted>>
  BY <1>1 DEF Busy
<1>2. ASSUME NEW id \in LocalIds, NEW kind \in Kinds, StartLocal(id, kind) PROVE Restoring'
  BY <1>2, LocalType DEF StartLocal, Launch, MainAt, MutexFree, NoLaunch
<1>3. ASSUME NEW r \in Requests, StartRequest(r) PROVE Restoring'
  BY <1>3, RequestType DEF StartRequest, Launch, MutexFree, NoLaunch
<1>4. CASE Open
  BY <1>4 DEF Open, Main, NoRun, NoLaunch
<1>5. ASSUME NEW id \in Ids, Restart(id) PROVE Restoring'
  BY <1>5 DEF Restart, Main, MainAt
<1>6. ASSUME NEW id \in Ids, ReportNow(id) PROVE Restoring'
  BY <1>6 DEF ReportNow, Main, MainAt
<1>7. CASE RemoveReported
  BY <1>7 DEF RemoveReported, Main, MainAt
<1>8. CASE Restored \/ Quit \/ Close
  BY <1>8 DEF Restored, Quit, Close, Drain, Exit, Dies, Idle, Main
<1>9. ASSUME NEW id \in StopIds, StopList(id) PROVE Restoring'
  BY <1>9 DEF StopList, Main
<1>10. CASE Stop
  BY <1>10 DEF Stop, StopDecide, RemoveSaved, TakeEntry, Stopped, Idle, Main, About
<1>11. CASE EndStep
  BY <1>11 DEF EndStep, Join, End, Main
<1>12. CASE Spawned
  BY <1>12 DEF Spawned, NoLaunch
<1>13. CASE SpawnFails
  <2>1. \A i \in Ids : main.at \in {"restoring", "reported"} /\ i \in main.todo => saved'[i] = saved[i]
    BY <1>13 DEF SpawnFails
  <2> QED
    BY <1>13, <2>1 DEF SpawnFails, NoLaunch
<1>14. ASSUME NEW w \in Numbers, Finish(w) PROVE Restoring'
  BY <1>14 DEF Finish, Over
<1>15. ASSUME NEW w \in Numbers, Post(w) PROVE Restoring'
  BY <1>15 DEF Post, Over
<1>16. ASSUME NEW w \in Numbers, Remove(w) PROVE Restoring'
  BY <1>16 DEF Remove, Over
<1>17. ASSUME NEW w \in Numbers, Leave(w) PROVE Restoring'
  BY <1>17 DEF Leave, NoRun
<1>18. CASE TakeRequests \/ Crash
  BY <1>18 DEF TakeRequests, Crash, Dies, Idle, Main
<1> HIDE DEF disk, ghosts, bounds, Sound, TypeOK, Restoring, Records, Started, Entries, Hands, IdOf, Busy, Up
<1> QED
  BY RequestType, LocalType, <1>1, <1>2, <1>3, <1>4, <1>5, <1>6, <1>7, <1>8, <1>9, <1>10,
    <1>11, <1>12, <1>13, <1>14, <1>15, <1>16, <1>17, <1>18 DEF Launch, Next, vars, disk,
    ghosts, bounds, Restore, Stop, Close, EndStep, LaunchStep, Waiter, Open, Restart,
    ReportNow, RemoveReported, Restored, StartLocal, StopList, StopDecide, RemoveSaved,
    TakeEntry, Stopped, Quit, Drain, Exit, Dies, Join, End, Spawned, SpawnFails, Finish, Post,
    Remove, Leave, Queue, StartRequest, TakeRequests, Crash

LEMMA SoundInit == Init => Sound
<1> SUFFICES ASSUME Init PROVE Sound
  OBVIOUS
<1> USE DEF Init, Idle, Main, NoLaunch, NoRun
<1>1. TypeOK
  BY TypeInit
<1>2. Records /\ Entries /\ Started /\ Reported
  BY DEF Records, Entries, Started, Reported
<1>3. Owned /\ Restoring /\ Drained
  BY DEF Owned, Restoring, Drained, Up
<1>4. Hands
  BY DEF Hands, Up
<1> QED
  BY <1>1, <1>2, <1>3, <1>4 DEF Sound

LEMMA SoundNext == Sound /\ [Next]_vars => Sound'
BY TypeNext, RecordsNext, EntriesNext, StartedNext, OwnedNext, ReportedNext, RestoringNext,
   HandsNext, DrainedNext DEF Sound

\* watches.rs, watch_store.rs: every variable keeps its type, for any number
\* of watches, openings and crashes.
THEOREM TypeCorrect == Spec => []TypeOK
<1>1. Sound => TypeOK
  BY DEF Sound
<1> QED
  BY SoundInit, SoundNext, <1>1, PTL DEF Spec

\* Watches::launch, its waiter and stop, kill_all: an entry is of a
\* watch that is not over, and what runs is in an entry or being ended.
THEOREM Registry == Spec => []RegistryIsExact
<1>1. Sound => RegistryIsExact
  BY DEF Sound, RegistryIsExact, Entries, Owned
<1> QED
  BY SoundInit, SoundNext, <1>1, PTL DEF Spec

\* kill_all: a watch that survives a close was launched after it began.
THEOREM Closing == Spec => []OnlyLateStartsSurvive
<1>1. Sound => OnlyLateStartsSurvive
  BY DEF Sound, OnlyLateStartsSurvive, Drained, Hands, Numbers
<1> QED
  BY SoundInit, SoundNext, <1>1, PTL DEF Spec
-----------------------------------------------------------------------------
(***************************************************************************)
(* What Safe adds, action by action.                                       *)
(***************************************************************************)
\* What a launch of an id knows of the persistent watches it meets.
LEMMA Meeting ==
  ASSUME TypeOK, NEW t, NEW id \in Ids, Launch(t, id, "persistent"),
         NEW w \in 1..Len(made), IdOf(w) = id, Persistent(w), Busy(w) \/ saved[id] = w
  PROVE  w \in crowd'
<1>1. w \in Met(id)
  BY DEF Met, Launch, MutexFree, NoLaunch, Busy, TypeOK
<1> QED
  BY <1>1 DEF Launch

\* A fresh record is the launched watch's; what it displaces is in the crowd.
LEMMA LaunchRemembers ==
  ASSUME Safe, NEW t, NEW id \in Ids, NEW kind \in Kinds, Launch(t, id, kind)
  PROVE  Remembered'
<1>0. PICK n : n = Len(made')
  OBVIOUS
<1>1. TypeOK /\ Records /\ Started /\ Kept /\ Alone /\ NeverForgotten
  BY DEF Safe, Sound, Remembered
<1>2. /\ Len(made) \in Nat /\ n = Len(made) + 1 /\ DOMAIN made = 1..Len(made)
      /\ DOMAIN made' = 1..n /\ \A w \in 1..n : w \in 1..Len(made) \/ w = n
  <2> DEFINE M == [id : Ids, kind : Kinds]
  <2>1. made \in Seq(M) /\ made' \in Seq(M) /\ Len(made') = Len(made) + 1
    BY <1>1, Launched DEF TypeOK
  <2> HIDE DEF M
  <2>2. Len(made) \in Nat
    BY <2>1
  <2>3. DOMAIN made = 1..Len(made) /\ DOMAIN made' = 1..Len(made')
    BY <2>1
  <2> QED
    BY <1>0, <2>1, <2>2, <2>3
<1>3. /\ \A w \in 1..Len(made) : w # n /\ IdOf(w)' = IdOf(w) /\ (Persistent(w)' <=> Persistent(w))
      /\ IdOf(n)' = id /\ (Persistent(n)' <=> kind = "persistent")
  <2>1. made'[n] = [id |-> id, kind |-> kind] /\ \A w \in 1..Len(made) : made'[w] = made[w]
    BY <1>0, <1>1, Launched
  <2>2. made'[n].id = id /\ made'[n].kind = kind
    BY <2>1
  <2> QED
    BY <1>2, <2>1, <2>2 DEF IdOf, Persistent
<1>4. \A w \in 1..Len(made) : Busy(w)' <=> Busy(w)
  BY <1>2, <1>3 DEF Launch, Busy, MutexFree, NoLaunch
<1>5. crowd \subseteq crowd' /\ gone' = gone /\ posted' = posted /\ saved \in [Ids -> {0} \cup Numbers]
  BY <1>1 DEF Launch, TypeOK
<1>6. \A w \in 1..Len(made) : IdOf(w) \in Ids
  BY <1>1, IdType DEF IdOf
<1>7. \A w \in 1..Len(made) : saved[IdOf(w)] = w /\ saved'[IdOf(w)] # w => w \in crowd'
  <2> SUFFICES ASSUME NEW w \in 1..Len(made), saved[IdOf(w)] = w, saved'[IdOf(w)] # w
               PROVE  w \in crowd'
    OBVIOUS
  <2>1. kind = "persistent" /\ IdOf(w) = id
    BY <1>5, <1>6 DEF Launch
  <2>2. Persistent(w)
    BY <1>1, <1>6, <1>2 DEF Records
  <2> QED
    BY <1>1, <2>1, <2>2, Meeting
<1>8. Kept'
  <2> SUFFICES ASSUME NEW w \in 1..n, Persistent(w)', Busy(w)'
               PROVE  saved'[IdOf(w)'] = w \/ w \in gone' \cup crowd'
    BY <1>2 DEF Kept
  <2>1. CASE w = n
    BY <1>0, <1>3, <1>5, <2>1 DEF Launch
  <2>2. CASE w \in 1..Len(made)
    BY <1>1, <1>3, <1>4, <1>5, <1>7, <2>2 DEF Kept
  <2> QED
    BY <1>2, <2>1, <2>2
<1>9. Fresh'
  <2> SUFFICES ASSUME Persistent(n)' PROVE saved'[IdOf(n)'] = n
    BY <1>0 DEF Fresh, Launch
  <2> QED
    BY <1>0, <1>3, <1>5 DEF Launch
<1>10. Alone'
  <2> SUFFICES ASSUME NEW v \in 1..n, NEW w \in 1..n, v # w, IdOf(v)' = IdOf(w)', Persistent(v)',
                      Busy(v)', saved'[IdOf(w)'] = w
               PROVE  w \in crowd'
    BY <1>2 DEF Alone
  <2>1. CASE v = n
    <3>1. kind = "persistent" /\ IdOf(w)' = id
      BY <1>3, <2>1
    <3>2. saved'[id] = n
      BY <1>0, <1>5, <3>1 DEF Launch
    <3> QED
      BY <2>1, <3>1, <3>2
  <2>2. CASE v \in 1..Len(made) /\ w = n
    <3>1. saved' # saved
      BY <1>1, <1>2, <1>3, <1>5, <2>2 DEF Records
    <3>2. kind = "persistent" /\ IdOf(v) = id
      BY <1>3, <2>2, <3>1 DEF Launch
    <3>3. v \in Met(id)
      BY <1>1, <1>2, <1>3, <1>4, <2>2, <3>2 DEF Met, Launch, MutexFree, NoLaunch, Busy
    <3> QED
      BY <1>0, <2>2, <3>2, <3>3 DEF Launch
  <2>3. CASE v \in 1..Len(made) /\ w \in 1..Len(made)
    <3>1. saved[IdOf(w)] = w
      BY <1>3, <1>5, <1>6, <2>3 DEF Launch
    <3> QED
      BY <1>1, <1>3, <1>4, <1>5, <2>3, <3>1 DEF Alone
  <2> QED
    BY <1>2, <2>1, <2>2, <2>3
<1>11. NeverForgotten'
  <2> SUFFICES ASSUME NEW w \in 1..n, Persistent(w)'
               PROVE  posted'[w] > 0 \/ saved'[IdOf(w)'] = w \/ w \in gone' \cup crowd'
    BY <1>2 DEF NeverForgotten
  <2>1. CASE w = n
    BY <1>0, <1>3, <1>5, <2>1 DEF Launch
  <2>2. CASE w \in 1..Len(made)
    BY <1>1, <1>2, <1>3, <1>5, <1>7, <2>2 DEF NeverForgotten
  <2> QED
    BY <1>2, <2>1, <2>2
<1> QED
  BY <1>8, <1>9, <1>10, <1>11 DEF Remembered

\* A step that removes no record and brings no watch to its record.
LEMMA QuietRemembers ==
  ASSUME Safe, UNCHANGED <<saved, made, gone, crowd>>,
         launch' \in {launch, NoLaunch},
         \A w \in 1..Len(made) : Busy(w)' => Busy(w),
         \A w \in 1..Len(made) : posted[w] > 0 => posted'[w] > 0
  PROVE  Remembered'
<1>1. \A w : IdOf(w)' = IdOf(w) /\ (Persistent(w)' <=> Persistent(w))
  BY DEF IdOf, Persistent
<1>2. Kept /\ Fresh /\ Alone /\ NeverForgotten /\ DOMAIN made = 1..Len(made)
  BY DEF Safe, Sound, TypeOK, Remembered
<1>3. Kept'
  BY <1>1, <1>2 DEF Kept
<1>4. Fresh'
  BY <1>1, <1>2 DEF Fresh, NoLaunch
<1>5. Alone'
  BY <1>1, <1>2 DEF Alone
<1>6. NeverForgotten'
  BY <1>1, <1>2 DEF NeverForgotten
<1> QED
  BY <1>3, <1>4, <1>5, <1>6 DEF Remembered

\* A step that removes the record of one id: the watch it was of has posted,
\* is in gone, or is in the crowd, and no other watch gets busy.
LEMMA RemovalRemembers ==
  ASSUME Safe, NEW id \in Ids, saved' = [saved EXCEPT ![id] = 0],
         UNCHANGED <<made, crowd, posted>>, gone \subseteq gone',
         launch' \in {launch, NoLaunch},
         \A w \in 1..Len(made) : Busy(w)' => Busy(w),
         \A w \in 1..Len(made) : saved[id] = w => posted[w] > 0 \/ w \in gone' \cup crowd,
         \A w \in 1..Len(made) : saved[id] = w /\ Busy(w)' => w \in gone' \cup crowd
  PROVE  Remembered'
<1>1. \A w : IdOf(w)' = IdOf(w) /\ (Persistent(w)' <=> Persistent(w))
  BY DEF IdOf, Persistent
<1>2. /\ Kept /\ Fresh /\ Alone /\ NeverForgotten /\ DOMAIN made = 1..Len(made) /\ Started
      /\ saved \in [Ids -> {0} \cup Numbers]
  BY DEF Safe, Sound, TypeOK, Remembered
<1>3. \A w \in 1..Len(made) : IdOf(w) \in Ids /\ w # 0
  BY IdType DEF Safe, Sound, IdOf
<1>4. \A w \in 1..Len(made) : saved'[IdOf(w)] = saved[IdOf(w)] \/ (IdOf(w) = id /\ saved'[IdOf(w)] = 0)
  BY <1>2, <1>3
<1>5. Kept'
  BY <1>1, <1>2, <1>3, <1>4 DEF Kept
<1>6. Fresh'
  BY <1>1, <1>2, <1>3, <1>4 DEF Fresh, NoLaunch, Started
<1>7. Alone'
  BY <1>1, <1>2, <1>3, <1>4 DEF Alone
<1>8. NeverForgotten'
  BY <1>1, <1>2, <1>3, <1>4 DEF NeverForgotten
<1> QED
  BY <1>5, <1>6, <1>7, <1>8 DEF Remembered

\* A launch that fails removes its own record or none.
LEMMA FailureRemembers == Safe /\ SpawnFails => Remembered'
<1> SUFFICES ASSUME Safe, SpawnFails PROVE Remembered'
  OBVIOUS
<1>1. launch.by # "none" /\ launch.w \in 1..Len(made) /\ IdOf(launch.w) \in Ids
  BY IdType DEF SpawnFails, Safe, Sound, Started, IdOf
<1>2. UNCHANGED <<run, made, crowd, posted>> /\ launch' = NoLaunch /\ gone \subseteq gone'
  BY DEF SpawnFails
<1>3. \A w \in 1..Len(made) : Busy(w)' => Busy(w) /\ run[w].at # "none"
  BY <1>2 DEF Busy, NoLaunch
<1>4. CASE launch.of = "start" /\ Persistent(launch.w)
  <2>1. saved' = [saved EXCEPT ![IdOf(launch.w)] = 0] /\ launch.w \in gone'
    BY <1>4 DEF SpawnFails
  <2>2. \A w \in 1..Len(made) : saved[IdOf(launch.w)] = w => w = launch.w
    BY <1>1, <1>4 DEF Safe, Remembered, Fresh
  <2> QED
    BY <1>1, <1>2, <1>3, <2>1, <2>2, RemovalRemembers
<1>5. CASE launch.of = "start" /\ ~ Persistent(launch.w)
  <2>1. saved' = saved /\ gone' = gone \cup {launch.w}
    BY <1>5 DEF SpawnFails
  <2>2. \A w : IdOf(w)' = IdOf(w) /\ (Persistent(w)' <=> Persistent(w))
    BY <1>2 DEF IdOf, Persistent
  <2> QED
    BY <1>2, <1>3, <2>1, <2>2
       DEF Safe, Sound, TypeOK, Remembered, Kept, Fresh, Alone, NeverForgotten, NoLaunch
<1>6. CASE launch.of # "start"
  <2>1. UNCHANGED <<saved, gone>>
    BY <1>6 DEF SpawnFails
  <2> QED
    BY <1>2, <1>3, <2>1, QuietRemembers
<1> QED
  BY <1>4, <1>5, <1>6

\* A waiter removes the record of its id after its own report.
LEMMA WaiterRemembers ==
  ASSUME Safe, NEW v \in Numbers, Remove(v)
  PROVE  Remembered'
<1>1. v \in 1..Len(made) /\ posted[v] > 0 /\ Persistent(v) /\ Busy(v) /\ IdOf(v) \in Ids
  BY IdType DEF Remove, Safe, Sound, Started, Reported, Busy, IdOf
<1>2. /\ saved' = [saved EXCEPT ![IdOf(v)] = 0] /\ UNCHANGED <<made, crowd, posted, gone, launch>>
      /\ run' = [run EXCEPT ![v] = Over("leave")]
  BY DEF Remove, ghosts
<1>3. ~ (launch.by # "none" /\ launch.w = v)
  BY DEF Remove, Safe, Sound, Started
<1>4. run'[v].at = "leave" /\ \A w \in Numbers : w # v => run'[w] = run[w]
  BY <1>2 DEF Safe, Sound, TypeOK, Over
<1>5. \A w \in 1..Len(made) : Busy(w)' => Busy(w) /\ w # v
  BY <1>2, <1>3, <1>4, IdType DEF Busy, Safe, Sound
<1>6. \A w \in 1..Len(made) : saved[IdOf(v)] = w /\ w # v => w \in crowd
  BY <1>1, IdType DEF Safe, Sound, Remembered, Records, Alone
<1> QED
  BY <1>1, <1>2, <1>5, <1>6, RemovalRemembers

\* restore removes the record of a watch it has reported, which does not run.
LEMMA RestoreRemembers == Safe /\ RemoveReported => Remembered'
<1> SUFFICES ASSUME Safe, RemoveReported PROVE Remembered'
  OBVIOUS
<1>1. /\ saved' = [saved EXCEPT ![main.id] = 0]
      /\ UNCHANGED <<made, crowd, posted, gone, launch, run>> /\ main.at = "reported"
  BY DEF RemoveReported, MainAt, ghosts
<1>2. main.id \in Ids /\ main.id \in main.todo /\ posted[saved[main.id]] > 0
  BY <1>1 DEF Safe, Sound, Hands, Restoring
<1>3. \A w \in 1..Len(made) : Busy(w) => IdOf(w) # main.id
  BY <1>1, <1>2, IdType DEF Safe, Sound, Restoring
<1>4. \A w \in 1..Len(made) : saved[main.id] = w => IdOf(w) = main.id
  BY <1>2 DEF Safe, Sound, Records
<1>5. \A w : Busy(w)' <=> Busy(w)
  BY <1>1 DEF Busy
<1> QED
  BY <1>1, <1>2, <1>3, <1>4, <1>5, RemovalRemembers

\* /watch stop removes a record: the watch, which may run, is in gone.
LEMMA StopRemembers == Safe /\ RemoveSaved => Remembered'
<1> SUFFICES ASSUME Safe, RemoveSaved PROVE Remembered'
  OBVIOUS
<1>1. /\ saved' = [saved EXCEPT ![main.id] = 0] /\ UNCHANGED <<made, crowd, posted, launch, run>>
      /\ main.id \in Ids
  BY DEF RemoveSaved, MainAt, Safe, Sound, Hands
<1>2. \A w : Busy(w)' <=> Busy(w)
  BY <1>1 DEF Busy
<1>3. gone \subseteq gone' /\ \A w \in 1..Len(made) : saved[main.id] = w => w \in gone'
  BY DEF RemoveSaved
<1> QED
  BY <1>1, <1>2, <1>3, RemovalRemembers

\* restore starts a watch under its own record.
LEMMA RestartRemembers ==
  ASSUME Safe, NEW id \in Ids, Restart(id)
  PROVE  Remembered'
<1>1. /\ UNCHANGED <<saved, made, gone, crowd, posted, run>>
      /\ launch' = [by |-> "main", w |-> saved[id], of |-> "restore"]
      /\ main.at = "restoring" /\ id \in main.todo
  BY DEF Restart, MainAt, disk, ghosts
<1>2. saved[id] \in 1..Len(made) /\ IdOf(saved[id]) = id /\ Persistent(saved[id])
  BY <1>1 DEF Safe, Sound, Restoring, Records
<1>3. \A w : IdOf(w)' = IdOf(w) /\ (Persistent(w)' <=> Persistent(w))
  BY <1>1 DEF IdOf, Persistent
<1>4. \A w \in 1..Len(made) : Busy(w)' => Busy(w) \/ w = saved[id]
  BY <1>1 DEF Busy
<1>5. Kept /\ Alone /\ NeverForgotten
  BY DEF Safe, Remembered
<1>6. Kept'
  BY <1>1, <1>2, <1>3, <1>4, <1>5 DEF Kept
<1>7. Fresh'
  BY <1>1 DEF Fresh
<1>8. Alone'
  BY <1>1, <1>2, <1>3, <1>4, <1>5 DEF Alone
<1>9. NeverForgotten'
  BY <1>1, <1>3, <1>5 DEF NeverForgotten
<1> QED
  BY <1>6, <1>7, <1>8, <1>9 DEF Remembered

LEMMA RememberedNext == Safe /\ [Next]_vars => Remembered'
<1> SUFFICES ASSUME Safe, [Next]_vars PROVE Remembered'
  OBVIOUS
<1>a. \A w \in 1..Len(made) : w \in Numbers
  BY IdType DEF Safe, Sound
<1>b. posted \in [Numbers -> Nat] /\ Started /\ Restoring /\ TypeOK
  BY DEF Safe, Sound, TypeOK
<1> DEFINE Calm == /\ UNCHANGED <<saved, made, gone, crowd>> /\ launch' \in {launch, NoLaunch}
                   /\ \A w \in 1..Len(made) : Busy(w)' => Busy(w)
                   /\ \A w \in 1..Len(made) : posted[w] > 0 => posted'[w] > 0
<1>0. Calm => Remembered'
  BY QuietRemembers
<1> USE DEF disk, ghosts, bounds, Busy
<1>1. CASE UNCHANGED <<saved, made, gone, crowd, launch, run, posted>>
  BY <1>0, <1>1
<1>2. CASE Open \/ Crash
  BY <1>0, <1>a, <1>2 DEF Open, Crash, Dies, NoRun, NoLaunch
<1>3. ASSUME NEW id \in Ids, ReportNow(id) PROVE Calm
  <2>1. saved[id] \in Numbers
    BY <1>b, <1>3 DEF ReportNow, MainAt, Restoring, TypeOK
  <2>2. posted' = [posted EXCEPT ![saved[id]] = @ + 1] /\ UNCHANGED <<saved, made, gone, crowd, launch, run>>
    BY <1>3 DEF ReportNow
  <2> QED
    BY <1>a, <1>b, <2>1, <2>2
<1>4. CASE Exit
  BY <1>0, <1>4 DEF Exit, Dies, NoLaunch
<1>5. CASE Spawned
  BY <1>0, <1>a, <1>b, <1>5 DEF Spawned, NoLaunch, TypeOK
<1>6. ASSUME NEW v \in Numbers, End(v) PROVE Calm
  BY <1>a, <1>b, <1>6 DEF End, TypeOK
<1>7. ASSUME NEW v \in Numbers, Finish(v) PROVE Calm
  BY <1>a, <1>b, <1>7 DEF Finish, TypeOK, Over
<1>8. ASSUME NEW v \in Numbers, Post(v) PROVE Calm
  <2>1. \A w \in Numbers : posted[w] > 0 => posted'[w] > 0
    BY <1>b, <1>8 DEF Post
  <2>2. \A w \in Numbers : run'[w].at \in {"running", "post", "remove"} => run[w].at \in {"running", "post", "remove"}
    BY <1>b, <1>8 DEF Post, TypeOK, Over
  <2>3. UNCHANGED <<saved, made, gone, crowd, launch>>
    BY <1>8 DEF Post
  <2> QED
    BY <1>a, <2>1, <2>2, <2>3
<1>9. ASSUME NEW v \in Numbers, Leave(v) PROVE Calm
  BY <1>a, <1>b, <1>9 DEF Leave, TypeOK, NoRun
<1>10. ASSUME NEW id \in LocalIds, NEW kind \in Kinds, StartLocal(id, kind) PROVE Remembered'
  BY <1>10, LocalType, LaunchRemembers DEF StartLocal
<1>11. ASSUME NEW r \in Requests, StartRequest(r) PROVE Remembered'
  <2>1. CASE active[r.id] # 0
    BY <1>0, <1>1, <1>11, <2>1 DEF StartRequest
  <2>2. CASE active[r.id] = 0
    BY <1>11, <2>2, RequestType, LaunchRemembers DEF StartRequest
  <2> QED
    BY <2>1, <2>2
<1> HIDE DEF disk, ghosts, bounds, Busy, Calm
<1> QED
  BY ZenonT(30), <1>0, <1>1, <1>2, <1>3, <1>4, <1>5, <1>6, <1>7, <1>8, <1>9, <1>10, <1>11,
    FailureRemembers, WaiterRemembers, RestoreRemembers, StopRemembers, RestartRemembers
    DEF Next, vars, disk, ghosts, bounds, Restore, Stop, Close, EndStep, LaunchStep, Waiter,
    Restored, StopList, StopDecide, TakeEntry, Stopped, Quit, Drain, Join, Queue, TakeRequests

LEMMA SafeInit == Init => Safe
<1> SUFFICES ASSUME Init PROVE Safe
  OBVIOUS
<1>1. Sound
  BY SoundInit
<1>2. Remembered
  BY DEF Init, NoLaunch, NoRun, Remembered, Kept, Fresh, Alone, NeverForgotten
<1> QED
  BY <1>1, <1>2 DEF Safe

LEMMA SafeNext == Safe /\ [Next]_vars => Safe'
<1>1. Safe => Sound
  BY DEF Safe
<1> QED
  BY <1>1, SoundNext, RememberedNext DEF Safe

\* watch_store.rs, ralph-chat.md:300, 304: whenever the chat dies or closes,
\* a persistent watch has reported, is saved, or was removed by the person;
\* only one that met another of its id may be lost.
THEOREM Persistence == Spec => []NeverForgotten
<1>1. Safe => NeverForgotten
  BY DEF Safe, Remembered
<1> QED
  BY SafeInit, SafeNext, <1>1, PTL DEF Spec

\* Watches::launch saves before it spawns, the waiter removes after it posts:
\* as long as a persistent watch runs, its own record is on disk, unless a stop
\* took it for one that does not run or it met another watch of its id.
THEOREM Saved == Spec => []RunningIsSaved
<1>1. Safe => RunningIsSaved
  BY DEF Safe, Sound, Remembered, Kept, Busy, Started, RunningIsSaved
<1> QED
  BY SafeInit, SafeNext, <1>1, PTL DEF Spec
=============================================================================
