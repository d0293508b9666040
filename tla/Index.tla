------------------------------- MODULE Index --------------------------------
(***************************************************************************)
(* The indexes log.idx and tree.idx of the chat memory: caches over        *)
(* log.jsonl and tree.jsonl (core/src/chat_memory/index.rs, archive.rs and *)
(* chat/index_files.rs).  A writer adds a line under the exclusive LOCK    *)
(* and brings the index up to date in place, slots first and header last,  *)
(* or through a temp file that is renamed over it.  Readers under the      *)
(* shared LOCK bring it up to date in memory, answer from it, check what   *)
(* they read, and save what they had to mend.  A reader that finds no      *)
(* store takes no lock.                                                    *)
(*                                                                         *)
(* Processes die between any two steps, a write is cut short, the person   *)
(* deletes an index, puts back an older copy of a file, or a slot of       *)
(* log.idx goes bad.  A file is the sequence of its complete lines, each   *)
(* with a serial number that stands for its bytes, and a torn last line.   *)
(***************************************************************************)
EXTENDS Integers, Sequences, FiniteSets

CONSTANTS
  ReaderIds,      \* processes that read, zoom or search
  MaxLines,       \* serial numbers of lines
  MaxMishaps      \* deaths, torn lines, deletions, copies put back, bad slots

ASSUME IndexAssumption == MaxLines \in Nat /\ MaxMishaps \in Nat /\ "writer" \notin ReaderIds

VARIABLES
  fileLines,      \* complete lines of each file
  torn,           \* whether a torn line follows them
  made,           \* whether the store's folder exists
  onDisk,         \* the index file of each file
  temps,          \* temp files of saves: <<process, file>>
  writer,         \* the process that appends or commits
  readers,        \* the processes that read
  serials, mishaps

indexVars == <<fileLines, torn, made, onDisk, temps, writer, readers, serials, mishaps>>

Stores == {"log", "tree"}

(* The slots: which line each one is for and where it points, 0 into the middle
   of a line.  A line of tree.jsonl that is no record is skipped; one of
   log.jsonl is an entry all the same. *)
Slots(f, ls) == [i \in {j \in DOMAIN ls : f = "log" \/ ls[j].whole} |-> i]

Count(slots) == Cardinality(DOMAIN slots)

(* covered and tail of the header, and the number of slots it promises *)
Header(ls, slots) ==
  [covered |-> Len(ls), tail |-> IF ls = <<>> THEN 0 ELSE ls[Len(ls)].serial, count |-> Count(slots)]
IndexOf(f, ls) == [head |-> Header(ls, Slots(f, ls)), slots |-> Slots(f, ls)]

NoIndex == [head |-> [covered |-> 0, tail |-> 0, count |-> 0], slots |-> <<0>>]

\* a bug: the number of slots is not compared with the header
DecodesAny(index) == index # NoIndex

Decodes(index) == index # NoIndex /\ Count(index.slots) = index.head.count

(* The length of a file, in half lines: a torn line is one half. *)
FileSize(ls, isTorn) == 2 * Len(ls) + (IF isTorn THEN 1 ELSE 0)

Freshness(head, ls, isTorn) ==
  LET size == FileSize(ls, isTorn)
      tail == IF head.covered = 0 \/ Len(ls) < head.covered THEN 0 ELSE ls[head.covered].serial
  IN  IF size < 2 * head.covered \/ tail # head.tail THEN "rebuild"
      ELSE IF size = 2 * head.covered THEN "fresh" ELSE "extend"

Extend(f, index, ls) ==
  LET added == {i \in DOMAIN Slots(f, ls) : i > index.head.covered}
      slots == [i \in DOMAIN index.slots \cup added |-> IF i \in added THEN i ELSE index.slots[i]]
  IN  [head |-> Header(ls, slots), slots |-> slots]

(* The index brought up to date in memory, and how: nothing to do, slots
   from a place on, or all of it. *)
Refresh(f, stored, ls, isTorn) ==
  LET how == IF Decodes(stored) THEN Freshness(stored.head, ls, isTorn) ELSE "rebuild"
      longer == Extend(f, stored, ls)
  IN  IF how = "rebuild" THEN [index |-> IndexOf(f, ls), how |-> "rebuilt"]
      ELSE IF how = "extend" /\ longer.head # stored.head THEN [index |-> longer, how |-> "extended"]
      ELSE [index |-> stored, how |-> "fresh"]

(* A file comes to be with its first write; an index is saved only for a file
   there is. *)
Exists(ls, isTorn) == ls # <<>> \/ isTorn

NotWriting == [at |-> "idle", file |-> "log", index |-> NoIndex]

Asleep == [at |-> "idle", locked |-> FALSE,
           from |-> [f \in Stores |-> 0],
           snap |-> [f \in Stores |-> <<>>], part |-> [f \in Stores |-> FALSE],
           index |-> [f \in Stores |-> NoIndex], stale |-> {}]

IndexInit ==
  /\ fileLines = [f \in Stores |-> <<>>] /\ torn = [f \in Stores |-> FALSE] /\ made = FALSE
  /\ onDisk = [f \in Stores |-> NoIndex] /\ temps = {}
  /\ writer = NotWriting /\ readers = [r \in ReaderIds |-> Asleep]
  /\ serials = 0 /\ mishaps = 0

MayFail == mishaps < MaxMishaps
Mishap == MayFail /\ mishaps' = mishaps + 1
Exclusive == writer.at # "idle"
Shared == {r \in ReaderIds : readers[r].locked}
WriterAt(at) == writer' = [writer EXCEPT !.at = at]

(* The writer: append adds an entry to the log, commit a record to the tree. *)

LockStore(f) ==
  /\ ~Exclusive /\ Shared = {} /\ serials < MaxLines
  /\ made' = TRUE /\ writer' = [NotWriting EXCEPT !.at = "write", !.file = f]
  /\ UNCHANGED <<fileLines, torn, onDisk, temps, readers, serials, mishaps>>

(* append cuts a torn tail off first; put does not, so its record ends on the
   torn line and is no record. *)
WriteLine ==
  /\ writer.at = "write"
  /\ LET f == writer.file
         line == [serial |-> serials + 1, whole |-> f = "log" \/ ~torn[f]]
     IN  /\ fileLines' = [fileLines EXCEPT ![f] = Append(@, line)]
         /\ torn' = [torn EXCEPT ![f] = FALSE]
  /\ serials' = serials + 1 /\ WriterAt("index")
  /\ UNCHANGED <<made, onDisk, temps, readers, mishaps>>

(* The process dies or the write fails in the middle of the line. *)
TearLine ==
  /\ writer.at = "write" /\ Mishap
  /\ torn' = [torn EXCEPT ![writer.file] = TRUE] /\ writer' = NotWriting
  /\ UNCHANGED <<fileLines, made, onDisk, temps, readers, serials>>

UpdateIndex ==
  /\ writer.at = "index"
  /\ LET f == writer.file
         fresh == Refresh(f, onDisk[f], fileLines[f], torn[f])
     IN  writer' = [writer EXCEPT !.index = fresh.index,
                      !.at = CASE fresh.how = "fresh" -> "sweep"
                               [] fresh.how = "extended" -> "body"
                               [] fresh.how = "rebuilt" -> "temp"]
  /\ UNCHANGED <<fileLines, torn, made, onDisk, temps, readers, serials, mishaps>>

(* In place: an index that was deleted meanwhile is not written. *)
WriteBody ==
  /\ writer.at = "body"
  /\ onDisk' = [onDisk EXCEPT ![writer.file] =
                  IF @ = NoIndex THEN @ ELSE [@ EXCEPT !.slots = writer.index.slots]]
  /\ WriterAt("header")
  /\ UNCHANGED <<fileLines, torn, made, temps, readers, serials, mishaps>>

WriteHeader ==
  /\ writer.at = "header"
  /\ onDisk' = [onDisk EXCEPT ![writer.file] =
                  IF @ = NoIndex THEN @ ELSE [@ EXCEPT !.head = writer.index.head]]
  /\ WriterAt("sweep")
  /\ UNCHANGED <<fileLines, torn, made, temps, readers, serials, mishaps>>

WriteTemp ==
  /\ writer.at = "temp"
  /\ temps' = temps \cup {<<"writer", writer.file>>} /\ WriterAt("rename")
  /\ UNCHANGED <<fileLines, torn, made, onDisk, readers, serials, mishaps>>

RenameTemp ==
  /\ writer.at = "rename"
  /\ temps' = temps \ {<<"writer", writer.file>>}
  /\ onDisk' = [onDisk EXCEPT ![writer.file] = writer.index]
  /\ WriterAt("sweep")
  /\ UNCHANGED <<fileLines, torn, made, readers, serials, mishaps>>

(* append sweeps the temp files, commit does not; both give the lock back. *)
Sweep ==
  /\ writer.at = "sweep"
  /\ temps' = IF writer.file = "log" THEN {} ELSE temps
  /\ writer' = NotWriting
  /\ UNCHANGED <<fileLines, torn, made, onDisk, readers, serials, mishaps>>

WriterDies ==
  /\ writer.at # "idle" /\ Mishap /\ writer' = NotWriting
  /\ UNCHANGED <<fileLines, torn, made, onDisk, temps, readers, serials>>

(* A reader: with_archive. *)

ReaderAt(r, at) == readers[r].at = at

StartRead(r) ==
  /\ ReaderAt(r, "idle")
  /\ made => ~Exclusive
  /\ readers' = [readers EXCEPT ![r] =
       [Asleep EXCEPT !.at = "open", !.locked = made, !.from = [f \in Stores |-> Len(fileLines[f])]]]
  /\ UNCHANGED <<fileLines, torn, made, onDisk, temps, writer, serials, mishaps>>

(* The length of each file is fixed when it is opened. *)
OpenFiles(r) ==
  /\ ReaderAt(r, "open")
  /\ readers' = [readers EXCEPT ![r].at = "stored", ![r].snap = fileLines, ![r].part = torn]
  /\ UNCHANGED <<fileLines, torn, made, onDisk, temps, writer, serials, mishaps>>

OpenArchive(r) ==
  /\ ReaderAt(r, "stored")
  /\ LET fresh == [f \in Stores |-> Refresh(f, onDisk[f], readers[r].snap[f], readers[r].part[f])]
     IN  readers' = [readers EXCEPT ![r].at = "load",
                       ![r].index = [f \in Stores |-> fresh[f].index],
                       ![r].stale = {f \in Stores : /\ fresh[f].how # "fresh"
                                                    /\ Exists(readers[r].snap[f], readers[r].part[f])}]
  /\ UNCHANGED <<fileLines, torn, made, onDisk, temps, writer, serials, mishaps>>

\* a bug: what a load reads is not compared with the slots
LoadUnchecked(r) ==
  /\ ReaderAt(r, "load")
  /\ readers' = [readers EXCEPT ![r].at = "answered"]
  /\ UNCHANGED <<fileLines, torn, made, onDisk, temps, writer, serials, mishaps>>

(* A load finds a slot that starts no line: both indexes are rebuilt. *)
Load(r) ==
  /\ ReaderAt(r, "load")
  /\ LET old == readers[r]
         bad == \E i \in DOMAIN old.index["log"].slots : old.index["log"].slots[i] = 0
     IN  readers' = [readers EXCEPT ![r].at = "answered",
           ![r].index = IF bad THEN [f \in Stores |-> IndexOf(f, old.snap[f])] ELSE @,
           ![r].stale = IF bad THEN {f \in Stores : Exists(old.snap[f], old.part[f])} ELSE @]
  /\ UNCHANGED <<fileLines, torn, made, onDisk, temps, writer, serials, mishaps>>

\* a bug: the answer is all the lock is held for
SaveAfterLock(r) ==
  /\ ReaderAt(r, "answered") /\ readers[r].stale # {}
  /\ readers' = [readers EXCEPT ![r].at = "rename", ![r].locked = FALSE]
  /\ temps' = temps \cup {<<r, f>> : f \in readers[r].stale}
  /\ UNCHANGED <<fileLines, torn, made, onDisk, writer, serials, mishaps>>

(* save_stale: the two files one after the other in the code. *)
SaveStale(r) ==
  /\ ReaderAt(r, "answered") /\ readers[r].locked /\ readers[r].stale # {}
  /\ readers' = [readers EXCEPT ![r].at = "rename"]
  /\ temps' = temps \cup {<<r, f>> : f \in readers[r].stale}
  /\ UNCHANGED <<fileLines, torn, made, onDisk, writer, serials, mishaps>>

RenameStale(r, f) ==
  /\ ReaderAt(r, "rename") /\ f \in readers[r].stale
  /\ temps' = temps \ {<<r, f>>}
  /\ onDisk' = [onDisk EXCEPT ![f] = readers[r].index[f]]
  /\ readers' = [readers EXCEPT ![r].stale = @ \ {f}]
  /\ UNCHANGED <<fileLines, torn, made, writer, serials, mishaps>>

EndRead(r) ==
  /\ \/ ReaderAt(r, "answered") /\ (readers[r].stale = {} \/ ~readers[r].locked)
     \/ ReaderAt(r, "rename") /\ readers[r].stale = {}
  /\ readers' = [readers EXCEPT ![r] = Asleep]
  /\ UNCHANGED <<fileLines, torn, made, onDisk, temps, writer, serials, mishaps>>

ReaderDies(r) ==
  /\ ~ReaderAt(r, "idle") /\ Mishap /\ readers' = [readers EXCEPT ![r] = Asleep]
  /\ UNCHANGED <<fileLines, torn, made, onDisk, temps, writer, serials>>

(* The world outside. *)

DeleteIndex(f) ==
  /\ onDisk[f] # NoIndex /\ Mishap
  /\ onDisk' = [onDisk EXCEPT ![f] = NoIndex]
  /\ UNCHANGED <<fileLines, torn, made, temps, writer, readers, serials>>

NobodyReads == \A r \in ReaderIds : ReaderAt(r, "idle")

(* An older copy of a file is put back while no process uses the store. *)
PutBack(f, n) ==
  /\ ~Exclusive /\ NobodyReads /\ n < Len(fileLines[f]) /\ Mishap
  /\ fileLines' = [fileLines EXCEPT ![f] = SubSeq(@, 1, n)] /\ torn' = [torn EXCEPT ![f] = FALSE]
  /\ UNCHANGED <<made, onDisk, temps, writer, readers, serials>>

(* A slot of log.idx comes to point into a line. *)
SpoilSlot(i) ==
  /\ ~Exclusive /\ NobodyReads /\ Mishap
  /\ onDisk["log"] # NoIndex /\ i \in DOMAIN onDisk["log"].slots
  /\ onDisk' = [onDisk EXCEPT !["log"].slots[i] = 0]
  /\ UNCHANGED <<fileLines, torn, made, temps, writer, readers, serials>>

IndexNext ==
  \/ \E f \in Stores : LockStore(f) \/ DeleteIndex(f)
  \/ WriteLine \/ TearLine \/ UpdateIndex \/ WriteBody \/ WriteHeader \/ WriteTemp
  \/ RenameTemp \/ Sweep \/ WriterDies
  \/ \E r \in ReaderIds :
       \/ StartRead(r) \/ OpenFiles(r) \/ OpenArchive(r) \/ Load(r) \/ SaveStale(r)
       \/ EndRead(r) \/ ReaderDies(r)
       \/ \E f \in Stores : RenameStale(r, f)
  \/ \E f \in Stores, n \in 1..MaxLines : PutBack(f, n)
  \/ \E i \in 1..MaxLines : SpoilSlot(i)

IndexSpec == IndexInit /\ [][IndexNext]_indexVars

------------------------------------------------------------------------------
(* "A read or zoom call sees every complete line that was in the log and the
   tree when it took its shared LOCK", each at its place, whatever became of
   the indexes before. *)
SeesCommitted ==
  \A r \in ReaderIds : readers[r].at \in {"answered", "rename"} =>
    \A f \in Stores :
      /\ readers[r].index[f].slots = Slots(f, readers[r].snap[f])
      /\ Len(readers[r].snap[f]) >= readers[r].from[f]

(* "No save runs under the exclusive lock": the sweep never takes the temp
   file from under a save that is about to rename it. *)
SweepsOnlyOrphans ==
  /\ writer.at = "rename" => <<"writer", writer.file>> \in temps
  /\ \A r \in ReaderIds : readers[r].at = "rename" =>
       \A f \in readers[r].stale : <<r, f>> \in temps
=============================================================================
