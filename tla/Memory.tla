------------------------------- MODULE Memory -------------------------------
(***************************************************************************)
(* The chat memory store of one chat: log.jsonl, tree.jsonl and the two    *)
(* advisory locks LOCK and NAP.  Turns append entries, chat-nap processes  *)
(* summarize nodes of the memory tree; any process may die between two     *)
(* steps or half way through a write (chat/memory.rs, chat_memory/).       *)
(*                                                                         *)
(* Node [lo, hi) covers the entries lo+1 .. hi of the sequence log.  A     *)
(* summary is a record: its node, its text, and (only for the properties)  *)
(* the texts of the two halves its prompt was built from.                  *)
(***************************************************************************)
EXTENDS Integers, Sequences, FiniteSets

CONSTANTS
    Naps,         \* chat-nap processes
    Unserialized, \* the naps of an older ralph, which take no NAP lock
    Turns,        \* processes that append a turn's entries
    Texts,        \* lines a curator may answer with
    Starts,       \* logs a run starts from
    MaxLog,       \* bound: entries in the log
    MaxTries,     \* MAX_NAP_ATTEMPTS
    MaxTears,     \* bound: writes cut short by a crash
    MaxKills      \* bound: other crashes

Kinds == {"short", "long", "corrupt"}
Fallback == "raw excerpt"
Raw == "entry"             \* a short entry stands for itself in a prompt
Junk == [node |-> [lo |-> 0, hi |-> 0], text |-> "junk", from |-> {}]
NoOne == "no one"

ASSUME MemoryAssumption ==
    /\ Unserialized \subseteq Naps
    /\ Naps \cap Turns = {} /\ NoOne \notin Naps \cup Turns
    /\ Fallback \notin Texts /\ Raw \notin Texts /\ "junk" \notin Texts
    /\ MaxLog \in Nat /\ MaxTries \in Nat \ {0} /\ MaxTears \in Nat /\ MaxKills \in Nat
    /\ Starts \subseteq UNION {[1..n -> Kinds] : n \in 0..MaxLog}

VARIABLES
    log,       \* the complete lines of log.jsonl, an entry kind each
    logTail,   \* how log.jsonl ends: with a newline, or in a torn line
    lines,     \* the complete lines of tree.jsonl: summaries, or Junk
    treeTail,  \* the same of tree.jsonl
    lock,      \* the exclusive holder of LOCK
    napLock,   \* the exclusive holder of NAP
    pc,        \* where each process is
    snap,      \* the entries each nap loaded
    tree,      \* the summaries each nap read last
    todo,      \* the nodes each nap still has to visit
    answer,    \* what the prompt was built from, the curator's tries and line
    kept,      \* the entries Store::append answered Ok for, with their place
    tears, kills

vars == <<log, logTail, lines, treeTail, lock, napLock, pc, snap, tree, todo,
          answer, kept, tears, kills>>
files == <<log, logTail, lines, treeTail, kept>>
locks == <<lock, napLock>>
nap == <<snap, tree, todo, answer>>
bounds == <<tears, kills>>

(***************************************************************************)
(* Nodes, and what a reader makes of tree.jsonl.                           *)
(***************************************************************************)
Size(n) == n.hi - n.lo
Nodes == {n \in [lo : 0..MaxLog, hi : 0..MaxLog] :
            \E k \in 0..MaxLog : Size(n) = 2 ^ k /\ n.lo % (2 ^ k) = 0}
Halves(n) == LET mid == (n.lo + n.hi) \div 2
             IN  {[lo |-> n.lo, hi |-> mid], [lo |-> mid, hi |-> n.hi]}

Has(summaries, n) == \E s \in summaries : s.node = n
TextOf(summaries, n) == (CHOOSE s \in summaries : s.node = n).text

\* parse_tree: Junk is skipped and the first record of a node wins.
ParseTree(ls) ==
    {ls[i] : i \in {i \in DOMAIN ls : /\ ls[i] # Junk
                                      /\ \A j \in 1..i-1 : ls[j] = Junk \/ ls[j].node # ls[i].node}}
Committed == ParseTree(lines)

Intact(entries, n) == \A i \in n.lo+1..n.hi : entries[i] # "corrupt"

\* Long leaves and complete blocks without a summary.
Pending(entries, summaries) ==
    {n \in Nodes : /\ n.hi <= Len(entries) /\ ~ Has(summaries, n)
                   /\ IF Size(n) = 1 THEN entries[n.hi] = "long" ELSE Intact(entries, n)}

\* The order nap visits them in: leaves, then blocks by size, from the left.
Before(m, n) == Size(m) < Size(n) \/ (Size(m) = Size(n) /\ m.lo < n.lo)
First(nodes, n) == n \in nodes /\ \A m \in nodes \ {n} : Before(n, m)

\* node_line has a line for a half: its summary, or a short entry itself.
Ready(entries, summaries, h) ==
    Has(summaries, h) \/ (Size(h) = 1 /\ entries[h.hi] # "long")
LineOf(summaries, h) == IF Has(summaries, h) THEN TextOf(summaries, h) ELSE Raw

\* What the prompt of a node is built from (nap_source).
Source(summaries, n) ==
    IF Size(n) = 1 THEN {} ELSE {<<h, LineOf(summaries, h)>> : h \in Halves(n)}

NoNode == [lo |-> 0, hi |-> 0]
NoAnswer == [node |-> NoNode, tries |-> 0, text |-> Raw, from |-> {}]

Init ==
    /\ log \in Starts /\ logTail = "whole"
    /\ lines = <<>> /\ treeTail = "whole"
    /\ lock = NoOne /\ napLock = NoOne
    /\ pc = [p \in Naps \cup Turns |-> "idle"]
    /\ snap = [p \in Naps |-> <<>>]
    /\ tree = [p \in Naps |-> {}]
    /\ todo = [p \in Naps |-> {}]
    /\ answer = [p \in Naps |-> NoAnswer]
    /\ kept = {<<i, log[i]>> : i \in DOMAIN log}
    /\ tears = 0 /\ kills = 0

Goto(p, there) == pc' = [pc EXCEPT ![p] = there]

(***************************************************************************)
(* Store::append: LOCK, drop a torn tail, write the line, sync, unlock.    *)
(***************************************************************************)
StartAppend(w) ==
    /\ pc[w] = "idle" /\ Len(log) < MaxLog
    /\ Goto(w, "wait")
    /\ UNCHANGED <<files, locks, nap, bounds>>

LockLog(w) ==
    /\ pc[w] = "wait" /\ lock = NoOne /\ Len(log) < MaxLog
    /\ lock' = w
    /\ Goto(w, "trim")
    /\ UNCHANGED <<files, napLock, nap, bounds>>

\* FAULT: an append goes on without dropping a torn last line.
KeepTornTail(w) ==
    /\ pc[w] = "trim"
    /\ Goto(w, "append")
    /\ UNCHANGED <<files, locks, nap, bounds>>

TrimTornTail(w) ==
    /\ pc[w] = "trim"
    /\ logTail' = "whole"
    /\ Goto(w, "append")
    /\ UNCHANGED <<log, lines, treeTail, kept, locks, nap, bounds>>

AppendEntry(w, kind) ==
    /\ pc[w] = "append"
    /\ log' = Append(log, IF logTail = "torn" THEN "corrupt" ELSE kind)
    /\ logTail' = "whole"
    /\ kept' = kept \cup {<<Len(log) + 1, kind>>}
    /\ lock' = NoOne
    /\ Goto(w, "idle")
    /\ UNCHANGED <<lines, treeTail, napLock, nap, bounds>>

(***************************************************************************)
(* Store::nap.                                                             *)
(***************************************************************************)
\* FAULT: a nap starts while another one runs.
StartNapAtOnce(p) ==
    /\ pc[p] = "idle"
    /\ Goto(p, "load")
    /\ UNCHANGED <<files, locks, nap, bounds>>

StartNap(p) ==
    /\ pc[p] = "idle"
    /\ IF p \in Unserialized THEN UNCHANGED napLock
                             ELSE napLock = NoOne /\ napLock' = p
    /\ Goto(p, "load")
    /\ UNCHANGED <<files, lock, nap, bounds>>

\* FAULT: the nap overlooks the last entry.
LoadAllButLast(p) ==
    /\ pc[p] = "load" /\ lock = NoOne
    /\ LET seen == SubSeq(log, 1, Len(log) - 1)
       IN  /\ snap' = [snap EXCEPT ![p] = seen]
           /\ tree' = [tree EXCEPT ![p] = Committed]
           /\ todo' = [todo EXCEPT ![p] = Pending(seen, Committed)]
    /\ Goto(p, "step")
    /\ UNCHANGED <<files, locks, answer, bounds>>

\* load_settled: one read of both files under a shared LOCK, then pending.
LoadSettled(p) ==
    /\ pc[p] = "load" /\ lock = NoOne
    /\ snap' = [snap EXCEPT ![p] = log]
    /\ tree' = [tree EXCEPT ![p] = Committed]
    /\ todo' = [todo EXCEPT ![p] = Pending(log, Committed)]
    /\ Goto(p, "step")
    /\ UNCHANGED <<files, locks, answer, bounds>>

Visit(p, n) ==
    /\ pc[p] = "step" /\ First(todo[p], n)
    /\ todo' = [todo EXCEPT ![p] = @ \ {n}]

Blocked(p, n) ==
    IF Size(n) = 1 THEN FALSE ELSE \E h \in Halves(n) : ~ Ready(snap[p], tree[p], h)

\* NapStep::Done and NapStep::Blocked.
SkipNode(p, n) ==
    /\ Visit(p, n)
    /\ Has(tree[p], n) \/ Blocked(p, n)
    /\ UNCHANGED <<files, locks, pc, snap, tree, answer, bounds>>

Prompt(p, n) ==
    [node |-> n, tries |-> 0, text |-> Raw, from |-> Source(tree[p], n)]

\* FAULT: LOCK is held while the curator works.
AskUnderLock(p, n) ==
    /\ Visit(p, n) /\ lock = NoOne
    /\ ~ Has(tree[p], n) /\ ~ Blocked(p, n)
    /\ answer' = [answer EXCEPT ![p] = Prompt(p, n)]
    /\ Goto(p, "curate")
    /\ lock' = p
    /\ UNCHANGED <<files, napLock, snap, tree, bounds>>

\* NapStep::Ask: the curator gets the prompt and no LOCK is held.
AskCurator(p, n) ==
    /\ Visit(p, n)
    /\ ~ Has(tree[p], n) /\ ~ Blocked(p, n)
    /\ answer' = [answer EXCEPT ![p] = Prompt(p, n)]
    /\ Goto(p, "curate")
    /\ UNCHANGED <<files, locks, snap, tree, bounds>>

Accepted(p) ==
    /\ pc[p] = "curate"
    /\ \E t \in Texts : answer' = [answer EXCEPT ![p].text = t]
    /\ Goto(p, "commit")
    /\ UNCHANGED <<files, locks, snap, tree, todo, bounds>>

\* check_summary refuses the line: ask again, or settle for fallback_summary.
Rejected(p) ==
    /\ pc[p] = "curate"
    /\ IF answer[p].tries + 1 < MaxTries
         THEN /\ answer' = [answer EXCEPT ![p].tries = @ + 1]
              /\ UNCHANGED pc
         ELSE /\ answer' = [answer EXCEPT ![p].text = Fallback]
              /\ Goto(p, "commit")
    /\ UNCHANGED <<files, locks, snap, tree, todo, bounds>>

NextNode(p) == answer' = [answer EXCEPT ![p] = NoAnswer] /\ Goto(p, "step")

\* A curator that fails or times out leaves the node pending.
CuratorError(p) ==
    /\ pc[p] = "curate"
    /\ NextNode(p)
    /\ UNCHANGED <<files, locks, snap, tree, todo, bounds>>

\* FAULT: the nap commits against the tree it read before.
CommitOnSnapshot(p) ==
    /\ pc[p] = "commit" /\ lock = NoOne
    /\ lock' = p
    /\ Goto(p, "decide")
    /\ UNCHANGED <<files, napLock, nap, bounds>>

\* commit, first half: LOCK, then read the tree again.
LockTree(p) ==
    /\ pc[p] = "commit" /\ lock = NoOne
    /\ lock' = p
    /\ tree' = [tree EXCEPT ![p] = Committed]
    /\ Goto(p, "decide")
    /\ UNCHANGED <<files, napLock, snap, todo, answer, bounds>>

Node(p) == answer[p].node
NewSummary(p) == [node |-> Node(p), text |-> answer[p].text, from |-> answer[p].from]

\* Commit::Write: put appends one line, right behind whatever ends the file.
WriteSummary(p) ==
    /\ pc[p] = "decide" /\ ~ Has(tree[p], Node(p))
    /\ lines' = Append(lines, IF treeTail = "torn" THEN Junk ELSE NewSummary(p))
    /\ treeTail' = "whole"
    /\ tree' = [tree EXCEPT ![p] = @ \cup {NewSummary(p)}]
    /\ lock' = NoOne
    /\ NextNode(p)
    /\ UNCHANGED <<log, logTail, kept, napLock, snap, todo, bounds>>

\* FAULT: a nap that comes second goes on with its own summary.
KeepOwnSummary(p) ==
    /\ pc[p] = "decide" /\ Has(tree[p], Node(p))
    /\ tree' = [tree EXCEPT ![p] = {s \in @ : s.node # Node(p)} \cup {NewSummary(p)}]
    /\ lock' = NoOne
    /\ NextNode(p)
    /\ UNCHANGED <<files, napLock, snap, todo, bounds>>

\* Commit::Taken: the first summary stays.
KeepFirstSummary(p) ==
    /\ pc[p] = "decide" /\ Has(tree[p], Node(p))
    /\ lock' = NoOne
    /\ NextNode(p)
    /\ UNCHANGED <<files, napLock, snap, tree, todo, bounds>>

(***************************************************************************)
(* A process ends or dies; the system drops its locks.  A put whose write  *)
(* fails half way (a full disk) ends its nap as TearTree does.             *)
(***************************************************************************)
Release(p) ==
    /\ lock' = IF lock = p THEN NoOne ELSE lock
    /\ napLock' = IF napLock = p THEN NoOne ELSE napLock
    /\ Goto(p, "idle")
    /\ IF p \in Naps
         THEN /\ snap' = [snap EXCEPT ![p] = <<>>]
              /\ tree' = [tree EXCEPT ![p] = {}]
              /\ todo' = [todo EXCEPT ![p] = {}]
              /\ answer' = [answer EXCEPT ![p] = NoAnswer]
         ELSE UNCHANGED nap

EndNap(p) ==
    /\ pc[p] = "step" /\ todo[p] = {}
    /\ Release(p)
    /\ UNCHANGED <<files, bounds>>

Kill(p) ==
    /\ pc[p] # "idle" /\ kills < MaxKills
    /\ kills' = kills + 1
    /\ Release(p)
    /\ UNCHANGED <<files, tears>>

TearLog(w) ==
    /\ pc[w] = "append" /\ tears < MaxTears
    /\ logTail' = "torn"
    /\ tears' = tears + 1
    /\ Release(w)
    /\ UNCHANGED <<log, lines, treeTail, kept, kills>>

TearTree(p) ==
    /\ pc[p] = "decide" /\ ~ Has(tree[p], Node(p)) /\ tears < MaxTears
    /\ treeTail' = "torn"
    /\ tears' = tears + 1
    /\ Release(p)
    /\ UNCHANGED <<log, logTail, lines, kept, kills>>

(***************************************************************************)
Turn(w) == \/ StartAppend(w) \/ LockLog(w) \/ TrimTornTail(w)
           \/ \E kind \in {"short", "long"} : AppendEntry(w, kind)
Curate(p) == Accepted(p) \/ Rejected(p) \/ CuratorError(p)
NextStep(p) == EndNap(p) \/ \E n \in Nodes : SkipNode(p, n) \/ AskCurator(p, n)
Nap(p) == \/ StartNap(p) \/ LoadSettled(p) \/ NextStep(p)
          \/ LockTree(p) \/ WriteSummary(p) \/ KeepFirstSummary(p)

Next ==
    \/ \E w \in Turns : Turn(w) \/ TearLog(w)
    \/ \E p \in Naps : Nap(p) \/ Curate(p) \/ TearTree(p)
    \/ \E p \in Naps \cup Turns : Kill(p)

Spec == Init /\ [][Next]_vars

(***************************************************************************)
(* Fairness.  A process that runs takes its steps, and LOCK is given in    *)
(* turn (flock).  Fairness says nothing of the curator; CuratorsAnswer,   *)
(* an assumption of one property, is that a chat spawns naps again and     *)
(* again and that a curator call, which its timeout ends, does not always  *)
(* end in an error.                                                        *)
(***************************************************************************)
Fairness ==
    /\ \A w \in Turns : SF_vars(LockLog(w)) /\ WF_vars(pc[w] \in {"trim", "append"} /\ Turn(w))
    /\ \A p \in Naps : /\ SF_vars(LoadSettled(p)) /\ SF_vars(LockTree(p))
                       /\ WF_vars(NextStep(p))
                       /\ WF_vars(WriteSummary(p) \/ KeepFirstSummary(p))

CuratorsAnswer ==
    \A p \in Naps : SF_vars(StartNap(p)) /\ WF_vars(Curate(p)) /\ SF_vars(Accepted(p))
-----------------------------------------------------------------------------
Ranges == [lo : Nat, hi : Nat]
From == SUBSET (Ranges \X (Texts \cup {Fallback, Raw}))
Answer == [node : Nodes \cup {NoNode}, tries : 0..MaxTries,
           text : Texts \cup {Fallback, Raw}, from : From]
Summaries == [node : Nodes, text : Texts \cup {Fallback}, from : From]

TypeOK ==
    /\ log \in Seq(Kinds) /\ Len(log) <= MaxLog /\ logTail \in {"whole", "torn"}
    /\ lines \in Seq(Summaries \cup {Junk}) /\ treeTail \in {"whole", "torn"}
    /\ lock \in Naps \cup Turns \cup {NoOne} /\ napLock \in Naps \cup {NoOne}
    /\ pc \in [Naps \cup Turns -> {"idle", "load", "step", "curate", "commit", "decide",
                                   "wait", "trim", "append"}]
    /\ \A p \in Naps : pc[p] \notin {"wait", "trim", "append"}
    /\ \A w \in Turns : pc[w] \in {"idle", "wait", "trim", "append"}
    /\ snap \in [Naps -> Seq(Kinds)]
    /\ tree \in [Naps -> SUBSET Summaries]
    /\ todo \in [Naps -> SUBSET Nodes]
    /\ answer \in [Naps -> Answer]
    /\ kept \subseteq (1..MaxLog) \X Kinds
    /\ tears \in 0..MaxTears /\ kills \in 0..MaxKills

\* Store::append: an entry that was answered Ok stays where it is, whole,
\* whatever a crash left at the end of the file before it was written.
KeptEntriesStay == \A e \in kept : e[1] <= Len(log) /\ log[e[1]] = e[2]

\* "A node is written once and never rebuilt" (ralph-chat.md, Memory): what a
\* reader makes of tree.jsonl only grows, so a view it has shown stays true.
SummariesStay == [][Committed \subseteq ParseTree(lines')]_vars

\* commit: with all the re-reads and locks, no node is ever written twice,
\* not even by naps that overlap.
WrittenOnce ==
    \A i, j \in DOMAIN lines :
        Junk \notin {lines[i], lines[j]} /\ lines[i].node = lines[j].node => i = j

\* "A parent never summarizes a dropped child" (ralph-chat.md, Nap
\* consistency): the line of each half the prompt showed is the committed one.
ParentsFollowChildren ==
    \A s \in Committed : \A line \in s.from :
        IF line[2] = Raw
          THEN log[line[1].hi] = "short"
          ELSE Has(Committed, line[1]) /\ TextOf(Committed, line[1]) = line[2]

\* NAP: "two naps never pay twice for the same node" (memory.rs): of the naps
\* that take NAP, no two ever have the same node at the curator, and what one
\* of them asks about is not yet summarized unless an older nap does it too.
Serialized == Naps \ Unserialized
Asking(p) == pc[p] \in {"curate", "commit"}
NobodyPaysTwice ==
    \A p \in Serialized : Asking(p) =>
        /\ \A q \in Serialized \ {p} : Asking(q) => Node(q) # Node(p)
        /\ Unserialized = {} => ~ Has(Committed, Node(p))

\* A nap never makes a turn wait: append ends even if no curator ever answers.
AppendsEnd ==
    \A w \in Turns : pc[w] = "wait" ~> (pc[w] = "idle" \/ Len(log) = MaxLog)

\* What a nap that failed or died left pending, later naps summarize: as long
\* as naps are spawned and curators answer, in the end nothing is pending.
AllSummarized == CuratorsAnswer => <>[](Pending(log, Committed) = {})
=============================================================================
