---------------------------- MODULE MemoryProofs ----------------------------
(***************************************************************************)
(* What holds of the memory store for every number of naps and turns, of   *)
(* every log, and however many writes are cut short: types, and the three  *)
(* promises of the files (entries stay, summaries are written once, what a *)
(* reader has seen stays).  Then the files of the indexes: sweeps leave    *)
(* saves alone, and a read sees all that was there.  At the end, the       *)
(* views: each shows every entry once, within its budget.                  *)
(***************************************************************************)
EXTENDS Memory, Index, View, FiniteSetTheorems, SequenceTheorems, WellFoundedInduction, TLAPS

USE MemoryAssumption

(***************************************************************************)
(* Types.                                                                  *)
(***************************************************************************)
LEMMA ParseTreeType ==
  ASSUME NEW S, NEW ls \in Seq(S)
  PROVE  ParseTree(ls) \subseteq S \ {Junk}
BY DEF ParseTree

\* The line of a half is the raw entry or the text of a summary.
LEMMA SourceType ==
  ASSUME NEW s \in SUBSET Summaries, NEW n \in Nodes
  PROVE  Source(s, n) \in From
<1>1. \A h : LineOf(s, h) \in Texts \cup {Fallback, Raw}
  BY DEF LineOf, TextOf, Has, Summaries
<1>2. Halves(n) \subseteq Ranges
  <2>1. n.lo \in Nat /\ n.hi \in Nat
    BY DEF Nodes
  <2>2. (n.lo + n.hi) \div 2 \in Nat
    BY <2>1
  <2> QED
    BY <2>1, <2>2 DEF Halves, Ranges
<1> QED
  BY <1>1, <1>2 DEF Source, From

LEMMA PromptType ==
  ASSUME TypeOK, NEW p \in Naps, NEW n \in Nodes
  PROVE  Prompt(p, n) \in Answer
<1>1. Source(tree[p], n) \in From
  BY SourceType DEF TypeOK
<1> QED
  BY <1>1 DEF Prompt, NoAnswer, NoNode, Answer

LEMMA NoAnswerType == NoAnswer \in Answer
BY DEF NoAnswer, NoNode, Answer, From

LEMMA PendingType ==
  ASSUME NEW e, NEW s
  PROVE  Pending(e, s) \subseteq Nodes
BY DEF Pending

LEMMA CommittedType == TypeOK => Committed \subseteq Summaries
BY ParseTreeType DEF TypeOK, Committed

(***************************************************************************)
(* The strengthening: who is between two steps under LOCK holds it, so the *)
(* room for an entry it saw is still there; what a nap is about to commit  *)
(* is a line for a node.                                                   *)
(***************************************************************************)
LockHeld ==
  /\ \A p \in Naps \cup Turns : pc[p] \in {"trim", "append", "decide"} => lock = p
  /\ \A w \in Turns : pc[w] \in {"trim", "append"} => Len(log) < MaxLog
AnswerReady ==
  \A p \in Naps : /\ pc[p] \in {"curate", "commit", "decide"} => Node(p) \in Nodes
                  /\ pc[p] \in {"commit", "decide"} => answer[p].text # Raw
TypeInv == TypeOK /\ LockHeld /\ AnswerReady

LEMMA TypeInit == Init => TypeInv
<1> SUFFICES ASSUME Init PROVE TypeInv
  OBVIOUS
<1>1. log \in Seq(Kinds) /\ Len(log) \in 0..MaxLog /\ DOMAIN log = 1..Len(log)
  <2>1. PICK n \in 0..MaxLog : log \in [1..n -> Kinds]
    BY DEF Init
  <2> QED
    BY <2>1
<1>2. kept \subseteq (1..MaxLog) \X Kinds
  BY <1>1 DEF Init
<1>3. answer \in [Naps -> Answer]
  BY NoAnswerType DEF Init
<1>4. TypeOK
  BY <1>1, <1>2, <1>3 DEF Init, TypeOK
<1> QED
  BY <1>4 DEF Init, TypeInv, LockHeld, AnswerReady

LEMMA ReleaseStep ==
  ASSUME TypeInv, NEW p \in Naps \cup Turns, Release(p), UNCHANGED <<log, lines, kept>>,
         logTail' \in {"whole", "torn"}, treeTail' \in {"whole", "torn"},
         tears' \in 0..MaxTears, kills' \in 0..MaxKills
  PROVE  TypeInv'
<1>1. CASE p \in Naps
  <2>0. /\ snap' \in [Naps -> Seq(Kinds)] /\ tree' \in [Naps -> SUBSET Summaries]
        /\ todo' \in [Naps -> SUBSET Nodes] /\ answer' \in [Naps -> Answer]
    <3>0. <<>> \in Seq(Kinds) /\ snap \in [Naps -> Seq(Kinds)] /\ answer \in [Naps -> Answer]
      BY DEF TypeInv, TypeOK
    <3>1. snap' = [snap EXCEPT ![p] = <<>>] /\ snap' \in [Naps -> Seq(Kinds)]
      BY <1>1, <3>0 DEF Release
    <3>2. tree' = [tree EXCEPT ![p] = {}] /\ tree' \in [Naps -> SUBSET Summaries]
      BY <1>1 DEF TypeInv, TypeOK, Release
    <3>3. todo' = [todo EXCEPT ![p] = {}] /\ todo' \in [Naps -> SUBSET Nodes]
      BY <1>1 DEF TypeInv, TypeOK, Release
    <3>4. answer' = [answer EXCEPT ![p] = NoAnswer] /\ answer' \in [Naps -> Answer]
      BY <1>1, <3>0, NoAnswerType DEF Release
    <3> QED
      BY <3>1, <3>2, <3>3, <3>4
  <2>1. TypeOK'
    BY <1>1, <2>0 DEF TypeInv, TypeOK, Release, Goto
  <2>2. LockHeld' /\ AnswerReady'
    BY <1>1 DEF TypeInv, TypeOK, LockHeld, AnswerReady, Node, Release, Goto
  <2> QED
    BY <2>1, <2>2 DEF TypeInv
<1>2. CASE p \notin Naps
  <2>1. TypeOK'
    BY <1>2 DEF TypeInv, TypeOK, Release, Goto, nap
  <2>2. LockHeld' /\ AnswerReady'
    BY <1>2 DEF TypeInv, TypeOK, LockHeld, AnswerReady, Node, Release, Goto, nap
  <2> QED
    BY <2>1, <2>2 DEF TypeInv
<1> QED
  BY <1>1, <1>2

\* A turn's step.
LEMMA TurnStep ==
  ASSUME TypeInv, NEW w \in Turns, Turn(w)
  PROVE  TypeInv'
<1> USE DEF Goto, files, locks, nap, bounds
<1>1. CASE StartAppend(w)
  <2>1. TypeOK'
    BY <1>1 DEF StartAppend, TypeInv, TypeOK
  <2>2. LockHeld' /\ AnswerReady'
    BY <1>1 DEF StartAppend, TypeInv, TypeOK, LockHeld, AnswerReady, Node
  <2> QED
    BY <2>1, <2>2 DEF TypeInv
<1>2. CASE LockLog(w)
  <2>1. TypeOK'
    BY <1>2 DEF LockLog, TypeInv, TypeOK
  <2>2. LockHeld' /\ AnswerReady'
    BY <1>2 DEF LockLog, TypeInv, TypeOK, LockHeld, AnswerReady, Node
  <2> QED
    BY <2>1, <2>2 DEF TypeInv
<1>3. CASE TrimTornTail(w)
  <2>1. TypeOK'
    BY <1>3 DEF TrimTornTail, TypeInv, TypeOK
  <2>2. LockHeld' /\ AnswerReady'
    BY <1>3 DEF TrimTornTail, TypeInv, TypeOK, LockHeld, AnswerReady, Node
  <2> QED
    BY <2>1, <2>2 DEF TypeInv
<1>4. ASSUME NEW kind \in {"short", "long"}, AppendEntry(w, kind) PROVE TypeInv'
  <2>1. log' \in Seq(Kinds) /\ Len(log') = Len(log) + 1 /\ Len(log) \in Nat
    BY <1>4 DEF AppendEntry, TypeInv, TypeOK, Kinds
  <2>2. Len(log) < MaxLog /\ lock = w
    BY <1>4 DEF AppendEntry, TypeInv, TypeOK, LockHeld
  <2>3. kept' \subseteq (1..MaxLog) \X Kinds
    BY <1>4, <2>1, <2>2 DEF AppendEntry, TypeInv, TypeOK, Kinds
  <2>4. TypeOK'
    BY <1>4, <2>1, <2>2, <2>3 DEF AppendEntry, TypeInv, TypeOK
  <2>5. LockHeld' /\ AnswerReady'
    BY <1>4, <2>1, <2>2 DEF AppendEntry, TypeInv, TypeOK, LockHeld, AnswerReady, Node
  <2> QED
    BY <2>4, <2>5 DEF TypeInv
<1> QED
  BY <1>1, <1>2, <1>3, <1>4 DEF Turn

\* A nap's step, the curator's answer aside.
LEMMA NapStep ==
  ASSUME TypeInv, NEW p \in Naps, Nap(p)
  PROVE  TypeInv'
<1> USE DEF Goto, files, locks, bounds
<1>1. CASE StartNap(p)
  <2>1. TypeOK'
    BY <1>1 DEF StartNap, TypeInv, TypeOK, nap
  <2>2. LockHeld' /\ AnswerReady'
    BY <1>1 DEF StartNap, TypeInv, TypeOK, LockHeld, AnswerReady, Node, nap
  <2> QED
    BY <2>1, <2>2 DEF TypeInv
<1>2. CASE LoadSettled(p)
  <2>1. Committed \in SUBSET Summaries /\ Pending(log, Committed) \in SUBSET Nodes
    BY CommittedType, PendingType DEF TypeInv
  <2>2. TypeOK'
    BY <1>2, <2>1 DEF LoadSettled, TypeInv, TypeOK
  <2>3. LockHeld' /\ AnswerReady'
    BY <1>2 DEF LoadSettled, TypeInv, TypeOK, LockHeld, AnswerReady, Node
  <2> QED
    BY <2>2, <2>3 DEF TypeInv
<1>3. CASE EndNap(p)
  BY <1>3, ReleaseStep DEF EndNap, TypeInv, TypeOK
<1>4. ASSUME NEW n \in Nodes, SkipNode(p, n) PROVE TypeInv'
  <2>1. TypeOK'
    BY <1>4 DEF SkipNode, Visit, TypeInv, TypeOK
  <2>2. LockHeld' /\ AnswerReady'
    BY <1>4 DEF SkipNode, Visit, TypeInv, TypeOK, LockHeld, AnswerReady, Node
  <2> QED
    BY <2>1, <2>2 DEF TypeInv
<1>5. ASSUME NEW n \in Nodes, AskCurator(p, n) PROVE TypeInv'
  <2>1. Prompt(p, n) \in Answer /\ Prompt(p, n).node = n
    BY PromptType DEF TypeInv, Prompt, NoAnswer
  <2>2. TypeOK'
    BY <1>5, <2>1 DEF AskCurator, Visit, TypeInv, TypeOK
  <2>3. LockHeld' /\ AnswerReady'
    BY <1>5, <2>1 DEF AskCurator, Visit, TypeInv, TypeOK, LockHeld, AnswerReady, Node
  <2> QED
    BY <2>2, <2>3 DEF TypeInv
<1>6. CASE LockTree(p)
  <2>1. Committed \in SUBSET Summaries
    BY CommittedType DEF TypeInv
  <2>2. TypeOK'
    BY <1>6, <2>1 DEF LockTree, TypeInv, TypeOK
  <2>3. LockHeld' /\ AnswerReady'
    BY <1>6 DEF LockTree, TypeInv, TypeOK, LockHeld, AnswerReady, Node
  <2> QED
    BY <2>2, <2>3 DEF TypeInv
<1>7. CASE WriteSummary(p)
  <2>1. NewSummary(p) \in Summaries
    BY <1>7 DEF WriteSummary, NewSummary, Node, TypeInv, TypeOK, AnswerReady, Answer, Summaries
  <2>2. lines' \in Seq(Summaries \cup {Junk})
    BY <1>7, <2>1 DEF WriteSummary, TypeInv, TypeOK
  <2>3. TypeOK'
    BY <1>7, <2>1, <2>2, NoAnswerType DEF WriteSummary, NextNode, TypeInv, TypeOK
  <2>4. LockHeld' /\ AnswerReady'
    BY <1>7 DEF WriteSummary, NextNode, TypeInv, TypeOK, LockHeld, AnswerReady, Node
  <2> QED
    BY <2>3, <2>4 DEF TypeInv
<1>8. CASE KeepFirstSummary(p)
  <2>1. TypeOK'
    BY <1>8, NoAnswerType DEF KeepFirstSummary, NextNode, TypeInv, TypeOK
  <2>2. LockHeld' /\ AnswerReady'
    BY <1>8 DEF KeepFirstSummary, NextNode, TypeInv, TypeOK, LockHeld, AnswerReady, Node
  <2> QED
    BY <2>1, <2>2 DEF TypeInv
<1> QED
  BY <1>1, <1>2, <1>3, <1>4, <1>5, <1>6, <1>7, <1>8 DEF Nap, NextStep

\* What the curator answers, or that it fails.
LEMMA CurateStep ==
  ASSUME TypeInv, NEW p \in Naps, Curate(p)
  PROVE  TypeInv'
<1> USE DEF Goto, files, locks, bounds
<1>1. CASE Accepted(p)
  <2>1. PICK t \in Texts : answer' = [answer EXCEPT ![p].text = t]
    BY <1>1 DEF Accepted
  <2>0. answer[p] \in Answer
    BY DEF TypeInv, TypeOK
  <2>2. [answer[p] EXCEPT !.text = t] \in Answer
    BY <2>0 DEF Answer
  <2>3. TypeOK'
    BY <1>1, <2>1, <2>2 DEF Accepted, TypeInv, TypeOK
  <2>4. LockHeld'
    BY <1>1 DEF Accepted, TypeInv, TypeOK, LockHeld
  <2>5. AnswerReady'
    BY <1>1, <2>1 DEF Accepted, TypeInv, TypeOK, AnswerReady, Node, Answer
  <2> QED
    BY <2>3, <2>4, <2>5 DEF TypeInv
<1>2. CASE Rejected(p) /\ answer[p].tries + 1 < MaxTries
  <2>0. answer[p] \in Answer
    BY DEF TypeInv, TypeOK
  <2>1. [answer[p] EXCEPT !.tries = @ + 1] \in Answer
    BY <1>2, <2>0 DEF Answer
  <2>2. /\ answer' = [answer EXCEPT ![p] = [answer[p] EXCEPT !.tries = @ + 1]]
        /\ UNCHANGED <<pc, log, logTail, lines, treeTail, kept, lock, napLock, snap, tree,
                       todo, tears, kills>>
    BY <1>2 DEF Rejected
  <2>3. TypeOK'
    BY <2>1, <2>2 DEF TypeInv, TypeOK
  <2>4. LockHeld' /\ AnswerReady'
    BY <2>0, <2>2 DEF TypeInv, TypeOK, LockHeld, AnswerReady, Node, Answer
  <2> QED
    BY <2>3, <2>4 DEF TypeInv
<1>3. CASE Rejected(p) /\ ~ (answer[p].tries + 1 < MaxTries)
  <2>0. answer[p] \in Answer
    BY DEF TypeInv, TypeOK
  <2>1. [answer[p] EXCEPT !.text = Fallback] \in Answer
    BY <2>0 DEF Answer
  <2>2. /\ answer' = [answer EXCEPT ![p] = [answer[p] EXCEPT !.text = Fallback]]
        /\ pc[p] = "curate" /\ pc' = [pc EXCEPT ![p] = "commit"]
        /\ UNCHANGED <<log, logTail, lines, treeTail, kept, lock, napLock, snap, tree,
                       todo, tears, kills>>
    BY <1>3 DEF Rejected
  <2>3. TypeOK'
    BY <2>1, <2>2 DEF TypeInv, TypeOK
  <2>4. LockHeld'
    BY <2>2 DEF TypeInv, TypeOK, LockHeld
  <2>5. AnswerReady'
    BY <2>0, <2>2 DEF TypeInv, TypeOK, AnswerReady, Node, Answer, Fallback, Raw
  <2> QED
    BY <2>3, <2>4, <2>5 DEF TypeInv
<1>4. CASE CuratorError(p)
  <2>1. TypeOK'
    BY <1>4, NoAnswerType DEF CuratorError, NextNode, TypeInv, TypeOK
  <2>2. LockHeld' /\ AnswerReady'
    BY <1>4 DEF CuratorError, NextNode, TypeInv, TypeOK, LockHeld, AnswerReady, Node
  <2> QED
    BY <2>1, <2>2 DEF TypeInv
<1> QED
  BY <1>1, <1>2, <1>3, <1>4 DEF Curate

LEMMA TypeStep == TypeInv /\ [Next]_vars => TypeInv'
<1> SUFFICES ASSUME TypeInv, [Next]_vars PROVE TypeInv'
  OBVIOUS
<1>1. ASSUME NEW w \in Turns, TearLog(w) PROVE TypeInv'
  <2>1. /\ Release(w) /\ UNCHANGED <<log, lines, kept>>
        /\ logTail' = "torn" /\ treeTail' = treeTail
        /\ tears' \in 0..MaxTears /\ kills' = kills
    BY <1>1 DEF TearLog, TypeInv, TypeOK
  <2>2. treeTail \in {"whole", "torn"} /\ kills \in 0..MaxKills
    BY DEF TypeInv, TypeOK
  <2> QED
    BY <2>1, <2>2, ReleaseStep
<1>2. ASSUME NEW p \in Naps, TearTree(p) PROVE TypeInv'
  <2>1. /\ Release(p) /\ UNCHANGED <<log, lines, kept>>
        /\ treeTail' = "torn" /\ logTail' = logTail
        /\ tears' \in 0..MaxTears /\ kills' = kills
    BY <1>2 DEF TearTree, TypeInv, TypeOK
  <2>2. logTail \in {"whole", "torn"} /\ kills \in 0..MaxKills
    BY DEF TypeInv, TypeOK
  <2> QED
    BY <2>1, <2>2, ReleaseStep
<1>3. ASSUME NEW p \in Naps \cup Turns, Kill(p) PROVE TypeInv'
  BY <1>3, ReleaseStep DEF Kill, TypeInv, TypeOK, files
<1>4. CASE UNCHANGED vars
  BY <1>4 DEF vars, TypeInv, TypeOK, LockHeld, AnswerReady, Node
<1> QED
  BY <1>1, <1>2, <1>3, <1>4, TurnStep, NapStep, CurateStep DEF Next

\* The types of the store's files and of the processes' memory.
THEOREM TypeCorrect == Spec => []TypeOK
<1>1. TypeInv => TypeOK
  BY DEF TypeInv
<1> QED
  BY <1>1, TypeInit, TypeStep, PTL DEF Spec
(***************************************************************************)
(* The files.                                                              *)
(***************************************************************************)
\* A nap about to decide has read the tree as it still is.
TreeIsFresh == \A p \in Naps : pc[p] = "decide" => tree[p] = Committed
\* A turn about to write has seen to the torn tail.
TailIsWhole == \A w \in Turns : pc[w] = "append" => logTail = "whole"
FileInv == TypeInv /\ TreeIsFresh /\ TailIsWhole /\ KeptEntriesStay /\ WrittenOnce

\* A node that some line of tree.jsonl records is committed.
LEMMA WrittenIsCommitted ==
  ASSUME WrittenOnce, NEW i \in DOMAIN lines, lines[i] # Junk, DOMAIN lines = 1..Len(lines)
  PROVE  Has(Committed, lines[i].node)
<1>1. \A j \in 1..i-1 : j \in DOMAIN lines /\ j # i
  OBVIOUS
<1>2. \A j \in 1..i-1 : lines[j] = Junk \/ lines[j].node # lines[i].node
  BY <1>1 DEF WrittenOnce
<1> QED
  BY <1>2 DEF Has, Committed, ParseTree

\* Steps that write neither file.
LEMMA FilesKept ==
  ASSUME FileInv, TypeInv', UNCHANGED <<log, lines, kept>>,
         \A p \in Naps : pc'[p] = "decide" => tree'[p] = Committed,
         \A w \in Turns : pc'[w] = "append" => logTail' = "whole"
  PROVE  FileInv'
BY DEF FileInv, TreeIsFresh, TailIsWhole, KeptEntriesStay, WrittenOnce, Committed

LEMMA FileStep == FileInv /\ [Next]_vars => FileInv'
<1> SUFFICES ASSUME FileInv, [Next]_vars PROVE FileInv'
  OBVIOUS
<1>0. TypeInv /\ TypeOK /\ LockHeld /\ TypeInv'
  BY TypeStep DEF FileInv, TypeInv
<1> USE DEF Goto
<1>1. ASSUME NEW w \in Turns, Turn(w) PROVE FileInv'
  <2>1. CASE StartAppend(w) \/ LockLog(w)
    BY <1>0, <2>1, FilesKept DEF StartAppend, LockLog, FileInv, TreeIsFresh, TailIsWhole, TypeOK, files, nap
  <2>2. CASE TrimTornTail(w)
    BY <1>0, <2>2, FilesKept DEF TrimTornTail, FileInv, TreeIsFresh, TypeOK, nap
  <2>3. ASSUME NEW kind \in {"short", "long"}, AppendEntry(w, kind) PROVE FileInv'
    <3>1. log' = Append(log, kind) /\ lines' = lines /\ tree' = tree
      BY <1>0, <2>3 DEF AppendEntry, FileInv, TailIsWhole, nap
    <3>2. KeptEntriesStay'
      BY <1>0, <2>3, <3>1 DEF AppendEntry, FileInv, KeptEntriesStay, TypeOK, Kinds
    <3>3. TreeIsFresh' /\ TailIsWhole'
      BY <1>0, <2>3, <3>1 DEF AppendEntry, FileInv, TreeIsFresh, TailIsWhole, Committed, TypeOK
    <3>4. WrittenOnce'
      BY <3>1 DEF FileInv, WrittenOnce
    <3> QED
      BY <1>0, <3>2, <3>3, <3>4 DEF FileInv
  <2> QED
    BY <1>1, <2>1, <2>2, <2>3 DEF Turn
<1>2. ASSUME NEW p \in Naps, Nap(p) \/ Curate(p), ~ WriteSummary(p) PROVE FileInv'
  <2>1. UNCHANGED <<log, lines, kept, logTail>>
    BY <1>2 DEF Nap, NextStep, Curate, StartNap, LoadSettled, EndNap, SkipNode, AskCurator, LockTree,
         KeepFirstSummary, Accepted, Rejected, CuratorError, files
  <2>2. \A w \in Turns : pc'[w] = pc[w]
    BY <1>0, <1>2 DEF Nap, NextStep, Curate, StartNap, LoadSettled, EndNap, Release, SkipNode, AskCurator,
         LockTree, KeepFirstSummary, Accepted, Rejected, CuratorError, NextNode, TypeOK
  <2>3. \A q \in Naps : pc'[q] = "decide" => tree'[q] = Committed
    BY <1>0, <1>2 DEF Nap, NextStep, Curate, StartNap, LoadSettled, EndNap, Release, SkipNode, AskCurator,
         LockTree, KeepFirstSummary, Accepted, Rejected, CuratorError, NextNode, TypeOK, FileInv,
         TreeIsFresh, nap
  <2> QED
    BY <1>0, <2>1, <2>2, <2>3, FilesKept DEF FileInv, TailIsWhole
<1>3. ASSUME NEW p \in Naps, WriteSummary(p) PROVE FileInv'
  <2>1. pc[p] = "decide" /\ lock = p /\ tree[p] = Committed /\ ~ Has(Committed, Node(p))
    BY <1>0, <1>3 DEF WriteSummary, LockHeld, FileInv, TreeIsFresh
  <2>2. \A q \in (Naps \cup Turns) \ {p} : pc[q] # "decide" /\ pc'[q] = pc[q]
    BY <1>0, <1>3, <2>1 DEF WriteSummary, NextNode, LockHeld, TypeOK
  <2>3. TreeIsFresh'
    BY <1>0, <1>3, <2>2 DEF WriteSummary, NextNode, TreeIsFresh, TypeOK
  <2>4. TailIsWhole' /\ KeptEntriesStay'
    BY <1>0, <1>3, <2>2 DEF WriteSummary, FileInv, TailIsWhole, KeptEntriesStay
  <2>5. WrittenOnce'
    <3> DEFINE new == IF treeTail = "torn" THEN Junk ELSE NewSummary(p)
    <3>1. lines' = Append(lines, new) /\ lines \in Seq(Summaries \cup {Junk})
      BY <1>0, <1>3 DEF WriteSummary, TypeOK
    <3>2. new # Junk => new.node = Node(p)
      BY DEF NewSummary
    <3>3. \A i \in DOMAIN lines : lines[i] # Junk => lines[i].node # Node(p)
      BY <2>1, <3>1, WrittenIsCommitted DEF FileInv
    <3> QED
      BY <3>1, <3>2, <3>3 DEF FileInv, WrittenOnce
  <2> QED
    BY <1>0, <2>3, <2>4, <2>5 DEF FileInv
<1>4. ASSUME NEW p \in Naps \cup Turns, Kill(p) \/ (p \in Turns /\ TearLog(p)) \/ (p \in Naps /\ TearTree(p))
      PROVE  FileInv'
  <2>1. UNCHANGED <<log, lines, kept>> /\ Release(p)
    BY <1>4 DEF Kill, TearLog, TearTree, files
  <2>2. \A q \in Naps : pc'[q] = "decide" => tree'[q] = Committed
    BY <1>0, <2>1 DEF Release, TypeOK, FileInv, TreeIsFresh, nap
  <2>3. \A w \in Turns : pc'[w] = "append" => logTail' = "whole"
    BY <1>0, <1>4, <2>1 DEF Release, Kill, TearLog, TearTree, TypeOK, FileInv, TailIsWhole, LockHeld, files
  <2> QED
    BY <1>0, <2>1, <2>2, <2>3, FilesKept
<1>5. CASE UNCHANGED vars
  BY <1>0, <1>5, FilesKept DEF vars, FileInv, TreeIsFresh, TailIsWhole
<1> QED
  BY <1>1, <1>2, <1>3, <1>4, <1>5 DEF Next

LEMMA FileInit == Init => FileInv
<1> SUFFICES ASSUME Init PROVE FileInv
  OBVIOUS
<1>1. TypeInv
  BY TypeInit
<1>2. KeptEntriesStay
  BY <1>1 DEF Init, KeptEntriesStay, TypeInv, TypeOK
<1> QED
  BY <1>1, <1>2 DEF Init, FileInv, TreeIsFresh, TailIsWhole, WrittenOnce

\* Every entry append answered Ok for stays whole at its place, however many
\* appends before it were cut short.
THEOREM EntriesStay == Spec => []KeptEntriesStay
<1>1. FileInv => KeptEntriesStay
  BY DEF FileInv
<1> QED
  BY <1>1, FileInit, FileStep, PTL DEF Spec

\* First writer wins: no node is written to tree.jsonl twice, with any number
\* of naps of which some take no NAP lock.
THEOREM FirstWriterWins == Spec => []WrittenOnce
<1>1. FileInv => WrittenOnce
  BY DEF FileInv
<1> QED
  BY <1>1, FileInit, FileStep, PTL DEF Spec

\* What a reader has made of tree.jsonl never changes.
THEOREM ReadersAgree == Spec => SummariesStay
<1>1. TypeInv /\ [Next]_vars => [Committed \subseteq ParseTree(lines')]_vars
  <2> SUFFICES ASSUME TypeInv, [Next]_vars PROVE Committed \subseteq ParseTree(lines')
    OBVIOUS
  <2>1. CASE UNCHANGED lines
    BY <2>1 DEF Committed
  <2>2. ASSUME NEW p \in Naps, WriteSummary(p) PROVE Committed \subseteq ParseTree(lines')
    <3>1. NewSummary(p) \in Summaries
      BY <2>2 DEF WriteSummary, NewSummary, Node, TypeInv, TypeOK, AnswerReady, Answer, Summaries
    <3>2. PICK new \in Summaries \cup {Junk} : lines' = Append(lines, new)
      BY <2>2, <3>1 DEF WriteSummary
    <3>3. /\ lines \in Seq(Summaries \cup {Junk})
          /\ DOMAIN lines' = 1..Len(lines) + 1 /\ DOMAIN lines = 1..Len(lines) /\ Len(lines) \in Nat
          /\ \A i \in 1..Len(lines) : lines'[i] = lines[i]
      BY <3>2 DEF TypeInv, TypeOK
    <3> QED
      BY <3>3 DEF Committed, ParseTree
  <2>3. CASE UNCHANGED vars
    BY <2>1, <2>3 DEF vars
  <2>4. (\A p \in Naps : ~ WriteSummary(p)) /\ Next => UNCHANGED lines
    BY DEF Next, Turn, Nap, NextStep, Curate, StartAppend, LockLog, TrimTornTail, AppendEntry,
       StartNap, LoadSettled, EndNap, SkipNode, AskCurator, LockTree, KeepFirstSummary, Accepted,
       Rejected, CuratorError, Kill, TearLog, TearTree, files
  <2> QED
    BY <2>1, <2>2, <2>3, <2>4
<1> QED
  BY <1>1, TypeInit, TypeStep, PTL DEF Spec, SummariesStay

(***************************************************************************)
(* What summaries are built from.  Only a line glued to a torn one loses a *)
(* summary, and it stays in the file as Junk.                              *)
(***************************************************************************)
NothingLost == \A i \in DOMAIN lines : lines[i] # Junk

\* Each line a prompt showed is a short entry of the log or a committed text.
Follows(from, entries, summaries) ==
  \A line \in from :
    IF line[2] = Raw THEN line[1].hi \in 1..Len(entries) /\ entries[line[1].hi] = "short"
                     ELSE \E s \in summaries : s.node = line[1] /\ s.text = line[2]

SnapIsPrefix ==
  \A p \in Naps : Len(snap[p]) <= Len(log) /\ \A i \in 1..Len(snap[p]) : snap[p][i] = log[i]
\* A nap visits nodes of the entries it loaded, and no block with a corrupt one.
TodoIsSeen ==
  \A p \in Naps : \A n \in todo[p] : /\ n.hi <= Len(snap[p])
                                     /\ Size(n) = 1 \/ Intact(snap[p], n)
NapsFollow == \A p \in Naps : tree[p] \subseteq Committed /\ Follows(answer[p].from, log, Committed)
TreeFollows == \A s \in Committed : Follows(s.from, log, Committed)
ParentInv == FileInv /\ SnapIsPrefix /\ TodoIsSeen /\ (NothingLost => NapsFollow /\ TreeFollows)

LEMMA ParseAppend ==
  ASSUME NEW ls \in Seq(Summaries \cup {Junk}), NEW new \in Summaries \cup {Junk}
  PROVE  /\ ParseTree(ls) \subseteq ParseTree(Append(ls, new))
         /\ ParseTree(Append(ls, new)) \subseteq ParseTree(ls) \cup ({new} \ {Junk})
<1> DEFINE more == Append(ls, new)
<1>1. /\ DOMAIN more = 1..Len(ls) + 1 /\ DOMAIN ls = 1..Len(ls) /\ Len(ls) \in Nat
      /\ \A i \in 1..Len(ls) : more[i] = ls[i]
      /\ more[Len(ls) + 1] = new
  OBVIOUS
<1> HIDE DEF more
<1>2. ParseTree(ls) \subseteq ParseTree(more)
  BY <1>1 DEF ParseTree
<1>3. ParseTree(more) \subseteq ParseTree(ls) \cup ({new} \ {Junk})
  <2> SUFFICES ASSUME NEW i \in 1..Len(ls) + 1, more[i] # Junk,
                      \A j \in 1..i-1 : more[j] = Junk \/ more[j].node # more[i].node
               PROVE  more[i] \in ParseTree(ls) \cup ({new} \ {Junk})
    BY <1>1 DEF ParseTree
  <2>1. CASE i = Len(ls) + 1
    BY <1>1, <2>1
  <2>2. CASE i \in 1..Len(ls)
    BY <1>1, <2>2 DEF ParseTree
  <2> QED
    BY <1>1, <2>1, <2>2
<1> QED
  BY <1>2, <1>3 DEF more

\* A node has one committed text.
LEMMA OneText ==
  ASSUME TypeOK, NEW s \in Committed, NEW t \in Committed, s.node = t.node
  PROVE  s = t
<1>1. DOMAIN lines = 1..Len(lines) /\ Len(lines) \in Nat
  BY DEF TypeOK
<1>2. PICK i \in DOMAIN lines : /\ s = lines[i] /\ lines[i] # Junk
                                /\ \A j \in 1..i-1 : lines[j] = Junk \/ lines[j].node # lines[i].node
  BY DEF Committed, ParseTree
<1>3. PICK k \in DOMAIN lines : /\ t = lines[k] /\ lines[k] # Junk
                                /\ \A j \in 1..k-1 : lines[j] = Junk \/ lines[j].node # lines[k].node
  BY DEF Committed, ParseTree
<1>4. ~ (i < k) /\ ~ (k < i)
  BY <1>1, <1>2, <1>3
<1> QED
  BY <1>1, <1>2, <1>3, <1>4

\* A half that is one entry lies in its node.
LEMMA HalfInside ==
  ASSUME NEW n \in Nodes, NEW h \in Halves(n), Size(h) = 1
  PROVE  h.hi \in n.lo+1..n.hi
<1>1. n.lo \in Nat /\ n.hi \in Nat
  BY DEF Nodes
<1> DEFINE mid == (n.lo + n.hi) \div 2
<1>2. mid \in Nat /\ 2 * mid <= n.lo + n.hi /\ n.lo + n.hi <= 2 * mid + 1
  BY <1>1
<1>3. h = [lo |-> n.lo, hi |-> mid] \/ h = [lo |-> mid, hi |-> n.hi]
  BY DEF Halves
<1> HIDE DEF mid
<1> QED
  BY <1>1, <1>2, <1>3 DEF Size

\* The prompt of a node that is asked for shows committed lines.
LEMMA PromptFollows ==
  ASSUME ParentInv, NEW p \in Naps, NEW n \in todo[p], ~ Blocked(p, n), tree[p] \subseteq Committed
  PROVE  Follows(Source(tree[p], n), log, Committed)
<1>1. TypeOK /\ n \in Nodes
  BY DEF ParentInv, FileInv, TypeInv, TypeOK
<1>2. CASE Size(n) = 1
  BY <1>2 DEF Source, Follows
<1>3. CASE Size(n) # 1
  <2>1. SUFFICES ASSUME NEW h \in Halves(n)
                 PROVE  Follows({<<h, LineOf(tree[p], h)>>}, log, Committed)
    BY <1>3 DEF Source, Follows
  <2>2. Ready(snap[p], tree[p], h) /\ n.hi <= Len(snap[p]) /\ Intact(snap[p], n)
    BY <1>3 DEF Blocked, ParentInv, TodoIsSeen
  <2>3. CASE Has(tree[p], h)
    <3>1. PICK s \in tree[p] : s.node = h /\ LineOf(tree[p], h) = s.text
      BY <2>3 DEF Has, LineOf, TextOf
    <3>2. s \in Summaries
      BY <1>1 DEF TypeOK
    <3>3. s.text # Raw
      <4>1. s.text \in Texts \cup {Fallback}
        BY <3>2 DEF Summaries
      <4>2. Fallback # Raw
        BY DEF Fallback, Raw
      <4> QED
        BY <4>1, <4>2
    <3> QED
      BY <3>1, <3>3 DEF Follows
  <2>4. CASE ~ Has(tree[p], h)
    <3>1. Size(h) = 1 /\ snap[p][h.hi] # "long" /\ LineOf(tree[p], h) = Raw
      BY <2>2, <2>4 DEF Ready, LineOf
    <3>2. h.hi \in n.lo+1..n.hi
      BY <1>1, <3>1, HalfInside
    <3>3. h.hi \in 1..Len(snap[p]) /\ Len(snap[p]) \in Nat
      BY <1>1, <2>2, <3>2 DEF Nodes, TypeOK
    <3>4. snap[p][h.hi] \in Kinds /\ snap[p][h.hi] # "corrupt"
      BY <1>1, <2>2, <3>2, <3>3 DEF TypeOK, Intact
    <3>5. Len(snap[p]) <= Len(log) /\ snap[p][h.hi] = log[h.hi] /\ Len(log) \in Nat
      BY <1>1, <3>3 DEF ParentInv, SnapIsPrefix, TypeOK
    <3> QED
      BY <3>1, <3>3, <3>4, <3>5 DEF Follows, Kinds
  <2> QED
    BY <2>3, <2>4
<1> QED
  BY <1>2, <1>3

\* Steps that write neither file: what a nap loads, drops or shows is as it was
\* or as the files are.
LEMMA ParentsKept ==
  ASSUME ParentInv, FileInv', UNCHANGED <<log, lines>>,
         \A p \in Naps :
            /\ \/ snap'[p] = snap[p] /\ todo'[p] \subseteq todo[p]
               \/ snap'[p] = log /\ todo'[p] \subseteq Pending(log, Committed)
               \/ snap'[p] = <<>> /\ todo'[p] = {}
            /\ tree'[p] \in {tree[p], Committed, {}}
            /\ \/ answer'[p].from \in {answer[p].from, {}}
               \/ NothingLost => Follows(answer'[p].from, log, Committed)
  PROVE  ParentInv'
<1>1. TypeOK /\ Committed' = Committed /\ (NothingLost' <=> NothingLost)
  BY DEF ParentInv, FileInv, TypeInv, Committed, NothingLost
<1>3. SnapIsPrefix'
  BY <1>1 DEF ParentInv, SnapIsPrefix, TypeOK
<1>4. TodoIsSeen'
  BY DEF ParentInv, TodoIsSeen, Pending, Size, Intact
<1>5. NothingLost' => NapsFollow' /\ TreeFollows'
  <2> SUFFICES ASSUME NothingLost' PROVE NapsFollow' /\ TreeFollows'
    OBVIOUS
  <2>1. TreeFollows'
    BY <1>1 DEF ParentInv, TreeFollows
  <2>2. Follows({}, log, Committed)
    BY DEF Follows
  <2>3. \A p \in Naps : Follows(answer'[p].from, log, Committed)
    BY <1>1, <2>2 DEF ParentInv, NapsFollow
  <2>4. \A p \in Naps : tree'[p] \subseteq Committed
    BY <1>1 DEF ParentInv, NapsFollow
  <2>5. NapsFollow'
    BY <1>1, <2>3, <2>4 DEF NapsFollow
  <2> QED
    BY <2>1, <2>5
<1> QED
  BY <1>3, <1>4, <1>5 DEF ParentInv

LEMMA ParentStep == ParentInv /\ [Next]_vars => ParentInv'
<1> SUFFICES ASSUME ParentInv, [Next]_vars PROVE ParentInv'
  OBVIOUS
<1>0. FileInv /\ FileInv' /\ TypeOK
  BY FileStep DEF ParentInv, FileInv, TypeInv
<1>1. ASSUME NEW w \in Turns, NEW kind \in {"short", "long"}, AppendEntry(w, kind) PROVE ParentInv'
  <2>1. PICK e : log' = Append(log, e)
    BY <1>1 DEF AppendEntry
  <2>2. UNCHANGED <<lines, snap, tree, todo, answer>>
    BY <1>1 DEF AppendEntry, nap
  <2>3. Len(log') = Len(log) + 1 /\ Len(log) \in Nat /\ \A i \in 1..Len(log) : log'[i] = log[i]
    BY <1>0, <2>1 DEF TypeOK
  <2>4. SnapIsPrefix'
    BY <1>0, <2>2, <2>3 DEF ParentInv, SnapIsPrefix, TypeOK
  <2>5. TodoIsSeen'
    BY <2>2 DEF ParentInv, TodoIsSeen
  <2>6. \A from : Follows(from, log, Committed) => Follows(from, log', Committed')
    BY <2>2, <2>3 DEF Follows, Committed
  <2>7. NothingLost' => NapsFollow' /\ TreeFollows'
    BY <2>2, <2>6 DEF ParentInv, NothingLost, NapsFollow, TreeFollows, Committed
  <2> QED
    BY <1>0, <2>4, <2>5, <2>7 DEF ParentInv
<1>2. ASSUME NEW w \in Turns, Turn(w), ~ \E kind \in {"short", "long"} : AppendEntry(w, kind)
      PROVE  ParentInv'
  <2>1. UNCHANGED <<log, lines, snap, tree, todo, answer>>
    BY <1>2 DEF Turn, StartAppend, LockLog, TrimTornTail, files, nap
  <2> QED
    BY <1>0, <2>1, ParentsKept
<1>3. ASSUME NEW p \in Naps, WriteSummary(p) PROVE ParentInv'
  <2> DEFINE new == IF treeTail = "torn" THEN Junk ELSE NewSummary(p)
  <2>1. /\ pc[p] = "decide" /\ tree[p] = Committed /\ ~ Has(Committed, Node(p))
        /\ lines' = Append(lines, new) /\ lines \in Seq(Summaries \cup {Junk})
        /\ tree' = [tree EXCEPT ![p] = @ \cup {NewSummary(p)}]
        /\ answer' = [answer EXCEPT ![p] = NoAnswer]
        /\ UNCHANGED <<log, snap, todo>>
    BY <1>0, <1>3 DEF WriteSummary, NextNode, FileInv, TreeIsFresh, TypeOK
  <2>2. NewSummary(p) \in Summaries /\ NewSummary(p) # Junk
    <3>1. NewSummary(p) \in Summaries
      BY <1>0, <2>1 DEF NewSummary, Node, FileInv, TypeInv, TypeOK, AnswerReady, Answer, Summaries
    <3>2. Junk \notin Summaries
      <4>1. "junk" # Fallback
        BY DEF Fallback
      <4> QED
        BY <4>1 DEF Junk, Summaries
    <3> QED
      BY <3>1, <3>2
  <2>3. Committed \subseteq Committed' /\ Committed' \subseteq Committed \cup ({new} \ {Junk})
    <3>1. new \in Summaries \cup {Junk}
      BY <2>2
    <3> HIDE DEF new
    <3> QED
      BY <2>1, <3>1, ParseAppend DEF Committed
  <2>4. SnapIsPrefix' /\ TodoIsSeen'
    BY <2>1 DEF ParentInv, SnapIsPrefix, TodoIsSeen
  <2>5. ASSUME NothingLost' PROVE NapsFollow' /\ TreeFollows'
    <3>1. /\ DOMAIN lines' = 1..Len(lines) + 1 /\ DOMAIN lines = 1..Len(lines) /\ Len(lines) \in Nat
          /\ \A i \in 1..Len(lines) : lines'[i] = lines[i]
          /\ lines'[Len(lines) + 1] = new
      <4> HIDE DEF new
      <4> QED
        BY <2>1
    <3>2. NothingLost /\ new = NewSummary(p)
      BY <2>5, <3>1 DEF NothingLost
    <3>3. NewSummary(p) \in Committed'
      <4>1. NewSummary(p).node = Node(p)
        BY DEF NewSummary
      <4>2. \A i \in DOMAIN lines : lines[i] # Junk => lines[i].node # Node(p)
        BY <1>0, <2>1, <3>1, WrittenIsCommitted DEF FileInv
      <4>3. \A j \in 1..(Len(lines) + 1) - 1 : lines'[j].node # NewSummary(p).node
        BY <3>1, <3>2, <4>1, <4>2 DEF NothingLost
      <4> HIDE DEF new
      <4> QED
        BY <2>2, <3>1, <3>2, <4>3 DEF Committed, ParseTree
    <3>4. \A from : Follows(from, log, Committed) => Follows(from, log', Committed')
      BY <2>1, <2>3 DEF Follows
    <3>5. NapsFollow /\ TreeFollows
      BY <3>2 DEF ParentInv
    <3>6. Follows(NewSummary(p).from, log', Committed')
      <4>1. Follows(answer[p].from, log, Committed)
        BY <3>5 DEF NapsFollow
      <4> QED
        BY <3>4, <4>1 DEF NewSummary
    <3>7. TreeFollows'
      BY <2>3, <3>2, <3>4, <3>5, <3>6 DEF TreeFollows
    <3>8. \A q \in Naps : tree'[q] \subseteq Committed'
      BY <1>0, <2>1, <2>3, <3>3, <3>5 DEF NapsFollow, TypeOK
    <3>9. \A q \in Naps : Follows(answer'[q].from, log', Committed')
      <4>1. Follows({}, log', Committed')
        BY DEF Follows
      <4>2. \A q \in Naps : answer'[q].from = answer[q].from \/ answer'[q].from = {}
        BY <1>0, <2>1 DEF TypeOK, NoAnswer
      <4>3. \A q \in Naps : Follows(answer[q].from, log, Committed)
        BY <3>5 DEF NapsFollow
      <4> QED
        BY <3>4, <4>1, <4>2, <4>3
    <3> QED
      BY <3>7, <3>8, <3>9 DEF NapsFollow
  <2> QED
    BY <1>0, <2>4, <2>5 DEF ParentInv
<1>4. ASSUME NEW p \in Naps, NEW n \in Nodes, AskCurator(p, n) PROVE ParentInv'
  <2>1. /\ n \in todo[p] /\ ~ Blocked(p, n)
        /\ todo' = [todo EXCEPT ![p] = @ \ {n}]
        /\ answer' = [answer EXCEPT ![p] = Prompt(p, n)]
        /\ UNCHANGED <<log, lines, snap, tree>>
    BY <1>4 DEF AskCurator, Visit, First, files
  <2>2. Prompt(p, n).from = Source(tree[p], n)
    BY DEF Prompt
  <2>3. NothingLost => Follows(Prompt(p, n).from, log, Committed)
    BY <2>1, <2>2, PromptFollows DEF ParentInv, NapsFollow
  <2>4. \A q \in Naps : \/ answer'[q].from = answer[q].from
                        \/ NothingLost => Follows(answer'[q].from, log, Committed)
    BY <1>0, <2>1, <2>3 DEF TypeOK
  <2>5. \A q \in Naps : todo'[q] \subseteq todo[q] /\ snap'[q] = snap[q] /\ tree'[q] = tree[q]
    BY <1>0, <2>1 DEF TypeOK
  <2> QED
    BY <1>0, <2>1, <2>4, <2>5, ParentsKept
<1>5. ASSUME NEW p \in Naps, LoadSettled(p) PROVE ParentInv'
  BY <1>0, <1>5, ParentsKept DEF LoadSettled, TypeOK, files
<1>6. ASSUME NEW p \in Naps, StartNap(p) \/ (\E n \in Nodes : SkipNode(p, n)) \/ LockTree(p) PROVE ParentInv'
  <2>1. /\ UNCHANGED <<log, lines, snap, answer>>
        /\ \A q \in Naps : todo'[q] \subseteq todo[q] /\ tree'[q] \in {tree[q], Committed}
    <3>1. CASE StartNap(p)
      BY <3>1 DEF StartNap, files, nap
    <3>2. CASE \E n \in Nodes : SkipNode(p, n)
      BY <1>0, <3>2 DEF SkipNode, Visit, TypeOK, files
    <3>3. CASE LockTree(p)
      BY <1>0, <3>3 DEF LockTree, TypeOK, files
    <3> QED
      BY <1>6, <3>1, <3>2, <3>3
  <2> QED
    BY <1>0, <2>1, ParentsKept
<1>7. ASSUME NEW p \in Naps, KeepFirstSummary(p) \/ Curate(p) PROVE ParentInv'
  <2>1. UNCHANGED <<log, lines, snap, todo, tree>>
    BY <1>7 DEF KeepFirstSummary, Curate, Accepted, Rejected, CuratorError, files
  <2>2. \A q \in Naps : answer'[q].from \in {answer[q].from, {}}
    <3>0. \A q \in Naps : answer[q] \in Answer
      BY <1>0 DEF TypeOK
    <3>1. CASE KeepFirstSummary(p) \/ CuratorError(p)
      <4>1. answer' = [answer EXCEPT ![p] = NoAnswer] /\ NoAnswer.from = {}
        BY <3>1 DEF KeepFirstSummary, CuratorError, NextNode, NoAnswer
      <4> QED
        BY <1>0, <4>1 DEF TypeOK
    <3>2. CASE Accepted(p) \/ Rejected(p)
      <4>1. PICK x \in {[answer[p] EXCEPT !.text = t] : t \in Texts \cup {Fallback}}
                       \cup {[answer[p] EXCEPT !.tries = @ + 1]} :
              answer' = [answer EXCEPT ![p] = x]
        BY <3>2 DEF Accepted, Rejected
      <4>2. x.from = answer[p].from
        BY <3>0, <4>1 DEF Answer
      <4> QED
        BY <1>0, <4>1, <4>2 DEF TypeOK
    <3> QED
      BY <1>7, <3>1, <3>2 DEF Curate
  <2> QED
    BY <1>0, <2>1, <2>2, ParentsKept
<1>8. ASSUME NEW p \in Naps \cup Turns, Release(p), UNCHANGED <<log, lines>> PROVE ParentInv'
  <2>1. CASE p \notin Naps
    BY <1>0, <1>8, <2>1, ParentsKept DEF Release, nap
  <2>2. CASE p \in Naps
    <3>1. \A q \in Naps : \/ /\ snap'[q] = snap[q] /\ todo'[q] = todo[q]
                             /\ tree'[q] = tree[q] /\ answer'[q] = answer[q]
                          \/ /\ snap'[q] = <<>> /\ todo'[q] = {}
                             /\ tree'[q] = {} /\ answer'[q] = NoAnswer
      BY <1>0, <1>8, <2>2 DEF Release, TypeOK
    <3>2. NoAnswer.from = {}
      BY DEF NoAnswer
    <3> QED
      BY <1>0, <1>8, <3>1, <3>2, ParentsKept
  <2> QED
    BY <2>1, <2>2
<1>9. CASE UNCHANGED vars
  BY <1>0, <1>9, ParentsKept DEF vars
<1> QED
  BY <1>1, <1>2, <1>3, <1>4, <1>5, <1>6, <1>7, <1>8, <1>9
     DEF Next, Turn, Nap, NextStep, EndNap, Kill, TearLog, TearTree, files

\* A parent is built from the committed lines of its halves, whatever the
\* naps, the crashes and the curator do, until a summary is lost in a line that
\* was glued to a torn one (Store::put does not look at the end of the file).
THEOREM ParentsAreTrue == Spec => [](NothingLost => ParentsFollowChildren)
<1>1. Init => ParentInv
  <2> SUFFICES ASSUME Init PROVE ParentInv
    OBVIOUS
  <2>1. Committed = {}
    BY DEF Init, Committed, ParseTree
  <2>2. FileInv /\ TypeOK
    BY FileInit DEF FileInv, TypeInv
  <2>3. SnapIsPrefix /\ TodoIsSeen
    BY <2>2 DEF Init, SnapIsPrefix, TodoIsSeen, TypeOK
  <2>4. NapsFollow /\ TreeFollows
    BY <2>1 DEF Init, NapsFollow, TreeFollows, Follows, NoAnswer
  <2> QED
    BY <2>2, <2>3, <2>4 DEF ParentInv
<1>2. ParentInv => (NothingLost => ParentsFollowChildren)
  <2> SUFFICES ASSUME ParentInv, NothingLost, NEW s \in Committed, NEW line \in s.from, line[2] # Raw
               PROVE  Has(Committed, line[1]) /\ TextOf(Committed, line[1]) = line[2]
    BY DEF ParentInv, TreeFollows, Follows, ParentsFollowChildren
  <2>1. PICK t \in Committed : t.node = line[1] /\ t.text = line[2]
    BY DEF ParentInv, TreeFollows, Follows
  <2>2. \A u \in Committed : u.node = line[1] => u = t
    BY <2>1, OneText DEF ParentInv, FileInv, TypeInv
  <2> QED
    BY <2>1, <2>2 DEF Has, TextOf
<1> QED
  BY <1>1, <1>2, ParentStep, PTL DEF Spec

(***************************************************************************)
(* NAP.  A nap that takes it holds it for its whole run, so it is the only *)
(* one; where all take it, it has in its tree whatever is committed.       *)
(***************************************************************************)
NapIsAlone == \A p \in Serialized : pc[p] # "idle" => napLock = p
Awake == {"step", "curate", "commit", "decide"}
SeesItsOwn ==
  \A p \in Naps : /\ pc[p] \in Awake => Committed \subseteq tree[p]
                  /\ Asking(p) => ~ Has(tree[p], Node(p))
NapInv == FileInv /\ NapIsAlone /\ (Unserialized = {} => SeesItsOwn)

LEMMA NapAloneStep == NapInv /\ [Next]_vars => NapIsAlone'
<1> SUFFICES ASSUME NapInv, [Next]_vars PROVE NapIsAlone'
  OBVIOUS
<1>0. TypeOK /\ Serialized \subseteq Naps /\ NoOne \notin Naps
  BY DEF NapInv, FileInv, TypeInv, Serialized
<1>1. ASSUME NEW p \in Naps, StartNap(p) PROVE NapIsAlone'
  BY <1>0, <1>1 DEF StartNap, NapInv, NapIsAlone, Serialized, Goto, TypeOK
<1>2. ASSUME NEW p \in Naps \cup Turns, Release(p) PROVE NapIsAlone'
  BY <1>0, <1>2 DEF Release, NapInv, NapIsAlone, Goto, TypeOK
<1>3. ASSUME NEW p \in Naps \cup Turns, pc[p] # "idle", UNCHANGED napLock,
             \E there : pc' = [pc EXCEPT ![p] = there]
      PROVE  NapIsAlone'
  BY <1>0, <1>3 DEF NapInv, NapIsAlone, TypeOK
<1>4. CASE UNCHANGED <<pc, napLock>>
  BY <1>4 DEF NapInv, NapIsAlone
<1>5. ASSUME NEW w \in Turns, Turn(w) PROVE NapIsAlone'
  <2>1. /\ UNCHANGED napLock
        /\ \E there : pc' = [pc EXCEPT ![w] = there]
    BY <1>5 DEF Turn, StartAppend, LockLog, TrimTornTail, AppendEntry, Goto, locks
  <2> QED
    BY <1>0, <2>1 DEF NapInv, NapIsAlone, TypeOK, Serialized
<1>6. ASSUME NEW p \in Naps, Nap(p) \/ Curate(p), ~ StartNap(p), ~ EndNap(p) PROVE NapIsAlone'
  <2>1. pc[p] # "idle" /\ UNCHANGED napLock
    BY <1>6 DEF Nap, NextStep, Curate, LoadSettled, SkipNode, AskCurator, Visit, LockTree, WriteSummary,
       KeepFirstSummary, Accepted, Rejected, CuratorError, locks
  <2>2. UNCHANGED pc \/ \E there : pc' = [pc EXCEPT ![p] = there]
    BY <1>6 DEF Nap, NextStep, Curate, LoadSettled, SkipNode, AskCurator, Visit, LockTree, WriteSummary,
       KeepFirstSummary, Accepted, Rejected, CuratorError, NextNode, Goto
  <2> QED
    BY <1>3, <1>4, <2>1, <2>2
<1> QED
  BY <1>1, <1>2, <1>4, <1>5, <1>6 DEF Next, Nap, NextStep, EndNap, Kill, TearLog, TearTree, vars

\* Where every nap takes NAP, what is committed while a nap is awake is its own.
LEMMA OwnStep == NapInv /\ [Next]_vars /\ Unserialized = {} => SeesItsOwn'
<1> SUFFICES ASSUME NapInv, [Next]_vars, Unserialized = {} PROVE SeesItsOwn'
  OBVIOUS
<1>0. TypeOK /\ SeesItsOwn /\ FileInv /\ Serialized = Naps
  BY DEF NapInv, FileInv, TypeInv, Serialized
<1> USE DEF Goto
<1>1. ASSUME UNCHANGED <<lines, tree, answer>>,
             \A p \in Naps : pc'[p] \in {pc[p], "idle", "load"}
                             \/ (Asking(p) /\ pc'[p] \in {"curate", "commit"})
      PROVE  SeesItsOwn'
  BY <1>0, <1>1 DEF SeesItsOwn, Asking, Awake, Node, Committed
<1>2. ASSUME NEW w \in Turns, Turn(w) PROVE SeesItsOwn'
  <2>1. /\ UNCHANGED <<lines, tree, answer>>
        /\ \A p \in Naps : pc'[p] = pc[p]
    <3>1. UNCHANGED <<lines, tree, answer>>
      BY <1>2 DEF Turn, StartAppend, LockLog, TrimTornTail, AppendEntry, files, nap
    <3>2. \E there : pc' = [pc EXCEPT ![w] = there]
      BY <1>2 DEF Turn, StartAppend, LockLog, TrimTornTail, AppendEntry
    <3> QED
      BY <1>0, <3>1, <3>2 DEF TypeOK
  <2> QED
    BY <1>1, <2>1
<1>3. ASSUME NEW p \in Naps, StartNap(p) \/ \E n \in Nodes : SkipNode(p, n) PROVE SeesItsOwn'
  <2>1. UNCHANGED <<lines, tree, answer>>
    BY <1>3 DEF StartNap, SkipNode, files, nap
  <2>2. UNCHANGED pc \/ pc' = [pc EXCEPT ![p] = "load"]
    BY <1>3 DEF StartNap, SkipNode
  <2> QED
    BY <1>0, <1>1, <2>1, <2>2 DEF TypeOK
<1>4. ASSUME NEW p \in Naps, LoadSettled(p) \/ LockTree(p) PROVE SeesItsOwn'
  <2>1. /\ UNCHANGED <<lines, answer>> /\ tree' = [tree EXCEPT ![p] = Committed]
        /\ pc' = [pc EXCEPT ![p] = "step"] \/ pc' = [pc EXCEPT ![p] = "decide"]
    BY <1>4 DEF LoadSettled, LockTree, files
  <2> QED
    BY <1>0, <2>1 DEF SeesItsOwn, Asking, Awake, Node, Committed, TypeOK
<1>5. ASSUME NEW p \in Naps, NEW n \in Nodes, AskCurator(p, n) PROVE SeesItsOwn'
  <2>1. /\ UNCHANGED <<lines, tree>> /\ pc[p] = "step" /\ ~ Has(tree[p], n)
        /\ answer' = [answer EXCEPT ![p] = Prompt(p, n)] /\ Prompt(p, n).node = n
        /\ pc' = [pc EXCEPT ![p] = "curate"]
    BY <1>5 DEF AskCurator, Visit, Prompt, files
  <2> QED
    BY <1>0, <2>1 DEF SeesItsOwn, Asking, Awake, Node, Committed, TypeOK
<1>6. ASSUME NEW p \in Naps, Accepted(p) \/ Rejected(p) PROVE SeesItsOwn'
  <2>1. PICK x \in {[answer[p] EXCEPT !.text = t] : t \in Texts \cup {Fallback}}
                   \cup {[answer[p] EXCEPT !.tries = @ + 1]} :
          answer' = [answer EXCEPT ![p] = x]
    BY <1>6 DEF Accepted, Rejected
  <2>2. answer[p] \in Answer
    BY <1>0 DEF TypeOK
  <2>3. x.node = Node(p)
    BY <2>1, <2>2 DEF Answer, Node
  <2>4. /\ UNCHANGED <<lines, tree>> /\ pc[p] = "curate"
        /\ UNCHANGED pc \/ pc' = [pc EXCEPT ![p] = "commit"]
    BY <1>6 DEF Accepted, Rejected, files
  <2> QED
    BY <1>0, <2>1, <2>3, <2>4 DEF SeesItsOwn, Asking, Awake, Node, Committed, TypeOK
<1>7. ASSUME NEW p \in Naps, CuratorError(p) \/ KeepFirstSummary(p) PROVE SeesItsOwn'
  <2>1. /\ UNCHANGED <<lines, tree>> /\ pc[p] \in {"curate", "decide"}
        /\ answer' = [answer EXCEPT ![p] = NoAnswer] /\ pc' = [pc EXCEPT ![p] = "step"]
    BY <1>7 DEF CuratorError, KeepFirstSummary, NextNode, files
  <2> QED
    BY <1>0, <2>1 DEF SeesItsOwn, Asking, Awake, Node, Committed, TypeOK
<1>8. ASSUME NEW p \in Naps, WriteSummary(p) PROVE SeesItsOwn'
  <2> DEFINE new == IF treeTail = "torn" THEN Junk ELSE NewSummary(p)
  <2>1. /\ pc[p] = "decide" /\ tree[p] = Committed
        /\ lines' = Append(lines, new) /\ lines \in Seq(Summaries \cup {Junk})
        /\ tree' = [tree EXCEPT ![p] = @ \cup {NewSummary(p)}]
        /\ pc' = [pc EXCEPT ![p] = "step"]
    BY <1>0, <1>8 DEF WriteSummary, NextNode, FileInv, TreeIsFresh, TypeOK
  <2>2. NewSummary(p) \in Summaries
    BY <1>0, <2>1 DEF NewSummary, Node, FileInv, TypeInv, TypeOK, AnswerReady, Answer, Summaries
  <2>3. Committed' \subseteq Committed \cup ({new} \ {Junk})
    <3>1. new \in Summaries \cup {Junk}
      BY <2>2
    <3> HIDE DEF new
    <3> QED
      BY <2>1, <3>1, ParseAppend DEF Committed
  <2>4. \A q \in Naps \ {p} : pc[q] = "idle"
    BY <1>0, <2>1 DEF NapInv, NapIsAlone
  <2> QED
    BY <1>0, <2>1, <2>3, <2>4 DEF SeesItsOwn, Asking, Awake, TypeOK
<1>9. ASSUME NEW p \in Naps \cup Turns, Release(p), UNCHANGED lines PROVE SeesItsOwn'
  <2>1. CASE p \notin Naps
    BY <1>0, <1>1, <1>9, <2>1 DEF Release, nap, TypeOK
  <2>2. CASE p \in Naps
    BY <1>0, <1>9, <2>2 DEF Release, SeesItsOwn, Asking, Awake, Node, Committed, TypeOK
  <2> QED
    BY <2>1, <2>2
<1>10. CASE UNCHANGED vars
  BY <1>0, <1>1, <1>10 DEF vars
<1> QED
  BY <1>2, <1>3, <1>4, <1>5, <1>6, <1>7, <1>8, <1>9, <1>10
     DEF Next, Nap, Curate, NextStep, EndNap, Kill, TearLog, TearTree, files

\* Two naps that take NAP never ask a curator about the same node, and where
\* every nap takes it nobody asks about a node that has its summary, for any
\* number of naps, deaths and torn writes.
THEOREM NoDoublePay == Spec => []NobodyPaysTwice
<1>1. Init => NapInv
  BY FileInit DEF Init, NapInv, NapIsAlone, SeesItsOwn, Asking, Awake, Serialized
<1>2. NapInv /\ [Next]_vars => NapInv'
  BY NapAloneStep, OwnStep, FileStep DEF NapInv
<1>3. NapInv => NobodyPaysTwice
  <2> SUFFICES ASSUME NapInv, NEW p \in Serialized, Asking(p)
               PROVE  /\ \A q \in Serialized \ {p} : Asking(q) => Node(q) # Node(p)
                      /\ Unserialized = {} => ~ Has(Committed, Node(p))
    BY DEF NobodyPaysTwice
  <2>1. \A q \in Serialized \ {p} : ~ Asking(q)
    BY DEF NapInv, NapIsAlone, Asking
  <2>2. Unserialized = {} => ~ Has(Committed, Node(p))
    BY DEF NapInv, SeesItsOwn, Asking, Awake, Has, Serialized
  <2> QED
    BY <2>1, <2>2
<1> QED
  BY <1>1, <1>2, <1>3, PTL DEF Spec

(***************************************************************************)
(* The index files (Index), for any number of readers, lines and mishaps.  *)
(***************************************************************************)
\* Every process has its fields and its place; what it read is left open.
Shaped ==
  /\ writer = [at |-> writer.at, file |-> writer.file, index |-> writer.index]
  /\ readers = [r \in ReaderIds |->
       [at |-> readers[r].at, locked |-> readers[r].locked, from |-> readers[r].from,
        snap |-> readers[r].snap, part |-> readers[r].part,
        index |-> readers[r].index, stale |-> readers[r].stale]]
  /\ made \in BOOLEAN /\ \A r \in ReaderIds : readers[r].locked \in BOOLEAN

\* The LOCK: a reader that has it and a writer are never there together.
LockIsShared == Exclusive => Shared = {}

\* Only a reader with the LOCK saves.
SavesAreLocked == \A r \in ReaderIds : readers[r].at = "rename" => readers[r].locked

IndexInv == Shaped /\ LockIsShared /\ SavesAreLocked /\ SweepsOnlyOrphans

\* A writer that holds the LOCK is alone: nobody has a save under way.
LEMMA WriterIsAlone ==
  ASSUME IndexInv, Exclusive, NEW r \in ReaderIds
  PROVE  readers[r].at # "rename" /\ ~readers[r].locked
  BY DEF IndexInv, LockIsShared, SavesAreLocked, Shared, Shaped

\* At the start nobody holds the LOCK and there is no temp file.
LEMMA InitSafe == IndexInit => IndexInv
<1> SUFFICES ASSUME IndexInit PROVE IndexInv
  OBVIOUS
<1>1. Shaped
  BY DEF IndexInit, Shaped, Asleep, NotWriting
<1>2. LockIsShared /\ SavesAreLocked /\ SweepsOnlyOrphans
  BY DEF IndexInit, LockIsShared, SavesAreLocked, SweepsOnlyOrphans, Exclusive, Asleep, NotWriting
<1> QED
  BY <1>1, <1>2 DEF IndexInv

\* A step of the writer that leaves the temp files of others alone.
LEMMA WriterSafe ==
  ASSUME IndexInv, Exclusive, UNCHANGED <<readers, made>>,
         writer' = [at |-> writer'.at, file |-> writer'.file, index |-> writer'.index],
         writer'.at = "rename" => <<"writer", writer'.file>> \in temps'
  PROVE  IndexInv'
<1>1. \A r \in ReaderIds : readers[r].at # "rename" /\ ~readers[r].locked
  BY WriterIsAlone
<1> QED
  BY <1>1 DEF IndexInv, Shaped, LockIsShared, SavesAreLocked, SweepsOnlyOrphans, Exclusive, Shared

\* A step of one reader, with or without the writer's LOCK.
LEMMA ReaderSafe ==
  ASSUME IndexInv, UNCHANGED <<writer, made>>, NEW r \in ReaderIds, NEW new,
         readers' = [readers EXCEPT ![r] = new],
         new = [at |-> new.at, locked |-> new.locked, from |-> new.from, snap |-> new.snap,
                part |-> new.part, index |-> new.index, stale |-> new.stale],
         new.locked \in BOOLEAN,
         Exclusive => ~new.locked,
         new.at = "rename" => new.locked /\ \A f \in new.stale : <<r, f>> \in temps',
         \A t \in temps : t[1] # r => t \in temps'
  PROVE  IndexInv'
<1> USE IndexAssumption
<1>1. r \in DOMAIN readers /\ readers'[r] = new
  BY DEF IndexInv, Shaped
<1>2. \A s \in ReaderIds : s # r => readers'[s] = readers[s]
  BY DEF IndexInv, Shaped
<1>3. Shaped'
  BY <1>1, <1>2 DEF IndexInv, Shaped
<1>4. LockIsShared' /\ SavesAreLocked'
  BY <1>1, <1>2 DEF IndexInv, LockIsShared, SavesAreLocked, Exclusive, Shared
<1>5. SweepsOnlyOrphans'
  BY <1>1, <1>2 DEF IndexInv, SweepsOnlyOrphans
<1> QED
  BY <1>3, <1>4, <1>5 DEF IndexInv

\* A step that moves no process and no temp file.
LEMMA OutsideSafe ==
  ASSUME IndexInv, UNCHANGED <<writer, readers, temps, made>>
  PROVE  IndexInv'
  BY DEF IndexInv, Shaped, LockIsShared, SavesAreLocked, SweepsOnlyOrphans, Exclusive, Shared

\* Every step of the writer, of a reader and of the world outside.
LEMMA NextSafe == IndexInv /\ [IndexNext]_indexVars => IndexInv'
<1> SUFFICES ASSUME IndexInv, [IndexNext]_indexVars PROVE IndexInv'
  OBVIOUS
<1> USE IndexAssumption
<1>1. ASSUME NEW f \in Stores, LockStore(f) PROVE IndexInv'
  <2>1. writer' = [at |-> "write", file |-> f, index |-> NoIndex] /\ made' = TRUE
        /\ UNCHANGED <<readers, temps>>
    BY <1>1 DEF LockStore, NotWriting
  <2>2. Shared = {}
    BY <1>1 DEF LockStore
  <2> QED
    BY <2>1, <2>2 DEF IndexInv, Shaped, LockIsShared, SavesAreLocked, SweepsOnlyOrphans, Exclusive, Shared
<1> DEFINE Kept == writer' = [at |-> writer'.at, file |-> writer'.file, index |-> writer'.index]
           OwnTemp == writer'.at = "rename" => <<"writer", writer'.file>> \in temps'
<1>2. ASSUME Kept, OwnTemp, Exclusive, UNCHANGED <<readers, made>> PROVE IndexInv'
  BY <1>2, WriterSafe
<1>3. writer = [at |-> writer.at, file |-> writer.file, index |-> writer.index]
  BY DEF IndexInv, Shaped
<1>4. CASE WriteLine \/ TearLine
  <2>1. Kept /\ OwnTemp
    BY <1>3, <1>4 DEF WriteLine, TearLine, WriterAt, NotWriting
  <2> QED
    BY <1>2, <1>4, <2>1 DEF WriteLine, TearLine, Exclusive
<1>5. CASE UpdateIndex
  <2>1. PICK at, index : writer' = [writer EXCEPT !.index = index, !.at = at] /\ at # "rename"
    <3> DEFINE f == writer.file
               fresh == Refresh(f, onDisk[f], fileLines[f], torn[f])
               at == CASE fresh.how = "fresh" -> "sweep"
                       [] fresh.how = "extended" -> "body"
                       [] fresh.how = "rebuilt" -> "temp"
    <3>1. fresh.how \in {"fresh", "extended", "rebuilt"}
      BY DEF Refresh
    <3>2. at # "rename"
      BY <3>1
    <3>3. writer' = [writer EXCEPT !.index = fresh.index, !.at = at]
      BY <1>5 DEF UpdateIndex
    <3> QED
      BY <3>2, <3>3
  <2>2. Kept /\ OwnTemp
    BY <1>3, <2>1
  <2> QED
    BY <1>2, <1>5, <2>2 DEF UpdateIndex, Exclusive
<1>6. CASE WriteBody \/ WriteHeader \/ WriteTemp
  <2>1. Kept /\ OwnTemp
    BY <1>3, <1>6 DEF WriteBody, WriteHeader, WriteTemp, WriterAt
  <2> QED
    BY <1>2, <1>6, <2>1 DEF WriteBody, WriteHeader, WriteTemp, Exclusive
<1>7. CASE RenameTemp \/ Sweep \/ WriterDies
  <2>1. Kept /\ OwnTemp
    BY <1>3, <1>7 DEF RenameTemp, Sweep, WriterDies, WriterAt, NotWriting
  <2> QED
    BY <1>2, <1>7, <2>1 DEF RenameTemp, Sweep, WriterDies, Exclusive
<1>8. ASSUME NEW r \in ReaderIds, NEW f \in Stores,
             \/ StartRead(r) \/ OpenFiles(r) \/ OpenArchive(r) \/ Load(r) \/ SaveStale(r)
             \/ EndRead(r) \/ ReaderDies(r) \/ RenameStale(r, f)
      PROVE IndexInv'
  <2> DEFINE new == readers'[r]
             Record(x) == x = [at |-> x.at, locked |-> x.locked, from |-> x.from, snap |-> x.snap,
                               part |-> x.part, index |-> x.index, stale |-> x.stale]
             Safe == /\ readers' = [readers EXCEPT ![r] = new] /\ Record(new)
                     /\ new.locked \in BOOLEAN
                     /\ Exclusive => ~new.locked
                     /\ new.at = "rename" =>
                          new.locked /\ \A g \in new.stale : <<r, g>> \in temps'
                     /\ \A t \in temps : t[1] # r => t \in temps'
                     /\ UNCHANGED <<writer, made>>
  <2>1. ASSUME Safe PROVE IndexInv'
    BY <2>1, ReaderSafe
  <2>2. Record(readers[r]) /\ readers[r].locked \in BOOLEAN /\ r \in DOMAIN readers
    BY DEF IndexInv, Shaped
  <2>3. Exclusive => ~readers[r].locked
    BY DEF IndexInv, LockIsShared, Shared
  <2>4. readers[r].at = "rename" =>
          readers[r].locked /\ \A g \in readers[r].stale : <<r, g>> \in temps
    BY DEF IndexInv, SavesAreLocked, SweepsOnlyOrphans
  <2>5. CASE StartRead(r)
    <3>1. made \in BOOLEAN
      BY DEF IndexInv, Shaped
    <3>2. Safe
      BY <2>2, <2>5, <3>1 DEF StartRead, Asleep, ReaderAt
    <3> QED
      BY <3>2, <2>1
  <2>6. CASE OpenFiles(r)
    <3>1. Safe
      BY <2>2, <2>3, <2>6 DEF OpenFiles, ReaderAt
    <3> QED
      BY <3>1, <2>1
  <2>7. CASE OpenArchive(r)
    <3>1. Safe
      BY <2>2, <2>3, <2>7 DEF OpenArchive, ReaderAt
    <3> QED
      BY <3>1, <2>1
  <2>8. CASE Load(r)
    <3>1. Safe
      BY <2>2, <2>3, <2>8 DEF Load, ReaderAt
    <3> QED
      BY <3>1, <2>1
  <2>9. CASE SaveStale(r)
    <3>1. Safe
      BY <2>2, <2>3, <2>9 DEF SaveStale, ReaderAt
    <3> QED
      BY <3>1, <2>1
  <2>10. CASE RenameStale(r, f)
    <3>1. new = [readers[r] EXCEPT !.stale = @ \ {f}] /\ UNCHANGED <<writer, made>>
      BY <2>2, <2>10 DEF RenameStale
    <3>2. \A t \in temps : t # <<r, f>> => t \in temps'
      BY <2>10 DEF RenameStale
    <3>3. \A t \in temps : t[1] # r => t \in temps'
      BY <3>2
    <3>4. new.at = "rename" => new.locked /\ \A g \in new.stale : <<r, g>> \in temps'
      <4>1. \A g : g # f => <<r, g>> # <<r, f>>
        OBVIOUS
      <4> QED
        BY <2>2, <2>4, <3>1, <3>2, <4>1
    <3>5. readers' = [readers EXCEPT ![r] = new]
      BY <2>2, <2>10 DEF RenameStale
    <3>6. Safe
      BY <2>2, <2>3, <3>1, <3>3, <3>4, <3>5
    <3> QED
      BY <3>6, <2>1
  <2>11. CASE EndRead(r) \/ ReaderDies(r)
    <3>1. readers' = [readers EXCEPT ![r] = Asleep] /\ UNCHANGED <<writer, made, temps>>
      BY <2>11 DEF EndRead, ReaderDies
    <3>2. Safe
      BY <2>2, <3>1 DEF Asleep
    <3> QED
      BY <3>2, <2>1
  <2> QED
    BY <1>8, <2>5, <2>6, <2>7, <2>8, <2>9, <2>10, <2>11
<1>9. ASSUME NEW f \in Stores, NEW n \in 1..MaxLines, PutBack(f, n) \/ SpoilSlot(n)
      PROVE  IndexInv'
  BY <1>9, OutsideSafe DEF DeleteIndex, PutBack, SpoilSlot
<1>10. ASSUME NEW f \in Stores, DeleteIndex(f)
       PROVE  IndexInv'
  BY <1>10, OutsideSafe DEF DeleteIndex
<1>11. CASE UNCHANGED indexVars
  BY <1>11, OutsideSafe DEF indexVars
<1> QED
  BY <1>1, <1>4, <1>5, <1>6, <1>7, <1>8, <1>9, <1>10, <1>11 DEF IndexNext, Stores

\* No sweep and no other save takes a temp file from under the save that is
\* about to rename it, for any number of readers and mishaps.
THEOREM SweepsAreSafe == IndexSpec => []SweepsOnlyOrphans
<1>1. IndexInv => SweepsOnlyOrphans
  BY DEF IndexInv
<1> QED
  BY InitSafe, NextSafe, <1>1, PTL DEF IndexSpec

(***************************************************************************)
(* What a read sees: the lines of a file, an index of them, and the ways   *)
(* an index comes to be, is brought up to date and comes to lie on disk.   *)
(***************************************************************************)
\* A line as the index sees it.
LineRecords == [serial : Nat, whole : BOOLEAN]

\* The complete lines of a file: their serial numbers grow, and stop at n.
GrowingLines(ls, n) ==
  /\ ls \in Seq(LineRecords)
  /\ \A i \in DOMAIN ls : ls[i].serial \in 1..n
  /\ \A i, j \in DOMAIN ls : i < j => ls[i].serial < ls[j].serial

StartsWith(ls, start) == Len(start) <= Len(ls) /\ \A i \in 1..Len(start) : start[i] = ls[i]

\* The lines up to the n-th that have a slot, and the serial of the n-th.
SlotPlaces(f, ls, n) == {i \in 1..n : f = "log" \/ ls[i].whole}
TailAt(ls, n) == IF n = 0 THEN 0 ELSE ls[n].serial

IndexShape(index) ==
  /\ index = [head |-> index.head, slots |-> index.slots]
  /\ index.head \in [covered : Nat, tail : Nat, count : Nat]
  /\ index.slots = [i \in DOMAIN index.slots |-> index.slots[i]]

\* The slots are those of the lines the header covers, but for the bad ones of
\* log.idx.
SlotsFit(f, index, ls) ==
  /\ index.head.count = Cardinality(SlotPlaces(f, ls, index.head.covered))
  /\ DOMAIN index.slots = SlotPlaces(f, ls, index.head.covered)
  /\ \A i \in DOMAIN index.slots : index.slots[i] = i \/ (f = "log" /\ index.slots[i] = 0)

\* Every slot there was is there.
KeepsSlots(new, old) ==
  \A i \in DOMAIN old.slots : i \in DOMAIN new.slots /\ new.slots[i] = old.slots[i]

\* The index is one of these lines, or of the first of them.
Reaches(f, index, ls) ==
  /\ IndexShape(index)
  /\ index.head.covered <= Len(ls)
  /\ index.head.tail = TailAt(ls, index.head.covered)
  /\ SlotsFit(f, index, ls)

CoversAll(f, index, ls) == Reaches(f, index, ls) /\ index.head.covered = Len(ls)

\* What lies on disk deceives nobody: if it decodes and its header fits the
\* lines, it is an index of them.
Honest(f, index, ls, n) ==
  /\ IndexShape(index)
  /\ index.head.tail <= n
  /\ (/\ Decodes(index)
      /\ index.head.covered <= Len(ls)
      /\ index.head.tail = TailAt(ls, index.head.covered)) => SlotsFit(f, index, ls)

LEMMA PlacesFinite ==
  ASSUME NEW f, NEW ls, NEW n \in Nat
  PROVE  IsFiniteSet(SlotPlaces(f, ls, n)) /\ Cardinality(SlotPlaces(f, ls, n)) \in Nat
<1>1. SlotPlaces(f, ls, n) \in SUBSET (1..n)
  BY DEF SlotPlaces
<1>2. IsFiniteSet(1..n)
  BY FS_Interval
<1> QED
  BY <1>1, <1>2, FS_Subset, FS_CardinalityType

\* What an index says of the first lines holds of any file that starts with them.
LEMMA CoversLonger ==
  ASSUME NEW f, NEW index, NEW ls \in Seq(LineRecords), NEW start \in Seq(LineRecords),
         StartsWith(ls, start), Reaches(f, index, start)
  PROVE  Reaches(f, index, ls)
<1>1. index.head.covered \in Nat /\ index.head.covered <= Len(start) /\ Len(start) \in Nat /\ Len(ls) \in Nat
  BY DEF Reaches, IndexShape
<1>2. \A i \in 1..index.head.covered : start[i] = ls[i]
  BY <1>1 DEF StartsWith
<1>3. SlotPlaces(f, ls, index.head.covered) = SlotPlaces(f, start, index.head.covered)
  BY <1>2 DEF SlotPlaces
<1>4. TailAt(ls, index.head.covered) = TailAt(start, index.head.covered)
  BY <1>1, <1>2 DEF TailAt
<1>5. index.head.covered <= Len(ls)
  BY <1>1 DEF StartsWith
<1> QED
  BY <1>3, <1>4, <1>5 DEF Reaches, SlotsFit

LEMMA CoversHonest ==
  ASSUME NEW f, NEW index, NEW n \in Nat, NEW ls, GrowingLines(ls, n), Reaches(f, index, ls)
  PROVE  Honest(f, index, ls, n)
<1>1. index.head.covered \in Nat /\ index.head.covered <= Len(ls) /\ ls \in Seq(LineRecords)
  BY DEF Reaches, IndexShape, GrowingLines
<1>2. index.head.covered # 0 => ls[index.head.covered].serial \in 1..n
  BY <1>1 DEF GrowingLines
<1>3. index.head.tail <= n
  BY <1>2 DEF Reaches, TailAt
<1> QED
  BY <1>3 DEF Reaches, Honest

\* A scan of the whole file.
LEMMA RebuiltCovers ==
  ASSUME NEW f, NEW ls \in Seq(LineRecords)
  PROVE  CoversAll(f, IndexOf(f, ls), ls) /\ IndexOf(f, ls).slots = Slots(f, ls)
<1> DEFINE index == IndexOf(f, ls)
<1>1. DOMAIN ls = 1..Len(ls) /\ Len(ls) \in Nat /\ (ls = <<>> <=> Len(ls) = 0)
  BY EmptySeq
<1>2. DOMAIN Slots(f, ls) = SlotPlaces(f, ls, Len(ls))
  BY <1>1 DEF Slots, SlotPlaces
<1>3. Count(Slots(f, ls)) = Cardinality(SlotPlaces(f, ls, Len(ls)))
      /\ Count(Slots(f, ls)) \in Nat
  BY <1>1, <1>2, PlacesFinite DEF Count
<1>4. index = [head |-> [covered |-> Len(ls), tail |-> TailAt(ls, Len(ls)),
                         count |-> Count(Slots(f, ls))], slots |-> Slots(f, ls)]
  BY <1>1 DEF IndexOf, Header, TailAt
<1>5. TailAt(ls, Len(ls)) \in Nat
  <2>1. Len(ls) # 0 => ls[Len(ls)] \in LineRecords
    BY <1>1
  <2> QED
    BY <2>1, <1>1 DEF TailAt, LineRecords
<1>6. IndexShape(index)
  BY <1>1, <1>3, <1>4, <1>5 DEF IndexShape, Slots
<1>7. \A i \in DOMAIN Slots(f, ls) : Slots(f, ls)[i] = i
  BY DEF Slots
<1> QED
  BY <1>1, <1>2, <1>3, <1>4, <1>6, <1>7 DEF CoversAll, Reaches, SlotsFit

\* A scan from where the index ends.
LEMMA ExtendedCovers ==
  ASSUME NEW f, NEW index, NEW ls \in Seq(LineRecords), Reaches(f, index, ls)
  PROVE  /\ CoversAll(f, Extend(f, index, ls), ls)
         /\ KeepsSlots(Extend(f, index, ls), index)
<1> DEFINE longer == Extend(f, index, ls)
           covered == index.head.covered
           added == {i \in DOMAIN Slots(f, ls) : i > covered}
           slots == [i \in DOMAIN index.slots \cup added |-> IF i \in added THEN i ELSE index.slots[i]]
<1>1. DOMAIN ls = 1..Len(ls) /\ Len(ls) \in Nat /\ (ls = <<>> <=> Len(ls) = 0)
  BY EmptySeq
<1>2. covered \in Nat /\ covered <= Len(ls)
  BY DEF Reaches, IndexShape
<1>3. DOMAIN Slots(f, ls) = SlotPlaces(f, ls, Len(ls)) /\ DOMAIN index.slots = SlotPlaces(f, ls, covered)
  BY <1>1 DEF Slots, SlotPlaces, Reaches, SlotsFit
<1>4. DOMAIN slots = SlotPlaces(f, ls, Len(ls))
  <2>1. DOMAIN slots = DOMAIN index.slots \cup added
    OBVIOUS
  <2>2. \A i : i \in SlotPlaces(f, ls, Len(ls)) <=> (i \in SlotPlaces(f, ls, covered) \/ i \in added)
    BY <1>1, <1>2, <1>3 DEF SlotPlaces
  <2> QED
    BY <1>3, <2>1, <2>2
<1>5. Count(slots) = Cardinality(SlotPlaces(f, ls, Len(ls))) /\ Count(slots) \in Nat
  BY <1>1, <1>4, PlacesFinite DEF Count
<1>6. longer = [head |-> [covered |-> Len(ls), tail |-> TailAt(ls, Len(ls)),
                          count |-> Count(slots)], slots |-> slots]
  BY <1>1 DEF Extend, Header, TailAt
<1>7. TailAt(ls, Len(ls)) \in Nat
  <2>1. Len(ls) # 0 => ls[Len(ls)] \in LineRecords
    BY <1>1
  <2> QED
    BY <2>1, <1>1 DEF TailAt, LineRecords
<1>8. slots = [i \in DOMAIN slots |-> slots[i]]
  OBVIOUS
<1>9. \A i \in DOMAIN slots : slots[i] = i \/ (f = "log" /\ slots[i] = 0)
  BY DEF Reaches, SlotsFit
<1>10. \A i \in DOMAIN index.slots : i \in DOMAIN slots /\ slots[i] = index.slots[i]
  <2>1. \A i \in DOMAIN index.slots : i \notin added
    BY <1>2, <1>3 DEF SlotPlaces
  <2> QED
    BY <2>1
<1> HIDE DEF slots
<1>11. IndexShape(longer)
  BY <1>1, <1>5, <1>6, <1>7, <1>8 DEF IndexShape
<1> QED
  BY <1>1, <1>4, <1>5, <1>6, <1>9, <1>10, <1>11 DEF CoversAll, Reaches, SlotsFit, KeepsSlots

\* An index of the longer file is one of the shorter, as far as it goes.
LEMMA CoversShorter ==
  ASSUME NEW f, NEW index, NEW ls \in Seq(LineRecords), NEW start \in Seq(LineRecords),
         StartsWith(ls, start), Reaches(f, index, ls), index.head.covered <= Len(start)
  PROVE  Reaches(f, index, start)
<1>1. index.head.covered \in Nat /\ Len(start) \in Nat /\ Len(ls) \in Nat
  BY DEF Reaches, IndexShape
<1>2. \A i \in 1..index.head.covered : start[i] = ls[i]
  BY <1>1 DEF StartsWith
<1>3. SlotPlaces(f, ls, index.head.covered) = SlotPlaces(f, start, index.head.covered)
  BY <1>2 DEF SlotPlaces
<1>4. TailAt(ls, index.head.covered) = TailAt(start, index.head.covered)
  BY <1>1, <1>2 DEF TailAt
<1> QED
  BY <1>3, <1>4 DEF Reaches, SlotsFit

\* Bringing an honest index up to date with lines the file starts with gives an
\* index of all of them, and an extension keeps the slots there were.
LEMMA RefreshCovers ==
  ASSUME NEW f, NEW index, NEW n \in Nat, NEW ls, GrowingLines(ls, n),
         NEW start \in Seq(LineRecords), StartsWith(ls, start), NEW isTorn \in BOOLEAN,
         Honest(f, index, ls, n), NEW fresh, fresh = Refresh(f, index, start, isTorn)
  PROVE  /\ CoversAll(f, fresh.index, start)
         /\ fresh.how \in {"fresh", "extended", "rebuilt"}
         /\ fresh.how = "extended" =>
              /\ Decodes(index)
              /\ KeepsSlots(fresh.index, index)
<1> DEFINE how == IF Decodes(index) THEN Freshness(index.head, start, isTorn) ELSE "rebuild"
           longer == Extend(f, index, start)
           covered == index.head.covered
<1>1. ls \in Seq(LineRecords) /\ Len(ls) \in Nat /\ Len(start) \in Nat /\ covered \in Nat
  BY DEF GrowingLines, Honest, IndexShape
<1>2. CASE how = "rebuild"
  <2>1. fresh.index = IndexOf(f, start) /\ fresh.how = "rebuilt"
    BY <1>2 DEF Refresh
  <2> QED
    BY <2>1, RebuiltCovers
<1>3. CASE how # "rebuild"
  <2>1. Decodes(index) /\ Freshness(index.head, start, isTorn) # "rebuild"
    BY <1>3
  <2>2. /\ ~(FileSize(start, isTorn) < 2 * covered)
        /\ index.head.tail = IF covered = 0 \/ Len(start) < covered THEN 0 ELSE start[covered].serial
    BY <2>1 DEF Freshness
  <2>3. covered <= Len(start)
    BY <2>2, <1>1 DEF FileSize
  <2>4. index.head.tail = TailAt(start, covered)
    BY <2>2, <2>3, <1>1 DEF TailAt
  <2>5. covered <= Len(ls)
    BY <1>1, <2>3 DEF StartsWith
  <2>6. TailAt(start, covered) = TailAt(ls, covered)
    BY <1>1, <2>3 DEF TailAt, StartsWith
  <2>7. Reaches(f, index, ls)
    BY <2>1, <2>4, <2>5, <2>6 DEF Honest, Reaches
  <2>8. Reaches(f, index, start)
    BY <1>1, <2>3, <2>7, CoversShorter
  <2>9. /\ CoversAll(f, longer, start)
        /\ KeepsSlots(longer, index)
    BY <2>8, ExtendedCovers
  <2>10. CASE how = "extend" /\ longer.head # index.head
    <3>1. fresh.index = longer /\ fresh.how = "extended"
      BY <2>10 DEF Refresh
    <3> QED
      BY <3>1, <2>1, <2>9
  <2>11. CASE ~(how = "extend" /\ longer.head # index.head)
    <3>1. fresh.index = index /\ fresh.how = "fresh"
      BY <2>11, <1>3 DEF Refresh
    <3>2. CASE how = "extend"
      <4>1. longer.head.covered = Len(start) /\ longer.head = index.head
        BY <2>9, <2>11, <3>2 DEF CoversAll
      <4> QED
        BY <2>8, <3>1, <4>1 DEF CoversAll
    <3>3. CASE how # "extend"
      <4>1. FileSize(start, isTorn) = 2 * covered
        BY <3>3, <2>1, <2>2 DEF Freshness
      <4>2. covered = Len(start)
        BY <4>1, <2>3, <1>1 DEF FileSize
      <4> QED
        BY <2>8, <3>1, <4>2 DEF CoversAll
    <3> QED
      BY <3>2, <3>3
  <2> QED
    BY <2>10, <2>11
<1> QED
  BY <1>2, <1>3

LEMMA AppendGrows ==
  ASSUME NEW ls, NEW n \in Nat, GrowingLines(ls, n), NEW line \in LineRecords, line.serial = n + 1
  PROVE  GrowingLines(Append(ls, line), n + 1) /\ StartsWith(Append(ls, line), ls)
<1> DEFINE longer == Append(ls, line)
<1>1. ls \in Seq(LineRecords) /\ Len(ls) \in Nat
  BY DEF GrowingLines
<1>2. longer \in Seq(LineRecords) /\ Len(longer) = Len(ls) + 1 /\ longer[Len(ls) + 1] = line
      /\ \A i \in 1..Len(ls) : longer[i] = ls[i]
  BY <1>1, AppendProperties
<1> HIDE DEF longer
<1>3. DOMAIN longer = 1..Len(ls) + 1 /\ DOMAIN ls = 1..Len(ls)
  BY <1>1, <1>2
<1>4. \A i \in 1..Len(ls) : longer[i].serial \in 1..n
  BY <1>2, <1>3 DEF GrowingLines
<1>5. \A i \in DOMAIN longer : longer[i].serial \in 1..n + 1
  BY <1>1, <1>2, <1>3, <1>4
<1>6. \A i, j \in DOMAIN longer : i < j => longer[i].serial < longer[j].serial
  <2> SUFFICES ASSUME NEW i \in DOMAIN longer, NEW j \in DOMAIN longer, i < j
               PROVE  longer[i].serial < longer[j].serial
    OBVIOUS
  <2>1. i \in 1..Len(ls) /\ longer[i].serial \in 1..n
    BY <1>1, <1>3, <1>4
  <2>2. CASE j = Len(ls) + 1
    BY <2>1, <2>2, <1>2
  <2>3. CASE j # Len(ls) + 1
    <3>1. j \in 1..Len(ls)
      BY <1>1, <1>3, <2>3
    <3> QED
      BY <1>2, <1>3, <2>1, <3>1 DEF GrowingLines
  <2> QED
    BY <2>2, <2>3
<1>7. StartsWith(longer, ls)
  BY <1>1, <1>2 DEF StartsWith
<1> QED
  BY <1>2, <1>5, <1>6, <1>7 DEF GrowingLines, longer

\* A new line, whose serial is new, deceives no header.
LEMMA AppendHonest ==
  ASSUME NEW f, NEW index, NEW ls, NEW n \in Nat, GrowingLines(ls, n), Honest(f, index, ls, n),
         NEW line \in LineRecords, line.serial = n + 1
  PROVE  Honest(f, index, Append(ls, line), n + 1)
<1> DEFINE longer == Append(ls, line)
           covered == index.head.covered
<1>1. ls \in Seq(LineRecords) /\ Len(ls) \in Nat /\ covered \in Nat /\ index.head.tail \in Nat
      /\ index.head.tail <= n /\ IndexShape(index)
  BY DEF GrowingLines, Honest, IndexShape
<1>2. longer \in Seq(LineRecords) /\ Len(longer) = Len(ls) + 1 /\ longer[Len(ls) + 1] = line
      /\ \A i \in 1..Len(ls) : longer[i] = ls[i]
  BY <1>1, AppendProperties
<1> HIDE DEF longer
<1>3. ASSUME Decodes(index), covered <= Len(longer), index.head.tail = TailAt(longer, covered)
      PROVE  SlotsFit(f, index, longer)
  <2>1. covered # Len(ls) + 1
    BY <1>1, <1>2, <1>3 DEF TailAt
  <2>2. covered <= Len(ls)
    BY <1>1, <1>2, <1>3, <2>1
  <2>3. TailAt(longer, covered) = TailAt(ls, covered)
    BY <1>1, <1>2, <2>2 DEF TailAt
  <2>4. SlotsFit(f, index, ls)
    BY <1>3, <2>2, <2>3 DEF Honest
  <2>5. SlotPlaces(f, ls, covered) = SlotPlaces(f, longer, covered)
    BY <1>1, <1>2, <2>2 DEF SlotPlaces
  <2> QED
    BY <2>4, <2>5 DEF SlotsFit
<1> QED
  BY <1>1, <1>3 DEF Honest, longer

LEMMA CutGrows ==
  ASSUME NEW ls, NEW n \in Nat, GrowingLines(ls, n), NEW k \in Nat, k < Len(ls)
  PROVE  GrowingLines(SubSeq(ls, 1, k), n) /\ StartsWith(ls, SubSeq(ls, 1, k))
<1> DEFINE start == SubSeq(ls, 1, k)
<1>1. ls \in Seq(LineRecords) /\ Len(ls) \in Nat /\ DOMAIN ls = 1..Len(ls)
  BY DEF GrowingLines
<1>2. start \in Seq(LineRecords) /\ Len(start) = k /\ \A i \in 1..k : start[i] = ls[i]
  BY <1>1
<1> HIDE DEF start
<1>3. DOMAIN start = 1..k
  BY <1>2
<1>4. \A i \in 1..k : i \in DOMAIN ls
  BY <1>1
<1> QED
  BY <1>1, <1>2, <1>3, <1>4 DEF GrowingLines, StartsWith, start

LEMMA CutHonest ==
  ASSUME NEW f, NEW index, NEW ls, NEW n \in Nat, GrowingLines(ls, n), Honest(f, index, ls, n),
         NEW start \in Seq(LineRecords), StartsWith(ls, start)
  PROVE  Honest(f, index, start, n)
<1> DEFINE covered == index.head.covered
<1>1. ls \in Seq(LineRecords) /\ Len(ls) \in Nat /\ Len(start) \in Nat /\ covered \in Nat
      /\ index.head.tail <= n /\ IndexShape(index)
  BY DEF GrowingLines, Honest, IndexShape
<1>2. ASSUME Decodes(index), covered <= Len(start), index.head.tail = TailAt(start, covered)
      PROVE  SlotsFit(f, index, start)
  <2>1. covered <= Len(ls) /\ \A i \in 1..covered : start[i] = ls[i]
    BY <1>1, <1>2 DEF StartsWith
  <2>2. TailAt(start, covered) = TailAt(ls, covered)
    BY <1>1, <2>1 DEF TailAt
  <2>3. SlotsFit(f, index, ls)
    BY <1>2, <2>1, <2>2 DEF Honest
  <2>4. SlotPlaces(f, ls, covered) = SlotPlaces(f, start, covered)
    BY <2>1 DEF SlotPlaces
  <2> QED
    BY <2>3, <2>4 DEF SlotsFit
<1> QED
  BY <1>1, <1>2 DEF Honest

\* A slot of log.idx that goes bad stays in its place.
LEMMA SpoiltHonest ==
  ASSUME NEW index, NEW ls, NEW n, Honest("log", index, ls, n), index # NoIndex,
         NEW i \in DOMAIN index.slots
  PROVE  Honest("log", [index EXCEPT !.slots[i] = 0], ls, n)
<1> DEFINE slots == [index.slots EXCEPT ![i] = 0]
           spoilt == [index EXCEPT !.slots[i] = 0]
<1>1. IndexShape(index)
  BY DEF Honest
<1>2. spoilt = [head |-> index.head, slots |-> slots]
  <2>1. index = [head |-> index.head, slots |-> index.slots]
    BY <1>1 DEF IndexShape
  <2> QED
    BY ONLY <2>1
<1>3. DOMAIN slots = DOMAIN index.slots /\ slots = [j \in DOMAIN slots |-> slots[j]]
      /\ \A j \in DOMAIN slots : slots[j] = index.slots[j] \/ slots[j] = 0
  BY <1>1 DEF IndexShape
<1> HIDE DEF slots
<1>4. IndexShape(spoilt)
  BY <1>1, <1>2, <1>3 DEF IndexShape
<1>5. Decodes(spoilt) => Decodes(index)
  BY <1>2, <1>3 DEF Decodes, Count
<1> QED
  BY <1>2, <1>3, <1>4, <1>5 DEF Honest, SlotsFit

LEMMA NoIndexHonest ==
  ASSUME NEW f, NEW ls, NEW n \in Nat
  PROVE  Honest(f, NoIndex, ls, n)
<1>1. NoIndex.slots = [i \in DOMAIN NoIndex.slots |-> NoIndex.slots[i]]
  BY DEF NoIndex
<1>2. IndexShape(NoIndex)
  BY <1>1 DEF IndexShape, NoIndex
<1>3. NoIndex.head.tail <= n
  BY DEF NoIndex
<1> QED
  BY <1>2, <1>3 DEF Honest, Decodes

\* The slots of an extended index over the header of the old one: the header
\* promises fewer, or the two have the same slots.
LEMMA BodyHonest ==
  ASSUME NEW f, NEW ls, NEW n \in Nat, GrowingLines(ls, n), NEW old, NEW new,
         Honest(f, old, ls, n), Decodes(old), CoversAll(f, new, ls),
         KeepsSlots(new, old)
  PROVE  Honest(f, [old EXCEPT !.slots = new.slots], ls, n)
<1> DEFINE mixed == [old EXCEPT !.slots = new.slots]
<1>1. IndexShape(old) /\ IndexShape(new) /\ old.head.tail <= n
  BY DEF Honest, CoversAll, Reaches
<1>2. mixed = [head |-> old.head, slots |-> new.slots]
  <2>1. old = [head |-> old.head, slots |-> old.slots]
    BY <1>1 DEF IndexShape
  <2> QED
    BY ONLY <2>1
<1>3. IndexShape(mixed)
  BY <1>1, <1>2 DEF IndexShape
<1>4. DOMAIN new.slots = SlotPlaces(f, ls, Len(ls)) /\ Len(ls) \in Nat
  BY DEF CoversAll, Reaches, SlotsFit, GrowingLines
<1>5. IsFiniteSet(DOMAIN new.slots)
  BY <1>4, PlacesFinite
<1>6. ASSUME Decodes(mixed) PROVE mixed = old
  <2>1. Cardinality(DOMAIN new.slots) = Cardinality(DOMAIN old.slots)
    BY <1>2, <1>6 DEF Decodes, Count
  <2>2. DOMAIN old.slots \in SUBSET DOMAIN new.slots
    BY DEF KeepsSlots
  <2>3. DOMAIN new.slots = DOMAIN old.slots
    BY <1>5, <2>1, <2>2, FS_Subset
  <2>4. new.slots = old.slots
    BY <1>1, <2>3 DEF IndexShape, KeepsSlots
  <2> QED
    BY <1>1, <1>2, <2>4 DEF IndexShape
<1> HIDE DEF mixed
<1>7. mixed.head = old.head
  BY <1>2
<1> QED
  BY <1>1, <1>3, <1>6, <1>7 DEF Honest, mixed

\* The lines in a file have serial numbers that grow.
LinesInv ==
  /\ serials \in Nat /\ fileLines \in [Stores -> Seq(LineRecords)] /\ torn \in [Stores -> BOOLEAN]
  /\ \A f \in Stores : GrowingLines(fileLines[f], serials)

\* No index on disk deceives who reads it.
DiskInv ==
  /\ onDisk = [f \in Stores |-> onDisk[f]]
  /\ \A f \in Stores : Honest(f, onDisk[f], fileLines[f], serials)

\* What the writer is to save is an index of the whole file, and in place it adds
\* to the slots there are.
Saves(w, disk, contents) ==
  /\ w.file \in Stores
  /\ w.at \in {"body", "header", "temp", "rename"} => CoversAll(w.file, w.index, contents[w.file])
  /\ w.at = "body" /\ disk[w.file] # NoIndex =>
       /\ Decodes(disk[w.file])
       /\ KeepsSlots(w.index, disk[w.file])
  /\ w.at = "header" /\ disk[w.file] # NoIndex => disk[w.file].slots = w.index.slots

\* What a reader has in hand of one file: the lines there were, or those and
\* later ones, and from the refresh on an index of them all.
Sees(reader, f, ls) ==
  /\ reader.at = "open" => reader.from[f] <= Len(ls) /\ reader.from[f] \in Nat
  /\ reader.at \in {"stored", "load", "answered", "rename"} =>
       /\ reader.snap[f] \in Seq(LineRecords) /\ reader.part[f] \in BOOLEAN
       /\ StartsWith(ls, reader.snap[f])
       /\ reader.from[f] <= Len(reader.snap[f]) /\ reader.from[f] \in Nat
  /\ reader.at \in {"load", "answered", "rename"} => CoversAll(f, reader.index[f], reader.snap[f])
  /\ reader.at \in {"answered", "rename"} => reader.index[f].slots = Slots(f, reader.snap[f])
  /\ reader.at \in {"idle", "open", "stored", "load", "answered", "rename"}

SeesInv ==
  /\ IndexInv /\ LinesInv /\ DiskInv /\ Saves(writer, onDisk, fileLines)
  /\ \A r \in ReaderIds : \A f \in Stores : Sees(readers[r], f, fileLines[f])

LEMMA StartsItself ==
  ASSUME NEW ls \in Seq(LineRecords)
  PROVE  StartsWith(ls, ls)
  BY DEF StartsWith

LEMMA SeesInit == IndexInit => SeesInv
<1> SUFFICES ASSUME IndexInit PROVE SeesInv
  OBVIOUS
<1>1. IndexInv
  BY InitSafe
<1>2. <<>> \in Seq(LineRecords) /\ Len(<<>>) = 0 /\ GrowingLines(<<>>, 0)
  <2>1. <<>> \in Seq(LineRecords) /\ Len(<<>>) = 0
    BY EmptySeq
  <2> QED
    BY <2>1 DEF GrowingLines
<1>3. LinesInv
  BY <1>2 DEF IndexInit, LinesInv
<1>4. DiskInv
  BY <1>3, NoIndexHonest DEF IndexInit, DiskInv, LinesInv
<1>5. Saves(writer, onDisk, fileLines)
  BY DEF IndexInit, Saves, NotWriting, Stores
<1>6. \A r \in ReaderIds : \A f \in Stores : Sees(readers[r], f, fileLines[f])
  BY DEF IndexInit, Sees, Asleep
<1> QED
  BY <1>1, <1>3, <1>4, <1>5, <1>6 DEF SeesInv

\* A reader that is not in the files' way sees them grow, and sees what it saw.
LEMMA SeesMore ==
  ASSUME NEW reader, NEW f, NEW ls \in Seq(LineRecords), NEW longer \in Seq(LineRecords),
         StartsWith(longer, ls), Sees(reader, f, ls)
  PROVE  Sees(reader, f, longer)
<1>1. Len(ls) <= Len(longer) /\ Len(ls) \in Nat /\ Len(longer) \in Nat
  BY DEF StartsWith
<1>2. reader.at = "open" => reader.from[f] <= Len(longer)
  BY <1>1 DEF Sees
<1>3. ASSUME reader.at \in {"stored", "load", "answered", "rename"}
      PROVE  StartsWith(longer, reader.snap[f])
  <2>1. reader.snap[f] \in Seq(LineRecords) /\ StartsWith(ls, reader.snap[f])
    BY <1>3 DEF Sees
  <2> QED
    BY <2>1, <1>1 DEF StartsWith
<1> QED
  BY <1>2, <1>3 DEF Sees

\* The writer's steps that leave the files and their indexes alone.
LEMMA LockSees ==
  ASSUME SeesInv, IndexInv',
         UNCHANGED <<fileLines, torn, onDisk, readers, serials>>,
         Saves(writer', onDisk, fileLines)
  PROVE  SeesInv'
  BY DEF SeesInv, LinesInv, DiskInv, Saves, Sees

\* A step that changes one index only.
LEMMA DiskSees ==
  ASSUME SeesInv, IndexInv', NEW f \in Stores, NEW index,
         UNCHANGED <<fileLines, torn, readers, serials>>,
         onDisk' = [onDisk EXCEPT ![f] = index],
         Honest(f, index, fileLines[f], serials),
         Saves(writer', onDisk', fileLines)
  PROVE  SeesInv'
<1>1. onDisk' = [g \in Stores |-> onDisk'[g]] /\ onDisk'[f] = index
      /\ \A g \in Stores : g # f => onDisk'[g] = onDisk[g]
  BY DEF SeesInv, DiskInv
<1>2. DiskInv'
  BY <1>1 DEF SeesInv, DiskInv
<1> QED
  BY <1>2 DEF SeesInv, LinesInv, Saves, Sees

\* A step of a reader that changes nothing but what it has in hand.
LEMMA ReaderSees ==
  ASSUME SeesInv, IndexInv', NEW r \in ReaderIds, NEW new,
         UNCHANGED <<fileLines, torn, onDisk, writer, serials>>,
         readers' = [readers EXCEPT ![r] = new],
         \A f \in Stores : Sees(new, f, fileLines[f])
  PROVE  SeesInv'
<1>1. \A s \in ReaderIds : readers'[s] = IF s = r THEN new ELSE readers[s]
  BY DEF SeesInv, IndexInv, Shaped
<1>2. \A s \in ReaderIds : \A f \in Stores : Sees(readers'[s], f, fileLines'[f])
  BY <1>1 DEF SeesInv
<1>3. LinesInv' /\ DiskInv'
  BY DEF SeesInv, LinesInv, DiskInv
<1>4. Saves(writer', onDisk', fileLines')
  BY DEF SeesInv
<1> QED
  BY <1>2, <1>3, <1>4 DEF SeesInv

\* A writer with the LOCK appends; the readers that took none see it or not.
LEMMA WriteSees ==
  ASSUME SeesInv, IndexInv', WriteLine
  PROVE  SeesInv'
<1> DEFINE f == writer.file
           line == [serial |-> serials + 1, whole |-> f = "log" \/ ~torn[f]]
           longer == Append(fileLines[f], line)
<1>1. f \in Stores /\ serials \in Nat /\ torn[f] \in BOOLEAN /\ GrowingLines(fileLines[f], serials)
      /\ fileLines[f] \in Seq(LineRecords)
  BY DEF SeesInv, Saves, LinesInv
<1>2. line \in LineRecords /\ line.serial = serials + 1
  BY <1>1 DEF LineRecords
<1>3. fileLines' = [fileLines EXCEPT ![f] = longer] /\ torn' = [torn EXCEPT ![f] = FALSE]
      /\ serials' = serials + 1 /\ writer' = [writer EXCEPT !.at = "index"]
      /\ UNCHANGED <<onDisk, readers>>
  BY DEF WriteLine, WriterAt
<1> HIDE DEF line
<1>4. GrowingLines(longer, serials + 1) /\ StartsWith(longer, fileLines[f])
      /\ Honest(f, onDisk[f], longer, serials + 1)
  BY <1>1, <1>2, AppendGrows, AppendHonest DEF SeesInv, DiskInv
<1>5. longer \in Seq(LineRecords)
  BY <1>4 DEF GrowingLines
<1> HIDE DEF longer
<1>6. \A g \in Stores : fileLines'[g] = IF g = f THEN longer ELSE fileLines[g]
  BY <1>3 DEF SeesInv, LinesInv
<1>7. ASSUME NEW g \in Stores, g # f
      PROVE  GrowingLines(fileLines[g], serials + 1) /\ Honest(g, onDisk[g], fileLines[g], serials + 1)
  <2>1. GrowingLines(fileLines[g], serials) /\ Honest(g, onDisk[g], fileLines[g], serials)
        /\ onDisk[g].head.tail \in Nat
    BY DEF SeesInv, LinesInv, DiskInv, Honest, IndexShape
  <2>2. 1..serials \subseteq 1..serials + 1
    BY <1>1
  <2>3. GrowingLines(fileLines[g], serials + 1)
    BY <2>1, <2>2 DEF GrowingLines
  <2>4. onDisk[g].head.tail <= serials + 1
    BY <1>1, <2>1 DEF Honest
  <2> QED
    BY <2>1, <2>3, <2>4 DEF Honest
<1>8. LinesInv'
  <2>1. fileLines' \in [Stores -> Seq(LineRecords)] /\ torn' \in [Stores -> BOOLEAN]
    BY <1>1, <1>3, <1>5 DEF SeesInv, LinesInv
  <2>2. \A g \in Stores : GrowingLines(fileLines'[g], serials')
    BY <1>3, <1>4, <1>6, <1>7
  <2> QED
    BY <1>1, <1>3, <2>1, <2>2 DEF LinesInv
<1>9. DiskInv'
  <2>1. \A g \in Stores : Honest(g, onDisk'[g], fileLines'[g], serials')
    BY <1>3, <1>4, <1>6, <1>7
  <2> QED
    BY <1>3, <2>1 DEF SeesInv, DiskInv
<1>10. Saves(writer', onDisk', fileLines')
  <2>1. writer'.file = f /\ writer'.at = "index"
    BY <1>3 DEF SeesInv, IndexInv, Shaped
  <2> QED
    BY <1>1, <2>1 DEF Saves
<1>11. \A r \in ReaderIds : \A g \in Stores : Sees(readers'[r], g, fileLines'[g])
  <2> SUFFICES ASSUME NEW r \in ReaderIds, NEW g \in Stores
               PROVE  Sees(readers[r], g, fileLines'[g])
    BY <1>3
  <2>1. Sees(readers[r], g, fileLines[g])
    BY DEF SeesInv
  <2> QED
    BY <1>1, <1>4, <1>5, <1>6, <2>1, SeesMore
<1> QED
  BY <1>8, <1>9, <1>10, <1>11 DEF SeesInv

\* An older copy put back while nobody uses the store.
LEMMA PutBackSees ==
  ASSUME SeesInv, IndexInv', NEW f \in Stores, NEW n \in 1..MaxLines, PutBack(f, n)
  PROVE  SeesInv'
<1> DEFINE start == SubSeq(fileLines[f], 1, n)
<1>1. n \in Nat /\ n < Len(fileLines[f]) /\ serials \in Nat
      /\ GrowingLines(fileLines[f], serials) /\ Honest(f, onDisk[f], fileLines[f], serials)
  BY IndexAssumption DEF PutBack, SeesInv, LinesInv, DiskInv
<1>2. fileLines' = [fileLines EXCEPT ![f] = start] /\ torn' = [torn EXCEPT ![f] = FALSE]
      /\ UNCHANGED <<onDisk, readers, writer, serials>>
  BY DEF PutBack
<1>3. GrowingLines(start, serials) /\ StartsWith(fileLines[f], start)
  BY <1>1, CutGrows
<1>4. start \in Seq(LineRecords)
  BY <1>3 DEF GrowingLines
<1> HIDE DEF start
<1>5. Honest(f, onDisk[f], start, serials)
  BY <1>1, <1>3, <1>4, CutHonest
<1>6. \A g \in Stores : fileLines'[g] = IF g = f THEN start ELSE fileLines[g]
  BY <1>2 DEF SeesInv, LinesInv
<1>7. LinesInv'
  <2>1. fileLines' \in [Stores -> Seq(LineRecords)] /\ torn' \in [Stores -> BOOLEAN]
    BY <1>2, <1>4 DEF SeesInv, LinesInv
  <2> QED
    BY <1>2, <1>3, <1>6, <2>1 DEF SeesInv, LinesInv
<1>8. DiskInv'
  BY <1>2, <1>5, <1>6 DEF SeesInv, DiskInv
<1>9. Saves(writer', onDisk', fileLines')
  <2>1. writer.at = "idle"
    BY DEF PutBack, Exclusive
  <2> QED
    BY <1>2, <2>1 DEF SeesInv, Saves
<1>10. \A r \in ReaderIds : \A g \in Stores : Sees(readers'[r], g, fileLines'[g])
  <2>1. \A r \in ReaderIds : readers[r].at = "idle"
    BY DEF PutBack, NobodyReads, ReaderAt
  <2> QED
    BY <1>2, <2>1 DEF Sees
<1> QED
  BY <1>7, <1>8, <1>9, <1>10 DEF SeesInv

\* The writer refreshes the index of its file.
LEMMA UpdateSees ==
  ASSUME SeesInv, IndexInv', UpdateIndex
  PROVE  SeesInv'
<1> DEFINE f == writer.file
           fresh == Refresh(f, onDisk[f], fileLines[f], torn[f])
           at == CASE fresh.how = "fresh" -> "sweep"
                   [] fresh.how = "extended" -> "body"
                   [] fresh.how = "rebuilt" -> "temp"
<1>1. f \in Stores /\ serials \in Nat /\ torn[f] \in BOOLEAN /\ GrowingLines(fileLines[f], serials)
      /\ fileLines[f] \in Seq(LineRecords) /\ Honest(f, onDisk[f], fileLines[f], serials)
  BY DEF SeesInv, Saves, LinesInv, DiskInv
<1>2. StartsWith(fileLines[f], fileLines[f])
  BY <1>1, StartsItself
<1>3. /\ CoversAll(f, fresh.index, fileLines[f])
      /\ fresh.how \in {"fresh", "extended", "rebuilt"}
      /\ fresh.how = "extended" =>
           /\ Decodes(onDisk[f])
           /\ KeepsSlots(fresh.index, onDisk[f])
  <2> DEFINE ls == fileLines[f]
             stored == onDisk[f]
             isTorn == torn[f]
  <2>1. ls \in Seq(LineRecords) /\ GrowingLines(ls, serials) /\ serials \in Nat /\ isTorn \in BOOLEAN
        /\ StartsWith(ls, ls) /\ Honest(f, stored, ls, serials) /\ fresh = Refresh(f, stored, ls, isTorn)
    BY <1>1, <1>2
  <2> HIDE DEF f, ls, stored, isTorn, fresh
  <2>2. /\ CoversAll(f, fresh.index, ls)
        /\ fresh.how \in {"fresh", "extended", "rebuilt"}
        /\ fresh.how = "extended" =>
             /\ Decodes(stored)
             /\ KeepsSlots(fresh.index, stored)
    BY <2>1, RefreshCovers
  <2> QED
    BY <2>1, <2>2 DEF f, ls, stored
<1>4. writer' = [writer EXCEPT !.index = fresh.index, !.at = at]
      /\ UNCHANGED <<fileLines, torn, onDisk, readers, serials>>
  BY DEF UpdateIndex
<1> HIDE DEF fresh
<1>5. (at = "body" => fresh.how = "extended") /\ at # "header"
  BY <1>3
<1> HIDE DEF at
<1>6. writer'.file = f /\ writer'.index = fresh.index /\ writer'.at = at
  BY <1>4 DEF SeesInv, IndexInv, Shaped
<1>7. Saves(writer', onDisk, fileLines)
  BY <1>1, <1>3, <1>5, <1>6 DEF Saves
<1> QED
  BY <1>4, <1>7, LockSees

\* The slots first, the header last, or both at once by rename.
LEMMA SaveSees ==
  ASSUME SeesInv, IndexInv', WriteBody \/ WriteHeader \/ RenameTemp
  PROVE  SeesInv'
<1> DEFINE f == writer.file
           old == onDisk[f]
           new == writer.index
<1>1. f \in Stores /\ serials \in Nat /\ GrowingLines(fileLines[f], serials)
      /\ Honest(f, old, fileLines[f], serials) /\ DOMAIN onDisk = Stores
      /\ writer = [at |-> writer.at, file |-> f, index |-> new]
  BY DEF SeesInv, Saves, LinesInv, DiskInv, IndexInv, Shaped
<1>2. CoversAll(f, new, fileLines[f]) /\ Honest(f, new, fileLines[f], serials)
  <2>1. CoversAll(f, new, fileLines[f])
    BY DEF SeesInv, Saves, WriteBody, WriteHeader, RenameTemp
  <2> QED
    BY <1>1, <2>1, CoversHonest DEF CoversAll
<1>3. CASE WriteBody
  <2> DEFINE mixed == IF old = NoIndex THEN old ELSE [old EXCEPT !.slots = new.slots]
  <2>1. onDisk' = [onDisk EXCEPT ![f] = mixed] /\ writer' = [writer EXCEPT !.at = "header"]
        /\ UNCHANGED <<fileLines, torn, readers, serials>>
    BY <1>3, <1>1 DEF WriteBody, WriterAt
  <2>2. old # NoIndex => Honest(f, mixed, fileLines[f], serials)
    <3>1. old # NoIndex =>
            /\ Decodes(old)
            /\ KeepsSlots(new, old)
      BY <1>3 DEF WriteBody, SeesInv, Saves
    <3> QED
      BY <1>1, <1>2, <3>1, BodyHonest
  <2>3. Honest(f, mixed, fileLines[f], serials)
    BY <1>1, <2>2
  <2>4. mixed # NoIndex => mixed.slots = new.slots
    BY <1>1 DEF Honest, IndexShape
  <2> HIDE DEF mixed
  <2>5. Saves(writer', onDisk', fileLines)
    BY <1>1, <1>2, <2>1, <2>4 DEF Saves
  <2> QED
    BY <1>1, <2>1, <2>3, <2>5, DiskSees
<1>4. CASE WriteHeader
  <2> DEFINE mixed == IF old = NoIndex THEN old ELSE [old EXCEPT !.head = new.head]
  <2>1. onDisk' = [onDisk EXCEPT ![f] = mixed] /\ writer' = [writer EXCEPT !.at = "sweep"]
        /\ UNCHANGED <<fileLines, torn, readers, serials>>
    BY <1>4, <1>1 DEF WriteHeader, WriterAt
  <2>2. old # NoIndex => old.slots = new.slots
    BY <1>4 DEF WriteHeader, SeesInv, Saves
  <2>3. old # NoIndex => mixed = new
    <3>1. old = [head |-> old.head, slots |-> old.slots] /\ new = [head |-> new.head, slots |-> new.slots]
      BY <1>1, <1>2 DEF Honest, IndexShape
    <3> QED
      BY <2>2, <3>1
  <2>4. Honest(f, mixed, fileLines[f], serials)
    BY <1>1, <1>2, <2>3
  <2> HIDE DEF mixed
  <2>5. Saves(writer', onDisk', fileLines)
    BY <1>1, <2>1 DEF Saves
  <2> QED
    BY <1>1, <2>1, <2>4, <2>5, DiskSees
<1>5. CASE RenameTemp
  <2>1. onDisk' = [onDisk EXCEPT ![f] = new] /\ writer' = [writer EXCEPT !.at = "sweep"]
        /\ UNCHANGED <<fileLines, torn, readers, serials>>
    BY <1>5 DEF RenameTemp, WriterAt
  <2>2. Saves(writer', onDisk', fileLines)
    BY <1>1, <2>1 DEF Saves
  <2> QED
    BY <1>1, <1>2, <2>1, <2>2, DiskSees
<1> QED
  BY <1>3, <1>4, <1>5

\* A reader is a record with these fields.
LEMMA ReaderRecord ==
  ASSUME IndexInv, NEW r \in ReaderIds
  PROVE  /\ DOMAIN readers = ReaderIds
         /\ readers[r] =
              [at |-> readers[r].at, locked |-> readers[r].locked, from |-> readers[r].from,
               snap |-> readers[r].snap, part |-> readers[r].part,
               index |-> readers[r].index, stale |-> readers[r].stale]
  BY DEF IndexInv, Shaped

\* A reader brings both indexes up to date in memory.
LEMMA OpenSees ==
  ASSUME SeesInv, IndexInv', NEW r \in ReaderIds, OpenArchive(r)
  PROVE  SeesInv'
<1> DEFINE old == readers[r]
           fresh == [f \in Stores |-> Refresh(f, onDisk[f], old.snap[f], old.part[f])]
           new == readers'[r]
<1>0. DOMAIN readers = ReaderIds
      /\ old = [at |-> old.at, locked |-> old.locked, from |-> old.from, snap |-> old.snap,
                part |-> old.part, index |-> old.index, stale |-> old.stale]
  BY ReaderRecord DEF SeesInv
<1>1. new.at = "load" /\ new.from = old.from /\ new.snap = old.snap /\ new.part = old.part
      /\ new.index = [f \in Stores |-> fresh[f].index]
      /\ readers' = [readers EXCEPT ![r] = new]
      /\ UNCHANGED <<fileLines, torn, onDisk, writer, serials>>
  BY <1>0 DEF OpenArchive
<1>2. old.at = "stored"
  BY DEF OpenArchive, ReaderAt
<1>3. ASSUME NEW f \in Stores PROVE Sees(new, f, fileLines[f])
  <2> DEFINE ls == fileLines[f]
             stored == onDisk[f]
             start == old.snap[f]
             isTorn == old.part[f]
             here == Refresh(f, stored, start, isTorn)
  <2>1. /\ serials \in Nat /\ GrowingLines(ls, serials) /\ Honest(f, stored, ls, serials)
        /\ start \in Seq(LineRecords) /\ isTorn \in BOOLEAN /\ StartsWith(ls, start)
        /\ old.from[f] <= Len(start) /\ old.from[f] \in Nat
    BY <1>2 DEF SeesInv, LinesInv, DiskInv, Sees
  <2>2. new.index[f] = here.index /\ new.snap[f] = start /\ new.part[f] = isTorn /\ new.from[f] = old.from[f]
    BY <1>1
  <2> HIDE DEF ls, stored, start, isTorn, new
  <2>3. CoversAll(f, here.index, start)
    BY <2>1, RefreshCovers
  <2> QED
    BY <1>1, <2>1, <2>2, <2>3 DEF Sees, ls
<1> QED
  BY <1>1, <1>3, ReaderSees

\* A load that meets a bad slot rebuilds both indexes; without one, the slots are
\* those of all the lines.
LEMMA LoadSees ==
  ASSUME SeesInv, IndexInv', NEW r \in ReaderIds, Load(r)
  PROVE  SeesInv'
<1> DEFINE old == readers[r]
           new == readers'[r]
           bad == \E i \in DOMAIN old.index["log"].slots : old.index["log"].slots[i] = 0
           index == IF bad THEN [f \in Stores |-> IndexOf(f, old.snap[f])] ELSE old.index
           stale == IF bad THEN {f \in Stores : Exists(old.snap[f], old.part[f])} ELSE old.stale
<1>0. DOMAIN readers = ReaderIds
      /\ old = [at |-> old.at, locked |-> old.locked, from |-> old.from, snap |-> old.snap,
                part |-> old.part, index |-> old.index, stale |-> old.stale]
  BY ReaderRecord DEF SeesInv
<1>1. readers' = [readers EXCEPT ![r].at = "answered", ![r].index = index, ![r].stale = stale]
      /\ UNCHANGED <<fileLines, torn, onDisk, writer, serials>>
  BY <1>0 DEF Load
<1> HIDE DEF index, stale
<1>2. new.at = "answered" /\ new.from = old.from /\ new.snap = old.snap /\ new.part = old.part
      /\ new.index = index /\ readers' = [readers EXCEPT ![r] = new]
  BY <1>0, <1>1
<1>3. old.at = "load"
  BY DEF Load, ReaderAt
<1>4. ASSUME NEW f \in Stores PROVE Sees(new, f, fileLines[f])
  <2> DEFINE start == old.snap[f]
  <2>1. /\ start \in Seq(LineRecords) /\ old.part[f] \in BOOLEAN /\ StartsWith(fileLines[f], start)
        /\ old.from[f] <= Len(start) /\ old.from[f] \in Nat
        /\ CoversAll(f, old.index[f], start)
    BY <1>3 DEF SeesInv, Sees
  <2>2. CASE bad
    <3>1. new.index[f] = IndexOf(f, start)
      BY <1>2, <2>2 DEF index
    <3>2. CoversAll(f, new.index[f], start) /\ new.index[f].slots = Slots(f, start)
      BY <2>1, <3>1, RebuiltCovers
    <3> QED
      BY <1>2, <2>1, <3>2 DEF Sees
  <2>3. CASE ~bad
    <3> DEFINE slots == old.index[f].slots
    <3>1. new.index = old.index
      BY <1>2, <2>3 DEF index
    <3>2. DOMAIN slots = SlotPlaces(f, start, Len(start)) /\ slots = [i \in DOMAIN slots |-> slots[i]]
          /\ \A i \in DOMAIN slots : slots[i] = i \/ (f = "log" /\ slots[i] = 0)
      BY <2>1 DEF CoversAll, Reaches, SlotsFit, IndexShape
    <3>3. \A i \in DOMAIN slots : slots[i] = i
      BY <2>3, <3>2
    <3>4. DOMAIN start = 1..Len(start)
      BY <2>1
    <3>5. DOMAIN slots = {j \in DOMAIN start : f = "log" \/ start[j].whole}
      BY <3>2, <3>4 DEF SlotPlaces
    <3>6. slots = Slots(f, start)
      BY <3>2, <3>3, <3>5 DEF Slots
    <3> QED
      BY <1>2, <2>1, <3>1, <3>6 DEF Sees
  <2> QED
    BY <2>2, <2>3
<1> QED
  BY <1>1, <1>4, <1>2, ReaderSees

\* The save of a reader: its index is of the lines the file starts with.
LEMMA RenameSees ==
  ASSUME SeesInv, IndexInv', NEW r \in ReaderIds, NEW f \in Stores, RenameStale(r, f)
  PROVE  SeesInv'
<1> DEFINE old == readers[r]
           index == old.index[f]
<1>0. DOMAIN readers = ReaderIds
      /\ old = [at |-> old.at, locked |-> old.locked, from |-> old.from, snap |-> old.snap,
                part |-> old.part, index |-> old.index, stale |-> old.stale]
  BY ReaderRecord DEF SeesInv
<1>1. old.at = "rename"
  BY DEF RenameStale, ReaderAt
<1>2. CoversAll(f, index, old.snap[f]) /\ StartsWith(fileLines[f], old.snap[f])
      /\ old.snap[f] \in Seq(LineRecords) /\ fileLines[f] \in Seq(LineRecords)
      /\ GrowingLines(fileLines[f], serials) /\ serials \in Nat
  BY <1>1 DEF SeesInv, Sees, LinesInv
<1>3. Honest(f, index, fileLines[f], serials)
  <2>1. Reaches(f, index, fileLines[f])
    BY <1>2, CoversLonger DEF CoversAll
  <2> QED
    BY <1>2, <2>1, CoversHonest
<1>4. writer.at = "idle"
  BY <1>1, WriterIsAlone DEF SeesInv, Exclusive
<1>5. onDisk' = [onDisk EXCEPT ![f] = index] /\ readers' = [readers EXCEPT ![r].stale = @ \ {f}]
      /\ UNCHANGED <<fileLines, torn, writer, serials>>
  BY DEF RenameStale
<1>6. onDisk' = [g \in Stores |-> onDisk'[g]] /\ onDisk'[f] = index
      /\ \A g \in Stores : g # f => onDisk'[g] = onDisk[g]
  BY <1>5 DEF SeesInv, DiskInv
<1>7. DiskInv' /\ LinesInv'
  BY <1>3, <1>5, <1>6 DEF SeesInv, DiskInv, LinesInv
<1>8. Saves(writer', onDisk', fileLines')
  BY <1>4, <1>5 DEF SeesInv, Saves
<1>9. \A s \in ReaderIds : \A g \in Stores : Sees(readers'[s], g, fileLines'[g])
  <2>1. \A s \in ReaderIds : s # r => readers'[s] = readers[s]
    BY <1>5 DEF SeesInv, IndexInv, Shaped
  <2>2. readers'[r].at = old.at /\ readers'[r].from = old.from /\ readers'[r].snap = old.snap
        /\ readers'[r].part = old.part /\ readers'[r].index = old.index
    BY <1>0, <1>5
  <2>3. \A g \in Stores : Sees(readers'[r], g, fileLines[g])
    BY <2>2 DEF SeesInv, Sees
  <2> QED
    BY <1>5, <2>1, <2>3 DEF SeesInv
<1> QED
  BY <1>7, <1>8, <1>9 DEF SeesInv

\* The other steps of a reader.
LEMMA PassSees ==
  ASSUME SeesInv, IndexInv', NEW r \in ReaderIds,
         StartRead(r) \/ OpenFiles(r) \/ SaveStale(r) \/ EndRead(r) \/ ReaderDies(r)
  PROVE  SeesInv'
<1> DEFINE old == readers[r]
           new == readers'[r]
<1>0. DOMAIN readers = ReaderIds
      /\ old = [at |-> old.at, locked |-> old.locked, from |-> old.from, snap |-> old.snap,
                part |-> old.part, index |-> old.index, stale |-> old.stale]
  BY ReaderRecord DEF SeesInv
<1>1. \A f \in Stores : fileLines[f] \in Seq(LineRecords) /\ Len(fileLines[f]) \in Nat
                        /\ torn[f] \in BOOLEAN /\ Sees(old, f, fileLines[f])
  BY DEF SeesInv, LinesInv
<1>2. UNCHANGED <<fileLines, torn, onDisk, writer, serials>>
  BY DEF StartRead, OpenFiles, SaveStale, EndRead, ReaderDies
<1>3. CASE StartRead(r)
  <2>1. readers' = [readers EXCEPT ![r] = new] /\ new.at = "open"
        /\ new.from = [f \in Stores |-> Len(fileLines[f])]
    BY <1>3 DEF StartRead, Asleep, SeesInv, IndexInv, Shaped
  <2>2. \A f \in Stores : Sees(new, f, fileLines[f])
    BY <1>1, <2>1 DEF Sees
  <2> QED
    BY <1>2, <2>1, <2>2, ReaderSees
<1>4. CASE OpenFiles(r)
  <2>1. readers' = [readers EXCEPT ![r] = new] /\ new.at = "stored" /\ new.from = old.from
        /\ new.snap = fileLines /\ new.part = torn /\ old.at = "open"
    BY <1>0, <1>4 DEF OpenFiles, ReaderAt
  <2>2. \A f \in Stores : Sees(new, f, fileLines[f])
    BY <1>1, <2>1, StartsItself DEF Sees
  <2> QED
    BY <1>2, <2>1, <2>2, ReaderSees
<1>5. CASE SaveStale(r)
  <2>1. readers' = [readers EXCEPT ![r] = new] /\ new.at = "rename" /\ new.from = old.from
        /\ new.snap = old.snap /\ new.part = old.part /\ new.index = old.index /\ old.at = "answered"
    BY <1>0, <1>5 DEF SaveStale, ReaderAt
  <2>2. \A f \in Stores : Sees(new, f, fileLines[f])
    BY <1>1, <2>1 DEF Sees
  <2> QED
    BY <1>2, <2>1, <2>2, ReaderSees
<1>6. CASE EndRead(r) \/ ReaderDies(r)
  <2>1. readers' = [readers EXCEPT ![r] = Asleep]
    BY <1>6 DEF EndRead, ReaderDies
  <2>2. \A f \in Stores : Sees(Asleep, f, fileLines[f])
    BY DEF Sees, Asleep
  <2> QED
    BY <1>2, <2>1, <2>2, ReaderSees
<1> QED
  BY <1>3, <1>4, <1>5, <1>6

LEMMA SeesStep == SeesInv /\ [IndexNext]_indexVars => SeesInv'
<1> SUFFICES ASSUME SeesInv, [IndexNext]_indexVars PROVE SeesInv'
  OBVIOUS
<1>1. IndexInv'
  BY NextSafe DEF SeesInv
<1>2. writer = [at |-> writer.at, file |-> writer.file, index |-> writer.index]
      /\ serials \in Nat /\ Saves(writer, onDisk, fileLines)
  BY DEF SeesInv, IndexInv, Shaped, LinesInv
<1>3. ASSUME NEW f \in Stores, LockStore(f) PROVE SeesInv'
  <2>1. writer' = [at |-> "write", file |-> f, index |-> NoIndex]
        /\ UNCHANGED <<fileLines, torn, onDisk, readers, serials>>
    BY <1>3 DEF LockStore, NotWriting
  <2>2. Saves(writer', onDisk, fileLines)
    BY <2>1 DEF Saves
  <2> QED
    BY <1>1, <2>1, <2>2, LockSees
<1>4. CASE WriteLine
  BY <1>1, <1>4, WriteSees
<1>5. CASE TearLine
  <2>1. writer' = NotWriting /\ torn' = [torn EXCEPT ![writer.file] = TRUE]
        /\ UNCHANGED <<fileLines, onDisk, readers, serials>>
    BY <1>5 DEF TearLine
  <2>2. Saves(writer', onDisk, fileLines)
    BY <2>1 DEF Saves, NotWriting, Stores
  <2>3. LinesInv' /\ DiskInv'
    BY <1>2, <2>1 DEF SeesInv, LinesInv, DiskInv
  <2> QED
    BY <1>1, <2>1, <2>2, <2>3 DEF SeesInv
<1>6. CASE UpdateIndex
  BY <1>1, <1>6, UpdateSees
<1>7. CASE WriteBody \/ WriteHeader \/ RenameTemp
  BY <1>1, <1>7, SaveSees
<1>8. CASE WriteTemp \/ Sweep \/ WriterDies
  <2>1. UNCHANGED <<fileLines, torn, onDisk, readers, serials>>
    BY <1>8 DEF WriteTemp, Sweep, WriterDies
  <2>2. Saves(writer', onDisk, fileLines)
    <3>1. CASE WriteTemp
      <4>1. writer.at = "temp" /\ writer'.at = "rename" /\ writer'.file = writer.file
            /\ writer'.index = writer.index
        BY <1>2, <3>1 DEF WriteTemp, WriterAt
      <4> QED
        BY <1>2, <4>1 DEF Saves
    <3>2. CASE Sweep \/ WriterDies
      <4>1. writer' = NotWriting
        BY <3>2 DEF Sweep, WriterDies
      <4> QED
        BY <4>1 DEF Saves, NotWriting, Stores
    <3> QED
      BY <1>8, <3>1, <3>2
  <2> QED
    BY <1>1, <2>1, <2>2, LockSees
<1>9. ASSUME NEW r \in ReaderIds, NEW f \in Stores,
             \/ StartRead(r) \/ OpenFiles(r) \/ OpenArchive(r) \/ Load(r) \/ SaveStale(r)
             \/ EndRead(r) \/ ReaderDies(r) \/ RenameStale(r, f)
      PROVE  SeesInv'
  BY <1>1, <1>9, PassSees, OpenSees, LoadSees, RenameSees
<1>10. ASSUME NEW f \in Stores, DeleteIndex(f) PROVE SeesInv'
  <2>1. onDisk' = [onDisk EXCEPT ![f] = NoIndex]
        /\ UNCHANGED <<fileLines, torn, readers, serials, writer>>
    BY <1>10 DEF DeleteIndex
  <2>2. Honest(f, NoIndex, fileLines[f], serials)
    BY <1>2, NoIndexHonest
  <2>3. \A g \in Stores : onDisk'[g] = IF g = f THEN NoIndex ELSE onDisk[g]
    BY <2>1 DEF SeesInv, DiskInv
  <2>4. Saves(writer', onDisk', fileLines)
    BY <1>2, <2>1, <2>3 DEF Saves
  <2> QED
    BY <1>1, <2>1, <2>2, <2>4, DiskSees
<1>11. ASSUME NEW f \in Stores, NEW n \in 1..MaxLines, PutBack(f, n) PROVE SeesInv'
  BY <1>1, <1>11, PutBackSees
<1>12. ASSUME NEW i \in 1..MaxLines, SpoilSlot(i) PROVE SeesInv'
  <2> DEFINE index == [onDisk["log"] EXCEPT !.slots[i] = 0]
  <2>1. onDisk["log"] # NoIndex /\ i \in DOMAIN onDisk["log"].slots /\ writer.at = "idle"
        /\ UNCHANGED <<fileLines, torn, readers, serials, writer>>
    BY <1>12 DEF SpoilSlot, Exclusive
  <2>2. onDisk' = [onDisk EXCEPT !["log"] = index]
    BY <1>12 DEF SpoilSlot
  <2>3. "log" \in Stores
    BY DEF Stores
  <2>4. Honest("log", index, fileLines["log"], serials)
    BY <2>1, <2>3, SpoiltHonest DEF SeesInv, DiskInv
  <2> HIDE DEF index
  <2>5. Saves(writer', onDisk', fileLines)
    BY <1>2, <2>1 DEF Saves
  <2> QED
    BY <1>1, <2>1, <2>2, <2>3, <2>4, <2>5, DiskSees
<1>13. CASE UNCHANGED indexVars
  <2>1. UNCHANGED <<fileLines, torn, onDisk, readers, serials, writer>>
    BY <1>13 DEF indexVars
  <2> QED
    BY <1>1, <1>2, <2>1, LockSees
<1> QED
  BY <1>3, <1>4, <1>5, <1>6, <1>7, <1>8, <1>9, <1>10, <1>11, <1>12, <1>13 DEF IndexNext, Stores

\* A read sees every complete line that was there when it took its LOCK, each at
\* its place, whatever became of the indexes before.
THEOREM ReadersSeeAll == IndexSpec => []SeesCommitted
<1>1. SeesInv => SeesCommitted
  <2> SUFFICES ASSUME SeesInv, NEW r \in ReaderIds, readers[r].at \in {"answered", "rename"},
                      NEW f \in Stores
               PROVE  /\ readers[r].index[f].slots = Slots(f, readers[r].snap[f])
                      /\ Len(readers[r].snap[f]) >= readers[r].from[f]
    BY DEF SeesCommitted
  <2>1. Sees(readers[r], f, fileLines[f])
    BY DEF SeesInv
  <2>2. readers[r].snap[f] \in Seq(LineRecords)
    BY <2>1 DEF Sees
  <2>3. Len(readers[r].snap[f]) \in Nat
    BY <2>2
  <2> QED
    BY <2>1, <2>3 DEF Sees
<1> QED
  BY SeesInit, SeesStep, <1>1, PTL DEF IndexSpec

(***************************************************************************)
(* The view (View), for any log, steps, budgets and whatever naps have     *)
(* summarized.  Its functions are defined by recursion on numbers: that each *)
(* exists, and what it gives, is an induction on a set of numbers.         *)
(***************************************************************************)
HIDE MemoryAssumption
USE ViewAssumption

LEMMA LeastOf ==
  ASSUME NEW T, T \subseteq Nat, T # {}
  PROVE  \E n \in T : \A m \in T : n <= m
<1> DEFINE R == OpToRel(<, Nat)
<1>1. IsWellFoundedOn(R, Nat)
  BY NatLessThanWellFounded
<1>2. \A x, y \in Nat : <<y, x>> \in R <=> y < x
  BY DEF OpToRel
<1> HIDE DEF R
<1>3. PICK x \in T : \A y \in T : ~ (<<y, x>> \in R)
  BY <1>1, WFMin
<1>4. ASSUME NEW y \in T PROVE x <= y
  <2>1. x \in Nat /\ y \in Nat
    OBVIOUS
  <2>2. ~ (y < x)
    BY <1>2, <1>3, <2>1, Zenon
  <2> QED
    BY <2>1, <2>2
<1> QED
  BY <1>4

LEMMA SetInduction ==
  ASSUME NEW S, 0 \in S, \A n \in Nat : n \in S => n + 1 \in S
  PROVE  Nat \subseteq S
<1> SUFFICES ASSUME ~ (Nat \subseteq S) PROVE FALSE
  OBVIOUS
<1> DEFINE T == Nat \ S
<1>1. PICK n \in T : \A m \in T : n <= m
  BY LeastOf
<1>2. n - 1 \in Nat /\ n - 1 \notin T
  BY <1>1
<1> QED
  BY <1>1, <1>2

\* The greatest of numbers that have a bound.
LEMMA GreatestOf ==
  ASSUME NEW T, NEW b \in Nat, T \subseteq 0..b, T # {}
  PROVE  \E n \in T : \A m \in T : m <= n
<1> DEFINE U == {k \in Nat : b - k \in T}
<1>1. U \subseteq Nat /\ U # {}
  <2>1. PICK n \in T : TRUE
    OBVIOUS
  <2>2. n \in 0..b /\ b - n \in Nat /\ b - (b - n) = n
    BY <2>1
  <2> QED
    BY <2>1, <2>2
<1>2. PICK k \in U : \A l \in U : k <= l
  BY <1>1, LeastOf
<1>3. b - k \in T
  OBVIOUS
<1>4. ASSUME NEW m \in T PROVE m <= b - k
  <2>1. m \in 0..b
    OBVIOUS
  <2>2. b - m \in Nat /\ b - (b - m) = m
    BY <2>1
  <2>3. b - m \in U
    BY <2>2
  <2>4. k <= b - m
    BY <1>2, <2>3
  <2>5. k \in Nat
    OBVIOUS
  <2> HIDE DEF U
  <2> QED
    BY <2>1, <2>4, <2>5
<1> QED
  BY <1>3, <1>4

(***************************************************************************)
(* The nodes of the tree.                                                  *)
(***************************************************************************)
\* A width is twice the one before, so it divides all that come after it.
LEMMA PowersAre ==
  /\ \A j \in 0..MaxEntries : Powers[j] = IF j = 0 THEN 1 ELSE 2 * Powers[j - 1]
  /\ \A j \in 0..MaxEntries : Powers[j] \in Nat \ {0}
  /\ \A i, j \in 0..MaxEntries : i <= j => \E c \in Nat \ {0} : Powers[j] = c * Powers[i]
<1>0. MaxEntries \in Nat
  OBVIOUS
<1> DEFINE Def(f, m) == f = [j \in 0..m |-> IF j = 0 THEN 1 ELSE 2 * f[j - 1]]
           S == {m \in Nat : \E f : Def(f, m)}
<1>1. 0 \in S
  <2> DEFINE f == [j \in 0..0 |-> 1]
  <2>1. f = [j \in 0..0 |-> IF j = 0 THEN 1 ELSE 2 * f[j - 1]]
    OBVIOUS
  <2> HIDE DEF f
  <2> QED
    BY <2>1
<1>2. ASSUME NEW m \in Nat, m \in S PROVE m + 1 \in S
  <2>1. PICK f : f = [j \in 0..m |-> IF j = 0 THEN 1 ELSE 2 * f[j - 1]]
    BY <1>2
  <2> DEFINE g == [j \in 0..(m + 1) |-> IF j = m + 1 THEN 2 * f[m] ELSE f[j]]
             h == [j \in 0..(m + 1) |-> IF j = 0 THEN 1 ELSE 2 * g[j - 1]]
  <2>2. ASSUME NEW j \in 0..(m + 1) PROVE g[j] = h[j]
    <3>1. CASE j = m + 1
      <4>1. j # 0 /\ j - 1 = m /\ m \in 0..(m + 1) /\ m # m + 1
        BY <3>1
      <4> QED
        BY <3>1, <4>1
    <3>2. CASE j # m + 1
      <4>1. j \in 0..m /\ (j # 0 => j - 1 \in 0..m /\ j - 1 \in 0..(m + 1) /\ j - 1 # m + 1)
        BY <3>2
      <4>2. f[j] = IF j = 0 THEN 1 ELSE 2 * f[j - 1]
        BY <2>1, <4>1
      <4> QED
        BY <3>2, <4>1, <4>2
    <3> QED
      BY <3>1, <3>2
  <2>3. g = h
    <3>1. DOMAIN g = 0..(m + 1) /\ DOMAIN h = 0..(m + 1) /\ g = [j \in 0..(m + 1) |-> g[j]] /\ h = [j \in 0..(m + 1) |-> h[j]]
      OBVIOUS
    <3> HIDE DEF g, h
    <3> QED
      BY <2>2, <3>1
  <2>4. Def(g, m + 1)
    <3> HIDE DEF g
    <3> QED
      BY <2>3
  <2>5. m + 1 \in Nat
    BY <1>2
  <2> HIDE DEF g, Def
  <2> QED
    BY <2>4, <2>5
<1>3. MaxEntries \in S
  <2> HIDE DEF S
  <2> QED
    BY <1>0, <1>1, <1>2, SetInduction
<1>4. Powers = [j \in 0..MaxEntries |-> IF j = 0 THEN 1 ELSE 2 * Powers[j - 1]]
  <2>1. Powers = CHOOSE f : f = [j \in 0..MaxEntries |-> IF j = 0 THEN 1 ELSE 2 * f[j - 1]]
    BY DEF Powers
  <2>2. \E f : f = [j \in 0..MaxEntries |-> IF j = 0 THEN 1 ELSE 2 * f[j - 1]]
    BY <1>3
  <2> QED
    BY <2>1, <2>2
<1>5. ASSUME NEW j \in 0..MaxEntries PROVE Powers[j] = IF j = 0 THEN 1 ELSE 2 * Powers[j - 1]
  BY <1>4
<1> HIDE DEF S
<1>6. \A j \in 0..MaxEntries : Powers[j] \in Nat \ {0}
  <2> DEFINE P == {j \in Nat : j <= MaxEntries => Powers[j] \in Nat \ {0}}
  <2>1. 0 \in P
    BY <1>0, <1>5
  <2>2. ASSUME NEW j \in Nat, j \in P PROVE j + 1 \in P
    <3> SUFFICES ASSUME j + 1 <= MaxEntries PROVE Powers[j + 1] \in Nat \ {0}
      OBVIOUS
    <3>1. Powers[j] \in Nat \ {0}
      BY <1>0, <2>2
    <3>2. Powers[j + 1] = 2 * Powers[j]
      <4>1. j + 1 \in 0..MaxEntries /\ j + 1 # 0 /\ (j + 1) - 1 = j
        BY <1>0
      <4> QED
        BY <1>5, <4>1
    <3> QED
      BY <3>1, <3>2
  <2>3. Nat \subseteq P
    <3> HIDE DEF P
    <3> QED
      BY <2>1, <2>2, SetInduction
  <2> QED
    BY <1>0, <2>3
<1>7. ASSUME NEW i \in 0..MaxEntries, NEW j \in 0..MaxEntries, i <= j
      PROVE  \E c \in Nat \ {0} : Powers[j] = c * Powers[i]
  <2> DEFINE P == {k \in Nat : i + k <= MaxEntries => \E c \in Nat \ {0} : Powers[i + k] = c * Powers[i]}
  <2>0. i \in Nat /\ Powers[i] \in Nat \ {0}
    BY <1>6
  <2>1. 0 \in P
    <3>1. i + 0 = i /\ Powers[i] = 1 * Powers[i]
      BY <2>0
    <3> QED
      BY <3>1
  <2>2. ASSUME NEW k \in Nat, k \in P PROVE k + 1 \in P
    <3> SUFFICES ASSUME i + (k + 1) <= MaxEntries
                 PROVE  \E c \in Nat \ {0} : Powers[i + (k + 1)] = c * Powers[i]
      OBVIOUS
    <3>1. PICK c \in Nat \ {0} : Powers[i + k] = c * Powers[i]
      BY <1>0, <2>0, <2>2
    <3>2. Powers[i + (k + 1)] = 2 * Powers[i + k]
      <4>1. i + (k + 1) \in 0..MaxEntries /\ i + (k + 1) # 0 /\ (i + (k + 1)) - 1 = i + k
        BY <1>0, <2>0
      <4> QED
        BY <1>5, <4>1
    <3>3. 2 * c \in Nat \ {0} /\ 2 * (c * Powers[i]) = (2 * c) * Powers[i]
      BY <2>0, <3>1
    <3> QED
      BY <3>1, <3>2, <3>3
  <2>3. Nat \subseteq P
    <3> HIDE DEF P
    <3> QED
      BY <2>1, <2>2, SetInduction
  <2>4. j - i \in Nat /\ i + (j - i) = j /\ j <= MaxEntries
    BY <1>0, <1>7
  <2>5. j - i \in P
    BY <2>3, <2>4
  <2> QED
    BY <2>4, <2>5
<1> QED
  BY <1>5, <1>6, <1>7

\* A node of the tree starts at a multiple of its width.
LEMMA NodeIs ==
  ASSUME NEW n \in TreeNodes
  PROVE  /\ n[1] \in 0..MaxEntries /\ n[2] \in 0..(2 * MaxEntries) /\ n = <<n[1], n[2]>> /\ n[1] < n[2]
         /\ \E k \in Nat, j \in 0..MaxEntries : n[1] = k * Powers[j] /\ n[2] = (k + 1) * Powers[j]
<1>1. PICK k \in 0..MaxEntries, j \in 0..MaxEntries : n = <<k * Powers[j], (k + 1) * Powers[j]>>
  BY DEF TreeNodes, NodesUpTo
<1>2. n[1] <= MaxEntries /\ n[2] <= 2 * MaxEntries
  BY DEF TreeNodes
<1> DEFINE w == Powers[j]
           lo == k * w
           hi == (k + 1) * w
<1>3. w \in Nat \ {0} /\ n = <<lo, hi>> /\ k \in Nat /\ MaxEntries \in Nat
  BY <1>1, PowersAre
<1>4. lo \in Nat /\ hi \in Nat /\ lo < hi
  <2> HIDE DEF w
  <2>1. k * w \in Nat /\ (k + 1) * w = k * w + w
    BY <1>3
  <2> QED
    BY <1>3, <2>1
<1>5. n[1] = lo /\ n[2] = hi
  BY <1>3
<1> HIDE DEF lo, hi, w
<1>6. n = <<n[1], n[2]>> /\ n[1] \in 0..MaxEntries /\ n[2] \in 0..(2 * MaxEntries) /\ n[1] < n[2]
  BY <1>2, <1>3, <1>4, <1>5
<1> QED
  BY <1>3, <1>5, <1>6 DEF lo, hi, w

LEMMA LeafIs ==
  ASSUME NEW i \in 0..(MaxEntries - 1)
  PROVE  /\ Leaf(i) \in TreeNodes /\ Leaf(i)[1] = i /\ Leaf(i)[2] = i + 1 /\ Width(Leaf(i)) = 1
<1>1. 0 \in 0..MaxEntries /\ Powers[0] = 1 /\ MaxEntries \in Nat /\ i \in 0..MaxEntries
  BY PowersAre
<1>2. i * Powers[0] = i /\ (i + 1) * Powers[0] = i + 1
  BY <1>1
<1>3. Leaf(i) \in NodesUpTo
  <2>1. Leaf(i) = <<i * Powers[0], (i + 1) * Powers[0]>>
    BY <1>2 DEF Leaf
  <2> QED
    BY <1>1, <2>1 DEF NodesUpTo
<1>4. Leaf(i)[1] = i /\ Leaf(i)[2] = i + 1
  BY DEF Leaf
<1> QED
  BY <1>1, <1>3, <1>4 DEF TreeNodes, Width

\* Two nodes with an entry in common: one lies in the other.
LEMMA Nested ==
  ASSUME NEW n \in TreeNodes, NEW m \in TreeNodes, NEW i \in Nat, n[1] <= i, i < n[2], m[1] <= i, i < m[2]
  PROVE  Inside(n, m) \/ Inside(m, n)
<1> DEFINE Fine(k, j, l, o) ==
             /\ n[1] = k * Powers[j] /\ n[2] = (k + 1) * Powers[j]
             /\ m[1] = l * Powers[o] /\ m[2] = (l + 1) * Powers[o]
\* The one that is as wide or less wide lies in the other.
<1>1. ASSUME NEW k \in Nat, NEW l \in Nat, NEW w \in Nat \ {0}, NEW c \in Nat \ {0},
             k * w <= i, i < (k + 1) * w, l * (c * w) <= i, i < (l + 1) * (c * w)
      PROVE  l * (c * w) <= k * w /\ (k + 1) * w <= (l + 1) * (c * w)
  <2> DEFINE x == l * c
             y == (l + 1) * c
  <2>1. x \in Nat /\ y \in Nat /\ l * (c * w) = x * w /\ (l + 1) * (c * w) = y * w
    BY <1>1
  <2>2. x * w <= i /\ i < y * w
    BY <1>1, <2>1
  <2> HIDE DEF x, y
  <2>3. \A a, b \in Nat : a >= b => a * w >= b * w
    BY <1>1
  <2>4. x < k + 1
    <3> SUFFICES ASSUME x >= k + 1 PROVE FALSE
      BY <1>1, <2>1
    <3>1. x * w >= (k + 1) * w /\ (k + 1) * w \in Nat /\ x * w \in Nat
      BY <1>1, <2>1, <2>3
    <3> QED
      BY <1>1, <2>2, <3>1
  <2>5. k < y
    <3> SUFFICES ASSUME k >= y PROVE FALSE
      BY <1>1, <2>1
    <3>1. k * w >= y * w /\ k * w \in Nat /\ y * w \in Nat
      BY <1>1, <2>1, <2>3
    <3> QED
      BY <1>1, <2>2, <3>1
  <2>6. x <= k /\ k + 1 <= y
    BY <1>1, <2>1, <2>4, <2>5
  <2>7. x * w <= k * w /\ (k + 1) * w <= y * w
    BY <1>1, <2>1, <2>3, <2>6
  <2> QED
    BY <2>1, <2>7
<1>2. PICK k \in Nat, j \in 0..MaxEntries : n[1] = k * Powers[j] /\ n[2] = (k + 1) * Powers[j]
  BY NodeIs
<1>3. PICK l \in Nat, o \in 0..MaxEntries : m[1] = l * Powers[o] /\ m[2] = (l + 1) * Powers[o]
  BY NodeIs
<1>4. Powers[j] \in Nat \ {0} /\ Powers[o] \in Nat \ {0} /\ (j <= o \/ o <= j)
  BY PowersAre
<1>5. CASE j <= o
  <2>1. PICK c \in Nat \ {0} : Powers[o] = c * Powers[j]
    BY <1>5, PowersAre
  <2> DEFINE w == Powers[j]
  <2>2. /\ w \in Nat \ {0} /\ k * w <= i /\ i < (k + 1) * w /\ l * (c * w) <= i /\ i < (l + 1) * (c * w)
        /\ n[1] = k * w /\ n[2] = (k + 1) * w /\ m[1] = l * (c * w) /\ m[2] = (l + 1) * (c * w)
    BY <1>2, <1>3, <1>4, <2>1
  <2> HIDE DEF w
  <2>3. m[1] <= n[1] /\ n[2] <= m[2]
    BY <1>1, <2>2
  <2> QED
    BY <2>3 DEF Inside
<1>6. CASE o <= j
  <2>1. PICK c \in Nat \ {0} : Powers[j] = c * Powers[o]
    BY <1>6, PowersAre
  <2> DEFINE w == Powers[o]
  <2>2. /\ w \in Nat \ {0} /\ l * w <= i /\ i < (l + 1) * w /\ k * (c * w) <= i /\ i < (k + 1) * (c * w)
        /\ m[1] = l * w /\ m[2] = (l + 1) * w /\ n[1] = k * (c * w) /\ n[2] = (k + 1) * (c * w)
    BY <1>2, <1>3, <1>4, <2>1
  <2> HIDE DEF w
  <2>3. n[1] <= m[1] /\ m[2] <= n[2]
    BY <1>1, <2>2
  <2> QED
    BY <2>3 DEF Inside
<1> QED
  BY <1>4, <1>5, <1>6

LEMMA FiniteNodes == IsFiniteSet(TreeNodes)
<1>1. TreeNodes \subseteq (0..MaxEntries) \X (0..(2 * MaxEntries))
  <2>1. ASSUME NEW n \in TreeNodes PROVE n \in (0..MaxEntries) \X (0..(2 * MaxEntries))
    BY NodeIs
  <2> QED
    BY <2>1
<1>2. IsFiniteSet(0..MaxEntries) /\ IsFiniteSet(0..(2 * MaxEntries))
  BY FS_Interval
<1>3. IsFiniteSet((0..MaxEntries) \X (0..(2 * MaxEntries)))
  BY <1>2, FS_Product
<1> QED
  BY <1>1, <1>3, FS_Subset

(***************************************************************************)
(* Parts: what splits a range of entries among nodes.                      *)
(***************************************************************************)
Box == {n \in Nat \X Nat : n[1] < n[2]}
Spans(n, i) == n[1] <= i /\ i < n[2]

Parts(S, x, y) ==
  /\ IsFiniteSet(S) /\ S \subseteq Box
  /\ \A n \in S : x <= n[1] /\ n[2] <= y
  /\ \A i \in Nat : x <= i /\ i < y => \E n \in S : Spans(n, i)
  /\ \A n, m \in S, i \in Nat : Spans(n, i) /\ Spans(m, i) => n = m

LEMMA BoxIs ==
  ASSUME NEW n \in Box
  PROVE  n[1] \in Nat /\ n[2] \in Nat /\ n[1] < n[2] /\ n = <<n[1], n[2]>>
  BY DEF Box

LEMMA NodeInBox == TreeNodes \subseteq Box
<1>1. ASSUME NEW n \in TreeNodes PROVE n \in Box
  BY NodeIs DEF Box
<1> QED
  BY <1>1

\* The two halves of a node share its entries out.
LEMMA HalvesAre ==
  ASSUME NEW n \in Box, Width(n) > 1
  PROVE  \E m \in Nat : /\ n[1] < m /\ m < n[2]
                        /\ HalvesOf(n) = {<<n[1], m>>, <<m, n[2]>>}
                        /\ <<n[1], m>> \in Box /\ <<m, n[2]>> \in Box /\ <<n[1], m>> # <<m, n[2]>>
<1>1. n[1] \in Nat /\ n[2] \in Nat /\ n[2] - n[1] > 1
  BY BoxIs DEF Width
<1> DEFINE m == (n[1] + n[2]) \div 2
<1>2. m \in Nat /\ n[1] < m /\ m < n[2]
  BY <1>1
<1>3. HalvesOf(n) = {<<n[1], m>>, <<m, n[2]>>}
  BY DEF HalvesOf
<1> HIDE DEF m
<1>4. <<n[1], m>> \in Box /\ <<m, n[2]>> \in Box /\ <<n[1], m>> # <<m, n[2]>>
  BY <1>1, <1>2 DEF Box
<1> QED
  BY <1>2, <1>3, <1>4

\* Some parts make way for others that hold the same entries.
LEMMA Replaced ==
  ASSUME NEW x \in Nat, NEW y \in Nat, NEW S, Parts(S, x, y), NEW Old, Old \subseteq S,
         NEW New, New \subseteq Box, IsFiniteSet(New), \A n \in New : x <= n[1] /\ n[2] <= y,
         \A n, m \in New, i \in Nat : Spans(n, i) /\ Spans(m, i) => n = m,
         \A i \in Nat : (\E n \in Old : Spans(n, i)) <=> (\E n \in New : Spans(n, i))
  PROVE  Parts((S \ Old) \cup New, x, y)
<1> DEFINE T == (S \ Old) \cup New
<1>1. IsFiniteSet(T) /\ T \subseteq Box
  <2>1. IsFiniteSet(S \ Old)
    BY FS_Subset DEF Parts
  <2> QED
    BY <2>1, FS_Union DEF Parts
<1>2. ASSUME NEW n \in T PROVE x <= n[1] /\ n[2] <= y
  BY DEF Parts
<1>3. ASSUME NEW i \in Nat, x <= i, i < y PROVE \E n \in T : Spans(n, i)
  <2>1. PICK n \in S : Spans(n, i)
    BY <1>3 DEF Parts
  <2> QED
    BY <2>1
<1>4. ASSUME NEW n \in T, NEW m \in T, NEW i \in Nat, Spans(n, i), Spans(m, i) PROVE n = m
  <2>1. \A k \in S \ Old, l \in New : ~ (Spans(k, i) /\ Spans(l, i))
    BY DEF Parts
  <2>2. (n \in S \ Old /\ m \in S \ Old) \/ (n \in New /\ m \in New)
    BY <1>4, <2>1
  <2> QED
    BY <1>4, <2>2 DEF Parts
<1> HIDE DEF T
<1>5. Parts(T, x, y)
  BY <1>1, <1>2, <1>3, <1>4 DEF Parts
<1> QED
  BY <1>5 DEF T

LEMMA SplitParts ==
  ASSUME NEW x \in Nat, NEW y \in Nat, NEW S, Parts(S, x, y), NEW n \in S, Width(n) > 1
  PROVE  /\ Parts(SplitNode(S, n), x, y)
         /\ Cardinality(SplitNode(S, n)) <= Cardinality(S) + 1
<1>1. n \in Box /\ x <= n[1] /\ n[2] <= y /\ IsFiniteSet(S)
  BY DEF Parts
<1>2. n[1] \in Nat /\ n[2] \in Nat
  BY <1>1, BoxIs
<1>3. PICK m \in Nat : /\ n[1] < m /\ m < n[2] /\ HalvesOf(n) = {<<n[1], m>>, <<m, n[2]>>}
                       /\ <<n[1], m>> \in Box /\ <<m, n[2]>> \in Box
  BY <1>1, HalvesAre
<1> DEFINE l == <<n[1], m>>
           r == <<m, n[2]>>
<1>4. l[1] = n[1] /\ l[2] = m /\ r[1] = m /\ r[2] = n[2] /\ l \in Box /\ r \in Box /\ HalvesOf(n) = {l, r}
  BY <1>3
<1> HIDE DEF l, r
<1>5. HalvesOf(n) \subseteq Box /\ IsFiniteSet({l, r}) /\ Cardinality({l, r}) <= 2
  <2>1. IsFiniteSet({l}) /\ Cardinality({l}) = 1
    BY FS_Singleton
  <2>2. {l, r} = {l} \cup {r}
    OBVIOUS
  <2>3. IsFiniteSet({l} \cup {r}) /\ Cardinality({l} \cup {r}) = IF r \in {l} THEN Cardinality({l}) ELSE Cardinality({l}) + 1
    BY <2>1, FS_AddElement
  <2>4. IsFiniteSet({l, r}) /\ (Cardinality({l, r}) = 1 \/ Cardinality({l, r}) = 1 + 1)
    BY <2>1, <2>2, <2>3, Zenon
  <2>5. Cardinality({l, r}) <= 2
    BY <2>4
  <2> QED
    BY <1>4, <2>4, <2>5
<1>6. \A k \in {l, r} : x <= k[1] /\ k[2] <= y
  BY <1>1, <1>2, <1>3, <1>4
<1>7. \A k, o \in {l, r}, i \in Nat : Spans(k, i) /\ Spans(o, i) => k = o
  BY <1>2, <1>3, <1>4 DEF Spans
<1>8. ASSUME NEW i \in Nat PROVE (\E k \in {n} : Spans(k, i)) <=> (\E k \in {l, r} : Spans(k, i))
  BY <1>2, <1>3, <1>4 DEF Spans
<1>9. Parts((S \ {n}) \cup {l, r}, x, y)
  BY <1>4, <1>5, <1>6, <1>7, <1>8, Replaced
<1>10. Cardinality((S \ {n}) \cup {l, r}) <= Cardinality(S) + 1
  <2>1. IsFiniteSet(S \ {n}) /\ Cardinality(S \ {n}) = Cardinality(S) - 1
    BY <1>1, FS_RemoveElement
  <2>2. Cardinality((S \ {n}) \cup {l, r}) = Cardinality(S \ {n}) + Cardinality({l, r}) - Cardinality((S \ {n}) \cap {l, r})
    BY <1>5, <2>1, FS_Union
  <2>3. IsFiniteSet((S \ {n}) \cap {l, r})
    BY <2>1, FS_Subset
  <2>4. /\ Cardinality((S \ {n}) \cap {l, r}) \in Nat /\ Cardinality({l, r}) \in Nat
        /\ Cardinality(S) \in Nat /\ Cardinality(S \ {n}) \in Nat
    BY <1>1, <1>5, <2>1, <2>3, FS_CardinalityType
  <2> QED
    BY <1>5, <2>1, <2>2, <2>4
<1> QED
  BY <1>4, <1>9, <1>10 DEF SplitNode

LEMMA MergeParts ==
  ASSUME NEW x \in Nat, NEW y \in Nat, NEW S, Parts(S, x, y), NEW p \in Box, Width(p) > 1, HalvesOf(p) \subseteq S
  PROVE  /\ Parts((S \ HalvesOf(p)) \cup {p}, x, y)
         /\ Cardinality((S \ HalvesOf(p)) \cup {p}) + 1 <= Cardinality(S)
<1>1. p[1] \in Nat /\ p[2] \in Nat /\ IsFiniteSet(S)
  BY BoxIs DEF Parts
<1>2. PICK m \in Nat : /\ p[1] < m /\ m < p[2] /\ HalvesOf(p) = {<<p[1], m>>, <<m, p[2]>>}
                       /\ <<p[1], m>> # <<m, p[2]>>
  BY HalvesAre
<1> DEFINE l == <<p[1], m>>
           r == <<m, p[2]>>
<1>3. l[1] = p[1] /\ l[2] = m /\ r[1] = m /\ r[2] = p[2] /\ HalvesOf(p) = {l, r} /\ l # r /\ l \in S /\ r \in S
  BY <1>2
<1> HIDE DEF l, r
<1>4. x <= p[1] /\ p[2] <= y
  BY <1>3 DEF Parts
<1>5. \A k, o \in {p}, i \in Nat : Spans(k, i) /\ Spans(o, i) => k = o
  OBVIOUS
<1>6. ASSUME NEW i \in Nat PROVE (\E k \in {l, r} : Spans(k, i)) <=> (\E k \in {p} : Spans(k, i))
  BY <1>1, <1>2, <1>3 DEF Spans
<1>7. IsFiniteSet({p}) /\ Cardinality({p}) = 1
  BY FS_Singleton
<1>8. Parts((S \ {l, r}) \cup {p}, x, y)
  BY <1>3, <1>4, <1>5, <1>6, <1>7, Replaced
<1>9. Cardinality((S \ {l, r}) \cup {p}) + 1 <= Cardinality(S)
  <2>1. IsFiniteSet(S \ {l}) /\ Cardinality(S \ {l}) = Cardinality(S) - 1
    BY <1>1, <1>3, FS_RemoveElement
  <2>2. IsFiniteSet((S \ {l}) \ {r}) /\ Cardinality((S \ {l}) \ {r}) = Cardinality(S \ {l}) - 1
    BY <1>3, <2>1, FS_RemoveElement
  <2>3. (S \ {l}) \ {r} = S \ {l, r}
    OBVIOUS
  <2>4. Cardinality((S \ {l, r}) \cup {p}) = IF p \in S \ {l, r} THEN Cardinality(S \ {l, r}) ELSE Cardinality(S \ {l, r}) + 1
    BY <2>2, <2>3, FS_AddElement
  <2> DEFINE c == Cardinality(S \ {l, r})
  <2>5. c \in Nat /\ c = Cardinality(S \ {l}) - 1 /\ Cardinality(S \ {l}) \in Nat /\ Cardinality(S) \in Nat
    BY <1>1, <2>1, <2>2, <2>3, FS_CardinalityType
  <2>6. Cardinality((S \ {l, r}) \cup {p}) = c \/ Cardinality((S \ {l, r}) \cup {p}) = c + 1
    BY <2>4, Zenon
  <2> HIDE DEF c
  <2> QED
    BY <2>1, <2>5, <2>6
<1> QED
  BY <1>3, <1>8, <1>9

LEMMA NewestIs ==
  ASSUME NEW S, S # {}, NEW b \in Nat, \A n \in S : n[1] \in 0..b
  PROVE  Newest(S) \in S
<1> DEFINE T == {n[1] : n \in S}
<1>1. T \subseteq 0..b /\ T # {}
  OBVIOUS
<1>2. PICK k \in T : \A l \in T : l <= k
  <2> HIDE DEF T
  <2> QED
    BY <1>1, GreatestOf
<1>3. PICK n \in S : \A m \in S : m[1] <= n[1]
  BY <1>2
<1> QED
  BY <1>3 DEF Newest

LEMMA OldestIs ==
  ASSUME NEW S, S # {}, \A n \in S : n[1] \in Nat
  PROVE  Oldest(S) \in S
<1> DEFINE T == {n[1] : n \in S}
<1>1. PICK k \in T : \A l \in T : k <= l
  BY LeastOf
<1>2. PICK n \in S : \A m \in S : n[1] <= m[1]
  BY <1>1
<1> QED
  BY <1>2 DEF Oldest

LEMMA LeavesArePartsOf ==
  ASSUME NEW x \in Nat, NEW y \in Nat
  PROVE  Parts({Leaf(i) : i \in x..(y - 1)}, x, y)
<1> DEFINE S == {Leaf(i) : i \in x..(y - 1)}
<1>1. IsFiniteSet(S)
  <2>1. S \subseteq (x..y) \X (x..y)
    BY DEF Leaf
  <2>2. IsFiniteSet(x..y)
    BY FS_Interval
  <2>3. IsFiniteSet((x..y) \X (x..y))
    BY <2>2, FS_Product
  <2> HIDE DEF S
  <2> QED
    BY <2>1, <2>3, FS_Subset
<1>2. ASSUME NEW n \in S PROVE n \in Box /\ x <= n[1] /\ n[2] <= y /\ n = Leaf(n[1]) /\ n[2] = n[1] + 1
  <2>1. PICK i \in x..(y - 1) : n = Leaf(i)
    OBVIOUS
  <2> HIDE DEF S
  <2>2. n = <<i, i + 1>> /\ i \in Nat /\ x <= i /\ i + 1 <= y
    BY <2>1 DEF Leaf
  <2>3. n \in Nat \X Nat /\ n[1] = i /\ n[2] = i + 1 /\ n[1] < n[2]
    BY <2>2
  <2>4. n = Leaf(n[1])
    BY <2>1, <2>3
  <2>5. n \in Box
    BY <2>3 DEF Box
  <2>6. x <= n[1] /\ n[2] <= y /\ n[2] = n[1] + 1
    BY <2>2, <2>3
  <2> QED
    BY <2>4, <2>5, <2>6
<1>3. ASSUME NEW i \in Nat, x <= i, i < y PROVE \E n \in S : Spans(n, i)
  <2>1. i \in x..(y - 1)
    BY <1>3
  <2>2. Leaf(i) \in S /\ Leaf(i)[1] = i /\ Leaf(i)[2] = i + 1
    BY <2>1 DEF Leaf
  <2> HIDE DEF S
  <2> QED
    BY <2>2 DEF Spans
<1> HIDE DEF S
<1>4. ASSUME NEW n \in S, NEW m \in S, NEW i \in Nat, Spans(n, i), Spans(m, i) PROVE n = m
  <2>1. n[1] \in Nat /\ m[1] \in Nat
    BY <1>2, BoxIs
  <2>2. n[1] = m[1]
    BY <1>2, <1>4, <2>1 DEF Spans
  <2> QED
    BY <1>2, <2>2
<1>5. Parts(S, x, y)
  BY <1>1, <1>2, <1>3, <1>4 DEF Parts
<1> QED
  BY <1>5 DEF S

(***************************************************************************)
(* The covers.                                                             *)
(***************************************************************************)

\* Some node that is good and holds an entry lies in no other good one.
LEMMA WidestOf ==
  ASSUME NEW G, G \subseteq TreeNodes, NEW i \in Nat, NEW l \in G, Spans(l, i)
  PROVE  \E n \in G : Spans(n, i) /\ \A m \in G : ~ Below(n, m)
<1> DEFINE H == {n \in G : Spans(n, i)}
           W == {Width(n) : n \in H}
<1>0. MaxEntries \in Nat
  OBVIOUS
<1>1. W \subseteq 0..(2 * MaxEntries) /\ W # {}
  <2>1. ASSUME NEW n \in H PROVE Width(n) \in 0..(2 * MaxEntries)
    BY <1>0, NodeIs DEF Width
  <2> QED
    BY <2>1
<1>2. PICK w \in W : \A v \in W : v <= w
  <2>1. 2 * MaxEntries \in Nat
    BY <1>0
  <2> HIDE DEF W
  <2> QED
    BY <1>1, <2>1, GreatestOf
<1>3. PICK n \in H : w = Width(n)
  OBVIOUS
<1>4. ASSUME NEW m \in G, Below(n, m) PROVE FALSE
  <2>1. /\ n[1] \in Nat /\ n[2] \in Nat /\ n = <<n[1], n[2]>>
        /\ m[1] \in Nat /\ m[2] \in Nat /\ m = <<m[1], m[2]>>
    BY NodeIs
  <2>2. m[1] <= n[1] /\ n[2] <= m[2] /\ m # n
    BY <1>4 DEF Below, Inside
  <2>3. m \in H
    BY <2>1, <2>2 DEF Spans
  <2>4. Width(m) <= Width(n)
    BY <1>2, <1>3, <2>3
  <2>5. m[1] = n[1] /\ m[2] = n[2]
    BY <2>1, <2>2, <2>4 DEF Width
  <2> QED
    BY <2>1, <2>2, <2>5
<1> QED
  BY <1>4

\* A cover has the widest nodes that are not too wide, so it is one of parts.
LEMMA CoverAtParts ==
  ASSUME NEW t \in 0..MaxEntries, NEW a
  PROVE  Parts(CoverAt(t, a), 0, t)
<1> DEFINE S == CoverAt(t, a)
           G == {n \in TreeNodes : ~ TooWide(n, t, a)}
<1>0. t \in Nat /\ MaxEntries \in Nat /\ t <= MaxEntries
  OBVIOUS
<1>1. /\ S \subseteq TreeNodes
      /\ \A n \in S : n[1] < t /\ n \in G /\ \A m \in G : ~ Below(n, m)
      /\ \A n \in G : n[1] < t /\ (\A m \in G : ~ Below(n, m)) => n \in S
  BY DEF CoverAt
<1>2. \A n \in G : Width(n) > 1 => ~ (n[2] > t)
  BY DEF TooWide
<1>3. ASSUME NEW i \in Nat, i < t PROVE Leaf(i) \in G /\ Spans(Leaf(i), i)
  <2>1. i \in 0..(MaxEntries - 1)
    BY <1>0, <1>3
  <2>2. Leaf(i) \in TreeNodes /\ Leaf(i)[1] = i /\ Leaf(i)[2] = i + 1 /\ Width(Leaf(i)) = 1
    BY <2>1, LeafIs
  <2> QED
    BY <2>2 DEF Spans, TooWide
<1>4. G \subseteq TreeNodes
  OBVIOUS
<1> HIDE DEF S, G
<1>5. IsFiniteSet(S) /\ S \subseteq Box
  BY <1>1, FiniteNodes, FS_Subset, NodeInBox
<1>6. ASSUME NEW n \in S PROVE 0 <= n[1] /\ n[2] <= t
  <2>1. n[1] \in Nat /\ n[2] \in Nat /\ n[1] < n[2]
    BY <1>5, BoxIs
  <2> QED
    BY <1>0, <1>1, <1>2, <2>1 DEF Width
<1>7. ASSUME NEW i \in Nat, i < t PROVE \E n \in S : Spans(n, i)
  <2>1. PICK n \in G : Spans(n, i) /\ \A m \in G : ~ Below(n, m)
    BY <1>3, <1>4, <1>7, WidestOf
  <2>2. n[1] \in Nat
    BY <1>4, NodeIs
  <2>3. n[1] < t
    BY <1>0, <1>7, <2>1, <2>2 DEF Spans
  <2> QED
    BY <1>1, <2>1, <2>3
<1>8. ASSUME NEW n \in S, NEW m \in S, NEW i \in Nat, Spans(n, i), Spans(m, i) PROVE n = m
  <2>1. Inside(n, m) \/ Inside(m, n)
    BY <1>1, <1>8, Nested DEF Spans
  <2> QED
    BY <1>1, <2>1 DEF Below
<1>9. Parts(S, 0, t)
  BY <1>5, <1>6, <1>7, <1>8 DEF Parts
<1> QED
  BY <1>9 DEF S

LEMMA FillParts ==
  ASSUME NEW t \in Nat, NEW S, Parts(S, 0, t), NEW budget
  PROVE  Parts(Fill(S, budget), 0, t)
<1> DEFINE wide == {n \in S : Width(n) > 1}
<1>1. ASSUME wide # {} PROVE Newest(wide) \in wide
  <2>1. ASSUME NEW n \in wide PROVE n[1] \in 0..t
    <3>1. n \in Box /\ n[2] <= t
      BY DEF Parts
    <3> QED
      BY <3>1, BoxIs
  <2> HIDE DEF wide
  <2> QED
    BY <1>1, <2>1, NewestIs
<1>2. ASSUME wide # {} PROVE Parts(SplitNode(S, Newest(wide)), 0, t)
  BY <1>1, <1>2, SplitParts
<1>3. Fill(S, budget) = S \/ (wide # {} /\ Fill(S, budget) = SplitNode(S, Newest(wide)))
  BY DEF Fill
<1> QED
  BY <1>2, <1>3

LEMMA CoverParts ==
  ASSUME NEW t \in 0..MaxEntries, NEW budget \in Nat
  PROVE  Parts(CoverOf(t, budget), 0, t)
<1> DEFINE A == CoverAt(t, Alpha(t, budget))
           Def(f, m) == f = [k \in 0..m |-> IF k = 0 THEN A ELSE Fill(f[k - 1], budget)]
           S == {m \in Nat : \E f : Def(f, m)}
<1>0. t \in Nat
  OBVIOUS
<1>1. Parts(A, 0, t)
  BY CoverAtParts
<1> HIDE DEF A
<1>2. 0 \in S
  <2> DEFINE f == [k \in 0..0 |-> A]
  <2>1. f = [k \in 0..0 |-> IF k = 0 THEN A ELSE Fill(f[k - 1], budget)]
    OBVIOUS
  <2> HIDE DEF f
  <2> QED
    BY <2>1
<1>3. ASSUME NEW m \in Nat, m \in S PROVE m + 1 \in S
  <2>1. PICK f : f = [k \in 0..m |-> IF k = 0 THEN A ELSE Fill(f[k - 1], budget)]
    BY <1>3
  <2> DEFINE g == [k \in 0..(m + 1) |-> IF k = m + 1 THEN Fill(f[m], budget) ELSE f[k]]
             h == [k \in 0..(m + 1) |-> IF k = 0 THEN A ELSE Fill(g[k - 1], budget)]
  <2>2. ASSUME NEW k \in 0..(m + 1) PROVE g[k] = h[k]
    <3>1. CASE k = m + 1
      <4>1. k # 0 /\ k - 1 = m /\ m \in 0..(m + 1) /\ m # m + 1
        BY <3>1
      <4> QED
        BY <3>1, <4>1
    <3>2. CASE k # m + 1
      <4>1. k \in 0..m /\ (k # 0 => k - 1 \in 0..m /\ k - 1 \in 0..(m + 1) /\ k - 1 # m + 1)
        BY <3>2
      <4>2. f[k] = IF k = 0 THEN A ELSE Fill(f[k - 1], budget)
        BY <2>1, <4>1
      <4> QED
        BY <3>2, <4>1, <4>2
    <3> QED
      BY <3>1, <3>2
  <2>3. g = h
    <3>1. /\ DOMAIN g = 0..(m + 1) /\ DOMAIN h = 0..(m + 1)
          /\ g = [k \in 0..(m + 1) |-> g[k]] /\ h = [k \in 0..(m + 1) |-> h[k]]
      OBVIOUS
    <3> HIDE DEF g, h
    <3> QED
      BY <2>2, <3>1
  <2>4. Def(g, m + 1)
    <3> HIDE DEF g
    <3> QED
      BY <2>3
  <2>5. m + 1 \in Nat
    BY <1>3
  <2> HIDE DEF g, Def
  <2> QED
    BY <2>4, <2>5
<1>4. budget \in S
  <2> HIDE DEF S
  <2> QED
    BY <1>2, <1>3, SetInduction
<1> DEFINE filled == CHOOSE f : Def(f, budget)
<1>5. filled = [k \in 0..budget |-> IF k = 0 THEN A ELSE Fill(filled[k - 1], budget)]
  <2>1. \E f : Def(f, budget)
    BY <1>4
  <2> QED
    BY <2>1
<1>6. CoverOf(t, budget) = IF t <= budget THEN {Leaf(i) : i \in 0..(t - 1)} ELSE filled[budget]
  BY DEF CoverOf, A
<1> HIDE DEF filled, S, Def
<1>7. Parts(filled[budget], 0, t)
  <2> DEFINE P == {k \in Nat : k <= budget => Parts(filled[k], 0, t)}
  <2>1. 0 \in P
    <3>1. filled[0] = A
      BY <1>5
    <3> QED
      BY <1>1, <3>1
  <2>2. ASSUME NEW k \in Nat, k \in P PROVE k + 1 \in P
    <3> SUFFICES ASSUME k + 1 <= budget PROVE Parts(filled[k + 1], 0, t)
      OBVIOUS
    <3>1. filled[k + 1] = Fill(filled[k], budget)
      <4>1. k + 1 \in 0..budget /\ k + 1 # 0 /\ (k + 1) - 1 = k
        OBVIOUS
      <4> QED
        BY <1>5, <4>1
    <3>2. Parts(filled[k], 0, t)
      BY <2>2
    <3> QED
      BY <1>0, <3>1, <3>2, FillParts
  <2>3. Nat \subseteq P
    <3> HIDE DEF P
    <3> QED
      BY <2>1, <2>2, SetInduction
  <2> QED
    BY <2>3
<1>8. Parts({Leaf(i) : i \in 0..(t - 1)}, 0, t)
  BY <1>0, LeavesArePartsOf
<1> QED
  BY <1>6, <1>7, <1>8

(***************************************************************************)
(* The cuts of a turn's log.                                               *)
(***************************************************************************)
\* The tokens of the newest entries grow with their number: some first entry
\* is the last one to fit.
LEMMA VerbatimIs ==
  ASSUME NEW t \in Nat
  PROVE  VerbatimStart(t) \in 0..t
<1> DEFINE Cost(i) == Tokens(viewLog[i + 1])
           Def(f, m) == f = [i \in (t - m)..t |-> IF i = t THEN 0 ELSE f[i + 1] + Cost(i)]
           S == {m \in Nat : m <= t => \E f : Def(f, m)}
<1>0. \A i : Cost(i) \in Nat
  BY DEF Tokens
<1>1. 0 \in S
  <2> DEFINE f == [i \in (t - 0)..t |-> 0]
  <2>1. f = [i \in (t - 0)..t |-> IF i = t THEN 0 ELSE f[i + 1] + Cost(i)]
    OBVIOUS
  <2> HIDE DEF f, Cost
  <2> QED
    BY <2>1
<1> HIDE DEF Cost
<1>2. ASSUME NEW m \in Nat, m \in S PROVE m + 1 \in S
  <2> SUFFICES ASSUME m + 1 <= t PROVE \E f : Def(f, m + 1)
    BY <1>2
  <2>1. PICK f : f = [i \in (t - m)..t |-> IF i = t THEN 0 ELSE f[i + 1] + Cost(i)]
    BY <1>2
  <2> DEFINE l == t - (m + 1)
             g == [i \in l..t |-> IF i = l THEN f[l + 1] + Cost(l) ELSE f[i]]
             h == [i \in l..t |-> IF i = t THEN 0 ELSE g[i + 1] + Cost(i)]
  <2>2. l \in Nat /\ t - m = l + 1 /\ l < t
    BY <1>2
  <2> HIDE DEF l
  <2>3. ASSUME NEW i \in l..t PROVE g[i] = h[i]
    <3>1. CASE i = l
      <4>1. i # t /\ i + 1 \in l..t /\ i + 1 # l
        BY <2>2, <3>1
      <4> QED
        BY <3>1, <4>1
    <3>2. CASE i # l
      <4>1. i \in (t - m)..t /\ (i # t => i + 1 \in l..t /\ i + 1 # l)
        BY <2>2, <3>2
      <4>2. f[i] = IF i = t THEN 0 ELSE f[i + 1] + Cost(i)
        BY <2>1, <4>1
      <4> QED
        BY <3>2, <4>1, <4>2
    <3> QED
      BY <3>1, <3>2
  <2>4. g = h
    <3>1. DOMAIN g = l..t /\ DOMAIN h = l..t /\ g = [i \in l..t |-> g[i]] /\ h = [i \in l..t |-> h[i]]
      OBVIOUS
    <3> HIDE DEF g, h
    <3> QED
      BY <2>3, <3>1
  <2>5. Def(g, m + 1)
    <3> HIDE DEF g
    <3> QED
      BY <2>4 DEF l
  <2> HIDE DEF g, Def
  <2> QED
    BY <2>5
<1>3. \E f : Def(f, t)
  <2>1. t \in S
    <3> HIDE DEF S
    <3> QED
      BY <1>1, <1>2, SetInduction
  <2> QED
    BY <2>1
<1> DEFINE used == CHOOSE f : f = [i \in 0..t |-> IF i = t THEN 0 ELSE f[i + 1] + Cost(i)]
<1>4. used = [i \in 0..t |-> IF i = t THEN 0 ELSE used[i + 1] + Cost(i)]
  <2>1. t - t = 0
    OBVIOUS
  <2>2. \E f : f = [i \in 0..t |-> IF i = t THEN 0 ELSE f[i + 1] + Cost(i)]
    BY <1>3, <2>1
  <2> QED
    BY <2>2
<1>5. VerbatimStart(t) = CHOOSE i \in 0..t : used[i] <= Recent /\ (i = 0 \/ used[i - 1] > Recent)
  BY DEF VerbatimStart, Cost
<1> HIDE DEF S, Def, used
<1>6. ASSUME NEW i \in 0..t PROVE used[i] \in Nat
  <2> DEFINE P == {m \in Nat : m <= t => used[t - m] \in Nat}
  <2>1. 0 \in P
    <3>1. t - 0 = t /\ t \in 0..t
      OBVIOUS
    <3> QED
      BY <1>4, <3>1
  <2>2. ASSUME NEW m \in Nat, m \in P PROVE m + 1 \in P
    <3> SUFFICES ASSUME m + 1 <= t PROVE used[t - (m + 1)] \in Nat
      BY <2>2
    <3> DEFINE l == t - (m + 1)
    <3>1. l \in 0..t /\ l # t /\ l + 1 = t - m /\ m <= t
      OBVIOUS
    <3> HIDE DEF l
    <3>2. used[l] = used[l + 1] + Cost(l)
      BY <1>4, <3>1
    <3>3. used[t - m] \in Nat
      BY <2>2, <3>1
    <3>4. used[l] \in Nat
      BY <1>0, <3>1, <3>2, <3>3
    <3> QED
      BY <3>4 DEF l
  <2>3. Nat \subseteq P
    <3> HIDE DEF P
    <3> QED
      BY <2>1, <2>2, SetInduction
  <2>4. t - i \in Nat /\ t - i <= t /\ t - (t - i) = i
    OBVIOUS
  <2>5. t - i \in P
    BY <2>3, <2>4
  <2> QED
    BY <2>4, <2>5
<1> DEFINE T == {i \in 0..t : used[i] <= Recent}
<1>7. T \subseteq Nat /\ T # {}
  <2>1. t \in 0..t /\ used[t] = 0 /\ Recent \in Nat
    BY <1>4
  <2> QED
    BY <2>1
<1>8. PICK i \in T : \A k \in T : i <= k
  BY <1>7, LeastOf
<1>9. i \in 0..t /\ used[i] <= Recent /\ (i = 0 \/ used[i - 1] > Recent)
  <2>1. CASE i = 0
    BY <2>1
  <2>2. CASE i # 0
    <3>1. i - 1 \in 0..t /\ ~ (i <= i - 1)
      BY <2>2
    <3>2. i - 1 \notin T
      BY <1>8, <3>1
    <3>3. used[i - 1] \in Nat /\ Recent \in Nat
      BY <1>6, <3>1
    <3> QED
      BY <3>1, <3>2, <3>3
  <2> QED
    BY <2>1, <2>2
<1> QED
  BY <1>5, <1>9

LEMMA MultipleIs ==
  ASSUME NEW w \in Nat \ {0}, NEW s \in Nat
  PROVE  /\ s % w = 0 => \E k \in Nat : s = k * w
         /\ \A k \in Nat : k * w \in Nat /\ (k * w) % w = 0
<1>1. s = (s \div w) * w + (s % w) /\ s \div w \in Nat /\ s % w \in Nat
  OBVIOUS
<1>2. \A k \in Nat : k * w \in Nat /\ (k * w) % w = 0
  OBVIOUS
<1>3. ASSUME s % w = 0 PROVE \E k \in Nat : s = k * w
  <2> DEFINE k == s \div w
  <2>1. s = k * w + 0 /\ k \in Nat
    BY <1>1, <1>3
  <2>2. s = k * w
    BY <2>1
  <2> HIDE DEF k
  <2> QED
    BY <2>1, <2>2
<1> QED
  BY <1>2, <1>3

LEMMA StableCutIs ==
  ASSUME NEW w \in Nat \ {0}, NEW s \in Nat
  PROVE  \E k \in Nat : StableCut(s, w) = k * w /\ k * w \in 0..s /\ s < (k + 1) * w
<1> DEFINE k == s \div w
<1>1. s = k * w + (s % w) /\ k \in Nat /\ s % w \in Nat /\ s % w < w
  OBVIOUS
<1>2. k * w \in Nat /\ (k + 1) * w = k * w + w
  BY <1>1
<1> HIDE DEF k
<1>3. StableCut(s, w) = k * w /\ k * w \in 0..s /\ s < (k + 1) * w
  BY <1>1, <1>2 DEF StableCut
<1> QED
  BY <1>1, <1>3

LEMMA StepsAre ==
  /\ TailStep \in Nat \ {0} /\ OlderStep \in Nat \ {0}
  /\ \E c \in Nat : OlderStep = c * TailStep
<1>1. TailStep \in Nat \ {0}
  BY PowersAre
<1>2. OlderStep \in Nat /\ OlderStep % TailStep = 0 /\ OlderStep > 0
  OBVIOUS
<1>3. \E c \in Nat : OlderStep = c * TailStep
  BY <1>1, <1>2, MultipleIs
<1> QED
  BY <1>1, <1>2, <1>3

\* The first cut is not after the second, and blocks fill what is in between.
LEMMA CutsMeet ==
  ASSUME NEW s \in Nat
  PROVE  LET upto == StableCut(s, OlderStep)
             cut  == StableCut(s, TailStep)
         IN  /\ upto \in 0..cut /\ cut \in 0..s
             /\ \E k, l \in Nat : upto = k * TailStep /\ cut = l * TailStep
<1>1. PICK c \in Nat : OlderStep = c * TailStep
  BY StepsAre
<1>2. PICK d \in Nat : StableCut(s, OlderStep) = d * OlderStep /\ d * OlderStep \in 0..s
  BY StepsAre, StableCutIs
<1>3. PICK l \in Nat : StableCut(s, TailStep) = l * TailStep /\ l * TailStep \in 0..s /\ s < (l + 1) * TailStep
  BY StepsAre, StableCutIs
<1> DEFINE w == TailStep
           k == d * c
<1>4. w \in Nat \ {0} /\ k \in Nat
  BY StepsAre
<1>5. d * OlderStep = k * w
  BY <1>1, <1>4
<1>6. k * w \in 0..s /\ l * w \in 0..s /\ s < (l + 1) * w
  BY <1>2, <1>3, <1>5
<1>7. StableCut(s, OlderStep) = k * w /\ StableCut(s, TailStep) = l * w
  BY <1>2, <1>3, <1>5
<1> HIDE DEF w, k
<1>8. k < l + 1
  <2>1. \A a, b \in Nat : a >= b => a * w >= b * w
    BY <1>4
  <2>2. SUFFICES ASSUME k >= l + 1 PROVE FALSE
    BY <1>4
  <2>3. k * w >= (l + 1) * w /\ (l + 1) * w \in Nat
    BY <1>4, <2>1, <2>2
  <2> QED
    BY <1>6, <2>3
<1>9. k * w <= l * w
  BY <1>4, <1>8
<1> QED
  BY <1>4, <1>6, <1>7, <1>9 DEF w

(***************************************************************************)
(* What is printed.                                                        *)
(***************************************************************************)

\* The notices change no more than how many lines the unreadable ones take.
LEMMA NoticesAre ==
  ASSUME NEW x \in Nat, NEW y \in Nat, NEW S, Parts(S, x, y),
         Len(viewLog) \in Nat, y <= Len(viewLog), Len(viewLog) <= MaxEntries, NEW i \in Nat
  PROVE  Cardinality(Covering(MergeNotices(S), i)) = IF x <= i /\ i < y THEN 1 ELSE 0
<1> DEFINE U(j) == Unreadable(S, j)
           L == Len(viewLog)
           Plain == {n \in S : ~ (Width(n) = 1 /\ U(n[1]))}
           Runs == {r \in (0..MaxEntries) \X (1..MaxEntries) :
                      /\ r[1] < r[2] /\ \A j \in r[1]..(r[2] - 1) : U(j)
                      /\ ~ (r[1] > 0 /\ U(r[1] - 1)) /\ ~ (r[2] < L /\ U(r[2]))}
           C == Covering(MergeNotices(S), i)
<1>0. L \in Nat /\ MaxEntries \in Nat /\ y <= L /\ L <= MaxEntries
  OBVIOUS
<1>1. C = {n \in Plain : Spans(n, i)} \cup {r \in Runs : Spans(r, i)}
  BY DEF MergeNotices, Covering, Spans
<1>2. ASSUME NEW j \in Nat, U(j) PROVE x <= j /\ j < y /\ Leaf(j) \in S /\ Spans(Leaf(j), j)
  <2>1. Leaf(j) \in S /\ Leaf(j)[1] = j /\ Leaf(j)[2] = j + 1
    BY <1>2 DEF Unreadable, Leaf
  <2>2. x <= Leaf(j)[1] /\ Leaf(j)[2] <= y
    BY <2>1 DEF Parts
  <2> QED
    BY <2>1, <2>2 DEF Spans
<1> HIDE DEF U, L
<1>3. ASSUME NEW n \in S PROVE n[1] \in Nat /\ n[2] \in Nat /\ n[1] < n[2] /\ x <= n[1] /\ n[2] <= y
  BY BoxIs DEF Parts
<1>4. ASSUME NEW r \in Runs
      PROVE  /\ r = <<r[1], r[2]>> /\ r[1] \in Nat /\ r[2] \in Nat /\ r[1] < r[2]
             /\ \A j \in Nat : r[1] <= j /\ j < r[2] => U(j)
             /\ ~ (r[1] > 0 /\ U(r[1] - 1)) /\ ~ (r[2] < L /\ U(r[2]))
  <2>1. r = <<r[1], r[2]>> /\ r[1] \in Nat /\ r[2] \in Nat
    OBVIOUS
  <2> QED
    BY <2>1
<1>5. ASSUME NEW l \in Nat, NEW h \in Nat, l < h, h <= y, \A j \in Nat : l <= j /\ j < h => U(j),
             ~ (l > 0 /\ U(l - 1)), ~ (h < L /\ U(h))
      PROVE  <<l, h>> \in Runs
  <2> DEFINE r == <<l, h>>
  <2>1. r \in (0..MaxEntries) \X (1..MaxEntries) /\ r[1] = l /\ r[2] = h
    BY <1>0, <1>5
  <2>2. \A j \in l..(h - 1) : U(j)
    BY <1>5
  <2> HIDE DEF r
  <2>3. r \in Runs
    BY <1>5, <2>1, <2>2
  <2> QED
    BY <2>3 DEF r
<1>6. \A n \in Plain : n \in S /\ ~ (Width(n) = 1 /\ U(n[1]))
  OBVIOUS
<1>7. \A n \in S : ~ (Width(n) = 1 /\ U(n[1])) => n \in Plain
  OBVIOUS
<1> HIDE DEF Plain, Runs, C
<1>8. CASE ~ (x <= i /\ i < y)
  <2>1. \A n \in Plain : ~ Spans(n, i)
    BY <1>3, <1>6, <1>8 DEF Spans
  <2>2. \A r \in Runs : ~ Spans(r, i)
    BY <1>2, <1>4, <1>8 DEF Spans
  <2>3. C = {}
    BY <1>1, <2>1, <2>2
  <2>4. Cardinality(C) = 0
    BY <2>3, FS_EmptySet
  <2> QED
    BY <1>8, <2>4 DEF C
<1>9. CASE x <= i /\ i < y /\ ~ U(i)
  <2>1. PICK n \in S : Spans(n, i)
    BY <1>9 DEF Parts
  <2>2. n \in Plain
    <3>1. SUFFICES ASSUME Width(n) = 1, U(n[1]) PROVE FALSE
      BY <1>7
    <3>2. n[1] = i
      BY <1>3, <2>1, <3>1 DEF Spans, Width
    <3> QED
      BY <1>9, <3>1, <3>2
  <2>3. \A m \in Plain : Spans(m, i) => m = n
    BY <1>6, <2>1 DEF Parts
  <2>4. \A r \in Runs : ~ Spans(r, i)
    BY <1>4, <1>9 DEF Spans
  <2>5. C = {n}
    BY <1>1, <2>1, <2>2, <2>3, <2>4
  <2>6. Cardinality(C) = 1
    BY <2>5, FS_Singleton
  <2> QED
    BY <1>9, <2>6 DEF C
<1>10. CASE x <= i /\ i < y /\ U(i)
  <2>1. \A n \in Plain : ~ Spans(n, i)
    <3>1. SUFFICES ASSUME NEW n \in Plain, Spans(n, i) PROVE FALSE
      OBVIOUS
    <3>2. n = Leaf(i)
      BY <1>2, <1>6, <1>10, <3>1 DEF Parts
    <3>3. n[1] = i /\ Width(n) = 1
      BY <3>2 DEF Leaf, Width
    <3> QED
      BY <1>6, <1>10, <3>3
  <2> DEFINE T == {l \in Nat : l <= i /\ \A j \in Nat : l <= j /\ j <= i => U(j)}
             V == {h \in 0..y : i < h /\ \A j \in Nat : i <= j /\ j < h => U(j)}
  <2>2. T \subseteq Nat /\ T # {}
    <3>1. i \in T
      BY <1>10
    <3> QED
      BY <3>1
  <2>3. V \subseteq 0..y /\ V # {}
    <3>1. i + 1 \in V
      BY <1>10
    <3> QED
      BY <3>1
  <2>4. PICK l \in T : \A k \in T : l <= k
    BY <2>2, LeastOf
  <2>5. PICK h \in V : \A k \in V : k <= h
    BY <2>3, GreatestOf
  <2>6. ~ (l > 0 /\ U(l - 1))
    <3>1. SUFFICES ASSUME l > 0, U(l - 1) PROVE FALSE
      OBVIOUS
    <3>2. l - 1 \in T
      BY <3>1
    <3> QED
      BY <2>4, <3>2
  <2>7. ~ (h < L /\ U(h))
    <3>1. SUFFICES ASSUME U(h) PROVE FALSE
      OBVIOUS
    <3>2. h < y
      BY <1>2, <3>1
    <3>3. h \in Nat /\ i < h /\ \A j \in Nat : i <= j /\ j < h + 1 => U(j)
      BY <3>1
    <3>4. h + 1 \in V
      BY <3>2, <3>3
    <3> HIDE DEF T, V
    <3> QED
      BY <2>5, <3>3, <3>4
  <2>8. /\ l \in Nat /\ h \in Nat /\ l <= i /\ i < h /\ h <= y
        /\ \A j \in Nat : l <= j /\ j < h => U(j)
    OBVIOUS
  <2> DEFINE r == <<l, h>>
  <2>9. r \in Runs /\ Spans(r, i)
    <3>1. r \in Runs
      BY <1>5, <2>6, <2>7, <2>8
    <3>2. r[1] = l /\ r[2] = h
      OBVIOUS
    <3> QED
      BY <2>8, <3>1, <3>2 DEF Spans
  <2> HIDE DEF r, T, V
  <2>10. ASSUME NEW a \in Runs, NEW b \in Runs, Spans(a, i), Spans(b, i) PROVE a[1] >= b[1] /\ a[2] <= b[2]
    <3>1. /\ a[1] \in Nat /\ a[2] \in Nat /\ b[1] \in Nat /\ b[2] \in Nat
          /\ a[1] <= i /\ i < a[2] /\ b[1] <= i /\ i < b[2]
      BY <1>4, <2>10 DEF Spans
    <3>2. ASSUME a[1] < b[1] PROVE FALSE
      <4> DEFINE p == a[1]
                 q == b[1]
                 e == a[2]
      <4>1. p \in Nat /\ q \in Nat /\ e \in Nat /\ q <= i /\ i < e /\ p < q
        BY <3>1, <3>2
      <4> HIDE DEF p, q, e
      <4>2. q - 1 \in Nat /\ p <= q - 1 /\ q - 1 < e /\ q > 0
        BY <4>1
      <4>3. b[1] - 1 \in Nat /\ a[1] <= b[1] - 1 /\ b[1] - 1 < a[2] /\ b[1] > 0
        BY <4>2 DEF p, q, e
      <4> QED
        BY <1>4, <4>3
    <3>3. ASSUME b[2] < a[2] PROVE FALSE
      <4>1. a[1] <= b[2] /\ b[2] < a[2]
        BY <3>1, <3>3
      <4>2. U(b[2])
        BY <1>4, <3>1, <4>1
      <4>3. b[2] < L
        BY <1>0, <1>2, <3>1, <4>2
      <4> QED
        BY <1>4, <4>2, <4>3
    <3> QED
      BY <3>1, <3>2, <3>3
  <2>11. \A a \in Runs : Spans(a, i) => a = r
    <3>1. SUFFICES ASSUME NEW a \in Runs, Spans(a, i) PROVE a = r
      OBVIOUS
    <3>2. a[1] >= r[1] /\ a[2] <= r[2] /\ r[1] >= a[1] /\ r[2] <= a[2]
      BY <2>9, <2>10, <3>1
    <3>3. a = <<a[1], a[2]>> /\ r = <<r[1], r[2]>> /\ a[1] \in Nat /\ a[2] \in Nat /\ r[1] \in Nat /\ r[2] \in Nat
      BY <1>4, <2>9
    <3>4. a[1] = r[1] /\ a[2] = r[2]
      BY <3>2, <3>3
    <3> QED
      BY <3>3, <3>4
  <2>12. C = {r}
    BY <1>1, <2>1, <2>9, <2>11
  <2>13. Cardinality(C) = 1
    BY <2>12, FS_Singleton
  <2> QED
    BY <1>10, <2>13 DEF C
<1> QED
  BY <1>8, <1>9, <1>10

\* The lines of a block are its widest nodes that have one.
LEMMA BlockParts ==
  ASSUME NEW n \in TreeNodes, n[2] <= MaxEntries
  PROVE  Parts(BlockLines(n), n[1], n[2]) /\ BlockLines(n) \subseteq TreeNodes
<1> DEFINE G == {m \in TreeNodes : Inside(m, n) /\ (Width(m) = 1 \/ m \in viewTree)}
           S == BlockLines(n)
<1>1. /\ S \subseteq TreeNodes
      /\ \A m \in S : m \in G /\ \A k \in G : ~ Below(m, k)
      /\ \A m \in G : (\A k \in G : ~ Below(m, k)) => m \in S
  BY DEF BlockLines
<1>2. n[1] \in Nat /\ n[2] \in Nat /\ n[1] < n[2] /\ MaxEntries \in Nat
  BY NodeIs
<1>3. \A m \in G : m \in TreeNodes /\ n[1] <= m[1] /\ m[2] <= n[2]
  BY DEF Inside
<1>4. ASSUME NEW i \in Nat, n[1] <= i, i < n[2] PROVE Leaf(i) \in G /\ Spans(Leaf(i), i)
  <2>1. i \in 0..(MaxEntries - 1)
    BY <1>2, <1>4
  <2>2. Leaf(i) \in TreeNodes /\ Leaf(i)[1] = i /\ Leaf(i)[2] = i + 1 /\ Width(Leaf(i)) = 1
    BY <2>1, LeafIs
  <2>3. n[1] <= Leaf(i)[1] /\ Leaf(i)[2] <= n[2]
    BY <1>2, <1>4, <2>2
  <2>4. Spans(Leaf(i), i)
    BY <2>2 DEF Spans
  <2> QED
    BY <2>2, <2>3, <2>4 DEF Inside
<1> HIDE DEF S, G
<1>5. IsFiniteSet(S) /\ S \subseteq Box
  BY <1>1, FiniteNodes, FS_Subset, NodeInBox
<1>6. \A m \in S : n[1] <= m[1] /\ m[2] <= n[2]
  BY <1>1, <1>3
<1>7. ASSUME NEW i \in Nat, n[1] <= i, i < n[2] PROVE \E m \in S : Spans(m, i)
  <2>1. PICK m \in G : Spans(m, i) /\ \A k \in G : ~ Below(m, k)
    BY <1>3, <1>4, <1>7, WidestOf
  <2> QED
    BY <1>1, <2>1
<1>8. ASSUME NEW k \in S, NEW m \in S, NEW i \in Nat, Spans(k, i), Spans(m, i) PROVE k = m
  <2>1. Inside(k, m) \/ Inside(m, k)
    BY <1>1, <1>8, Nested DEF Spans
  <2> QED
    BY <1>1, <2>1 DEF Below
<1>9. Parts(S, n[1], n[2])
  BY <1>5, <1>6, <1>7, <1>8 DEF Parts
<1> QED
  BY <1>1, <1>9 DEF S

\* The blocks between two cuts.
LEMMA BlocksAre ==
  ASSUME NEW k \in Nat, NEW l \in Nat, l * TailStep <= MaxEntries, NEW o \in Nat, k <= o, o < l
  PROVE  LET lo == o * TailStep
         IN  /\ <<lo, lo + TailStep>> \in TreeNodes /\ lo + TailStep <= l * TailStep
             /\ lo \in (k * TailStep)..(l * TailStep - 1) /\ (lo - k * TailStep) % TailStep = 0
<1> DEFINE w == TailStep
<1>1. w \in Nat \ {0} /\ MaxEntries \in Nat /\ l * w <= MaxEntries
  BY StepsAre
<1>2. PICK j \in 0..MaxEntries : w = Powers[j]
  OBVIOUS
<1> HIDE DEF w
<1>3. /\ o * w \in Nat /\ k * w \in Nat /\ l * w \in Nat /\ (o + 1) * w \in Nat /\ (o + 1) * w = o * w + w
      /\ k * w <= o * w /\ (o + 1) * w <= l * w
  BY <1>1
<1>4. o <= o * w
  BY <1>1
<1>5. o \in 0..MaxEntries
  BY <1>1, <1>3, <1>4
<1> DEFINE lo == o * w
<1>6. lo \in Nat /\ lo + w = (o + 1) * w /\ lo + w <= l * w /\ lo + w <= MaxEntries /\ lo \in (k * w)..(l * w - 1)
  BY <1>1, <1>3
<1>7. (lo - k * w) % w = 0
  <2>1. lo - k * w = (o - k) * w /\ o - k \in Nat
    BY <1>1
  <2> QED
    BY <1>1, <2>1, MultipleIs
<1>8. <<lo, lo + w>> \in NodesUpTo
  <2>1. <<lo, lo + w>> = <<o * Powers[j], (o + 1) * Powers[j]>>
    BY <1>2, <1>6
  <2> QED
    BY <1>5, <2>1 DEF NodesUpTo
<1>9. <<lo, lo + w>>[1] = lo /\ <<lo, lo + w>>[2] = lo + w
  OBVIOUS
<1>10. <<lo, lo + w>> \in TreeNodes
  <2> HIDE DEF lo
  <2> QED
    BY <1>1, <1>6, <1>8, <1>9 DEF TreeNodes
<1> QED
  BY <1>6, <1>7, <1>10 DEF w

LEMMA MiddleParts ==
  ASSUME NEW k \in Nat, NEW l \in Nat, k * TailStep <= l * TailStep, l * TailStep <= MaxEntries
  PROVE  LET from == k * TailStep
             to   == l * TailStep
         IN  Parts(UNION {BlockLines(<<lo, lo + TailStep>>) :
                            lo \in {i \in from..(to - 1) : (i - from) % TailStep = 0}}, from, to)
<1> DEFINE w == TailStep
           from == k * w
           to == l * w
           los == {i \in from..(to - 1) : (i - from) % w = 0}
           B(lo) == BlockLines(<<lo, lo + w>>)
           S == UNION {B(lo) : lo \in los}
<1>1. w \in Nat \ {0} /\ from \in Nat /\ to \in Nat /\ from <= to /\ MaxEntries \in Nat /\ to <= MaxEntries
  BY StepsAre, MultipleIs
<1>2. ASSUME NEW o \in Nat, k <= o, o < l
      PROVE  <<o * w, o * w + w>> \in TreeNodes /\ o * w + w <= to /\ o * w \in los
  BY <1>2, BlocksAre
<1>3. ASSUME NEW lo \in los PROVE \E o \in Nat : k <= o /\ o < l /\ lo = o * w
  <2>1. lo - from \in Nat /\ lo < to /\ lo \in Nat
    BY <1>1
  <2>2. PICK d \in Nat : lo - from = d * w
    BY <1>1, <2>1, MultipleIs
  <2>3. lo = (k + d) * w /\ k + d \in Nat
    <3>1. (k + d) * w = k * w + d * w /\ d * w \in Nat
      BY <1>1
    <3>2. lo = from + d * w
      <4> HIDE DEF w, from, to, los
      <4> QED
        BY <1>1, <2>1, <2>2, <3>1
    <3> HIDE DEF w, los
    <3> QED
      BY <3>1, <3>2
  <2>4. k + d < l
    <3>1. (k + d) * w < l * w
      BY <2>1, <2>3
    <3> HIDE DEF w, from, to, los
    <3>2. \A a, b \in Nat : a >= b => a * w >= b * w
      BY <1>1
    <3>3. SUFFICES ASSUME k + d >= l PROVE FALSE
      OBVIOUS
    <3>4. (k + d) * w >= l * w /\ l * w \in Nat /\ (k + d) * w \in Nat
      BY <1>1, <3>2, <3>3
    <3> QED
      BY <3>1, <3>4
  <2> QED
    BY <2>3, <2>4
<1> HIDE DEF w
<1>4. ASSUME NEW lo \in los
      PROVE  lo \in Nat /\ from <= lo /\ lo + w <= to /\ Parts(B(lo), lo, lo + w) /\ B(lo) \subseteq TreeNodes
  <2>1. PICK o \in Nat : k <= o /\ o < l /\ lo = o * w
    BY <1>3
  <2>2. <<lo, lo + w>> \in TreeNodes /\ lo + w <= to
    BY <1>2, <2>1
  <2>3. lo \in Nat /\ from <= lo
    BY <1>1
  <2>4. <<lo, lo + w>>[1] = lo /\ <<lo, lo + w>>[2] = lo + w
    OBVIOUS
  <2>5. lo + w <= MaxEntries
    <3> HIDE DEF from, to
    <3> QED
      BY <1>1, <2>2, <2>3
  <2>6. Parts(B(lo), lo, lo + w) /\ B(lo) \subseteq TreeNodes
    <3> DEFINE b == <<lo, lo + w>>
    <3>1. b \in TreeNodes /\ b[1] = lo /\ b[2] = lo + w /\ b[2] <= MaxEntries
      BY <2>2, <2>4, <2>5
    <3> HIDE DEF b
    <3>2. Parts(BlockLines(b), b[1], b[2]) /\ BlockLines(b) \subseteq TreeNodes
      BY <3>1, BlockParts
    <3>3. Parts(BlockLines(b), lo, lo + w) /\ BlockLines(b) \subseteq TreeNodes
      BY <3>1, <3>2
    <3> QED
      BY <3>3 DEF b
  <2> QED
    BY <2>2, <2>3, <2>6
<1> HIDE DEF B
<1>5. \A n \in S : \E lo \in los : n \in B(lo)
  OBVIOUS
<1>6. \A lo \in los : B(lo) \subseteq S
  OBVIOUS
<1>7. ASSUME NEW i \in Nat, from <= i, i < to
      PROVE  \E lo \in los : lo <= i /\ i < lo + w
  <2>1. PICK o \in Nat : o * w <= i /\ i < (o + 1) * w
    <3>1. i = (i \div w) * w + (i % w) /\ i \div w \in Nat /\ i % w \in Nat /\ i % w < w
      BY <1>1
    <3> DEFINE o == i \div w
    <3>2. (o + 1) * w = o * w + w /\ o * w \in Nat
      BY <1>1, <3>1
    <3>3. o * w <= i /\ i < (o + 1) * w /\ o \in Nat
      BY <1>1, <3>1, <3>2
    <3> HIDE DEF o
    <3> QED
      BY <3>3
  <2>2. k <= o /\ o < l
    <3>1. \A a, b \in Nat : a >= b => a * w >= b * w
      BY <1>1
    <3>2. ASSUME o >= l PROVE FALSE
      <4>1. o * w >= to /\ o * w \in Nat
        BY <1>1, <3>1, <3>2
      <4> QED
        BY <1>1, <1>7, <2>1, <4>1
    <3>3. ASSUME k >= o + 1 PROVE FALSE
      <4>1. from >= (o + 1) * w /\ (o + 1) * w \in Nat
        BY <1>1, <3>1, <3>3
      <4> QED
        BY <1>1, <1>7, <2>1, <4>1
    <3> QED
      BY <3>2, <3>3
  <2>3. o * w \in los
    BY <1>2, <2>2
  <2>4. (o + 1) * w = o * w + w
    BY <1>1
  <2> QED
    BY <2>1, <2>3, <2>4
<1>8. ASSUME NEW a \in los, NEW b \in los, NEW i \in Nat, a <= i, i < a + w, b <= i, i < b + w PROVE a = b
  <2>1. PICK p \in Nat : a = p * w
    BY <1>3
  <2>2. PICK q \in Nat : b = q * w
    BY <1>3
  <2>3. \A m, o \in Nat : m >= o + 1 => m * w >= o * w + w
    <3>1. ASSUME NEW m \in Nat, NEW o \in Nat, m >= o + 1 PROVE m * w >= o * w + w
      <4>1. m * w >= (o + 1) * w /\ (o + 1) * w = o * w + w
        BY <1>1, <3>1
      <4> QED
        BY <4>1
    <3> QED
      BY <3>1
  <2>4. p * w \in Nat /\ q * w \in Nat
    BY <1>1
  <2>5. ~ (p >= q + 1) /\ ~ (q >= p + 1)
    BY <1>1, <1>8, <2>1, <2>2, <2>3, <2>4
  <2>6. p = q
    BY <2>5
  <2> QED
    BY <2>1, <2>2, <2>6
<1> HIDE DEF S, los, from, to
<1>9. IsFiniteSet(S) /\ S \subseteq Box
  <2>1. S \subseteq TreeNodes
    BY <1>4, <1>5
  <2> QED
    BY <2>1, FiniteNodes, FS_Subset, NodeInBox
<1>10. ASSUME NEW n \in S
       PROVE  \E lo \in los : n \in B(lo) /\ lo <= n[1] /\ n[2] <= lo + w /\ from <= n[1] /\ n[2] <= to
  <2>1. PICK lo \in los : n \in B(lo)
    BY <1>5
  <2>2. lo \in Nat /\ from <= lo /\ lo + w <= to /\ lo <= n[1] /\ n[2] <= lo + w
    BY <1>4, <2>1 DEF Parts
  <2>3. n[1] \in Nat /\ n[2] \in Nat
    BY <1>9, BoxIs
  <2>4. from <= n[1] /\ n[2] <= to
    BY <1>1, <2>2, <2>3
  <2> QED
    BY <2>1, <2>2, <2>4
<1>11. ASSUME NEW i \in Nat, from <= i, i < to PROVE \E n \in S : Spans(n, i)
  <2>1. PICK lo \in los : lo <= i /\ i < lo + w
    BY <1>7, <1>11
  <2>2. PICK n \in B(lo) : Spans(n, i)
    BY <1>4, <2>1 DEF Parts
  <2> QED
    BY <1>6, <2>2
<1>12. ASSUME NEW n \in S, NEW m \in S, NEW i \in Nat, Spans(n, i), Spans(m, i) PROVE n = m
  <2>1. PICK a \in los : n \in B(a) /\ a <= n[1] /\ n[2] <= a + w
    BY <1>10
  <2>2. PICK b \in los : m \in B(b) /\ b <= m[1] /\ m[2] <= b + w
    BY <1>10
  <2>3. n[1] \in Nat /\ n[2] \in Nat /\ m[1] \in Nat /\ m[2] \in Nat /\ a \in Nat /\ b \in Nat
    BY <1>4, <1>9, BoxIs
  <2>4. a <= i /\ i < a + w /\ b <= i /\ i < b + w
    BY <1>1, <1>12, <2>1, <2>2, <2>3 DEF Spans
  <2>5. a = b
    BY <1>8, <2>4
  <2> QED
    BY <1>4, <1>12, <2>1, <2>2, <2>5 DEF Parts
<1>13. Parts(S, from, to)
  BY <1>9, <1>10, <1>11, <1>12 DEF Parts
<1> QED
  BY <1>13 DEF S, los, from, to, B, w

(***************************************************************************)
(* The view in the making.                                                 *)
(***************************************************************************)
EntryKinds == {"short", "long", "corrupt"}

ViewTypes ==
  /\ viewLog \in Seq(EntryKinds) /\ Len(viewLog) <= MaxEntries
  /\ viewTree \subseteq TreeNodes

\* What the view is of, and its nodes are the parts of it.
Viewed ==
  viewing # NotViewing =>
    /\ viewing \in [made : BOOLEAN, upto : Nat, of : Nat, budget : Nat]
    /\ viewing.of <= Len(viewLog) /\ viewing.upto <= viewing.of /\ viewing.budget \in Budgets
    /\ viewing.upto = viewing.of \/ viewing.upto = StableCut(VerbatimStart(viewing.of), OlderStep)
    /\ Parts(viewNodes, 0, viewing.upto)

LEMMA VerbatimStays ==
  ASSUME NEW t, viewLog' = viewLog
  PROVE  VerbatimStart(t)' = VerbatimStart(t)
<1> DEFINE StartIn(es) == LET used[i \in 0..t] == IF i = t THEN 0 ELSE used[i + 1] + Tokens(es[i + 1])
                          IN  CHOOSE i \in 0..t : used[i] <= Recent /\ (i = 0 \/ used[i - 1] > Recent)
<1>1. VerbatimStart(t) = StartIn(viewLog)
  BY DEF VerbatimStart
<1>2. VerbatimStart(t)' = StartIn(viewLog')
  BY DEF VerbatimStart, Tokens
<1> HIDE DEF StartIn
<1> QED
  BY <1>1, <1>2

LEMMA CoversAre ==
  ASSUME NEW t \in 0..MaxEntries, NEW budget \in Budgets
  PROVE  Covers[t, budget] = CoverOf(t, budget)
<1>1. <<t, budget>> \in (0..MaxEntries) \X Budgets
  OBVIOUS
<1> QED
  BY <1>1 DEF Covers

ViewInvariant == ViewTypes /\ Viewed /\ ViewFits

LEMMA ViewInitially == ASSUME ViewInit PROVE ViewInvariant
<1>1. viewLog = <<>> /\ viewTree = {} /\ viewing = NotViewing /\ MaxEntries \in Nat
  BY DEF ViewInit
<1>2. <<>> \in Seq(EntryKinds) /\ Len(<<>>) = 0
  BY EmptySeq
<1> QED
  BY <1>1, <1>2 DEF ViewInvariant, ViewTypes, Viewed, ViewFits

LEMMA ViewBegins ==
  ASSUME ViewInvariant, NEW upto \in Nat, NEW of \in 0..MaxEntries, NEW budget \in Budgets,
         of <= Len(viewLog), upto <= of, upto = of \/ upto = StableCut(VerbatimStart(of), OlderStep),
         BeginView(upto, of, budget)
  PROVE  ViewInvariant'
<1>1. /\ viewing' = [made |-> FALSE, upto |-> upto, of |-> of, budget |-> budget]
      /\ viewNodes' = Covers[upto, budget] /\ viewLog' = viewLog /\ viewTree' = viewTree
  BY DEF BeginView
<1>2. upto \in 0..MaxEntries /\ budget \in Nat /\ of \in Nat /\ MaxEntries \in Nat
  OBVIOUS
<1>3. Covers[upto, budget] = CoverOf(upto, budget)
  BY <1>2, CoversAre
<1>4. Parts(CoverOf(upto, budget), 0, upto)
  BY <1>2, CoverParts
<1> DEFINE v == [made |-> FALSE, upto |-> upto, of |-> of, budget |-> budget]
<1>5. /\ v.upto = upto /\ v.of = of /\ v.budget = budget
      /\ v \in [made : BOOLEAN, upto : Nat, of : Nat, budget : Nat]
  BY <1>2
<1> HIDE DEF v
<1>6. viewing' = v
  BY <1>1 DEF v
<1>7. Parts(viewNodes', 0, upto)
  BY <1>1, <1>3, <1>4
<1>8. VerbatimStart(of)' = VerbatimStart(of)
  BY <1>1, VerbatimStays
<1>9. Viewed'
  BY <1>1, <1>5, <1>6, <1>7, <1>8 DEF Viewed, Parts, Spans
<1>10. Cardinality(viewNodes') <= Cardinality(Covers[upto, budget])
  <2> DEFINE c == Cardinality(CoverOf(upto, budget))
  <2>1. c \in Nat
    BY <1>4, FS_CardinalityType DEF Parts
  <2> DEFINE n == Cardinality(viewNodes')
             m == Cardinality(Covers[upto, budget])
  <2>2. n = c /\ m = c
    BY <1>1, <1>3
  <2> HIDE DEF c, n, m
  <2>3. n <= m
    BY <2>1, <2>2
  <2> QED
    BY <2>3 DEF n, m
<1>11. ViewFits'
  <2>1. Covers[viewing.upto, viewing.budget]' = Covers[upto, budget]
    BY <1>5, <1>6
  <2> QED
    BY <1>10, <2>1 DEF ViewFits
<1> QED
  BY <1>1, <1>9, <1>11 DEF ViewInvariant, ViewTypes

\* A trade takes two lines for one before it takes one for two, if the view
\* is full.
LEMMA ViewTrades == ASSUME ViewInvariant, TradeLines PROVE ViewInvariant'
<1> DEFINE target == Newest(SplitTargets)
           parents == MergeableParents(target)
           parent == Oldest(parents)
           merged == IF Full THEN (viewNodes \ HalvesOf(parent)) \cup {parent} ELSE viewNodes
           t == viewing.upto
<1>1. /\ ~ viewing.made /\ SplitTargets # {} /\ (Full => parents # {})
      /\ viewNodes' = SplitNode(merged, target) /\ viewLog' = viewLog /\ viewTree' = viewTree /\ viewing' = viewing
  BY DEF TradeLines, CanTrade
<1>2. viewing # NotViewing
  BY <1>1 DEF NotViewing
<1>3. /\ viewing \in [made : BOOLEAN, upto : Nat, of : Nat, budget : Nat]
      /\ t \in Nat /\ viewing.budget \in Nat /\ Parts(viewNodes, 0, t) /\ viewTree \subseteq TreeNodes
  BY <1>2 DEF ViewInvariant, Viewed, ViewTypes
<1> HIDE DEF t
<1>4. target \in viewNodes /\ Width(target) > 1
  <2>1. ASSUME NEW n \in SplitTargets PROVE n[1] \in 0..t
    <3>1. n \in Box /\ n[2] <= t
      BY <1>3 DEF SplitTargets, Parts
    <3> QED
      BY <1>3, <3>1, BoxIs
  <2>2. target \in SplitTargets
    BY <1>1, <1>3, <2>1, NewestIs
  <2> QED
    BY <2>2 DEF SplitTargets
<1> HIDE DEF target
<1>5. \A p \in parents : p \in Box /\ Width(p) > 1 /\ HalvesOf(p) \subseteq viewNodes /\ target \notin HalvesOf(p)
  BY <1>3, NodeInBox DEF MergeableParents
<1> HIDE DEF parents
<1>6. ASSUME Full PROVE parent \in parents
  <2>1. \A p \in parents : p[1] \in Nat
    BY <1>5, BoxIs
  <2> QED
    BY <1>1, <1>6, <2>1, OldestIs
<1> HIDE DEF parent
<1>7. /\ Parts(merged, 0, t) /\ target \in merged
      /\ Full => Cardinality(merged) + 1 <= Cardinality(viewNodes)
      /\ ~ Full => merged = viewNodes
  <2>1. CASE Full
    <3>1. merged = (viewNodes \ HalvesOf(parent)) \cup {parent}
      BY <2>1
    <3>2. parent \in Box /\ Width(parent) > 1 /\ HalvesOf(parent) \subseteq viewNodes /\ target \notin HalvesOf(parent)
      BY <1>5, <1>6, <2>1
    <3>3. Parts(merged, 0, t) /\ Cardinality(merged) + 1 <= Cardinality(viewNodes)
      BY <1>3, <3>1, <3>2, MergeParts
    <3> QED
      BY <1>4, <2>1, <3>1, <3>2, <3>3
  <2>2. CASE ~ Full
    BY <1>3, <1>4, <2>2
  <2> QED
    BY <2>1, <2>2
<1> HIDE DEF merged
<1>8. Parts(viewNodes', 0, t) /\ Cardinality(viewNodes') <= Cardinality(merged) + 1
  BY <1>1, <1>3, <1>4, <1>7, SplitParts
<1>9. /\ Cardinality(viewNodes) \in Nat /\ Cardinality(merged) \in Nat /\ Cardinality(viewNodes') \in Nat
  BY <1>3, <1>7, <1>8, FS_CardinalityType DEF Parts
<1>10. Cardinality(viewNodes') <= viewing.budget \/ Cardinality(viewNodes') <= Cardinality(viewNodes)
  BY <1>3, <1>7, <1>8, <1>9 DEF Full
<1>11. ViewFits'
  <2> DEFINE c == Cardinality(Covers[viewing.upto, viewing.budget])
  <2>1. c \in Nat
    <3>1. viewing.upto \in 0..MaxEntries /\ viewing.budget \in Budgets /\ viewing.budget \in Nat
      <4>1. Len(viewLog) \in Nat /\ MaxEntries \in Nat
        BY LenProperties DEF ViewInvariant, ViewTypes
      <4> QED
        BY <1>2, <1>3, <4>1 DEF ViewInvariant, Viewed, ViewTypes
    <3>2. Covers[viewing.upto, viewing.budget] = CoverOf(viewing.upto, viewing.budget)
      BY <3>1, CoversAre
    <3>3. Parts(CoverOf(viewing.upto, viewing.budget), 0, viewing.upto)
      BY <3>1, CoverParts
    <3> QED
      BY <3>2, <3>3, FS_CardinalityType DEF Parts
  <2>2. Cardinality(viewNodes) <= viewing.budget \/ Cardinality(viewNodes) <= c
    BY <1>2 DEF ViewInvariant, ViewFits
  <2>3. Cardinality(Covers[viewing.upto, viewing.budget])' = c
    BY <1>1
  <2> HIDE DEF c
  <2>4. Cardinality(viewNodes') <= viewing.budget \/ Cardinality(viewNodes') <= c
    BY <1>3, <1>9, <1>10, <2>1, <2>2
  <2> QED
    BY <1>1, <2>3, <2>4 DEF ViewFits
<1>12. VerbatimStart(viewing.of)' = VerbatimStart(viewing.of)
  BY <1>1, VerbatimStays
<1>13. Viewed'
  BY <1>1, <1>2, <1>8, <1>12 DEF ViewInvariant, Viewed, t, Parts, Spans
<1> QED
  BY <1>1, <1>11, <1>13 DEF ViewInvariant, ViewTypes

LEMMA ViewStep == ASSUME ViewInvariant, [ViewNext]_shownVars PROVE ViewInvariant'
<1>0. MaxEntries \in Nat /\ Len(viewLog) \in Nat /\ Len(viewLog) <= MaxEntries /\ viewLog \in Seq(EntryKinds)
  BY LenProperties DEF ViewInvariant, ViewTypes
<1>1. CASE UNCHANGED shownVars
  <2>1. viewLog' = viewLog /\ viewTree' = viewTree /\ viewNodes' = viewNodes /\ viewing' = viewing
    BY <1>1 DEF shownVars
  <2>2. VerbatimStart(viewing.of)' = VerbatimStart(viewing.of)
    BY <2>1, VerbatimStays
  <2>3. Viewed'
    BY <2>1, <2>2 DEF ViewInvariant, Viewed, Parts, Spans
  <2>4. ViewFits'
    BY <2>1 DEF ViewInvariant, ViewFits
  <2> QED
    BY <2>1, <2>3, <2>4 DEF ViewInvariant, ViewTypes
<1>2. ASSUME NEW kind \in EntryKinds, EntryComes(kind) PROVE ViewInvariant'
  <2>1. /\ viewing' = NotViewing /\ viewTree' = viewTree /\ viewLog' = Append(viewLog, kind)
        /\ Len(viewLog) < MaxEntries
    BY <1>2 DEF EntryComes
  <2>2. viewLog' \in Seq(EntryKinds) /\ Len(viewLog') = Len(viewLog) + 1
    BY <1>0, <2>1, AppendProperties
  <2>3. Len(viewLog') <= MaxEntries
    BY <1>0, <2>1, <2>2
  <2> QED
    BY <2>1, <2>2, <2>3 DEF ViewInvariant, ViewTypes, Viewed, ViewFits, NotViewing
<1>3. ASSUME NEW n \in TreeNodes, Summarize(n) PROVE ViewInvariant'
  <2>1. viewing' = NotViewing /\ viewTree' \subseteq TreeNodes /\ viewLog' = viewLog
    BY <1>3 DEF Summarize, ViewInvariant, ViewTypes
  <2> QED
    BY <2>1 DEF ViewInvariant, ViewTypes, Viewed, ViewFits, NotViewing
<1>4. ASSUME NEW t \in 0..MaxEntries, NEW budget \in Budgets, ViewPrefix(t, budget) PROVE ViewInvariant'
  <2>1. t <= Len(viewLog) /\ BeginView(t, t, budget) /\ t \in Nat /\ t <= t
    BY <1>4 DEF ViewPrefix
  <2> QED
    BY <2>1, ViewBegins
<1>5. ASSUME NEW t \in 0..MaxEntries, NEW budget \in Budgets, SplitView(t, budget) PROVE ViewInvariant'
  <2> DEFINE s == VerbatimStart(t)
             upto == StableCut(s, OlderStep)
  <2>1. t <= Len(viewLog) /\ BeginView(upto, t, budget) /\ t \in Nat
    BY <1>5 DEF SplitView
  <2>2. s \in 0..t
    BY <2>1, VerbatimIs
  <2>3. upto \in Nat /\ upto <= t
    <3> HIDE DEF s
    <3>1. s \in Nat /\ s <= t
      BY <2>2
    <3>2. OlderStep \in Nat \ {0}
      BY StepsAre
    <3>3. upto \in 0..s
      BY <3>1, <3>2, StableCutIs
    <3> QED
      BY <3>1, <3>3
  <2> QED
    BY <2>1, <2>3, ViewBegins
<1>6. ASSUME TradeLines PROVE ViewInvariant'
  BY <1>6, ViewTrades
<1>7. ASSUME EndView PROVE ViewInvariant'
  <2>1. /\ ~ viewing.made /\ viewing' = [viewing EXCEPT !.made = TRUE]
        /\ viewLog' = viewLog /\ viewTree' = viewTree /\ viewNodes' = viewNodes
    BY <1>7 DEF EndView
  <2>2. viewing # NotViewing
    BY <2>1 DEF NotViewing
  <2>3. viewing \in [made : BOOLEAN, upto : Nat, of : Nat, budget : Nat]
    BY <2>2 DEF ViewInvariant, Viewed
  <2>4. /\ viewing' \in [made : BOOLEAN, upto : Nat, of : Nat, budget : Nat]
        /\ viewing'.upto = viewing.upto /\ viewing'.of = viewing.of /\ viewing'.budget = viewing.budget
    BY <2>1, <2>3
  <2>5. VerbatimStart(viewing.of)' = VerbatimStart(viewing.of)
    BY <2>1, <2>4, VerbatimStays
  <2>6. Viewed'
    BY <2>1, <2>2, <2>4, <2>5 DEF ViewInvariant, Viewed, Parts, Spans
  <2>7. Cardinality(Covers[viewing.upto, viewing.budget])' = Cardinality(Covers[viewing.upto, viewing.budget])
    BY <2>4
  <2>8. ViewFits'
    BY <2>1, <2>2, <2>4, <2>7 DEF ViewInvariant, ViewFits
  <2> QED
    BY <2>1, <2>6, <2>8 DEF ViewInvariant, ViewTypes
<1>8. ASSUME UseView PROVE ViewInvariant'
  <2>1. viewing' = NotViewing /\ viewTree' = viewTree /\ viewLog' = viewLog
    BY <1>8 DEF UseView
  <2> QED
    BY <2>1 DEF ViewInvariant, ViewTypes, Viewed, ViewFits, NotViewing
<1> QED
  BY <1>1, <1>2, <1>3, <1>4, <1>5, <1>6, <1>7, <1>8 DEF ViewNext, EntryKinds

\* A view (view, core/src/chat_memory/tree.rs) has no more lines than its
\* budget, or than the cover it starts from if that has more, through every
\* trade, for any log, any budget and whatever naps have summarized.
THEOREM ViewsFit == ViewSpec => []ViewFits
<1>1. ViewInit => ViewInvariant
  BY ViewInitially
<1>2. ViewInvariant /\ [ViewNext]_shownVars => ViewInvariant'
  BY ViewStep
<1>3. ViewInvariant => ViewFits
  BY DEF ViewInvariant
<1> QED
  BY <1>1, <1>2, <1>3, PTL DEF ViewSpec

LEMMA NothingCovers ==
  ASSUME NEW i
  PROVE  Cardinality(Covering({}, i)) = 0
<1>1. Covering({}, i) = {}
  BY DEF Covering
<1> QED
  BY <1>1, FS_EmptySet

\* The three parts begin where the one before ends.
LEMMA WholeViews == ASSUME ViewInvariant PROVE ViewIsWhole
<1> SUFFICES ASSUME viewing # NotViewing, NEW i \in 0..(viewing.of - 1)
             PROVE  LET shown == LinesOf(viewing)
                    IN  Cardinality(Covering(shown.older, i)) + Cardinality(Covering(shown.middle, i))
                          + Cardinality(Covering(shown.tail, i)) = 1
  BY DEF ViewIsWhole
<1> DEFINE t == viewing.of
           upto == viewing.upto
           s == VerbatimStart(t)
           cut == StableCut(s, TailStep)
           shown == LinesOf(viewing)
<1>1. /\ t \in Nat /\ upto \in Nat /\ t <= Len(viewLog) /\ upto <= t
      /\ upto = t \/ upto = StableCut(s, OlderStep)
      /\ Parts(viewNodes, 0, upto)
  BY DEF ViewInvariant, Viewed
<1>2. Len(viewLog) \in Nat /\ Len(viewLog) <= MaxEntries /\ MaxEntries \in Nat
  BY LenProperties DEF ViewInvariant, ViewTypes
<1>3. i \in Nat /\ i < t
  BY <1>1
<1>4. /\ shown.older = MergeNotices(viewNodes)
      /\ upto = t => shown.middle = {} /\ shown.tail = {}
      /\ upto # t => shown.middle = MiddleLines(upto, cut) /\ shown.tail = TailLines(cut, t)
  BY DEF LinesOf
<1>5. s \in 0..t
  BY <1>1, VerbatimIs
<1> HIDE DEF t, upto, s, shown
<1>6. Cardinality(Covering(shown.older, i)) = IF i < upto THEN 1 ELSE 0
  <2>1. upto <= Len(viewLog) /\ 0 <= i
    BY <1>1, <1>2, <1>3
  <2>2. Cardinality(Covering(MergeNotices(viewNodes), i)) = IF 0 <= i /\ i < upto THEN 1 ELSE 0
    BY <1>1, <1>2, <1>3, <2>1, NoticesAre
  <2> QED
    BY <1>4, <2>1, <2>2
<1>7. CASE upto = t
  <2>1. Cardinality(Covering(shown.middle, i)) = 0 /\ Cardinality(Covering(shown.tail, i)) = 0
    BY <1>4, <1>7, NothingCovers
  <2>2. Cardinality(Covering(shown.older, i)) = 1
    BY <1>3, <1>6, <1>7
  <2> QED
    BY <2>1, <2>2 DEF shown
<1>8. CASE upto # t
  <2>1. upto = StableCut(s, OlderStep) /\ s \in Nat /\ s <= t
    BY <1>1, <1>5, <1>8
  <2>2. /\ upto \in 0..cut /\ cut \in 0..s
        /\ \E k, l \in Nat : upto = k * TailStep /\ cut = l * TailStep
    BY <2>1, CutsMeet
  <2>3. PICK k \in Nat, l \in Nat : upto = k * TailStep /\ cut = l * TailStep
    BY <2>2
  <2> HIDE DEF cut
  <2>4. cut \in Nat /\ upto <= cut /\ cut <= t /\ cut <= MaxEntries /\ cut <= Len(viewLog)
    BY <1>1, <1>2, <2>1, <2>2
  <2>5. Cardinality(Covering(shown.middle, i)) = IF upto <= i /\ i < cut THEN 1 ELSE 0
    <3> DEFINE M == UNION {BlockLines(<<lo, lo + TailStep>>) :
                             lo \in {j \in upto..(cut - 1) : (j - upto) % TailStep = 0}}
    <3>1. Parts(M, upto, cut)
      BY <2>3, <2>4, MiddleParts
    <3>2. MiddleLines(upto, cut) = MergeNotices(M)
      BY DEF MiddleLines
    <3> HIDE DEF M
    <3> QED
      BY <1>1, <1>2, <1>3, <1>4, <1>8, <2>4, <3>1, <3>2, NoticesAre
  <2>6. Cardinality(Covering(shown.tail, i)) = IF cut <= i /\ i < t THEN 1 ELSE 0
    <3> DEFINE M == {Leaf(j) : j \in cut..(t - 1)}
    <3>1. Parts(M, cut, t)
      BY <1>1, <2>4, LeavesArePartsOf
    <3>2. TailLines(cut, t) = MergeNotices(M)
      BY DEF TailLines
    <3> HIDE DEF M
    <3> QED
      BY <1>1, <1>2, <1>3, <1>4, <1>8, <2>4, <3>1, <3>2, NoticesAre
  <2>7. Cardinality(Covering(shown.older, i)) + Cardinality(Covering(shown.middle, i))
          + Cardinality(Covering(shown.tail, i)) = 1
    BY <1>1, <1>3, <1>6, <2>4, <2>5, <2>6
  <2> QED
    BY <2>7 DEF shown
<1> QED
  BY <1>7, <1>8

\* A turn (split_view, core/src/chat_memory/tree.rs), a fork and a merge show
\* each entry of the log once: no merge or split of lines, no cut between the
\* three parts and no notice of unreadable entries shows one twice or leaves
\* one out, for any log and steps, and whatever naps have summarized.
THEOREM ViewsAreWhole == ViewSpec => []ViewIsWhole
<1>1. ViewInit => ViewInvariant
  BY ViewInitially
<1>2. ViewInvariant /\ [ViewNext]_shownVars => ViewInvariant'
  BY ViewStep
<1>3. ViewInvariant => ViewIsWhole
  BY WholeViews
<1> QED
  BY <1>1, <1>2, <1>3, PTL DEF ViewSpec
=============================================================================
