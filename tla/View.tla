-------------------------------- MODULE View --------------------------------
(***************************************************************************)
(* The compressed view of the chat log (core/src/chat_memory/tree.rs).     *)
(* The log's entries sit under a binary tree of blocks, some of which a    *)
(* nap has summarized.  A view of the first t entries starts from a cover  *)
(* of 0..t under a line budget, and then trades lines: as long as it shows *)
(* a block without a summary, it merges the oldest pair whose parent has   *)
(* one and splits the newest such block.  A turn splits its log in three:  *)
(* a view up to a cut that moves in big steps, blocks up to a cut that     *)
(* moves in small ones, and the newest entries.                            *)
(*                                                                         *)
(* Meanwhile the log grows and naps commit summaries in any order and with *)
(* any gaps; a view is made of the log and tree as they were read.         *)
(***************************************************************************)
EXTENDS Integers, Sequences, FiniteSets

CONSTANTS
  MaxEntries,     \* how long the log may get
  MaxOdd,         \* how many of its entries are long, and how many corrupt
  OlderStep,      \* OLDER_VIEW_STEP, 256 in the code
  TailStep,       \* TAIL_STEP, 32 in the code
  Budgets,        \* line budgets of a view
  Recent          \* recent_history_tokens

\* The widths of the nodes: powers of two.
Powers[j \in 0..MaxEntries] == IF j = 0 THEN 1 ELSE 2 * Powers[j - 1]

ASSUME ViewAssumption ==
  /\ {MaxEntries, OlderStep, Recent} \subseteq Nat /\ Budgets \subseteq Nat
  /\ \E j \in 0..MaxEntries : TailStep = Powers[j]
  /\ OlderStep % TailStep = 0 /\ OlderStep > 0

VARIABLES
  viewLog,        \* the entries: "short", "long" or "corrupt"
  viewTree,       \* the nodes that have a summary
  viewNodes,      \* the nodes of the view in the making
  viewing         \* what it is a view of

shownVars == <<viewLog, viewTree, viewNodes, viewing>>

NotViewing == [made |-> TRUE, upto |-> 0, of |-> 0, budget |-> 0]

ViewInit ==
  viewLog = <<>> /\ viewTree = {} /\ viewNodes = {} /\ viewing = NotViewing

(* Nodes: ranges <<lo, hi>> of entries, hi excluded. *)

Width(n) == n[2] - n[1]
Leaf(i) == <<i, i + 1>>
NodesUpTo == {<<k * Powers[j], (k + 1) * Powers[j]>> : k \in 0..MaxEntries, j \in 0..MaxEntries}
TreeNodes == {n \in NodesUpTo : n[1] <= MaxEntries /\ n[2] <= 2 * MaxEntries}
HalvesOf(n) == LET mid == (n[1] + n[2]) \div 2 IN {<<n[1], mid>>, <<mid, n[2]>>}
Inside(m, n) == n[1] <= m[1] /\ m[2] <= n[2]
Below(m, n) == Inside(m, n) /\ m # n
Newest(S) == CHOOSE n \in S : \A m \in S : m[1] <= n[1]
Oldest(S) == CHOOSE n \in S : \A m \in S : n[1] <= m[1]
SplitNode(S, n) == (S \ {n}) \cup HalvesOf(n)

HasLine(n) ==
  IF Width(n) = 1 THEN viewLog[n[1] + 1] # "long" \/ n \in viewTree ELSE n \in viewTree

(* The log and the naps. *)

EntryComes(kind) ==
  /\ Len(viewLog) < MaxEntries
  /\ kind # "short" => Cardinality({i \in DOMAIN viewLog : viewLog[i] = kind}) < MaxOdd
  /\ viewing = NotViewing
  /\ viewLog' = Append(viewLog, kind)
  /\ UNCHANGED <<viewTree, viewNodes, viewing>>

Summarize(n) ==
  /\ n[2] <= Len(viewLog) /\ n \notin viewTree
  /\ viewing = NotViewing
  /\ IF Width(n) = 1 THEN viewLog[n[1] + 1] = "long"
                     ELSE /\ \A h \in HalvesOf(n) : HasLine(h)
                          /\ \A i \in n[1]..(n[2] - 1) : viewLog[i + 1] # "corrupt"
  /\ viewTree' = viewTree \cup {n}
  /\ UNCHANGED <<viewLog, viewNodes, viewing>>

(* cover_at: alpha is the fraction a[1] / a[2].  A node is kept whole once
   it is no wider than alpha times its distance from the end. *)
TooWide(n, t, a) ==
  Width(n) > 1 /\ (n[2] > t \/ Width(n) * a[2] > a[1] * (t - n[2] + 1))

CoverAt(t, a) ==
  {n \in TreeNodes : /\ n[1] < t /\ ~TooWide(n, t, a)
                     /\ \A m \in TreeNodes : Below(n, m) => TooWide(m, t, a)}

(* The search for alpha by halves: it ends at the least fraction whose cover
   fits the budget, or at 1 when none does. *)
Fractions(t) == {f \in (1..t) \X (1..t) : f[1] <= f[2]}
Fits(t, budget) == {a \in Fractions(t) : Cardinality(CoverAt(t, a)) <= budget}
Alpha(t, budget) ==
  IF Fits(t, budget) = {} THEN <<1, 1>>
  ELSE CHOOSE a \in Fits(t, budget) :
         \A b \in Fits(t, budget) : a[1] * b[2] <= b[1] * a[2]

Fill(S, budget) ==
  LET wide == {n \in S : Width(n) > 1}
  IN  IF Cardinality(S) < budget /\ wide # {} THEN SplitNode(S, Newest(wide)) ELSE S

CoverOf(t, budget) ==
  IF t <= budget THEN {Leaf(i) : i \in 0..(t - 1)}
  ELSE LET filled[k \in 0..budget] ==
             IF k = 0 THEN CoverAt(t, Alpha(t, budget)) ELSE Fill(filled[k - 1], budget)
       IN  filled[budget]

Covers == [v \in (0..MaxEntries) \X Budgets |-> CoverOf(v[1], v[2])]

(* The two cuts of a turn's log of t entries. *)

Tokens(kind) == IF kind = "long" THEN 2 ELSE 1

VerbatimStart(t) ==
  LET used[i \in 0..t] == IF i = t THEN 0 ELSE used[i + 1] + Tokens(viewLog[i + 1])
  IN  CHOOSE i \in 0..t : used[i] <= Recent /\ (i = 0 \/ used[i - 1] > Recent)

StableCut(start, step) == start - (start % step)

(* view(&entries[..upto], ..): the prefix a thread was forked at, the whole
   log of a merged one, or the older part of a turn's log of `of` entries. *)
BeginView(upto, of, budget) ==
  /\ viewing = NotViewing
  /\ viewing' = [made |-> FALSE, upto |-> upto, of |-> of, budget |-> budget]
  /\ viewNodes' = Covers[upto, budget]
  /\ UNCHANGED <<viewLog, viewTree>>

ViewPrefix(t, budget) == t <= Len(viewLog) /\ BeginView(t, t, budget)

SplitView(t, budget) ==
  t <= Len(viewLog) /\ BeginView(StableCut(VerbatimStart(t), OlderStep), t, budget)

SplitTargets == {n \in viewNodes : Width(n) > 1 /\ n \notin viewTree}

MergeableParents(target) ==
  {p \in viewTree : Width(p) > 1 /\ HalvesOf(p) \subseteq viewNodes \ {target}}

\* a bug: the budget may be passed by a line
FullLate == Cardinality(viewNodes) > viewing.budget

Full == Cardinality(viewNodes) >= viewing.budget

CanTrade ==
  SplitTargets # {} /\ (Full => MergeableParents(Newest(SplitTargets)) # {})

TradeLines ==
  /\ ~viewing.made /\ CanTrade
  /\ LET target == Newest(SplitTargets)
         parent == Oldest(MergeableParents(target))
         merged == IF Full THEN (viewNodes \ HalvesOf(parent)) \cup {parent} ELSE viewNodes
     IN  viewNodes' = SplitNode(merged, target)
  /\ UNCHANGED <<viewLog, viewTree, viewing>>

EndView ==
  /\ ~viewing.made /\ ~CanTrade
  /\ viewing' = [viewing EXCEPT !.made = TRUE]
  /\ UNCHANGED <<viewLog, viewTree, viewNodes>>

UseView ==
  /\ viewing.made /\ viewing # NotViewing
  /\ viewing' = NotViewing /\ viewNodes' = {}
  /\ UNCHANGED <<viewLog, viewTree>>

(* What is printed: ranges of entries, one per line. *)

Unreadable(S, i) == Leaf(i) \in S /\ viewLog[i + 1] = "corrupt"

(* A run of unreadable entries is one line. *)
MergeNotices(S) ==
  {n \in S : ~(Width(n) = 1 /\ Unreadable(S, n[1]))} \cup
  {r \in (0..MaxEntries) \X (1..MaxEntries) :
     /\ r[1] < r[2] /\ \A i \in r[1]..(r[2] - 1) : Unreadable(S, i)
     /\ ~(r[1] > 0 /\ Unreadable(S, r[1] - 1)) /\ ~(r[2] < Len(viewLog) /\ Unreadable(S, r[2]))}

BlockLines(n) ==
  LET shown(m) == Width(m) = 1 \/ m \in viewTree
  IN  {m \in TreeNodes : /\ Inside(m, n) /\ shown(m)
                         /\ \A k \in TreeNodes : Below(m, k) /\ Inside(k, n) => ~shown(k)}

MiddleLines(from, to) ==
  MergeNotices(UNION {BlockLines(<<lo, lo + TailStep>>) :
                        lo \in {i \in from..(to - 1) : (i - from) % TailStep = 0}})

\* a bug: the tail starts at the first entry it shows in full
TailVerbatim(from, t) == MergeNotices({Leaf(i) : i \in VerbatimStart(t)..(t - 1)})

TailLines(from, t) == MergeNotices({Leaf(i) : i \in from..(t - 1)})

LinesOf(v) ==
  LET cut == StableCut(VerbatimStart(v.of), TailStep)
  IN  [older |-> MergeNotices(viewNodes),
       middle |-> IF v.upto = v.of THEN {} ELSE MiddleLines(v.upto, cut),
       tail |-> IF v.upto = v.of THEN {} ELSE TailLines(cut, v.of)]

ViewNext ==
  \/ \E kind \in {"short", "long", "corrupt"} : EntryComes(kind)
  \/ \E n \in TreeNodes : Summarize(n)
  \/ \E t \in 0..MaxEntries, budget \in Budgets : ViewPrefix(t, budget) \/ SplitView(t, budget)
  \/ TradeLines \/ EndView \/ UseView

ViewSpec == ViewInit /\ [][ViewNext]_shownVars

------------------------------------------------------------------------------
Covering(lines, i) == {n \in lines : n[1] <= i /\ i < n[2]}

(* Every entry is in exactly one line of exactly one part of what is shown,
   through every merge, split, cut and notice. *)
ViewIsWhole ==
  viewing.made /\ viewing # NotViewing =>
    LET shown == LinesOf(viewing)
    IN  \A i \in 0..(viewing.of - 1) :
          Cardinality(Covering(shown.older, i)) + Cardinality(Covering(shown.middle, i))
            + Cardinality(Covering(shown.tail, i)) = 1

(* "The view stays within its line budget, or the cover length if that is
   larger", at every step of the trade. *)
ViewFits ==
  viewing # NotViewing =>
    \/ Cardinality(viewNodes) <= viewing.budget
    \/ Cardinality(viewNodes) <= Cardinality(Covers[viewing.upto, viewing.budget])
=============================================================================
