---------------------------- MODULE ClaudeProofs ----------------------------
(***************************************************************************)
(* What holds of a headless claude worker for any number of messages and   *)
(* permission requests: a request that the agent waits on is always in     *)
(* exactly one place, nothing is left behind where no step is left, and a  *)
(* view that has caught up shows what the turns and the queue are.         *)
(* Requests, and the turn that runs, are counted over the places they can  *)
(* be in; each step of the reader, the poller or the agent moves one from  *)
(* a place to the next.  Of the view, what waits is followed as well: the  *)
(* events, the acts that a change of the turns still has to announce, and  *)
(* the requests and ends that the reader has yet to read.                  *)
(***************************************************************************)
EXTENDS ClaudeHost, FiniteSetTheorems, SequenceTheorems, FunctionTheorems, TLAPS

(***************************************************************************)
(* How often an entry is in a sequence.                                    *)
(***************************************************************************)
LEMMA CountType ==
  ASSUME NEW S, NEW s \in Seq(S), NEW x
  PROVE  /\ Count(s, x) \in Nat /\ IsFiniteSet({i \in 1..Len(s) : s[i] = x})
         /\ Count(s, x) = Cardinality({i \in 1..Len(s) : s[i] = x})
         /\ Count(s, x) = 0 <=> \A i \in 1..Len(s) : s[i] # x
<1> DEFINE A == {i \in 1..Len(s) : s[i] = x}
<1>1. DOMAIN s = 1..Len(s) /\ Len(s) \in Nat
  OBVIOUS
<1>2. IsFiniteSet(A)
  <2>1. IsFiniteSet(1..Len(s))
    BY <1>1, FS_Interval
  <2> QED
    BY <2>1, FS_Subset
<1>3. Count(s, x) = Cardinality(A)
  BY <1>1 DEF Count
<1>4. Cardinality(A) \in Nat /\ (Cardinality(A) = 0 <=> A = {})
  BY <1>2, FS_CardinalityType, FS_EmptySet
<1>5. A = {} <=> \A i \in 1..Len(s) : s[i] # x
  OBVIOUS
<1> HIDE DEF A
<1>6. Count(s, x) = 0 <=> \A i \in 1..Len(s) : s[i] # x
  BY <1>3, <1>4, <1>5
<1> QED
  BY <1>2, <1>3, <1>4, <1>6 DEF A

LEMMA CountConcat ==
  ASSUME NEW S, NEW s \in Seq(S), NEW t \in Seq(S), NEW x
  PROVE  Count(s \o t, x) = Count(s, x) + Count(t, x)
<1> DEFINE n == Len(s)
           m == Len(t)
           A == {i \in 1..n : s[i] = x}
           B == {j \in 1..m : t[j] = x}
           B2 == {i \in (n + 1)..(n + m) : t[i - n] = x}
           C == {i \in 1..(n + m) : (s \o t)[i] = x}
           f == [j \in B |-> n + j]
<1>1. n \in Nat /\ m \in Nat /\ s \o t \in Seq(S) /\ Len(s \o t) = n + m
  OBVIOUS
<1>2. \A i \in 1..(n + m) : (s \o t)[i] = IF i <= n THEN s[i] ELSE t[i - n]
  OBVIOUS
<1>3. /\ IsFiniteSet(A) /\ Count(s, x) = Cardinality(A)
      /\ IsFiniteSet(B) /\ Count(t, x) = Cardinality(B)
      /\ IsFiniteSet(C) /\ Count(s \o t, x) = Cardinality(C)
  BY <1>1, CountType
<1> HIDE DEF n, m
<1>4. f \in Bijection(B, B2)
  <2>1. f \in [B -> B2]
    BY <1>1
  <2>2. \A i, j \in B : f[i] = f[j] => i = j
    BY <1>1
  <2>3. \A i \in B2 : \E j \in B : f[j] = i
    <3> SUFFICES ASSUME NEW i \in B2 PROVE \E j \in B : f[j] = i
      OBVIOUS
    <3>1. i - n \in B /\ f[i - n] = i
      BY <1>1
    <3> QED
      BY <3>1
  <2> HIDE DEF f, B, B2
  <2> QED
    BY <2>1, <2>2, <2>3, Fun_IsBij
<1>5. IsFiniteSet(B2) /\ Cardinality(B2) = Cardinality(B)
  BY <1>3, <1>4, FS_Bijection DEF ExistsBijection
<1>6. C = A \cup B2 /\ A \cap B2 = {}
  BY <1>1, <1>2
<1>7. Cardinality(C) = Cardinality(A) + Cardinality(B2)
  <2> HIDE DEF A, B, B2, C
  <2>1. Cardinality(A \cup B2) = Cardinality(A) + Cardinality(B2) - Cardinality(A \cap B2)
    BY <1>3, <1>5, FS_Union
  <2>2. Cardinality(A) \in Nat /\ Cardinality(B2) \in Nat
    BY <1>3, <1>5, FS_CardinalityType
  <2>3. Cardinality(A \cap B2) = 0
    BY <1>6, FS_EmptySet
  <2> DEFINE a == Cardinality(A)
             b == Cardinality(B2)
             c == Cardinality(C)
  <2>4. c = a + b - 0 /\ a \in Nat /\ b \in Nat
    BY <1>6, <2>1, <2>2, <2>3
  <2> HIDE DEF a, b, c
  <2>5. c = a + b
    BY ONLY <2>4
  <2> QED
    BY <2>5 DEF a, b, c
<1> HIDE DEF A, B, B2, C
<1> QED
  BY <1>3, <1>5, <1>7

LEMMA CountOne ==
  ASSUME NEW y, NEW x
  PROVE  Count(<<y>>, x) = IF y = x THEN 1 ELSE 0
<1>1. DOMAIN <<y>> = {1} /\ <<y>>[1] = y
  OBVIOUS
<1>2. CASE y = x
  <2>1. {i \in DOMAIN <<y>> : <<y>>[i] = x} = {1}
    BY <1>1, <1>2
  <2> QED
    BY <1>2, <2>1, FS_Singleton DEF Count
<1>3. CASE y # x
  <2>1. {i \in DOMAIN <<y>> : <<y>>[i] = x} = {}
    BY <1>1, <1>3
  <2> QED
    BY <1>3, <2>1, FS_EmptySet DEF Count
<1> QED
  BY <1>2, <1>3

LEMMA CountEmpty == \A x : Count(<<>>, x) = 0
<1> TAKE x
<1>1. {i \in DOMAIN <<>> : <<>>[i] = x} = {}
  OBVIOUS
<1> QED
  BY <1>1, FS_EmptySet DEF Count

LEMMA CountAppend ==
  ASSUME NEW S, NEW s \in Seq(S), NEW y \in S, NEW x
  PROVE  Count(Append(s, y), x) = Count(s, x) + IF y = x THEN 1 ELSE 0
<1>1. Append(s, y) = s \o <<y>> /\ <<y>> \in Seq(S)
  OBVIOUS
<1>2. Count(Append(s, y), x) = Count(s, x) + Count(<<y>>, x)
  <2> DEFINE t == <<y>>
             u == Append(s, y)
  <2>1. t \in Seq(S) /\ u = s \o t
    BY <1>1
  <2> HIDE DEF t, u
  <2>2. Count(s \o t, x) = Count(s, x) + Count(t, x)
    BY <2>1, CountConcat
  <2>3. Count(u, x) = Count(s, x) + Count(t, x)
    BY <2>1, <2>2
  <2> QED
    BY <2>3 DEF t, u
<1>3. Count(<<y>>, x) = IF y = x THEN 1 ELSE 0
  BY CountOne
<1> QED
  BY <1>2, <1>3

LEMMA CountTail ==
  ASSUME NEW S, NEW s \in Seq(S), s # <<>>, NEW x
  PROVE  Count(Tail(s), x) = Count(s, x) - IF Head(s) = x THEN 1 ELSE 0
<1>1. s = <<Head(s)>> \o Tail(s) /\ <<Head(s)>> \in Seq(S) /\ Tail(s) \in Seq(S)
  OBVIOUS
<1>2. Count(s, x) = Count(<<Head(s)>>, x) + Count(Tail(s), x)
  BY <1>1, CountConcat
<1>3. Count(Tail(s), x) \in Nat
  BY <1>1, CountType
<1>4. Count(<<Head(s)>>, x) = IF Head(s) = x THEN 1 ELSE 0
  BY CountOne
<1> DEFINE c == Count(s, x)
           d == Count(Tail(s), x)
           e == Count(<<Head(s)>>, x)
<1> HIDE DEF c, d, e
<1>5. CASE Head(s) = x
  <2>1. c = e + d /\ d \in Nat /\ e = 1
    BY <1>2, <1>3, <1>4, <1>5 DEF c, d, e
  <2>2. d = c - 1
    BY ONLY <2>1
  <2> QED
    BY <1>5, <2>2 DEF c, d
<1>6. CASE Head(s) # x
  <2>1. c = e + d /\ d \in Nat /\ e = 0
    BY <1>2, <1>3, <1>4, <1>6 DEF c, d, e
  <2>2. d = c - 0
    BY ONLY <2>1
  <2> QED
    BY <1>6, <2>2 DEF c, d
<1> QED
  BY <1>5, <1>6

LEMMA CountRemoveAt ==
  ASSUME NEW S, NEW s \in Seq(S), NEW i \in 1..Len(s), NEW x
  PROVE  RemoveAt(s, i) \in Seq(S)
         /\ Count(RemoveAt(s, i), x) = Count(s, x) - IF s[i] = x THEN 1 ELSE 0
<1> DEFINE u == SubSeq(s, 1, i - 1)
           v == SubSeq(s, i + 1, Len(s))
<1>1. u \in Seq(S) /\ v \in Seq(S) /\ RemoveAt(s, i) = u \o v
  BY DEF RemoveAt
<1>2. <<s[i]>> \in Seq(S) /\ s = u \o (<<s[i]>> \o v)
  <2> DEFINE w == <<s[i]>> \o v
             z == u \o w
             n == Len(s)
  <2>1. n \in Nat /\ i \in 1..n /\ \A j \in 1..n : s[j] \in S
    OBVIOUS
  <2>2. Len(u) = i - 1 /\ \A j \in 1..(i - 1) : u[j] = s[j]
    <3>1. \A j \in 1..(i - 1) : s[j] \in S
      BY <2>1
    <3> QED
      BY <2>1, <3>1, SubSeqProperties
  <2>3. Len(v) = n - i /\ \A j \in 1..(n - i) : v[j] = s[i + j]
    <3>1. \A j \in (i + 1)..n : s[j] \in S
      BY <2>1
    <3> QED
      BY <2>1, <3>1, SubSeqProperties
  <2>4. <<s[i]>> \in Seq(S) /\ Len(<<s[i]>>) = 1 /\ <<s[i]>>[1] = s[i]
    BY <2>1
  <2> HIDE DEF u, v, n
  <2>5. w \in Seq(S) /\ Len(w) = n - i + 1
        /\ \A j \in 1..(n - i + 1) : w[j] = IF j = 1 THEN s[i] ELSE v[j - 1]
    <3> DEFINE h == <<s[i]>>
    <3>1. h \in Seq(S) /\ Len(h) = 1 /\ h[1] = s[i] /\ w = h \o v
      BY <2>4
    <3> HIDE DEF h, w
    <3>2. /\ h \o v \in Seq(S) /\ Len(h \o v) = Len(h) + Len(v)
          /\ \A j \in 1..(Len(h) + Len(v)) : (h \o v)[j] = IF j <= Len(h) THEN h[j] ELSE v[j - Len(h)]
      BY <1>1, <3>1, ConcatProperties
    <3>3. Len(h) + Len(v) = n - i + 1
      BY <2>1, <2>3, <3>1
    <3>4. \A j \in 1..(n - i + 1) : (j <= 1 <=> j = 1) /\ j \in Int
      BY <2>1
    <3> QED
      BY <3>1, <3>2, <3>3, <3>4
  <2>6. \A j \in 1..(n - i + 1) : w[j] = s[i + j - 1]
    <3> SUFFICES ASSUME NEW j \in 1..(n - i + 1) PROVE w[j] = s[i + j - 1]
      OBVIOUS
    <3>1. CASE j = 1
      BY <2>1, <2>5, <3>1
    <3>2. CASE j # 1
      <4>1. j - 1 \in 1..(n - i) /\ i + (j - 1) = i + j - 1
        BY <2>1, <3>2
      <4> QED
        BY <2>3, <2>5, <3>2, <4>1
    <3> QED
      BY <3>1, <3>2
  <2> HIDE DEF w
  <2>7. z \in Seq(S) /\ Len(z) = n /\ \A j \in 1..n : z[j] = IF j <= i - 1 THEN u[j] ELSE w[j - (i - 1)]
    <3>1. /\ z \in Seq(S) /\ Len(z) = Len(u) + Len(w)
          /\ \A j \in 1..(Len(u) + Len(w)) : z[j] = IF j <= Len(u) THEN u[j] ELSE w[j - Len(u)]
      BY <1>1, <2>5, ConcatProperties
    <3>2. Len(u) + Len(w) = n
      BY <2>1, <2>2, <2>5
    <3> QED
      BY <2>2, <3>1, <3>2
  <2> HIDE DEF z
  <2>8. \A j \in 1..n : z[j] = s[j]
    <3> SUFFICES ASSUME NEW j \in 1..n PROVE z[j] = s[j]
      OBVIOUS
    <3>1. CASE j <= i - 1
      BY <2>1, <2>2, <2>7, <3>1
    <3>2. CASE ~ (j <= i - 1)
      <4>1. j - (i - 1) \in 1..(n - i + 1) /\ i + (j - (i - 1)) - 1 = j
        BY <2>1, <3>2
      <4> QED
        BY <2>1, <2>6, <2>7, <3>2, <4>1
    <3> QED
      BY <3>1, <3>2
  <2>9. z = s
    BY <2>7, <2>8, SeqEqual DEF n
  <2> QED
    BY <2>4, <2>9 DEF z, w
<1> HIDE DEF u, v
<1>3. Count(s, x) = Count(u, x) + Count(<<s[i]>> \o v, x)
  <2>1. <<s[i]>> \o v \in Seq(S)
    BY <1>1, <1>2
  <2>2. Count(u \o (<<s[i]>> \o v), x) = Count(u, x) + Count(<<s[i]>> \o v, x)
    BY <1>1, <2>1, CountConcat
  <2> QED
    BY <1>2, <2>2
<1>4. Count(<<s[i]>> \o v, x) = Count(<<s[i]>>, x) + Count(v, x)
  BY <1>1, <1>2, CountConcat
<1>5. Count(RemoveAt(s, i), x) = Count(u, x) + Count(v, x)
  BY <1>1, CountConcat
<1>6. Count(u, x) \in Nat /\ Count(v, x) \in Nat
  BY <1>1, CountType
<1>7. Count(<<s[i]>>, x) = IF s[i] = x THEN 1 ELSE 0
  BY CountOne
<1>8. RemoveAt(s, i) \in Seq(S)
  BY <1>1
<1> QED
  BY <1>3, <1>4, <1>5, <1>6, <1>7, <1>8

(***************************************************************************)
(* The turns and the actions they ask for; none of them is a verdict.      *)
(***************************************************************************)
Texts == Messages \cup {Reminder}
Whats == Texts \cup {None, "TurnStarted", "TurnEnded", "Reported"} \cup Nat
Ends == {"succeeded", "failed", "interrupted"}
TurnActs ==
  [act : {"start", "emit", "interrupt", "result", "snapshot", "unreported", "failure"},
   what : Whats, how : {None, "sent", "gone", "cancelled"} \cup Ends]
AllTurns ==
  [pending : Seq(Texts), busy : BOOLEAN, cut : BOOLEAN, running : Texts \cup {None}, turn : Nat,
   previous : Nat, interrupts : Seq(Messages), sent : BOOLEAN, gone : BOOLEAN, reported : BOOLEAN]
Asked == [t : AllTurns, acts : Seq(TurnActs)]

LEMMA DoIsTyped ==
  ASSUME NEW act, NEW what, NEW how, [act |-> act, what |-> what, how |-> how] \in TurnActs
  PROVE  Do(act, what, how) \in Seq(TurnActs)
  BY DEF Do

LEMMA EachIsTyped ==
  ASSUME NEW items \in Seq(Messages), NEW how \in {"sent", "gone", "cancelled"}
  PROVE  Each("result", items, how) \in Seq(TurnActs)
<1>1. \A i \in 1..Len(items) : [act |-> "result", what |-> items[i], how |-> how] \in TurnActs
  BY DEF TurnActs, Whats, Texts
<1> QED
  BY <1>1 DEF Each

LEMMA WithIsTyped ==
  ASSUME NEW t \in AllTurns, NEW acts \in Seq(TurnActs)
  PROVE  With(t, acts) \in Asked /\ With(t, acts).t = t /\ With(t, acts).acts = acts
  BY DEF With, Asked

LEMMA ThenIsTyped ==
  ASSUME NEW r \in Asked, NEW next \in Asked
  PROVE  Then(r, next) \in Asked
<1>1. r.acts \o next.acts \in Seq(TurnActs) /\ next.t \in AllTurns
  BY DEF Asked
<1> QED
  BY <1>1, WithIsTyped DEF Then

LEMMA ResolveIsTyped ==
  ASSUME NEW t \in AllTurns, NEW how \in {"sent", "gone", "cancelled"}
  PROVE  Resolve(t, how) \in Asked
<1>1. [t EXCEPT !.interrupts = <<>>] \in AllTurns
  <2>1. \A s \in Seq(Messages) : [t EXCEPT !.interrupts = s] \in AllTurns
    BY DEF AllTurns
  <2> QED
    BY <2>1, EmptySeq
<1>2. t.interrupts \in Seq(Messages)
  BY DEF AllTurns
<1> QED
  BY <1>1, <1>2, EachIsTyped, WithIsTyped DEF Resolve

LEMMA SendInterruptIsTyped ==
  ASSUME NEW t \in AllTurns
  PROVE  SendInterrupt(t) \in Asked
<1>1. [t EXCEPT !.sent = TRUE] \in AllTurns
  BY DEF AllTurns
<1>2. Do("interrupt", t.turn, None) \in Seq(TurnActs)
  <2>1. [act |-> "interrupt", what |-> t.turn, how |-> None] \in TurnActs
    BY DEF TurnActs, Whats, AllTurns
  <2> QED
    BY <2>1, DoIsTyped
<1>3. <<>> \in Seq(TurnActs)
  OBVIOUS
<1> QED
  BY <1>1, <1>2, <1>3, WithIsTyped DEF SendInterrupt

LEMMA AdvanceIsTyped ==
  ASSUME NEW t \in AllTurns
  PROVE  Advance(t) \in Asked
<1>1. CASE t.running # None \/ t.pending = <<>>
  <2>1. <<>> \in Seq(TurnActs)
    OBVIOUS
  <2> QED
    BY <1>1, <2>1, WithIsTyped DEF Advance
<1>2. CASE ~ (t.running # None \/ t.pending = <<>>)
  <2> DEFINE next == [StartQueued(t) EXCEPT !.running = Head(t.pending), !.reported = FALSE,
                                            !.previous = t.turn, !.turn = NoTurn, !.sent = FALSE]
             acts == Do("emit", "TurnStarted", None) \o Do("start", Head(t.pending), None)
  <2>1. Head(t.pending) \in Texts /\ Tail(t.pending) \in Seq(Texts) /\ t.turn \in Nat
    BY <1>2 DEF AllTurns
  <2>2. next \in AllTurns
    <3>1. StartQueued(t) \in AllTurns
      BY <2>1 DEF StartQueued, AllTurns
    <3>2. \A q \in AllTurns : [q EXCEPT !.running = Head(t.pending), !.reported = FALSE,
                                        !.previous = t.turn, !.turn = 0, !.sent = FALSE] \in AllTurns
      BY <2>1 DEF AllTurns
    <3> QED
      BY <3>1, <3>2 DEF NoTurn
  <2>3. acts \in Seq(TurnActs)
    <3>1. [act |-> "emit", what |-> "TurnStarted", how |-> None] \in TurnActs
      BY DEF TurnActs, Whats
    <3>2. [act |-> "start", what |-> Head(t.pending), how |-> None] \in TurnActs
      BY <2>1 DEF TurnActs, Whats
    <3>3. Do("emit", "TurnStarted", None) \in Seq(TurnActs) /\ Do("start", Head(t.pending), None) \in Seq(TurnActs)
      BY <3>1, <3>2, DoIsTyped
    <3> QED
      BY <3>3
  <2> HIDE DEF next, acts
  <2>4. With(next, acts) \in Asked
    BY <2>2, <2>3, WithIsTyped
  <2> QED
    BY <1>2, <2>4 DEF Advance, next, acts
<1> QED
  BY <1>1, <1>2

LEMMA QueueIsTyped ==
  ASSUME NEW t \in AllTurns, NEW text \in Texts
  PROVE  QueuePrompt(t, text) \in AllTurns
<1>1. Append(t.pending, text) \in Seq(Texts)
  BY DEF AllTurns
<1>2. \A s \in Seq(Texts) : [t EXCEPT !.pending = s] \in AllTurns
  BY DEF AllTurns
<1>3. QueuePrompt(t, text) = [t EXCEPT !.pending = Append(t.pending, text)]
  BY DEF QueuePrompt, AllTurns
<1> QED
  BY <1>1, <1>2, <1>3

LEMMA AcceptIsTyped ==
  ASSUME NEW t \in AllTurns, NEW text \in Messages
  PROVE  Accept(t, text) \in Asked
<1>1. QueuePrompt(t, text) \in AllTurns
  BY QueueIsTyped DEF Texts
<1> QED
  BY <1>1, AdvanceIsTyped DEF Accept

LEMMA QueueInterruptIsTyped ==
  ASSUME NEW t \in AllTurns, NEW text \in Messages
  PROVE  /\ QueueInterrupt(t, text) \in AllTurns
         /\ [QueueInterrupt(t, text) EXCEPT !.interrupts = Append(@, text)] \in AllTurns
<1>1. QueueInterrupt(t, text) \in AllTurns
  <2>1. <<text>> \o t.pending \in Seq(Texts) /\ t.cut \in BOOLEAN /\ t.busy \in BOOLEAN
    BY DEF AllTurns, Texts
  <2>2. (t.cut \/ t.busy) \in BOOLEAN
    BY <2>1
  <2>3. \A p \in Seq(Texts), c \in BOOLEAN : [t EXCEPT !.pending = p, !.cut = c] \in AllTurns
    BY DEF AllTurns
  <2> DEFINE p == <<text>> \o t.pending
             c == t.cut \/ t.busy
  <2>4. QueueInterrupt(t, text) = [t EXCEPT !.pending = p, !.cut = c]
    BY DEF QueueInterrupt, AllTurns
  <2> HIDE DEF p, c
  <2>5. p \in Seq(Texts) /\ c \in BOOLEAN
    BY <2>1, <2>2 DEF p, c
  <2> QED
    BY <2>3, <2>4, <2>5
<1>2. [QueueInterrupt(t, text) EXCEPT !.interrupts = Append(@, text)] \in AllTurns
  <2>1. \A q \in AllTurns : Append(q.interrupts, text) \in Seq(Messages)
    BY DEF AllTurns
  <2>2. \A q \in AllTurns, s \in Seq(Messages) : [q EXCEPT !.interrupts = s] \in AllTurns
    BY DEF AllTurns
  <2>3. \A q \in AllTurns : [q EXCEPT !.interrupts = Append(@, text)]
                           = [q EXCEPT !.interrupts = Append(q.interrupts, text)]
    BY DEF AllTurns
  <2> QED
    BY <1>1, <2>1, <2>2, <2>3
<1> QED
  BY <1>1, <1>2

LEMMA InterruptIsTyped ==
  ASSUME NEW t \in AllTurns, NEW text \in Messages
  PROVE  Interrupt(t, text) \in Asked
<1>1. Do("result", text, "gone") \in Seq(TurnActs) /\ Do("result", text, "sent") \in Seq(TurnActs)
  <2>1. \A how \in {"gone", "sent"} : [act |-> "result", what |-> text, how |-> how] \in TurnActs
    BY DEF TurnActs, Whats, Texts
  <2> QED
    BY <2>1, DoIsTyped
<1>2. /\ QueueInterrupt(t, text) \in AllTurns
      /\ [QueueInterrupt(t, text) EXCEPT !.interrupts = Append(@, text)] \in AllTurns
  BY QueueInterruptIsTyped
<1>3. CASE t.gone
  BY <1>1, <1>3, WithIsTyped DEF Interrupt
<1>4. CASE ~ t.gone /\ t.busy
  BY <1>2, <1>4, SendInterruptIsTyped DEF Interrupt
<1>5. CASE ~ t.gone /\ ~ t.busy
  <2>1. With(t, Do("result", text, "sent")) \in Asked /\ Advance(QueueInterrupt(t, text)) \in Asked
    BY <1>1, <1>2, WithIsTyped, AdvanceIsTyped
  <2> QED
    BY <1>5, <2>1, ThenIsTyped DEF Interrupt
<1> QED
  BY <1>3, <1>4, <1>5

LEMMA GoneIsTyped ==
  ASSUME NEW t \in AllTurns
  PROVE  ProcessGone(t) \in Asked
<1>1. [t EXCEPT !.gone = TRUE] \in AllTurns
  BY DEF AllTurns
<1> QED
  BY <1>1, ResolveIsTyped DEF ProcessGone

LEMMA BindIsTyped ==
  ASSUME NEW t \in AllTurns, NEW id \in Nat
  PROVE  BindTurn(t, id) \in Asked
<1>1. [t EXCEPT !.turn = id] \in AllTurns /\ <<>> \in Seq(TurnActs)
  BY DEF AllTurns
<1> QED
  BY <1>1, SendInterruptIsTyped, WithIsTyped DEF BindTurn

LEMMA ReportedIsTyped ==
  ASSUME NEW t \in AllTurns
  PROVE  Reported(t) \in Asked
<1>1. [t EXCEPT !.reported = TRUE] \in AllTurns
  BY DEF AllTurns
<1>2. Do("emit", "Reported", None) \in Seq(TurnActs)
  <2>1. [act |-> "emit", what |-> "Reported", how |-> None] \in TurnActs
    BY DEF TurnActs, Whats
  <2> QED
    BY <2>1, DoIsTyped
<1> QED
  BY <1>1, <1>2, WithIsTyped, EmptySeq DEF Reported

LEMMA EndIsTyped ==
  ASSUME NEW t \in AllTurns, NEW end \in Ends, NEW closes \in BOOLEAN
  PROVE  End(t, end, closes) \in Asked
<1>1. CASE t.running = None
  <2>1. <<>> \in Seq(TurnActs)
    OBVIOUS
  <2> QED
    BY <1>1, <2>1, WithIsTyped DEF End
<1>2. CASE t.running # None
  <2> DEFINE done == [FinishQueued(t) EXCEPT !.running = None]
             out  == TurnOutcome(end, t.reported, t.running = Reminder, closes,
                                 end = "interrupted" /\ t.sent)
             told == Resolve(done, IF end = "interrupted" THEN "cancelled" ELSE "sent")
             next == IF out = "remind" THEN Remind(told.t) ELSE told.t
             first == IF closes THEN <<>> ELSE Do("snapshot", None, None)
             last == CASE out = "unreported" -> Do("unreported", None, None)
                       [] out = "problem" -> Do("failure", None, None)
                       [] OTHER -> <<>>
             acts == first \o Do("emit", "TurnEnded", end) \o told.acts \o last
  <2>1. done \in AllTurns
    BY DEF FinishQueued, AllTurns
  <2>2. told \in Asked
    BY <2>1, ResolveIsTyped
  <2> HIDE DEF done, out, told
  <2>3. told.t \in AllTurns /\ told.acts \in Seq(TurnActs)
    BY <2>2 DEF Asked
  <2>4. next \in AllTurns
    <3>1. \A q \in AllTurns : QueuePrompt(q, Reminder) \in AllTurns
      BY QueueIsTyped DEF Texts
    <3> QED
      BY <2>3, <3>1 DEF Remind
  <2>5. acts \in Seq(TurnActs)
    <3>1. <<>> \in Seq(TurnActs) /\ \A act \in {"snapshot", "unreported", "failure"} : Do(act, None, None) \in Seq(TurnActs)
      <4>1. \A act \in {"snapshot", "unreported", "failure"} : [act |-> act, what |-> None, how |-> None] \in TurnActs
        BY DEF TurnActs, Whats
      <4> QED
        BY <4>1, DoIsTyped
    <3>2. Do("emit", "TurnEnded", end) \in Seq(TurnActs)
      <4>1. [act |-> "emit", what |-> "TurnEnded", how |-> end] \in TurnActs
        BY DEF TurnActs, Whats
      <4> QED
        BY <4>1, DoIsTyped
    <3>3. first \in Seq(TurnActs) /\ last \in Seq(TurnActs)
      BY <3>1
    <3> HIDE DEF first, last
    <3> QED
      BY <2>3, <3>2, <3>3
  <2> HIDE DEF next, acts
  <2>6. Then(With(next, acts), Advance(next)) \in Asked
    BY <2>4, <2>5, WithIsTyped, AdvanceIsTyped, ThenIsTyped
  <2>7. End(t, end, closes) = Then(With(next, acts), Advance(next))
    BY <1>2 DEF End, next, acts, told, out, done
  <2> QED
    BY <2>6, <2>7
<1> QED
  BY <1>1, <1>2

(***************************************************************************)
(* The claude host: its queues and lines.                                  *)
(***************************************************************************)
Acts == TurnActs \cup {Verdict(a) : a \in Asks} \cup [act : {"cut"}, what : Whats, how : {None}]
StdinLines == {"start", "verdict", "cut"} \X Whats
StdoutLines == ({"ask", "cancel"} \X Asks) \cup {<<"reported", None>>} \cup ({"ended"} \X {"succeeded", "failed"})
Steps == ({"answer"} \X Asks) \cup ({"nothing", "drain", "settle", "kill", "forget"} \X {None})
Agents == [is : {"up", "dead"}, run : Whats, cut : BOOLEAN, asks : SUBSET Asks, asked : Nat]

HostTypes ==
  /\ turns \in AllTurns /\ seq \in Nat /\ todo \in Seq(Acts) /\ (lock = "free" <=> todo = <<>>)
  /\ denial \in {0} \cup Asks /\ poller \in Steps /\ closing \in BOOLEAN
  /\ queue \in Seq(Asks) /\ stdin \in Seq(StdinLines) /\ stdout \in Seq(StdoutLines)
  /\ agent \in Agents
  /\ agent.asks \subseteq 1..agent.asked /\ agent.asked <= MaxAsks /\ (~ Up => agent.asks = {})

\* The asks are numbers, and no two kinds of actions are the same.
LEMMA AsksAreTyped ==
  /\ Asks \subseteq Nat /\ Asks \subseteq Whats /\ 0 \notin Asks /\ TurnActs \subseteq Acts
  /\ \A a \in Asks : Verdict(a) \in Acts /\ Verdict(a) \notin TurnActs
  /\ \A x \in Acts : /\ x.act = "verdict" => x.what \in Asks /\ x = Verdict(x.what)
                     /\ x.what \in Whats
                     /\ x.act # "verdict" => \A a \in Asks : x # Verdict(a)
<1>1. Asks \subseteq Nat /\ 0 \notin Asks /\ Asks \subseteq Whats
  BY ClaudeHostAssumption DEF Asks, Whats
<1>2. TurnActs \subseteq Acts /\ \A a \in Asks : Verdict(a) \in Acts
  BY DEF Acts
<1>3. \A a \in Asks : Verdict(a).act = "verdict" /\ Verdict(a).what = a
  BY DEF Verdict
<1>4. \A x \in TurnActs : x.act # "verdict" /\ x.what \in Whats
  BY DEF TurnActs
<1>5. \A x \in [act : {"cut"}, what : Whats, how : {None}] : x.act # "verdict" /\ x.what \in Whats
  OBVIOUS
<1> QED
  BY <1>1, <1>2, <1>3, <1>4, <1>5 DEF Acts

LEMMA DriveIsTyped ==
  ASSUME HostTypes, NEW thread \in {"reader", "poller"}, NEW r \in Asked, Drive(thread, r)
  PROVE  /\ turns' \in AllTurns /\ todo' \in Seq(TurnActs) /\ todo' \in Seq(Acts)
         /\ (lock' = "free" <=> todo' = <<>>) /\ seq' \in Nat /\ todo = <<>>
<1> DEFINE starts == \E i \in DOMAIN r.acts : r.acts[i].act = "start"
           bound == IF starts THEN Then(r, BindTurn(r.t, seq + 1)) ELSE r
<1>1. r.t \in AllTurns /\ seq + 1 \in Nat
  BY DEF Asked, HostTypes
<1>2. bound \in Asked
  BY <1>1, BindIsTyped, ThenIsTyped
<1>3. /\ lock = "free" /\ turns' = bound.t /\ todo' = bound.acts
      /\ lock' = (IF bound.acts = <<>> THEN "free" ELSE thread)
      /\ seq' = IF starts THEN seq + 1 ELSE seq
  BY DEF Drive
<1> HIDE DEF bound, starts
<1>4. turns' \in AllTurns /\ todo' \in Seq(TurnActs)
  BY <1>2, <1>3 DEF Asked
<1>5. todo' \in Seq(Acts)
  BY <1>4, AsksAreTyped, SeqMonotonic
<1> QED
  BY <1>1, <1>3, <1>4, <1>5 DEF HostTypes

LEMMA WithoutIsTyped ==
  ASSUME NEW q \in Seq(Asks), NEW a \in Asks
  PROVE  /\ WithoutAsk(q, a) \in Seq(Asks)
         /\ \A x \in Asks : x # a => Count(WithoutAsk(q, a), x) = Count(q, x)
         /\ Count(WithoutAsk(q, a), a) = IF a \in ToSet(q) THEN Count(q, a) - 1 ELSE Count(q, a)
<1>1. CASE a \notin ToSet(q)
  BY <1>1 DEF WithoutAsk
<1>2. CASE a \in ToSet(q)
  <2>1. PICK i \in DOMAIN q : q[i] = a
    BY <1>2 DEF ToSet
  <2> DEFINE k == CHOOSE j \in DOMAIN q : q[j] = a
  <2>2. k \in DOMAIN q /\ q[k] = a
    BY <2>1
  <2>3. WithoutAsk(q, a) = RemoveAt(q, k)
    BY <1>2 DEF WithoutAsk
  <2> HIDE DEF k
  <2>4. k \in 1..Len(q)
    BY <2>2
  <2>5. /\ RemoveAt(q, k) \in Seq(Asks)
        /\ \A x : Count(RemoveAt(q, k), x) = Count(q, x) - IF q[k] = x THEN 1 ELSE 0
    BY <2>4, CountRemoveAt
  <2>6. \A x : Count(q, x) \in Nat
    BY CountType
  <2>7. \A x : x # a => Count(RemoveAt(q, k), x) = Count(q, x)
    BY <2>2, <2>5, <2>6
  <2>8. Count(RemoveAt(q, k), a) = Count(q, a) - 1
    BY <2>2, <2>5
  <2> QED
    BY <1>2, <2>3, <2>5, <2>7, <2>8
<1> QED
  BY <1>1, <1>2

\* A line to the agent is one line more, unless it is dead.
LEMMA SendIsTyped ==
  ASSUME HostTypes, NEW line \in StdinLines, Send(line)
  PROVE  /\ stdin' \in Seq(StdinLines)
         /\ Up => \A x : Count(stdin', x) = Count(stdin, x) + IF line = x THEN 1 ELSE 0
  BY CountAppend DEF Send, HostTypes, Up

LEMMA DenialsAreTyped ==
  ASSUME NEW q \in Seq(Asks), NEW turn \in Whats
  PROVE  /\ InterruptSends(q, turn) \in Seq(Acts)
         /\ \A a \in Asks : Count(InterruptSends(q, turn), Verdict(a)) = Count(q, a)
<1> DEFINE each == Each("verdict", q, None)
           cut == [act |-> "cut", what |-> turn, how |-> None]
<1>1. each \in Seq(Acts) /\ Len(each) = Len(q) /\ \A i \in 1..Len(q) : each[i] = Verdict(q[i])
  <2>1. \A i \in 1..Len(q) : q[i] \in Asks
    OBVIOUS
  <2>2. \A i \in 1..Len(q) : Verdict(q[i]) \in Acts
    BY <2>1, AsksAreTyped
  <2> QED
    BY <2>2 DEF Each, Verdict
<1>2. cut \in Acts /\ InterruptSends(q, turn) = each \o <<cut>> /\ cut.act = "cut"
  BY DEF InterruptSends, Do, Acts
<1> HIDE DEF each, cut
<1>3. each \o <<cut>> \in Seq(Acts) /\ <<cut>> \in Seq(Acts)
  BY <1>1, <1>2
<1>4. ASSUME NEW a \in Asks PROVE Count(InterruptSends(q, turn), Verdict(a)) = Count(q, a)
  <2>1. Count(each \o <<cut>>, Verdict(a)) = Count(each, Verdict(a)) + Count(<<cut>>, Verdict(a))
    BY <1>1, <1>3, CountConcat
  <2>2. Count(<<cut>>, Verdict(a)) = 0
    <3>1. cut # Verdict(a)
      BY <1>2 DEF Verdict
    <3> QED
      BY <3>1, CountOne
  <2>3. Count(each, Verdict(a)) = Count(q, a)
    <3>1. \A b, c : Verdict(b) = Verdict(c) => b = c
      BY DEF Verdict
    <3>2. {i \in 1..Len(each) : each[i] = Verdict(a)} = {i \in 1..Len(q) : q[i] = a}
      BY <1>1, <3>1
    <3>3. Count(each, Verdict(a)) = Cardinality({i \in 1..Len(each) : each[i] = Verdict(a)})
      BY <1>1, CountType
    <3>4. Count(q, a) = Cardinality({i \in 1..Len(q) : q[i] = a})
      BY CountType
    <3> QED
      BY <3>2, <3>3, <3>4
  <2>4. Count(q, a) \in Nat
    BY CountType
  <2> QED
    BY <1>2, <2>1, <2>2, <2>3, <2>4
<1> QED
  BY <1>2, <1>3, <1>4

\* The first line of the agent.
LEMMA LinesAreTyped ==
  ASSUME HostTypes, stdout # <<>>
  PROVE  /\ Head(stdout) \in StdoutLines /\ Tail(stdout) \in Seq(StdoutLines)
         /\ Head(stdout)[1] \in {"ask", "cancel"} => Line \in Asks
         /\ Head(stdout)[1] = "ended" => Line \in {"succeeded", "failed"}
         /\ Head(stdout) = <<Head(stdout)[1], Line>>
<1>1. Head(stdout) \in StdoutLines /\ Tail(stdout) \in Seq(StdoutLines)
  BY DEF HostTypes
<1>2. \A x \in StdoutLines : /\ x[1] \in {"ask", "cancel"} => x[2] \in Asks
                             /\ x[1] = "ended" => x[2] \in {"succeeded", "failed"}
                             /\ x = <<x[1], x[2]>>
  BY DEF StdoutLines
<1> QED
  BY <1>1, <1>2 DEF Line

\* What the reader and the poller ask of the turns.
LEMMA ReaderAsks ==
  ASSUME HostTypes, Signal
  PROVE  \E r \in Asked : Drive("reader", r)
<1>1. turns \in AllTurns
  BY DEF HostTypes
<1>2. CASE Reads("reported") /\ Drive("reader", Reported(turns))
  BY <1>1, <1>2, ReportedIsTyped
<1>3. CASE /\ Reads("ended")
           /\ LET end == IF Line = "failed" /\ turns.sent THEN "interrupted" ELSE Line
              IN  \E closes \in {FALSE, closing} : Drive("reader", End(turns, end, closes))
  <2> DEFINE end == IF Line = "failed" /\ turns.sent THEN "interrupted" ELSE Line
  <2>1. end \in Ends
    BY <1>3, LinesAreTyped DEF Reads, Ends
  <2> HIDE DEF end
  <2>2. PICK closes \in {FALSE, closing} : Drive("reader", End(turns, end, closes))
    BY <1>3 DEF end
  <2>3. closes \in BOOLEAN
    BY DEF HostTypes
  <2> QED
    BY <1>1, <2>1, <2>2, <2>3, EndIsTyped
<1> QED
  BY <1>2, <1>3 DEF Signal

LEMMA PollerAsks ==
  ASSUME HostTypes, NEW m \in Messages, Deliver(m)
  PROVE  \E r \in Asked : Drive("poller", r)
<1>1. turns \in AllTurns
  BY DEF HostTypes
<1>2. Drive("poller", IF m \in Prompts THEN Accept(turns, m) ELSE Interrupt(turns, m))
  BY DEF Deliver
<1> QED
  BY <1>1, <1>2, AcceptIsTyped, InterruptIsTyped

\* What is left to do, when one action of it is performed.
LEMMA RestIsTyped ==
  ASSUME HostTypes, todo # <<>>
  PROVE  Head(todo) \in Acts /\ Tail(todo) \in Seq(Acts) /\ lock # "free"
  BY DEF HostTypes

LEMMA PerformTypes ==
  ASSUME HostTypes, Perform
  PROVE  HostTypes'
<1> USE DEF HostTypes
<1>1. todo # <<>>
  BY DEF Perform, PerformSend, PerformEmit, PerformInterrupt, PerformResult, PerformReport, Performing
<1>2. Head(todo) \in Acts /\ Tail(todo) \in Seq(Acts) /\ lock # "free"
  BY <1>1, RestIsTyped
<1>3. ASSUME PerformRest
      PROVE  /\ turns' \in AllTurns /\ seq' \in Nat /\ denial' \in {0} \cup Asks /\ poller' \in Steps
             /\ closing' \in BOOLEAN /\ stdout' \in Seq(StdoutLines) /\ agent' \in Agents
             /\ agent'.asks \subseteq 1..agent'.asked /\ agent'.asked <= MaxAsks
             /\ (agent'.is # "up" => agent'.asks = {})
  BY <1>3 DEF PerformRest, lifeVars, agentVars, Up
<1>4. ASSUME NEW rest \in Seq(Acts), GoOn(rest)
      PROVE  todo' \in Seq(Acts) /\ (lock' = "free" <=> todo' = <<>>)
  BY <1>2, <1>4 DEF GoOn
<1>5. CASE PerformSend
  <2>1. <<Head(todo).act, Head(todo).what>> \in StdinLines
    BY <1>2, <1>5, AsksAreTyped DEF PerformSend, Performing, StdinLines
  <2>2. stdin' \in Seq(StdinLines)
    BY <1>5, <2>1, SendIsTyped DEF PerformSend
  <2> QED
    BY <1>2, <1>3, <1>4, <1>5, <2>2 DEF PerformSend, queueVars, Up
<1>6. CASE PerformEmit
  BY <1>2, <1>3, <1>4, <1>6 DEF PerformEmit, Up
<1>7. CASE PerformInterrupt
  <2>1. Head(todo).what \in Whats
    BY <1>2, AsksAreTyped
  <2>2. InterruptSends(queue, Head(todo).what) \o Tail(todo) \in Seq(Acts)
    BY <1>2, <2>1, DenialsAreTyped
  <2>3. queue' \in Seq(Asks)
    BY <1>7 DEF PerformInterrupt
  <2> QED
    BY <1>3, <1>4, <1>7, <2>2, <2>3 DEF PerformInterrupt, Up
<1>8. CASE PerformResult
  BY <1>2, <1>3, <1>4, <1>8 DEF PerformResult, queueVars, Up
<1>9. CASE PerformReport
  BY <1>2, <1>3, <1>4, <1>9 DEF PerformReport, queueVars, Up
<1> QED
  BY <1>5, <1>6, <1>7, <1>8, <1>9 DEF Perform

LEMMA ReadTypes ==
  ASSUME HostTypes, Read
  PROVE  HostTypes'
<1> USE DEF HostTypes
<1>1. CASE Signal
  <2>1. PICK r \in Asked : Drive("reader", r)
    BY <1>1, ReaderAsks
  <2>2. turns' \in AllTurns /\ todo' \in Seq(Acts) /\ (lock' = "free" <=> todo' = <<>>) /\ seq' \in Nat
    BY <2>1, DriveIsTyped
  <2>3. stdout # <<>>
    BY <1>1 DEF Signal, Reads
  <2>4. Tail(stdout) \in Seq(StdoutLines)
    BY <2>3, LinesAreTyped
  <2> QED
    BY <1>1, <2>2, <2>4 DEF Signal, ReadRest, queueVars, lifeVars, Up
<1>2. CASE Ask
  <2>1. Line \in Asks /\ Tail(stdout) \in Seq(StdoutLines)
    BY <1>2, LinesAreTyped DEF Ask, Reads
  <2>2. Append(queue, Line) \in Seq(Asks)
    BY <2>1
  <2>3. denial' \in {0} \cup Asks /\ queue' \in Seq(Asks)
    BY <1>2, <2>1, <2>2 DEF Ask
  <2> QED
    BY <1>2, <2>1, <2>3 DEF Ask, ReadRest, turnVars, lifeVars, Up
<1>3. CASE Settle
  <2>1. Line \in Asks /\ Tail(stdout) \in Seq(StdoutLines)
    BY <1>3, LinesAreTyped DEF Settle, Reads
  <2>2. queue' \in Seq(Asks)
    BY <1>3, <2>1, WithoutIsTyped DEF Settle
  <2> QED
    BY <1>3, <2>1, <2>2 DEF Settle, ReadRest, turnVars, lifeVars, Up
<1>4. CASE SendDenial
  <2>1. <<"verdict", denial>> \in StdinLines
    BY <1>4, AsksAreTyped DEF SendDenial, StdinLines
  <2>2. stdin' \in Seq(StdinLines)
    BY <1>4, <2>1, SendIsTyped DEF SendDenial
  <2> QED
    BY <1>4, <2>2 DEF SendDenial, turnVars, queueVars, lifeVars, agentVars, Up
<1>5. CASE EndOfFile
  <2>1. ProcessGone(turns) \in Asked
    BY GoneIsTyped
  <2>2. turns' \in AllTurns /\ todo' \in Seq(Acts) /\ (lock' = "free" <=> todo' = <<>>) /\ seq' \in Nat
    BY <1>5, <2>1, DriveIsTyped DEF EndOfFile
  <2> QED
    BY <1>5, <2>2 DEF EndOfFile, queueVars, agentVars, Up
<1>6. CASE ReportExit
  BY <1>6 DEF ReportExit, turnVars, queueVars, agentVars, Up
<1> QED
  BY <1>1, <1>2, <1>3, <1>4, <1>5, <1>6 DEF Read

LEMMA PollTypes ==
  ASSUME HostTypes,
         \/ (\E a \in Asks : TakeAnswer(a)) \/ (\E m \in Messages : Deliver(m) \/ Lose(m))
         \/ DrainEvents \/ SendAnswer \/ StartClose \/ CloseDrain \/ CloseSettle \/ CloseKill \/ CloseForget
  PROVE  HostTypes'
<1> USE DEF HostTypes
<1>1. CASE DrainEvents
  BY <1>1 DEF DrainEvents, PollRest, turnVars, agentVars, Up
<1>2. ASSUME NEW a \in Asks, TakeAnswer(a) PROVE HostTypes'
  <2>1. queue' \in Seq(Asks)
    BY <1>2, WithoutIsTyped DEF TakeAnswer
  <2>2. poller' \in Steps
    BY <1>2 DEF TakeAnswer, Steps
  <2> QED
    BY <1>2, <2>1, <2>2 DEF TakeAnswer, PollRest, turnVars, agentVars, Up
<1>3. CASE SendAnswer
  <2>1. <<"verdict", poller[2]>> \in StdinLines /\ Empty \in Steps
    BY <1>3, AsksAreTyped DEF SendAnswer, Steps, StdinLines, Empty
  <2>2. stdin' \in Seq(StdinLines)
    BY <1>3, <2>1, SendIsTyped DEF SendAnswer
  <2> QED
    BY <1>3, <2>1, <2>2 DEF SendAnswer, PollRest, turnVars, agentVars, Up
<1>4. ASSUME NEW m \in Messages, Deliver(m) PROVE HostTypes'
  <2>1. PICK r \in Asked : Drive("poller", r)
    BY <1>4, PollerAsks
  <2>2. turns' \in AllTurns /\ todo' \in Seq(Acts) /\ (lock' = "free" <=> todo' = <<>>) /\ seq' \in Nat
    BY <2>1, DriveIsTyped
  <2> QED
    BY <1>4, <2>2 DEF Deliver, PollRest, agentVars, Up
<1>5. ASSUME NEW m \in Messages, Lose(m) PROVE HostTypes'
  BY <1>5 DEF Lose, PollRest, turnVars, agentVars, Up
<1>6. CASE StartClose
  <2>1. poller' \in Steps /\ closing' = TRUE
    BY <1>6 DEF StartClose, Steps
  <2> QED
    BY <1>6, <2>1 DEF StartClose, PollRest, turnVars, agentVars, Up
<1>7. CASE CloseDrain
  <2>1. poller' \in Steps /\ queue' \in Seq(Asks)
    BY <1>7 DEF CloseDrain, Steps
  <2> QED
    BY <1>7, <2>1 DEF CloseDrain, PollRest, turnVars, agentVars, Up
<1>8. CASE CloseSettle
  <2>1. poller' \in Steps
    BY <1>8 DEF CloseSettle, Steps
  <2> QED
    BY <1>8, <2>1 DEF CloseSettle, PollRest, turnVars, agentVars, Up
<1>9. CASE CloseKill
  <2>1. poller' \in Steps /\ agent' \in Agents /\ agent'.asks = {} /\ agent'.asked = 0 /\ stdin' \in Seq(StdinLines)
    BY <1>9 DEF CloseKill, Steps, Agent, Agents, Whats
  <2>2. 0 <= MaxAsks
    BY ClaudeHostAssumption
  <2> QED
    BY <1>9, <2>1, <2>2 DEF CloseKill, queueVars, lifeVars, turnVars, Up
<1>10. CASE CloseForget
  <2>1. poller' \in Steps
    BY <1>10 DEF CloseForget, Steps, Empty
  <2> QED
    BY <1>10, <2>1 DEF CloseForget, PollRest, turnVars, agentVars, Up
<1> QED
  BY <1>1, <1>2, <1>3, <1>4, <1>5, <1>6, <1>7, <1>8, <1>9, <1>10

LEMMA AgentTypes ==
  ASSUME HostTypes,
         \/ Hear \/ RaiseAsk \/ Die \/ (\E a \in Asks : TakeBack(a))
         \/ (\E end \in {"succeeded", "failed"} : EndTurn(end))
  PROVE  HostTypes'
<1> USE DEF HostTypes
<1>0. ASSUME hostVars' = hostVars
      PROVE  /\ turns' = turns /\ seq' = seq /\ lock' = lock /\ todo' = todo /\ denial' = denial
             /\ poller' = poller /\ closing' = closing /\ queue' = queue
  BY <1>0 DEF hostVars, turnVars, queueVars, lifeVars
<1>1. /\ \A run \in Whats, cut \in BOOLEAN : [agent EXCEPT !.run = run, !.cut = cut] \in Agents
      /\ \A cut \in BOOLEAN : [agent EXCEPT !.cut = cut] \in Agents
      /\ \A asks \in SUBSET Asks : [agent EXCEPT !.asks = asks] \in Agents
      /\ \A asks \in SUBSET Asks, asked \in Nat : [agent EXCEPT !.asked = asked, !.asks = asks] \in Agents
  BY DEF Agents
<1>2. agent.is \in {"up", "dead"} /\ agent.asks \subseteq Asks /\ agent.asked \in Nat /\ agent.run \in Whats
  BY DEF Agents
<1>3. None \in Whats
  BY DEF Whats
<1>4. CASE Hear
  <2>1. stdin # <<>> /\ Up /\ stdin' = Tail(stdin) /\ stdout' = stdout /\ hostVars' = hostVars
    BY <1>4 DEF Hear
  <2>2. Head(stdin) \in StdinLines /\ stdin' \in Seq(StdinLines)
    BY <2>1
  <2>3. agent' \in Agents /\ agent'.asks \subseteq agent.asks /\ agent'.asked = agent.asked /\ agent'.is = agent.is
    <3> DEFINE line == Head(stdin)
    <3>1. CASE line[1] = "start" /\ agent' = [agent EXCEPT !.run = line[2], !.cut = FALSE]
      <4>1. line[2] \in Whats
        BY <2>2 DEF StdinLines
      <4>2. agent' \in Agents
        BY <3>1, <4>1, <1>1
      <4> QED
        BY <3>1, <4>2 DEF Agents
    <3>2. CASE agent' = [agent EXCEPT !.asks = @ \ {line[2]}]
      <4>1. agent.asks \ {line[2]} \in SUBSET Asks
        BY <1>2
      <4>2. agent' = [agent EXCEPT !.asks = agent.asks \ {line[2]}]
        BY <3>2
      <4>3. agent' \in Agents
        BY <4>1, <4>2, <1>1
      <4> QED
        BY <4>2, <4>3 DEF Agents
    <3>3. CASE agent' = [agent EXCEPT !.cut = agent.run # None]
      <4>1. (agent.run # None) \in BOOLEAN
        OBVIOUS
      <4>2. agent' \in Agents
        BY <3>3, <4>1, <1>1
      <4> QED
        BY <3>3, <4>2 DEF Agents
    <3> QED
      BY <1>4, <3>1, <3>2, <3>3 DEF Hear
  <2> QED
    BY <1>0, <2>1, <2>2, <2>3 DEF Up
<1>5. CASE RaiseAsk
  <2> DEFINE n == agent.asked + 1
  <2>1. /\ Up /\ agent.asked < MaxAsks /\ stdout' = Append(stdout, <<"ask", n>>)
        /\ stdin' = stdin /\ hostVars' = hostVars
        /\ agent' = [agent EXCEPT !.asked = @ + 1, !.asks = @ \cup {agent.asked + 1}]
    BY <1>5 DEF RaiseAsk, Says
  <2>2. n \in Asks /\ n \in Nat /\ n <= MaxAsks
    BY <1>2, <2>1, ClaudeHostAssumption DEF Asks
  <2>3. agent' = [agent EXCEPT !.asked = n, !.asks = agent.asks \cup {n}]
    BY <2>1
  <2>4. agent' \in Agents /\ agent'.asks = agent.asks \cup {n} /\ agent'.asked = n /\ agent'.is = agent.is
    <3>1. agent.asks \cup {n} \in SUBSET Asks
      BY <1>2, <2>2
    <3>2. agent' \in Agents
      BY <1>1, <2>2, <2>3, <3>1
    <3> QED
      BY <2>3, <3>2 DEF Agents
  <2>5. stdout' \in Seq(StdoutLines)
    <3>1. <<"ask", n>> \in StdoutLines
      BY <2>2 DEF StdoutLines
    <3> QED
      BY <2>1, <3>1
  <2>6. agent'.asks \subseteq 1..agent'.asked
    BY <1>2, <2>2, <2>4
  <2> QED
    BY <1>0, <2>1, <2>2, <2>4, <2>5, <2>6 DEF Up
<1>6. ASSUME NEW a \in Asks, TakeBack(a) PROVE HostTypes'
  <2>1. /\ Up /\ stdout' = Append(stdout, <<"cancel", a>>) /\ stdin' = stdin /\ hostVars' = hostVars
        /\ agent' = [agent EXCEPT !.asks = agent.asks \ {a}]
    BY <1>6 DEF TakeBack, Says
  <2>2. agent.asks \ {a} \in SUBSET Asks
    BY <1>2
  <2>3. agent' \in Agents
    BY <1>1, <2>1, <2>2
  <2>4. agent'.asks \subseteq agent.asks /\ agent'.asked = agent.asked /\ agent'.is = agent.is
    BY <2>1, <2>3 DEF Agents
  <2>5. stdout' \in Seq(StdoutLines)
    <3>1. <<"cancel", a>> \in StdoutLines
      BY DEF StdoutLines
    <3> QED
      BY <2>1, <3>1
  <2> QED
    BY <1>0, <2>1, <2>3, <2>4, <2>5 DEF Up
<1>7. ASSUME NEW end \in {"succeeded", "failed"}, EndTurn(end) PROVE HostTypes'
  <2>1. /\ Up /\ stdin' = stdin /\ hostVars' = hostVars
        /\ agent' = [agent EXCEPT !.run = None, !.cut = FALSE]
    BY <1>7 DEF EndTurn
  <2>2. PICK report \in {<<>>, <<<<"reported", None>>>>} : stdout' = stdout \o report \o <<<<"ended", end>>>>
    BY <1>7 DEF EndTurn
  <2>3. agent' \in Agents
    BY <1>1, <1>3, <2>1
  <2>4. agent'.asks = agent.asks /\ agent'.asked = agent.asked /\ agent'.is = agent.is
    BY <2>1, <2>3 DEF Agents
  <2>5. stdout' \in Seq(StdoutLines)
    <3>1. <<"reported", None>> \in StdoutLines /\ <<"ended", end>> \in StdoutLines
      BY DEF StdoutLines
    <3>2. /\ <<>> \in Seq(StdoutLines) /\ <<<<"reported", None>>>> \in Seq(StdoutLines)
          /\ <<<<"ended", end>>>> \in Seq(StdoutLines)
      BY <3>1, EmptySeq
    <3>3. report \in Seq(StdoutLines)
      BY <3>2
    <3> QED
      BY <2>2, <3>2, <3>3
  <2> QED
    BY <1>0, <2>1, <2>3, <2>4, <2>5 DEF Up
<1>8. CASE Die
  <2>1. stdin' \in Seq(StdinLines) /\ stdout' = stdout /\ hostVars' = hostVars /\ agent' = Agent("dead")
    BY <1>8 DEF Die
  <2>2. agent' \in Agents /\ agent'.asks = {} /\ agent'.asked = 0 /\ 0 <= MaxAsks
    BY <1>3, <2>1, ClaudeHostAssumption DEF Agent, Agents
  <2> QED
    BY <1>0, <2>1, <2>2 DEF Up
<1> QED
  BY <1>4, <1>5, <1>6, <1>7, <1>8

\* No step breaks the types.
LEMMA TypesStep ==
  ASSUME HostTypes, [Next]_claudeVars
  PROVE  HostTypes'
<1>1. CASE UNCHANGED claudeVars
  BY <1>1 DEF HostTypes, claudeVars, hostVars, turnVars, queueVars, lifeVars, agentVars, Up
<1>2. CASE Next
  <2>1. CASE Perform \/ Read
    BY <2>1, PerformTypes, ReadTypes
  <2>2. CASE SendAnswer \/ CloseDrain \/ CloseSettle \/ CloseKill \/ CloseForget \/ DrainEvents \/ StartClose
    BY <2>2, PollTypes
  <2> QED
    BY <1>2, <2>1, <2>2, PollTypes, AgentTypes DEF Next, Progress, Unforced
<1> QED
  BY <1>1, <1>2

(***************************************************************************)
(* The places of a request.  Beside OnePlace: the agent numbers a request  *)
(* as none before it, a request taken back is not waited on, and the       *)
(* poller closes only what it marked as closing.                           *)
(***************************************************************************)
Fresh == Up => \A a \in Asks : a > agent.asked => Places(a) = 0
TakenBack ==
  \A i \in 1..Len(stdout) :
    stdout[i][1] = "cancel" => stdout[i][2] \notin agent.asks /\ (Up => stdout[i][2] <= agent.asked)
Closes == poller[1] \in {"drain", "settle", "kill", "forget"} => closing
PlacesInv == HostTypes /\ Fresh /\ TakenBack /\ Closes /\ OnePlace

LEMMA PlacesAreCounts ==
  ASSUME HostTypes, NEW a \in Asks
  PROVE  /\ Count(stdout, <<"ask", a>>) \in Nat /\ Count(queue, a) \in Nat
         /\ Count(stdin, <<"verdict", a>>) \in Nat /\ Count(todo, Verdict(a)) \in Nat
         /\ Places(a) \in Nat
<1>1. /\ Count(stdout, <<"ask", a>>) \in Nat /\ Count(queue, a) \in Nat
      /\ Count(stdin, <<"verdict", a>>) \in Nat /\ Count(todo, Verdict(a)) \in Nat
  BY CountType DEF HostTypes
<1> QED
  BY <1>1 DEF Places

\* A step that moves requests about, and does not lose one the agent waits on.
LEMMA MovesKeep ==
  ASSUME PlacesInv, HostTypes', agent' = agent, closing => closing',
         stdout' = stdout \/ (stdout # <<>> /\ stdout' = Tail(stdout)),
         poller'[1] \in {"drain", "settle", "kill", "forget"} => closing',
         Up => \A a \in Asks : /\ Places(a)' <= Places(a)
                               /\ closing' \/ a \notin agent.asks \/ Places(a)' = Places(a)
  PROVE  PlacesInv'
<1> USE DEF PlacesInv
<1>1. \A a \in Asks : Places(a) \in Nat
  BY PlacesAreCounts
<1>2. ASSUME NEW a \in Asks PROVE Places(a)' \in Nat
  <2>1. /\ Count(stdout', <<"ask", a>>) \in Nat /\ Count(queue', a) \in Nat
        /\ Count(stdin', <<"verdict", a>>) \in Nat /\ Count(todo', Verdict(a)) \in Nat
    BY CountType DEF HostTypes
  <2> QED
    BY <2>1 DEF Places
<1>3. Fresh'
  BY <1>1, <1>2 DEF Fresh, Up
<1>4. TakenBack'
  <2>1. stdout \in Seq(StdoutLines)
    BY DEF HostTypes
  <2> QED
    BY <2>1 DEF TakenBack, Up
<1>5. Closes'
  BY DEF Closes
<1>6. OnePlace'
  <2>1. agent.asks \subseteq Asks /\ (~ Up => agent.asks = {})
    BY DEF HostTypes, Agents
  <2> QED
    BY <2>1 DEF OnePlace
<1> QED
  BY <1>3, <1>4, <1>5, <1>6

\* The turns ask for no verdict.
LEMMA DriveKeepsCount ==
  ASSUME HostTypes, NEW thread \in {"reader", "poller"}, NEW r \in Asked, Drive(thread, r), NEW a \in Asks
  PROVE  Count(todo', Verdict(a)) = Count(todo, Verdict(a))
<1>1. todo = <<>> /\ todo' \in Seq(TurnActs)
  BY DriveIsTyped
<1>2. \A i \in 1..Len(todo') : todo'[i] \in TurnActs
  BY <1>1
<1>3. \A i \in 1..Len(todo') : todo'[i] # Verdict(a)
  BY <1>2, AsksAreTyped
<1>4. Count(todo', Verdict(a)) = 0
  BY <1>1, <1>3, CountType
<1> QED
  BY <1>1, <1>4, CountEmpty

LEMMA PerformPlaces ==
  ASSUME PlacesInv, Perform
  PROVE  PlacesInv'
<1> USE DEF PlacesInv
<1>1. HostTypes'
  BY PerformTypes
<1>2. /\ agent' = agent /\ closing' = closing /\ stdout' = stdout /\ poller' = poller /\ denial' = denial
      /\ todo # <<>>
  BY DEF Perform, PerformSend, PerformEmit, PerformInterrupt, PerformResult, PerformReport, PerformRest,
         Performing, lifeVars, agentVars
<1>3. Head(todo) \in Acts /\ Tail(todo) \in Seq(Acts) /\ todo \in Seq(Acts) /\ queue \in Seq(Asks)
  BY <1>2, RestIsTyped DEF HostTypes
<1>4. ASSUME NEW a \in Asks, Up PROVE Places(a)' = Places(a)
  <2> DEFINE so == Count(stdout, <<"ask", a>>)
             q == Count(queue, a)
             si == Count(stdin, <<"verdict", a>>)
             td == Count(todo, Verdict(a))
  <2>1. so \in Nat /\ q \in Nat /\ si \in Nat /\ td \in Nat
    BY PlacesAreCounts
  <2>2. Count(Tail(todo), Verdict(a)) = td - IF Head(todo) = Verdict(a) THEN 1 ELSE 0
    BY <1>2, <1>3, CountTail
  <2>3. CASE Count(queue', a) + Count(stdin', <<"verdict", a>>) + Count(todo', Verdict(a)) = q + si + td
    <3> DEFINE q2 == Count(queue', a)
               si2 == Count(stdin', <<"verdict", a>>)
               td2 == Count(todo', Verdict(a))
    <3>1. q2 \in Nat /\ si2 \in Nat /\ td2 \in Nat
      BY <1>1, CountType DEF HostTypes
    <3>2. /\ Places(a)' = so + q2 + si2 + td2 + (IF denial = a THEN 1 ELSE 0) + (IF poller = <<"answer", a>> THEN 1 ELSE 0)
          /\ Places(a) = so + q + si + td + (IF denial = a THEN 1 ELSE 0) + (IF poller = <<"answer", a>> THEN 1 ELSE 0)
      BY <1>2 DEF Places
    <3>3. q2 + si2 + td2 = q + si + td
      BY <2>3
    <3> HIDE DEF so, q, si, td, q2, si2, td2
    <3> QED
      BY <2>1, <3>1, <3>2, <3>3
  <2>4. CASE PerformSend
    <3>1. <<Head(todo).act, Head(todo).what>> \in StdinLines
      BY <1>3, <2>4, AsksAreTyped DEF PerformSend, Performing, StdinLines
    <3>2. Count(stdin', <<"verdict", a>>)
            = si + IF <<Head(todo).act, Head(todo).what>> = <<"verdict", a>> THEN 1 ELSE 0
      BY <1>4, <2>4, <3>1, SendIsTyped DEF PerformSend
    <3>3. Head(todo) = Verdict(a) <=> <<Head(todo).act, Head(todo).what>> = <<"verdict", a>>
      <4>1. Verdict(a).act = "verdict" /\ Verdict(a).what = a
        BY DEF Verdict
      <4> QED
        BY <1>3, <4>1, AsksAreTyped
    <3>4. todo' = Tail(todo) /\ queue' = queue
      BY <2>4 DEF PerformSend, GoOn, queueVars
    <3>5. /\ Count(todo', Verdict(a)) = td - IF Head(todo) = Verdict(a) THEN 1 ELSE 0
          /\ Count(queue', a) = q
      BY <2>2, <3>4
    <3> HIDE DEF so, q, si, td
    <3> QED
      BY <2>1, <2>3, <3>2, <3>3, <3>5
  <2>5. CASE PerformEmit \/ PerformResult \/ PerformReport
    <3>1. Head(todo).act # "verdict" /\ todo' = Tail(todo) /\ queue' = queue /\ stdin' = stdin
      BY <2>5 DEF PerformEmit, PerformResult, PerformReport, Performing, GoOn, queueVars
    <3>2. Head(todo) # Verdict(a)
      BY <1>3, <3>1, AsksAreTyped
    <3>3. Count(todo', Verdict(a)) = td /\ Count(queue', a) = q /\ Count(stdin', <<"verdict", a>>) = si
      BY <2>1, <2>2, <3>1, <3>2
    <3> HIDE DEF so, q, si, td
    <3> QED
      BY <2>1, <2>3, <3>3
  <2>6. CASE PerformInterrupt
    <3>1. /\ Head(todo).act # "verdict" /\ queue' = <<>> /\ stdin' = stdin
          /\ todo' = InterruptSends(queue, Head(todo).what) \o Tail(todo)
      BY <2>6 DEF PerformInterrupt, Performing, GoOn
    <3>2. Head(todo) # Verdict(a) /\ Head(todo).what \in Whats
      BY <1>3, <3>1, AsksAreTyped
    <3>3. /\ InterruptSends(queue, Head(todo).what) \in Seq(Acts)
          /\ Count(InterruptSends(queue, Head(todo).what), Verdict(a)) = q
      BY <1>3, <3>2, DenialsAreTyped
    <3>4. Count(todo', Verdict(a)) = q + Count(Tail(todo), Verdict(a))
      <4> DEFINE lines == InterruptSends(queue, Head(todo).what)
                 rest == Tail(todo)
      <4>1. lines \in Seq(Acts) /\ rest \in Seq(Acts) /\ todo' = lines \o rest /\ Count(lines, Verdict(a)) = q
        BY <1>3, <3>1, <3>3
      <4> HIDE DEF lines, rest, q
      <4>2. Count(lines \o rest, Verdict(a)) = Count(lines, Verdict(a)) + Count(rest, Verdict(a))
        BY ONLY <4>1, CountConcat
      <4> QED
        BY <4>1, <4>2 DEF rest
    <3>5. /\ Count(todo', Verdict(a)) = q + td /\ Count(queue', a) = 0
          /\ Count(stdin', <<"verdict", a>>) = si
      BY <2>1, <2>2, <3>1, <3>2, <3>4, CountEmpty
    <3> HIDE DEF so, q, si, td
    <3> QED
      BY <2>1, <2>3, <3>5
  <2> QED
    BY <2>4, <2>5, <2>6 DEF Perform
<1>5. \A a \in Asks : Places(a) \in Nat
  BY PlacesAreCounts
<1>6. Closes'
  BY <1>2 DEF Closes
<1>7. Up => \A a \in Asks : /\ Places(a)' <= Places(a)
                            /\ closing' \/ a \notin agent.asks \/ Places(a)' = Places(a)
  BY <1>4, <1>5
<1> QED
  BY <1>1, <1>2, <1>6, <1>7, MovesKeep DEF Closes

LEMMA ReadPlaces ==
  ASSUME PlacesInv, Read
  PROVE  PlacesInv'
<1> USE DEF PlacesInv
<1>1. HostTypes'
  BY ReadTypes
<1>2. agent' = agent /\ (closing => closing') /\ poller' = poller
  <2>1. CASE Signal \/ Ask \/ Settle
    <3>1. ReadRest
      BY <2>1 DEF Signal, Ask, Settle
    <3> QED
      BY <3>1 DEF ReadRest, lifeVars
  <2>2. CASE SendDenial
    BY <2>2 DEF SendDenial, lifeVars, agentVars
  <2>3. CASE EndOfFile \/ ReportExit
    BY <2>3 DEF EndOfFile, ReportExit, agentVars
  <2> QED
    BY <2>1, <2>2, <2>3 DEF Read
<1>3. stdout' = stdout \/ (stdout # <<>> /\ stdout' = Tail(stdout))
  BY DEF Read, Signal, Ask, Settle, SendDenial, EndOfFile, ReportExit, ReadRest, Reads, agentVars
<1>4. ASSUME NEW a \in Asks, Up
      PROVE  Places(a)' <= Places(a) /\ (a \in agent.asks => Places(a)' = Places(a))
  <2> DEFINE so == Count(stdout, <<"ask", a>>)
             q == Count(queue, a)
             si == Count(stdin, <<"verdict", a>>)
             td == Count(todo, Verdict(a))
             so2 == Count(stdout', <<"ask", a>>)
             q2 == Count(queue', a)
             si2 == Count(stdin', <<"verdict", a>>)
             td2 == Count(todo', Verdict(a))
             pl == IF poller = <<"answer", a>> THEN 1 ELSE 0
             de == IF denial = a THEN 1 ELSE 0
             de2 == IF denial' = a THEN 1 ELSE 0
  <2>1. so \in Nat /\ q \in Nat /\ si \in Nat /\ td \in Nat /\ pl \in Nat /\ de \in Nat
    BY PlacesAreCounts
  <2>2. so2 \in Nat /\ q2 \in Nat /\ si2 \in Nat /\ td2 \in Nat /\ de2 \in Nat
    BY <1>1, CountType DEF HostTypes
  <2>3. /\ Places(a)' = so2 + q2 + si2 + td2 + de2 + pl
        /\ Places(a) = so + q + si + td + de + pl
    BY <1>2 DEF Places
  <2>4. stdout \in Seq(StdoutLines) /\ queue \in Seq(Asks) /\ a # 0
    BY AsksAreTyped DEF HostTypes
  <2>5. stdout # <<>> => Count(Tail(stdout), <<"ask", a>>) = so - IF Head(stdout) = <<"ask", a>> THEN 1 ELSE 0
    BY <2>4, CountTail
  <2>6. CASE Signal
    <3>1. /\ stdout # <<>> /\ Head(stdout)[1] # "ask" /\ stdout' = Tail(stdout)
          /\ queue' = queue /\ stdin' = stdin /\ denial' = denial
      BY <2>6 DEF Signal, Reads, ReadRest, queueVars
    <3>2. PICK r \in Asked : Drive("reader", r)
      BY <2>6, ReaderAsks
    <3>3. td2 = td
      BY <3>2, DriveKeepsCount
    <3>4. so2 = so /\ q2 = q /\ si2 = si /\ de2 = de
      BY <2>1, <2>5, <3>1
    <3> HIDE DEF so, q, si, td, de, so2, q2, si2, td2, de2, pl
    <3> QED
      BY <2>1, <2>3, <3>3, <3>4
  <2>7. CASE Ask
    <3>1. /\ stdout # <<>> /\ Head(stdout)[1] = "ask" /\ stdout' = Tail(stdout) /\ denial = 0
          /\ stdin' = stdin /\ todo' = todo
      BY <2>7 DEF Ask, Reads, ReadRest, turnVars
    <3>2. Line \in Asks /\ Head(stdout) = <<"ask", Line>> /\ Line # 0
      BY <3>1, LinesAreTyped, AsksAreTyped
    <3>3. so2 = so - (IF Line = a THEN 1 ELSE 0) /\ si2 = si /\ td2 = td /\ de = 0
      BY <2>4, <2>5, <3>1, <3>2
    <3>4. CASE refusing
      <4>1. queue' = queue /\ denial' = Line
        BY <2>7, <3>4 DEF Ask
      <4>2. q2 = q /\ de2 = IF Line = a THEN 1 ELSE 0
        BY <4>1
      <4> HIDE DEF so, q, si, td, de, so2, q2, si2, td2, de2, pl
      <4> QED
        BY <2>1, <2>2, <2>3, <3>3, <4>2
    <3>5. CASE ~ refusing
      <4>1. queue' = Append(queue, Line) /\ denial' = denial
        BY <2>7, <3>5 DEF Ask
      <4>2. q2 = q + (IF Line = a THEN 1 ELSE 0) /\ de2 = de
        BY <2>4, <3>2, <4>1, CountAppend
      <4> HIDE DEF so, q, si, td, de, so2, q2, si2, td2, de2, pl
      <4> QED
        BY <2>1, <2>2, <2>3, <3>3, <4>2
    <3> QED
      BY <3>4, <3>5
  <2>8. CASE Settle
    <3>1. /\ stdout # <<>> /\ Head(stdout)[1] = "cancel" /\ stdout' = Tail(stdout) /\ denial' = denial
          /\ stdin' = stdin /\ todo' = todo /\ queue' = WithoutAsk(queue, Line)
      BY <2>8 DEF Settle, Reads, ReadRest, turnVars
    <3>2. Line \in Asks /\ Line \notin agent.asks
      <4>1. 1 \in 1..Len(stdout) /\ stdout[1] = Head(stdout)
        BY <2>4, <3>1
      <4> QED
        BY <3>1, <4>1, LinesAreTyped DEF TakenBack, Line
    <3>3. so2 = so /\ si2 = si /\ td2 = td /\ de2 = de
      BY <2>1, <2>5, <3>1
    <3>4. q2 <= q /\ (a # Line => q2 = q)
      <4>1. /\ \A x \in Asks : x # Line => Count(WithoutAsk(queue, Line), x) = Count(queue, x)
            /\ Count(WithoutAsk(queue, Line), Line)
                 = IF Line \in ToSet(queue) THEN Count(queue, Line) - 1 ELSE Count(queue, Line)
        BY <2>4, <3>2, WithoutIsTyped
      <4> QED
        BY <2>1, <3>1, <4>1
    <3> HIDE DEF so, q, si, td, de, so2, q2, si2, td2, de2, pl
    <3> QED
      BY <2>1, <2>2, <2>3, <3>2, <3>3, <3>4
  <2>9. CASE SendDenial
    <3>1. /\ denial # 0 /\ denial' = 0 /\ stdout' = stdout /\ queue' = queue /\ todo' = todo
          /\ Send(<<"verdict", denial>>)
      BY <2>9 DEF SendDenial, queueVars, turnVars, agentVars
    <3>2. <<"verdict", denial>> \in StdinLines
      BY <3>1, AsksAreTyped DEF StdinLines, HostTypes
    <3>3. si2 = si + IF <<"verdict", denial>> = <<"verdict", a>> THEN 1 ELSE 0
      BY <1>4, <3>1, <3>2, SendIsTyped
    <3>4. so2 = so /\ q2 = q /\ td2 = td /\ de2 = 0 /\ si2 = si + de
      BY <2>4, <3>1, <3>3
    <3> HIDE DEF so, q, si, td, de, so2, q2, si2, td2, de2, pl
    <3> QED
      BY <2>1, <2>3, <3>4
  <2>10. CASE EndOfFile
    <3>1. FALSE
      BY <1>4, <2>10 DEF EndOfFile, Up
    <3> QED
      BY <3>1
  <2>11. CASE ReportExit
    <3>1. stdout' = stdout /\ queue' = queue /\ stdin' = stdin /\ todo' = todo /\ denial' = denial
      BY <2>11 DEF ReportExit, turnVars, queueVars, agentVars
    <3>2. Places(a)' = Places(a)
      BY <2>3, <3>1
    <3> QED
      BY <2>1, <2>3, <3>2
  <2> QED
    BY <2>6, <2>7, <2>8, <2>9, <2>10, <2>11 DEF Read
<1> QED
  BY <1>1, <1>2, <1>3, <1>4, MovesKeep DEF Closes

LEMMA PollPlaces ==
  ASSUME PlacesInv,
         \/ (\E a \in Asks : TakeAnswer(a)) \/ (\E m \in Messages : Deliver(m) \/ Lose(m))
         \/ DrainEvents \/ SendAnswer \/ StartClose \/ CloseDrain \/ CloseSettle \/ CloseForget
  PROVE  PlacesInv'
<1> USE DEF PlacesInv
<1>1. HostTypes'
  BY PollTypes
<1>2. stdout' = stdout /\ agent' = agent /\ denial' = denial
  BY DEF TakeAnswer, Deliver, Lose, DrainEvents, SendAnswer, StartClose, CloseDrain, CloseSettle, CloseForget,
         PollRest, agentVars
<1>3. closing => closing'
  BY DEF TakeAnswer, Deliver, Lose, DrainEvents, SendAnswer, StartClose, CloseDrain, CloseSettle, CloseForget
<1>4. poller'[1] \in {"drain", "settle", "kill", "forget"} => closing'
  BY DEF TakeAnswer, Deliver, Lose, DrainEvents, SendAnswer, StartClose, CloseDrain, CloseSettle, CloseForget,
         Closes, Empty
<1>5. ASSUME NEW b \in Asks, Up
      PROVE  Places(b)' <= Places(b) /\ (closing' \/ Places(b)' = Places(b))
  <2> DEFINE so == Count(stdout, <<"ask", b>>)
             q == Count(queue, b)
             si == Count(stdin, <<"verdict", b>>)
             td == Count(todo, Verdict(b))
             q2 == Count(queue', b)
             si2 == Count(stdin', <<"verdict", b>>)
             td2 == Count(todo', Verdict(b))
             de == IF denial = b THEN 1 ELSE 0
             pl == IF poller = <<"answer", b>> THEN 1 ELSE 0
             pl2 == IF poller' = <<"answer", b>> THEN 1 ELSE 0
  <2>1. so \in Nat /\ q \in Nat /\ si \in Nat /\ td \in Nat /\ pl \in Nat /\ de \in Nat
    BY PlacesAreCounts
  <2>2. q2 \in Nat /\ si2 \in Nat /\ td2 \in Nat /\ pl2 \in Nat
    BY <1>1, CountType DEF HostTypes
  <2>3. /\ Places(b)' = so + q2 + si2 + td2 + de + pl2
        /\ Places(b) = so + q + si + td + de + pl
    BY <1>2 DEF Places
  <2>4. ASSUME NEW a \in Asks, TakeAnswer(a)
        PROVE  Places(b)' = Places(b)
    <3>1. /\ a \in ToSet(queue) /\ queue' = WithoutAsk(queue, a) /\ stdin' = stdin /\ todo' = todo
          /\ poller = Empty /\ poller' = <<"answer", a>>
      BY <2>4 DEF TakeAnswer, Polls, turnVars
    <3>2. queue \in Seq(Asks)
      BY DEF HostTypes
    <3>3. q2 = q - IF a = b THEN 1 ELSE 0
      <4>1. /\ \A x \in Asks : x # a => Count(WithoutAsk(queue, a), x) = Count(queue, x)
            /\ Count(WithoutAsk(queue, a), a)
                 = IF a \in ToSet(queue) THEN Count(queue, a) - 1 ELSE Count(queue, a)
        BY <3>2, WithoutIsTyped
      <4> QED
        BY <2>1, <3>1, <4>1
    <3>4. si2 = si /\ td2 = td /\ pl = 0 /\ pl2 = IF a = b THEN 1 ELSE 0
      BY <3>1 DEF Empty
    <3> HIDE DEF so, q, si, td, q2, si2, td2, de, pl, pl2
    <3> QED
      BY <2>1, <2>2, <2>3, <3>3, <3>4
  <2>5. CASE SendAnswer
    <3>1. /\ poller[1] = "answer" /\ poller' = Empty /\ Send(<<"verdict", poller[2]>>)
          /\ queue' = queue /\ todo' = todo
      BY <2>5 DEF SendAnswer, turnVars
    <3>2. poller[2] \in Asks /\ poller = <<"answer", poller[2]>>
      BY <3>1 DEF HostTypes, Steps
    <3>3. <<"verdict", poller[2]>> \in StdinLines
      BY <3>2, AsksAreTyped DEF StdinLines
    <3>4. si2 = si + IF <<"verdict", poller[2]>> = <<"verdict", b>> THEN 1 ELSE 0
      BY <1>5, <3>1, <3>3, SendIsTyped
    <3>5. q2 = q /\ td2 = td /\ pl2 = 0 /\ si2 = si + pl
      BY <3>1, <3>2, <3>4 DEF Empty
    <3> HIDE DEF so, q, si, td, q2, si2, td2, de, pl, pl2
    <3> QED
      BY <2>1, <2>3, <3>5
  <2>6. ASSUME NEW m \in Messages, Deliver(m)
        PROVE  Places(b)' = Places(b)
    <3>1. PICK r \in Asked : Drive("poller", r)
      BY <2>6, PollerAsks
    <3>2. td2 = td
      BY <3>1, DriveKeepsCount
    <3>3. queue' = queue /\ stdin' = stdin /\ poller' = poller
      BY <2>6 DEF Deliver
    <3>4. q2 = q /\ si2 = si /\ pl2 = pl
      BY <3>3
    <3> HIDE DEF so, q, si, td, q2, si2, td2, de, pl, pl2
    <3> QED
      BY <2>3, <3>2, <3>4
  <2>7. CASE DrainEvents \/ \E m \in Messages : Lose(m)
    <3>1. queue' = queue /\ stdin' = stdin /\ poller' = poller /\ todo' = todo
      BY <2>7 DEF DrainEvents, Lose, turnVars
    <3>2. q2 = q /\ si2 = si /\ td2 = td /\ pl2 = pl
      BY <3>1
    <3> HIDE DEF so, q, si, td, q2, si2, td2, de, pl, pl2
    <3> QED
      BY <2>1, <2>3, <3>2
  <2>8. CASE StartClose \/ CloseSettle \/ CloseForget
    <3>1. queue' = queue /\ stdin' = stdin /\ todo' = todo /\ closing' /\ poller'[1] # "answer"
      BY <2>8 DEF StartClose, CloseSettle, CloseForget, turnVars, Closes, Empty
    <3>2. q2 = q /\ si2 = si /\ td2 = td /\ pl2 = 0
      BY <3>1
    <3> HIDE DEF so, q, si, td, q2, si2, td2, de, pl, pl2
    <3> QED
      BY <2>1, <2>3, <3>1, <3>2
  <2>9. CASE CloseDrain
    <3>1. queue' = <<>> /\ stdin' = stdin /\ todo' = todo /\ closing' /\ poller'[1] # "answer"
      BY <2>9 DEF CloseDrain, turnVars, Closes
    <3>2. q2 = 0 /\ si2 = si /\ td2 = td /\ pl2 = 0
      BY <3>1, CountEmpty
    <3> HIDE DEF so, q, si, td, q2, si2, td2, de, pl, pl2
    <3> QED
      BY <2>1, <2>3, <3>1, <3>2
  <2>10. Places(b) \in Nat
    BY PlacesAreCounts
  <2> QED
    BY <2>4, <2>5, <2>6, <2>7, <2>8, <2>9, <2>10
<1> QED
  BY <1>1, <1>2, <1>3, <1>4, <1>5, MovesKeep

\* A dead agent waits on nothing.
LEMMA DeadPlaces ==
  ASSUME PlacesInv, CloseKill \/ Die
  PROVE  PlacesInv'
<1> USE DEF PlacesInv
<1>1. HostTypes'
  BY PollTypes, AgentTypes
<1>2. agent' = Agent("dead") /\ stdout' = stdout
  BY DEF CloseKill, Die
<1>3. ~ Up' /\ agent'.asks = {}
  BY <1>2 DEF Up, Agent
<1>4. Closes'
  <2>1. CASE CloseKill
    BY <2>1 DEF CloseKill, lifeVars, Closes
  <2>2. CASE Die
    BY <2>2 DEF Die, hostVars, lifeVars, Closes
  <2> QED
    BY <2>1, <2>2
<1> QED
  BY <1>1, <1>3, <1>4 DEF Fresh, TakenBack, OnePlace

\* The agent hears, asks and takes back; all else stays where it is.
LEMMA AgentPlaces ==
  ASSUME PlacesInv,
         Hear \/ RaiseAsk \/ (\E a \in Asks : TakeBack(a)) \/ (\E end \in {"succeeded", "failed"} : EndTurn(end))
  PROVE  PlacesInv'
<1> USE DEF PlacesInv
<1>1. HostTypes'
  BY AgentTypes
<1>2. /\ Up /\ queue' = queue /\ todo' = todo /\ denial' = denial /\ poller' = poller /\ closing' = closing
  <2>1. Up /\ hostVars' = hostVars
    BY DEF Hear, RaiseAsk, TakeBack, EndTurn
  <2> QED
    BY <2>1 DEF hostVars, turnVars, queueVars, lifeVars
<1>3. Closes'
  BY <1>2 DEF Closes
<1>4. /\ agent \in Agents /\ agent.asks \subseteq 1..agent.asked /\ agent.asked \in Nat
      /\ stdout \in Seq(StdoutLines) /\ stdin \in Seq(StdinLines) /\ agent.asks \subseteq Asks
  BY DEF HostTypes, Agents
<1>5. ASSUME NEW b \in Asks
      PROVE  /\ Places(b) \in Nat /\ Places(b)' \in Nat
             /\ Places(b)' = (Places(b) - Count(stdout, <<"ask", b>>) - Count(stdin, <<"verdict", b>>))
                             + Count(stdout', <<"ask", b>>) + Count(stdin', <<"verdict", b>>)
             /\ Count(stdout, <<"ask", b>>) \in Nat /\ Count(stdin, <<"verdict", b>>) \in Nat
             /\ Count(stdout, <<"ask", b>>) + Count(stdin, <<"verdict", b>>) <= Places(b)
  <2> DEFINE so == Count(stdout, <<"ask", b>>)
             q == Count(queue, b)
             si == Count(stdin, <<"verdict", b>>)
             td == Count(todo, Verdict(b))
             so2 == Count(stdout', <<"ask", b>>)
             si2 == Count(stdin', <<"verdict", b>>)
             de == IF denial = b THEN 1 ELSE 0
             pl == IF poller = <<"answer", b>> THEN 1 ELSE 0
  <2>1. so \in Nat /\ q \in Nat /\ si \in Nat /\ td \in Nat /\ pl \in Nat /\ de \in Nat
    BY PlacesAreCounts
  <2>2. so2 \in Nat /\ si2 \in Nat
    BY <1>1, CountType DEF HostTypes
  <2>3. /\ Places(b)' = so2 + q + si2 + td + de + pl
        /\ Places(b) = so + q + si + td + de + pl
    BY <1>2 DEF Places
  <2> HIDE DEF so, q, si, td, so2, si2, de, pl
  <2>4. /\ Places(b) \in Nat /\ Places(b)' \in Nat /\ Places(b)' = (Places(b) - so - si) + so2 + si2
        /\ so \in Nat /\ si \in Nat /\ so + si <= Places(b)
    BY <2>1, <2>2, <2>3
  <2> QED
    BY <2>4 DEF so, si, so2, si2
<1>6. CASE Hear
  <2> DEFINE line == Head(stdin)
  <2>1. stdin # <<>> /\ stdin' = Tail(stdin) /\ stdout' = stdout /\ line \in StdinLines
    BY <1>4, <1>6 DEF Hear
  <2>2. \A x : Count(Tail(stdin), x) = Count(stdin, x) - IF line = x THEN 1 ELSE 0
    BY <1>4, <2>1, CountTail
  <2>3. /\ agent'.asks \subseteq agent.asks /\ agent'.asked = agent.asked /\ agent'.is = agent.is
        /\ line[1] = "verdict" => line[2] \notin agent'.asks
    <3>1. CASE agent' = [agent EXCEPT !.run = line[2], !.cut = FALSE] /\ line[1] = "start"
      BY <1>4, <3>1 DEF Agents
    <3>2. CASE agent' = [agent EXCEPT !.asks = @ \ {line[2]}]
      BY <1>4, <3>2 DEF Agents
    <3>3. CASE agent' = [agent EXCEPT !.cut = agent.run # None] /\ line[1] = "cut"
      BY <1>4, <3>3 DEF Agents
    <3> QED
      BY <1>6, <3>1, <3>2, <3>3 DEF Hear
  <2> HIDE DEF line
  <2>4. ASSUME NEW b \in Asks
        PROVE  Places(b)' <= Places(b) /\ (b \in agent'.asks => Places(b)' = Places(b))
    <3>1. /\ Count(stdin', <<"verdict", b>>)
               = Count(stdin, <<"verdict", b>>) - IF line = <<"verdict", b>> THEN 1 ELSE 0
          /\ Count(stdout', <<"ask", b>>) = Count(stdout, <<"ask", b>>)
      BY <2>1, <2>2
    <3>2. b \in agent'.asks => line # <<"verdict", b>>
      BY <2>3
    <3> DEFINE so == Count(stdout, <<"ask", b>>)
               si == Count(stdin, <<"verdict", b>>)
               so2 == Count(stdout', <<"ask", b>>)
               si2 == Count(stdin', <<"verdict", b>>)
               p == Places(b)
    <3>3. /\ p \in Nat /\ so \in Nat /\ si \in Nat /\ Places(b)' = (p - so - si) + so2 + si2
          /\ si2 = si - (IF line = <<"verdict", b>> THEN 1 ELSE 0) /\ so2 = so
      BY <1>5, <3>1
    <3> HIDE DEF so, si, so2, si2, p
    <3>4. Places(b)' = p - IF line = <<"verdict", b>> THEN 1 ELSE 0
      BY <3>3
    <3>5. Places(b)' <= p /\ (b \in agent'.asks => Places(b)' = p)
      BY <3>2, <3>3, <3>4
    <3> QED
      BY <3>5 DEF p
  <2>5. Fresh'
    <3> SUFFICES ASSUME NEW b \in Asks, b > agent'.asked PROVE Places(b)' = 0
      BY DEF Fresh
    <3>1. Places(b) = 0
      BY <1>2, <2>3 DEF Fresh
    <3>2. Places(b)' <= 0 /\ Places(b)' \in Nat
      BY <1>5, <2>4, <3>1
    <3> DEFINE p == Places(b)'
    <3> HIDE DEF p
    <3>3. p <= 0 /\ p \in Nat
      BY <3>2 DEF p
    <3>4. p = 0
      BY <3>3
    <3> QED
      BY <3>4 DEF p
  <2>6. TakenBack'
    BY <1>2, <2>1, <2>3 DEF TakenBack, Up
  <2>7. OnePlace'
    BY <1>2, <1>4, <2>3, <2>4 DEF OnePlace
  <2> QED
    BY <1>1, <1>3, <2>5, <2>6, <2>7
<1>7. CASE RaiseAsk
  <2> DEFINE n == agent.asked + 1
  <2>1. n \in Asks /\ n \in Nat
    BY <1>4, <1>7, ClaudeHostAssumption DEF RaiseAsk, Asks
  <2>2. stdin' = stdin /\ stdout' = Append(stdout, <<"ask", n>>) /\ <<"ask", n>> \in StdoutLines
    BY <1>7, <2>1 DEF RaiseAsk, Says, StdoutLines
  <2>3. agent'.asks = agent.asks \cup {n} /\ agent'.asked = n /\ agent'.is = agent.is
    BY <1>4, <1>7 DEF RaiseAsk, Agents
  <2>4. \A i \in agent.asks : i \in Nat /\ i < n
    BY <1>4
  <2> HIDE DEF n
  <2>5. ASSUME NEW b \in Asks
        PROVE  Places(b)' = Places(b) + IF b = n THEN 1 ELSE 0
    <3>1. /\ Count(stdout', <<"ask", b>>)
               = Count(stdout, <<"ask", b>>) + IF <<"ask", n>> = <<"ask", b>> THEN 1 ELSE 0
          /\ Count(stdin', <<"verdict", b>>) = Count(stdin, <<"verdict", b>>)
      BY <1>4, <2>2, CountAppend
    <3> DEFINE so == Count(stdout, <<"ask", b>>)
               si == Count(stdin, <<"verdict", b>>)
               so2 == Count(stdout', <<"ask", b>>)
               si2 == Count(stdin', <<"verdict", b>>)
               p == Places(b)
    <3>2. /\ p \in Nat /\ so \in Nat /\ si \in Nat /\ Places(b)' = (p - so - si) + so2 + si2
          /\ so2 = so + (IF b = n THEN 1 ELSE 0) /\ si2 = si
      BY <1>5, <3>1
    <3> HIDE DEF so, si, so2, si2, p
    <3>3. Places(b)' = p + IF b = n THEN 1 ELSE 0
      BY <3>2
    <3> QED
      BY <3>3 DEF p
  <2>6. Places(n) = 0 /\ \A b \in Asks : b > n => Places(b) = 0
    <3>1. \A b \in Asks : b > agent.asked => Places(b) = 0
      BY <1>2 DEF Fresh
    <3>2. n > agent.asked /\ \A b \in Asks : b > n => b > agent.asked
      BY <1>4, AsksAreTyped DEF n
    <3> QED
      BY <2>1, <3>1, <3>2
  <2>7. \A b \in Asks : b \in Nat
    BY AsksAreTyped
  <2>8. Fresh'
    <3> SUFFICES ASSUME NEW b \in Asks, b > n PROVE Places(b)' = 0
      BY <2>3 DEF Fresh
    <3>1. b # n /\ Places(b) = 0
      BY <2>1, <2>6, <2>7
    <3> QED
      BY <2>5, <3>1
  <2>9. TakenBack'
    <3> SUFFICES ASSUME NEW i \in 1..Len(stdout'), stdout'[i][1] = "cancel"
                 PROVE  stdout'[i][2] \notin agent'.asks /\ stdout'[i][2] <= agent'.asked
      BY DEF TakenBack
    <3>1. i \in 1..Len(stdout) /\ stdout'[i] = stdout[i]
      BY <1>4, <2>2
    <3>2. stdout[i][2] \notin agent.asks /\ stdout[i][2] <= agent.asked
      BY <1>2, <3>1 DEF TakenBack
    <3>3. stdout[i][2] \in Asks
      <4>1. stdout[i] \in StdoutLines /\ stdout[i][1] = "cancel"
        BY <1>4, <3>1
      <4> QED
        BY <4>1 DEF StdoutLines
    <3>4. stdout[i][2] # n /\ stdout[i][2] <= n
      BY <1>4, <2>7, <3>2, <3>3 DEF n
    <3> QED
      BY <2>3, <3>1, <3>2, <3>4
  <2>10. OnePlace'
    <3> SUFFICES ASSUME ~ closing, NEW b \in agent'.asks PROVE Places(b)' = 1
      BY <1>2 DEF OnePlace
    <3>1. CASE b = n
      BY <2>1, <2>5, <2>6, <3>1
    <3>2. CASE b # n
      <4>1. b \in agent.asks /\ b \in Asks
        BY <1>4, <2>3, <3>2
      <4>2. Places(b) = 1
        BY <4>1 DEF OnePlace
      <4> QED
        BY <2>5, <3>2, <4>1, <4>2
    <3> QED
      BY <3>1, <3>2
  <2> QED
    BY <1>1, <1>3, <2>8, <2>9, <2>10
<1>8. ASSUME NEW asks, agent'.asks = asks, asks \subseteq agent.asks, agent'.asked = agent.asked,
             agent'.is = agent.is, stdin' = stdin,
             \A b \in Asks : Count(stdout', <<"ask", b>>) = Count(stdout, <<"ask", b>>),
             TakenBack'
      PROVE  PlacesInv'
  <2>1. ASSUME NEW b \in Asks PROVE Places(b)' = Places(b)
    <3> DEFINE so == Count(stdout, <<"ask", b>>)
               si == Count(stdin, <<"verdict", b>>)
               p == Places(b)
    <3>1. p \in Nat /\ so \in Nat /\ si \in Nat /\ Places(b)' = (p - so - si) + so + si
      BY <1>5, <1>8
    <3> HIDE DEF so, si, p
    <3>2. Places(b)' = p
      BY <3>1
    <3> QED
      BY <3>2 DEF p
  <2>2. Fresh'
    BY <1>2, <1>8, <2>1 DEF Fresh, Up
  <2>3. OnePlace'
    BY <1>2, <1>4, <1>8, <2>1 DEF OnePlace
  <2> QED
    BY <1>1, <1>3, <1>8, <2>2, <2>3
<1>9. ASSUME NEW a \in Asks, TakeBack(a) PROVE PlacesInv'
  <2>1. /\ stdin' = stdin /\ stdout' = Append(stdout, <<"cancel", a>>) /\ <<"cancel", a>> \in StdoutLines
        /\ a \in agent.asks /\ agent' = [agent EXCEPT !.asks = agent.asks \ {a}]
    BY <1>9 DEF TakeBack, Says, StdoutLines
  <2>2. agent'.asks = agent.asks \ {a} /\ agent'.asked = agent.asked /\ agent'.is = agent.is
    BY <1>4, <2>1 DEF Agents
  <2>3. ASSUME NEW b \in Asks PROVE Count(stdout', <<"ask", b>>) = Count(stdout, <<"ask", b>>)
    <3> DEFINE so == Count(stdout, <<"ask", b>>)
               so2 == Count(stdout', <<"ask", b>>)
    <3>1. so2 = so + IF <<"cancel", a>> = <<"ask", b>> THEN 1 ELSE 0
      BY <1>4, <2>1, CountAppend
    <3>2. <<"cancel", a>> # <<"ask", b>> /\ so \in Nat
      BY <1>5
    <3> HIDE DEF so, so2
    <3>3. so2 = so
      BY <3>1, <3>2
    <3> QED
      BY <3>3 DEF so, so2
  <2>4. TakenBack'
    <3> SUFFICES ASSUME NEW i \in 1..Len(stdout'), stdout'[i][1] = "cancel"
                 PROVE  stdout'[i][2] \notin agent'.asks /\ stdout'[i][2] <= agent'.asked
      BY DEF TakenBack
    <3>1. CASE i \in 1..Len(stdout) /\ stdout'[i] = stdout[i]
      BY <1>2, <2>2, <3>1 DEF TakenBack
    <3>2. CASE stdout'[i] = <<"cancel", a>>
      BY <1>4, <2>1, <2>2, <3>2
    <3>3. \/ i \in 1..Len(stdout) /\ stdout'[i] = stdout[i]
          \/ stdout'[i] = <<"cancel", a>>
      BY <1>4, <2>1
    <3> QED
      BY <3>1, <3>2, <3>3
  <2> QED
    BY <1>8, <2>1, <2>2, <2>3, <2>4
<1>10. ASSUME NEW end \in {"succeeded", "failed"}, EndTurn(end) PROVE PlacesInv'
  <2>1. /\ stdin' = stdin /\ agent' = [agent EXCEPT !.run = None, !.cut = FALSE]
    BY <1>10 DEF EndTurn
  <2>2. PICK report \in {<<>>, <<<<"reported", None>>>>} : stdout' = stdout \o report \o <<<<"ended", end>>>>
    BY <1>10 DEF EndTurn
  <2>3. agent'.asks = agent.asks /\ agent'.asked = agent.asked /\ agent'.is = agent.is
    BY <1>4, <2>1 DEF Agents
  <2> DEFINE told == report \o <<<<"ended", end>>>>
  <2>4. /\ told \in Seq(StdoutLines) /\ stdout' = stdout \o told
        /\ \A i \in 1..Len(told) : told[i][1] \in {"reported", "ended"}
    <3>1. <<"reported", None>> \in StdoutLines /\ <<"ended", end>> \in StdoutLines
      BY DEF StdoutLines
    <3>2. /\ <<>> \in Seq(StdoutLines) /\ <<<<"reported", None>>>> \in Seq(StdoutLines)
          /\ <<<<"ended", end>>>> \in Seq(StdoutLines)
      BY <3>1, EmptySeq
    <3>3. report \in Seq(StdoutLines) /\ Len(report) \in {0, 1} /\ \A i \in 1..Len(report) : report[i] = <<"reported", None>>
      <4>1. CASE report = <<>>
        BY <3>2, <4>1
      <4>2. CASE report = <<<<"reported", None>>>>
        <5>1. Len(report) = 1 /\ report[1] = <<"reported", None>>
          BY <4>2
        <5> QED
          BY <3>2, <4>2, <5>1
      <4> QED
        BY <4>1, <4>2
    <3>4. told \in Seq(StdoutLines) /\ stdout' = stdout \o told
      BY <1>4, <2>2, <3>2, <3>3
    <3>5. \A i \in 1..Len(told) : told[i] = <<"reported", None>> \/ told[i] = <<"ended", end>>
      BY <3>2, <3>3
    <3> QED
      BY <3>4, <3>5
  <2> HIDE DEF told
  <2>5. ASSUME NEW b \in Asks PROVE Count(stdout', <<"ask", b>>) = Count(stdout, <<"ask", b>>)
    <3>1. Count(stdout \o told, <<"ask", b>>) = Count(stdout, <<"ask", b>>) + Count(told, <<"ask", b>>)
      BY <1>4, <2>4, CountConcat
    <3>2. \A i \in 1..Len(told) : told[i] # <<"ask", b>>
      <4>1. <<"ask", b>>[1] = "ask"
        OBVIOUS
      <4> QED
        BY <2>4, <4>1
    <3>3. Count(told, <<"ask", b>>) = 0
      BY <2>4, <3>2, CountType
    <3> DEFINE so == Count(stdout, <<"ask", b>>)
    <3>4. Count(stdout', <<"ask", b>>) = so + 0 /\ so \in Nat
      BY <1>5, <2>4, <3>1, <3>3
    <3> HIDE DEF so
    <3>5. Count(stdout', <<"ask", b>>) = so
      BY <3>4
    <3> QED
      BY <3>5 DEF so
  <2>6. TakenBack'
    <3> SUFFICES ASSUME NEW i \in 1..Len(stdout'), stdout'[i][1] = "cancel"
                 PROVE  stdout'[i][2] \notin agent'.asks /\ stdout'[i][2] <= agent'.asked
      BY DEF TakenBack
    <3>1. \/ i \in 1..Len(stdout) /\ stdout'[i] = stdout[i]
          \/ i - Len(stdout) \in 1..Len(told) /\ stdout'[i] = told[i - Len(stdout)]
      BY <1>4, <2>4
    <3>2. i \in 1..Len(stdout) /\ stdout'[i] = stdout[i]
      BY <2>4, <3>1
    <3> QED
      BY <1>2, <2>3, <3>2 DEF TakenBack
  <2> QED
    BY <1>8, <2>1, <2>3, <2>5, <2>6
<1> QED
  BY <1>6, <1>7, <1>9, <1>10

LEMMA PlacesInit ==
  ASSUME Init
  PROVE  PlacesInv
<1>1. agent.is = "up" /\ agent.asks = {} /\ agent.asked = 0 /\ agent \in Agents
  BY DEF Init, Agent, Agents, Whats
<1>2. turns \in AllTurns
  <2>1. <<>> \in Seq(Texts) /\ <<>> \in Seq(Messages)
    BY EmptySeq
  <2> QED
    BY <2>1 DEF Init, NoTurns, NoTurn, AllTurns
<1>3. HostTypes
  <2>1. /\ <<>> \in Seq(Acts) /\ <<>> \in Seq(Asks) /\ <<>> \in Seq(StdinLines) /\ <<>> \in Seq(StdoutLines)
        /\ Empty \in Steps
    BY EmptySeq DEF Empty, Steps
  <2>2. 0 <= MaxAsks
    BY ClaudeHostAssumption
  <2> QED
    BY <1>1, <1>2, <2>1, <2>2 DEF Init, HostTypes, Up
<1>4. \A a \in Asks : Places(a) = 0
  BY CountEmpty, AsksAreTyped DEF Init, Places, Empty
<1>5. Fresh /\ Closes /\ OnePlace
  BY <1>1, <1>4 DEF Fresh, Closes, OnePlace, Init, Empty
<1>6. TakenBack
  BY DEF TakenBack, Init
<1> QED
  BY <1>3, <1>5, <1>6 DEF PlacesInv

LEMMA PlacesStep ==
  ASSUME PlacesInv, [Next]_claudeVars
  PROVE  PlacesInv'
<1>1. CASE UNCHANGED claudeVars
  BY <1>1 DEF PlacesInv, HostTypes, Fresh, TakenBack, Closes, OnePlace, Places, Up,
              claudeVars, hostVars, turnVars, queueVars, lifeVars, agentVars
<1>2. CASE Next
  BY <1>2, PerformPlaces, ReadPlaces, PollPlaces, DeadPlaces, AgentPlaces DEF Next, Progress, Unforced
<1> QED
  BY <1>1, <1>2

\* A request of the agent is always in one place, until the worker is closed:
\* none is forgotten and none is answered twice, while answers, interrupts,
\* new requests and requests taken back cross each other.
THEOREM RequestsHaveOnePlace == Spec => []OnePlace
<1>1. Init => PlacesInv
  BY PlacesInit
<1>2. PlacesInv /\ [Next]_claudeVars => PlacesInv'
  BY PlacesStep
<1>3. PlacesInv => OnePlace
  BY DEF PlacesInv
<1> QED
  BY <1>1, <1>2, <1>3, PTL DEF Spec

(***************************************************************************)
(* How often a sequence has an entry of one kind.                          *)
(***************************************************************************)
Names ==
  {"start", "emit", "interrupt", "result", "snapshot", "unreported", "failure", "verdict", "cut",
   "ask", "cancel", "reported", "ended"}
CountBy(f, s, y) == Count([i \in 1..Len(s) |-> f[s[i]]], y)

LEMMA ByType ==
  ASSUME NEW S, NEW f \in [S -> Names], NEW s \in Seq(S), NEW y
  PROVE  /\ CountBy(f, s, y) \in Nat
         /\ CountBy(f, s, y) = 0 <=> \A i \in 1..Len(s) : f[s[i]] # y
<1> DEFINE m == [i \in 1..Len(s) |-> f[s[i]]]
<1>1. m \in Seq(Names) /\ Len(m) = Len(s) /\ \A i \in 1..Len(s) : m[i] = f[s[i]]
  <2>1. \A i \in 1..Len(s) : f[s[i]] \in Names
    OBVIOUS
  <2> QED
    BY <2>1
<1>2. CountBy(f, s, y) = Count(m, y)
  BY DEF CountBy
<1> HIDE DEF m
<1>3. Count(m, y) \in Nat /\ (Count(m, y) = 0 <=> \A i \in 1..Len(m) : m[i] # y)
  BY <1>1, CountType
<1> QED
  BY <1>1, <1>2, <1>3

LEMMA ByConcat ==
  ASSUME NEW S, NEW f \in [S -> Names], NEW s \in Seq(S), NEW t \in Seq(S), NEW y
  PROVE  CountBy(f, s \o t, y) = CountBy(f, s, y) + CountBy(f, t, y)
<1> DEFINE a == [i \in 1..Len(s) |-> f[s[i]]]
           b == [i \in 1..Len(t) |-> f[t[i]]]
           c == [i \in 1..Len(s \o t) |-> f[(s \o t)[i]]]
<1>1. a \in Seq(Names) /\ b \in Seq(Names) /\ Len(a) = Len(s) /\ Len(b) = Len(t)
  <2>1. /\ \A i \in 1..Len(s) : f[s[i]] \in Names
        /\ \A i \in 1..Len(t) : f[t[i]] \in Names
    OBVIOUS
  <2> QED
    BY <2>1
<1>2. c = a \o b
  <2>1. /\ Len(s \o t) = Len(s) + Len(t) /\ Len(s) \in Nat /\ Len(t) \in Nat
        /\ \A i \in 1..(Len(s) + Len(t)) : (s \o t)[i] = IF i <= Len(s) THEN s[i] ELSE t[i - Len(s)]
    OBVIOUS
  <2> DEFINE ab == a \o b
  <2>2. /\ ab = [i \in 1..(Len(s) + Len(t)) |-> ab[i]]
        /\ \A i \in 1..(Len(s) + Len(t)) : ab[i] = IF i <= Len(s) THEN a[i] ELSE b[i - Len(s)]
    <3> HIDE DEF a, b
    <3>1. /\ ab \in Seq(Names) /\ Len(ab) = Len(a) + Len(b)
          /\ \A i \in 1..(Len(a) + Len(b)) : ab[i] = IF i <= Len(a) THEN a[i] ELSE b[i - Len(a)]
      BY <1>1, ConcatProperties
    <3> HIDE DEF ab
    <3>2. ab \in [1..Len(ab) -> Names]
      BY <3>1
    <3> QED
      BY <1>1, <3>1, <3>2
  <2> HIDE DEF ab
  <2>3. \A i \in 1..(Len(s) + Len(t)) : c[i] = ab[i]
    <3> SUFFICES ASSUME NEW i \in 1..(Len(s) + Len(t)) PROVE c[i] = ab[i]
      OBVIOUS
    <3>1. CASE i <= Len(s)
      <4>1. i \in 1..Len(s) /\ (s \o t)[i] = s[i]
        BY <2>1, <3>1
      <4>2. ab[i] = a[i] /\ a[i] = f[s[i]]
        BY <2>2, <3>1, <4>1
      <4>3. c[i] = f[(s \o t)[i]]
        BY <2>1
      <4> QED
        BY <4>1, <4>2, <4>3
    <3>2. CASE ~ (i <= Len(s))
      <4>1. i - Len(s) \in 1..Len(t)
        BY <2>1, <3>2
      <4> QED
        BY <2>1, <2>2, <3>2, <4>1
    <3> QED
      BY <3>1, <3>2
  <2>4. c = [i \in 1..(Len(s) + Len(t)) |-> c[i]]
    BY <2>1
  <2> HIDE DEF c
  <2>5. c = ab
    BY <2>2, <2>3, <2>4
  <2> QED
    BY <2>5 DEF ab
<1>3. CountBy(f, s, y) = Count(a, y) /\ CountBy(f, t, y) = Count(b, y) /\ CountBy(f, s \o t, y) = Count(c, y)
  BY DEF CountBy
<1> HIDE DEF a, b, c
<1>4. Count(a \o b, y) = Count(a, y) + Count(b, y)
  BY <1>1, CountConcat
<1> QED
  BY <1>2, <1>3, <1>4

LEMMA ByOne ==
  ASSUME NEW S, NEW f \in [S -> Names], NEW x \in S, NEW y
  PROVE  CountBy(f, <<x>>, y) = IF f[x] = y THEN 1 ELSE 0
<1>1. [i \in 1..Len(<<x>>) |-> f[<<x>>[i]]] = <<f[x]>>
  OBVIOUS
<1> QED
  BY <1>1, CountOne DEF CountBy

LEMMA ByEmpty == \A f, y : CountBy(f, <<>>, y) = 0
<1> TAKE f, y
<1>1. [i \in 1..Len(<<>>) |-> f[<<>>[i]]] = <<>>
  OBVIOUS
<1> QED
  BY <1>1, CountEmpty DEF CountBy

LEMMA ByAppend ==
  ASSUME NEW S, NEW f \in [S -> Names], NEW s \in Seq(S), NEW x \in S, NEW y
  PROVE  CountBy(f, Append(s, x), y) = CountBy(f, s, y) + IF f[x] = y THEN 1 ELSE 0
<1>1. Append(s, x) = s \o <<x>> /\ <<x>> \in Seq(S)
  OBVIOUS
<1>2. CountBy(f, s \o <<x>>, y) = CountBy(f, s, y) + CountBy(f, <<x>>, y)
  BY <1>1, ByConcat
<1> QED
  BY <1>1, <1>2, ByOne

LEMMA ByTail ==
  ASSUME NEW S, NEW f \in [S -> Names], NEW s \in Seq(S), s # <<>>, NEW y
  PROVE  CountBy(f, Tail(s), y) = CountBy(f, s, y) - IF f[Head(s)] = y THEN 1 ELSE 0
<1> DEFINE x == Head(s)
           t == Tail(s)
<1>1. s = <<x>> \o t /\ <<x>> \in Seq(S) /\ t \in Seq(S) /\ x \in S
  OBVIOUS
<1> HIDE DEF x, t
<1>2. CountBy(f, <<x>> \o t, y) = CountBy(f, <<x>>, y) + CountBy(f, t, y)
  BY <1>1, ByConcat
<1>3. CountBy(f, <<x>>, y) = IF f[x] = y THEN 1 ELSE 0
  BY <1>1, ByOne
<1>4. CountBy(f, t, y) \in Nat
  BY <1>1, ByType
<1>5. CountBy(f, s, y) = (IF f[x] = y THEN 1 ELSE 0) + CountBy(f, t, y)
  BY <1>1, <1>2, <1>3
<1>6. CountBy(f, t, y) = CountBy(f, s, y) - IF f[x] = y THEN 1 ELSE 0
  BY <1>4, <1>5
<1> QED
  BY <1>6 DEF x, t

(***************************************************************************)
(* What an operation makes of the turns: at most one turn runs, and none   *)
(* while messages wait; every start, end and interrupt is told.            *)
(***************************************************************************)
ActName == [x \in Acts |-> x.act]
Starts(acts) == CountBy(ActName, acts, "start")
Does(acts, act, what) == \E i \in 1..Len(acts) : acts[i].act = act /\ acts[i].what = what
Cuts(acts) == \E i \in 1..Len(acts) : acts[i].act = "interrupt"
Listed(s, m) == \E i \in 1..Len(s) : s[i] = m
Running(t) == IF t.running # None THEN 1 ELSE 0

Fits(t) ==
  /\ t.busy = (t.running # None)
  /\ t.pending # <<>> => t.running # None
  /\ t.interrupts # <<>> => t.running # None /\ ~ t.gone
Bound(t) == t.running # None => t.turn # NoTurn

\* From the turns t to r, where a turn that ended counts no more.
Deals(t, r, before) ==
  /\ Fits(r.t) /\ r.t.gone = t.gone /\ (Starts(r.acts) = 0 => Bound(r.t))
  /\ Starts(r.acts) = Running(r.t) - before /\ ~ Does(r.acts, "start", None)
  /\ Cuts(r.acts) => r.t.running # None
  /\ t.running # None /\ r.t.running = None => Does(r.acts, "emit", "TurnEnded")
  /\ \A m \in Messages : Listed(t.interrupts, m) => Listed(r.t.interrupts, m) \/ Does(r.acts, "result", m)

LEMMA ActNames ==
  /\ ActName \in [Acts -> Names] /\ \A x \in Acts : ActName[x] = x.act
  /\ Seq(TurnActs) \subseteq Seq(Acts)
<1>1. \A x \in TurnActs : x.act \in Names
  BY DEF TurnActs, Names
<1>2. \A a : Verdict(a).act \in Names
  BY DEF Verdict, Names
<1>3. \A x \in [act : {"cut"}, what : Whats, how : {None}] : x.act \in Names
  BY DEF Names
<1>4. \A x \in Acts : x.act \in Names
  BY <1>1, <1>2, <1>3 DEF Acts
<1>5. Seq(TurnActs) \subseteq Seq(Acts)
  BY AsksAreTyped, SeqMonotonic
<1> QED
  BY <1>4, <1>5 DEF ActName

\* Actions that follow one another.
LEMMA ActsConcat ==
  ASSUME NEW a \in Seq(Acts), NEW b \in Seq(Acts)
  PROVE  /\ a \o b \in Seq(Acts) /\ Starts(a \o b) = Starts(a) + Starts(b)
         /\ Starts(a) \in Nat /\ Starts(b) \in Nat
         /\ Cuts(a \o b) => Cuts(a) \/ Cuts(b)
         /\ \A act, what : Does(a, act, what) \/ Does(b, act, what) <=> Does(a \o b, act, what)
<1>1. /\ Len(a) \in Nat /\ Len(b) \in Nat /\ Len(a \o b) = Len(a) + Len(b)
      /\ \A i \in 1..(Len(a) + Len(b)) : (a \o b)[i] = IF i <= Len(a) THEN a[i] ELSE b[i - Len(a)]
  OBVIOUS
<1>2. Starts(a \o b) = Starts(a) + Starts(b) /\ Starts(a) \in Nat /\ Starts(b) \in Nat
  BY ActNames, ByConcat, ByType DEF Starts
<1> DEFINE c == a \o b
<1>3. \A i \in 1..Len(a) : i \in 1..Len(c) /\ c[i] = a[i]
  BY <1>1
<1>4. \A j \in 1..Len(b) : j + Len(a) \in 1..Len(c) /\ c[j + Len(a)] = b[j]
  <2> SUFFICES ASSUME NEW j \in 1..Len(b) PROVE j + Len(a) \in 1..Len(c) /\ c[j + Len(a)] = b[j]
    OBVIOUS
  <2>1. j + Len(a) \in 1..(Len(a) + Len(b)) /\ ~ (j + Len(a) <= Len(a)) /\ (j + Len(a)) - Len(a) = j
    BY <1>1
  <2> QED
    BY <1>1, <2>1
<1>5. \A i \in 1..Len(c) : \/ i \in 1..Len(a) /\ c[i] = a[i]
                           \/ i - Len(a) \in 1..Len(b) /\ c[i] = b[i - Len(a)]
  BY <1>1
<1>6. c \in Seq(Acts)
  OBVIOUS
<1> HIDE DEF c
<1>7. Cuts(c) => Cuts(a) \/ Cuts(b)
  BY <1>5 DEF Cuts
<1>8. \A act, what : Does(a, act, what) \/ Does(b, act, what) <=> Does(c, act, what)
  <2> TAKE act, what
  <2>1. Does(c, act, what) => Does(a, act, what) \/ Does(b, act, what)
    BY <1>5 DEF Does
  <2>2. Does(a, act, what) => Does(c, act, what)
    BY <1>3 DEF Does
  <2>3. Does(b, act, what) => Does(c, act, what)
    BY <1>4 DEF Does
  <2> QED
    BY <2>1, <2>2, <2>3
<1> QED
  BY <1>2, <1>6, <1>7, <1>8 DEF c

LEMMA NoActs ==
  /\ <<>> \in Seq(Acts) /\ <<>> \in Seq(TurnActs) /\ Starts(<<>>) = 0 /\ ~ Cuts(<<>>)
  /\ \A act, what : ~ Does(<<>>, act, what)
<1>1. Starts(<<>>) = 0
  BY ByEmpty DEF Starts
<1> QED
  BY <1>1, EmptySeq DEF Cuts, Does

LEMMA OneAct ==
  ASSUME NEW act, NEW what, NEW how, [act |-> act, what |-> what, how |-> how] \in TurnActs
  PROVE  /\ Do(act, what, how) \in Seq(Acts) /\ Do(act, what, how) \in Seq(TurnActs)
         /\ Starts(Do(act, what, how)) = (IF act = "start" THEN 1 ELSE 0)
         /\ Cuts(Do(act, what, how)) => act = "interrupt"
         /\ \A a, w : Does(Do(act, what, how), a, w) <=> a = act /\ w = what
<1> DEFINE x == [act |-> act, what |-> what, how |-> how]
<1>1. x \in Acts /\ x.act = act /\ x.what = what /\ x \in TurnActs
  BY AsksAreTyped
<1>2. Do(act, what, how) = <<x>>
  BY DEF Do
<1> HIDE DEF x
<1>3. Starts(<<x>>) = IF act = "start" THEN 1 ELSE 0
  <2>1. CountBy(ActName, <<x>>, "start") = IF ActName[x] = "start" THEN 1 ELSE 0
    BY <1>1, ActNames, ByOne
  <2>2. ActName[x] = act
    BY <1>1, ActNames
  <2> QED
    BY <2>1, <2>2 DEF Starts
<1>4. /\ Len(<<x>>) = 1 /\ <<x>>[1] = x /\ <<x>> \in Seq(Acts) /\ <<x>> \in Seq(TurnActs)
      /\ 1 \in 1..1 /\ \A i \in 1..1 : i = 1
  BY <1>1
<1> QED
  BY <1>1, <1>2, <1>3, <1>4 DEF Cuts, Does

\* The results of interrupts.
LEMMA EachResult ==
  ASSUME NEW items \in Seq(Messages), NEW how \in {"sent", "gone", "cancelled"}
  PROVE  /\ Each("result", items, how) \in Seq(Acts) /\ Starts(Each("result", items, how)) = 0
         /\ ~ Cuts(Each("result", items, how)) /\ ~ Does(Each("result", items, how), "start", None)
         /\ \A m : Listed(items, m) => Does(Each("result", items, how), "result", m)
<1> DEFINE a == Each("result", items, how)
<1>1. a \in Seq(TurnActs)
  BY EachIsTyped
<1>2. Len(a) = Len(items) /\ \A i \in 1..Len(items) : a[i].act = "result" /\ a[i].what = items[i]
  BY DEF Each
<1> HIDE DEF a
<1>3. a \in Seq(Acts)
  BY <1>1, ActNames
<1>4. Starts(a) = 0
  <2>1. \A i \in 1..Len(a) : a[i] \in Acts /\ a[i].act # "start"
    BY <1>2, <1>3
  <2>2. \A i \in 1..Len(a) : ActName[a[i]] # "start"
    BY <2>1, ActNames
  <2> QED
    BY <1>3, <2>2, ActNames, ByType DEF Starts
<1>5. ~ Cuts(a) /\ ~ Does(a, "start", None) /\ \A m : Listed(items, m) => Does(a, "result", m)
  BY <1>2 DEF Cuts, Listed, Does
<1> QED
  BY <1>3, <1>4, <1>5 DEF a

\* The turns before the next message starts.
Ready(t) ==
  /\ t.busy = (t.running # None)
  /\ t.interrupts # <<>> => t.running # None /\ ~ t.gone
  /\ Bound(t)

LEMMA AdvanceDeals ==
  ASSUME NEW t \in AllTurns, Ready(t)
  PROVE  Deals(t, Advance(t), Running(t))
<1>1. CASE t.running # None \/ t.pending = <<>>
  <2>1. Advance(t) = With(t, <<>>) /\ With(t, <<>>).t = t /\ With(t, <<>>).acts = <<>>
    BY <1>1 DEF Advance, With
  <2>2. Fits(t)
    BY <1>1 DEF Ready, Fits
  <2>3. Starts(<<>>) = Running(t) - Running(t) /\ ~ Cuts(<<>>) /\ ~ Does(<<>>, "start", None)
    BY NoActs DEF Running
  <2> QED
    BY <2>1, <2>2, <2>3 DEF Deals, Ready
<1>2. CASE ~ (t.running # None \/ t.pending = <<>>)
  <2> DEFINE next == [StartQueued(t) EXCEPT !.running = Head(t.pending), !.reported = FALSE,
                                            !.previous = t.turn, !.turn = NoTurn, !.sent = FALSE]
             tell == Do("emit", "TurnStarted", None)
             start == Do("start", Head(t.pending), None)
             acts == tell \o start
  <2>1. Head(t.pending) \in Texts /\ Tail(t.pending) \in Seq(Texts)
    BY <1>2 DEF AllTurns
  <2>2. Head(t.pending) # None
    BY <2>1, ClaudeHostAssumption DEF Texts, Messages, None, Reminder
  <2>3. /\ next.busy = TRUE /\ next.running = Head(t.pending) /\ next.interrupts = t.interrupts
        /\ next.gone = t.gone
    BY DEF StartQueued, AllTurns
  <2>4. t.interrupts = <<>>
    BY <1>2 DEF Ready
  <2>5. Fits(next)
    BY <2>2, <2>3, <2>4 DEF Fits
  <2>6. [act |-> "emit", what |-> "TurnStarted", how |-> None] \in TurnActs
    BY DEF TurnActs, Whats
  <2>7. [act |-> "start", what |-> Head(t.pending), how |-> None] \in TurnActs
    BY <2>1 DEF TurnActs, Whats
  <2>8. tell \in Seq(Acts) /\ Starts(tell) = 0 /\ ~ Cuts(tell) /\ ~ Does(tell, "start", None)
    BY <2>6, OneAct
  <2>9. start \in Seq(Acts) /\ Starts(start) = 1 /\ ~ Cuts(start) /\ ~ Does(start, "start", None)
    BY <2>2, <2>7, OneAct
  <2>10. Advance(t) = With(next, acts) /\ With(next, acts).t = next /\ With(next, acts).acts = acts
    BY <1>2 DEF Advance, With
  <2>11. Running(t) = 0 /\ Running(next) = 1
    BY <1>2, <2>2, <2>3 DEF Running
  <2> HIDE DEF next, tell, start
  <2>12. Starts(acts) = 1 /\ ~ Cuts(acts) /\ ~ Does(acts, "start", None)
    BY <2>8, <2>9, ActsConcat
  <2> HIDE DEF acts
  <2>13. \A m \in Messages : ~ Listed(t.interrupts, m)
    BY <2>4 DEF Listed
  <2> QED
    BY <1>2, <2>2, <2>3, <2>5, <2>10, <2>11, <2>12, <2>13 DEF Deals
<1> QED
  BY <1>1, <1>2

LEMMA SendDeals ==
  ASSUME NEW t \in AllTurns, Fits(t)
  PROVE  LET r == SendInterrupt(t) IN
         /\ r \in Asked /\ Fits(r.t) /\ r.t.turn = t.turn /\ r.t.running = t.running
         /\ r.t.interrupts = t.interrupts /\ r.t.gone = t.gone
         /\ Starts(r.acts) = 0 /\ ~ Does(r.acts, "start", None)
         /\ r.acts \in Seq(Acts)
         /\ Cuts(r.acts) => t.running # None
<1> DEFINE r == SendInterrupt(t)
<1>1. r \in Asked
  BY SendInterruptIsTyped
<1>2. CASE t.turn # NoTurn /\ t.interrupts # <<>> /\ ~ t.sent
  <2> DEFINE next == [t EXCEPT !.sent = TRUE]
             acts == Do("interrupt", t.turn, None)
  <2>1. r = With(next, acts) /\ r.t = next /\ r.acts = acts
    BY <1>2 DEF SendInterrupt, With
  <2>2. /\ next.turn = t.turn /\ next.running = t.running /\ next.interrupts = t.interrupts
        /\ next.busy = t.busy /\ next.pending = t.pending /\ next.gone = t.gone
    BY DEF AllTurns
  <2>3. [act |-> "interrupt", what |-> t.turn, how |-> None] \in TurnActs
    BY DEF TurnActs, Whats, AllTurns
  <2>4. Starts(acts) = 0 /\ acts \in Seq(Acts) /\ ~ Does(acts, "start", None)
    BY <2>3, OneAct
  <2>5. t.running # None
    BY <1>2 DEF Fits
  <2>6. Fits(next)
    BY <2>2 DEF Fits
  <2> HIDE DEF next, acts, r
  <2> QED
    BY <1>1, <2>1, <2>2, <2>4, <2>5, <2>6 DEF r
<1>3. CASE ~ (t.turn # NoTurn /\ t.interrupts # <<>> /\ ~ t.sent)
  <2>1. r = With(t, <<>>) /\ r.t = t /\ r.acts = <<>>
    BY <1>3 DEF SendInterrupt, With
  <2> HIDE DEF r
  <2> QED
    BY <1>1, <2>1, NoActs DEF r
<1> QED
  BY <1>2, <1>3

LEMMA AcceptDeals ==
  ASSUME NEW t \in AllTurns, Fits(t), Bound(t), NEW text \in Messages
  PROVE  Deals(t, Accept(t, text), Running(t))
<1> DEFINE q == QueuePrompt(t, text)
<1>1. q \in AllTurns
  BY QueueIsTyped DEF Texts
<1>2. /\ q.running = t.running /\ q.interrupts = t.interrupts /\ q.busy = t.busy /\ q.gone = t.gone
      /\ q.turn = t.turn
  BY DEF QueuePrompt, AllTurns
<1> HIDE DEF q
<1>3. Ready(q)
  BY <1>2 DEF Ready, Fits, Bound
<1>4. Deals(q, Advance(q), Running(q)) /\ Running(q) = Running(t)
  BY <1>1, <1>2, <1>3, AdvanceDeals DEF Running
<1>5. Accept(t, text) = Advance(q)
  BY DEF Accept, q
<1> QED
  BY <1>2, <1>4, <1>5 DEF Deals

LEMMA GoneDeals ==
  ASSUME NEW t \in AllTurns, Fits(t), Bound(t)
  PROVE  Deals([t EXCEPT !.gone = TRUE], ProcessGone(t), Running(t))
<1> DEFINE g == [t EXCEPT !.gone = TRUE]
           next == [g EXCEPT !.interrupts = <<>>]
           acts == Each("result", t.interrupts, "gone")
<1>1. g.interrupts = t.interrupts /\ g.gone /\ g.running = t.running /\ t.interrupts \in Seq(Messages)
  BY DEF AllTurns
<1>2. /\ next.interrupts = <<>> /\ next.running = t.running /\ next.busy = t.busy
      /\ next.pending = t.pending /\ next.turn = t.turn /\ next.gone = g.gone
  BY DEF AllTurns
<1>3. ProcessGone(t).t = next /\ ProcessGone(t).acts = acts
  BY <1>1 DEF ProcessGone, Resolve, With
<1> HIDE DEF g, next, acts
<1>4. /\ Starts(acts) = 0 /\ ~ Cuts(acts) /\ ~ Does(acts, "start", None)
      /\ \A m : Listed(t.interrupts, m) => Does(acts, "result", m)
  BY <1>1, EachResult DEF acts
<1>5. Fits(next) /\ Bound(next) /\ Running(next) = Running(t)
  BY <1>2 DEF Fits, Bound, Running
<1>6. Starts(acts) = Running(next) - Running(t)
  BY <1>4, <1>5 DEF Running
<1>7. Deals(g, ProcessGone(t), Running(t))
  BY <1>1, <1>2, <1>3, <1>4, <1>5, <1>6 DEF Deals
<1> QED
  BY <1>7 DEF g

LEMMA ReportedDeals ==
  ASSUME NEW t \in AllTurns, Fits(t), Bound(t)
  PROVE  Deals(t, Reported(t), Running(t))
<1>1. CASE t.running # None /\ ~ t.reported
  <2> DEFINE next == [t EXCEPT !.reported = TRUE]
             acts == Do("emit", "Reported", None)
  <2>1. Reported(t).t = next /\ Reported(t).acts = acts
    BY <1>1 DEF Reported, With
  <2>2. /\ next.turn = t.turn /\ next.running = t.running /\ next.interrupts = t.interrupts
        /\ next.busy = t.busy /\ next.pending = t.pending /\ next.gone = t.gone
    BY DEF AllTurns
  <2>3. [act |-> "emit", what |-> "Reported", how |-> None] \in TurnActs
    BY DEF TurnActs, Whats
  <2>4. Starts(acts) = 0 /\ ~ Cuts(acts) /\ ~ Does(acts, "start", None)
    BY <2>3, OneAct
  <2> HIDE DEF next, acts
  <2>5. Fits(next) /\ Bound(next) /\ Running(next) = Running(t)
    BY <2>2 DEF Fits, Bound, Running
  <2>6. Starts(acts) = Running(next) - Running(t)
    BY <2>4, <2>5 DEF Running
  <2> QED
    BY <1>1, <2>1, <2>2, <2>4, <2>5, <2>6 DEF Deals
<1>2. CASE ~ (t.running # None /\ ~ t.reported)
  <2>1. Reported(t).t = t /\ Reported(t).acts = <<>>
    BY <1>2 DEF Reported, With
  <2>2. Starts(<<>>) = Running(t) - Running(t) /\ ~ Cuts(<<>>) /\ ~ Does(<<>>, "start", None)
    BY NoActs DEF Running
  <2> QED
    BY <2>1, <2>2 DEF Deals
<1> QED
  BY <1>1, <1>2

\* What the turns ask for, then what they ask for next.
LEMMA ThenDeals ==
  ASSUME NEW t, NEW a \in Seq(Acts), Starts(a) = 0, ~ Cuts(a), ~ Does(a, "start", None), NEW next, NEW r, NEW before,
         r.acts \in Seq(Acts), Deals(next, r, before), Running(next) = before, next.gone = t.gone,
         t.running # None => next.running # None \/ Does(a, "emit", "TurnEnded"),
         \A m \in Messages : Listed(t.interrupts, m) => Listed(next.interrupts, m) \/ Does(a, "result", m)
  PROVE  Deals(t, [t |-> r.t, acts |-> a \o r.acts], before)
<1> DEFINE all == a \o r.acts
<1>1. /\ Starts(all) = Starts(a) + Starts(r.acts) /\ Starts(r.acts) \in Nat
      /\ Cuts(all) => Cuts(a) \/ Cuts(r.acts)
      /\ \A act, what : Does(a, act, what) \/ Does(r.acts, act, what) <=> Does(all, act, what)
  BY ActsConcat
<1>2. Starts(all) = Starts(r.acts)
  BY <1>1
<1> HIDE DEF all
<1>3. t.running # None /\ r.t.running = None => Does(all, "emit", "TurnEnded")
  BY <1>1 DEF Deals
<1>4. \A m \in Messages : Listed(t.interrupts, m) => Listed(r.t.interrupts, m) \/ Does(all, "result", m)
  BY <1>1 DEF Deals
<1>5. ~ Does(all, "start", None)
  BY <1>1 DEF Deals
<1>6. Deals(t, [t |-> r.t, acts |-> all], before)
  BY <1>1, <1>2, <1>3, <1>4, <1>5 DEF Deals
<1> QED
  BY <1>6 DEF all

LEMMA InterruptDeals ==
  ASSUME NEW t \in AllTurns, Fits(t), Bound(t), NEW text \in Messages
  PROVE  LET r == Interrupt(t, text) IN
         /\ Deals(t, r, Running(t))
         /\ Listed(r.t.interrupts, text) \/ Does(r.acts, "result", text)
<1> DEFINE r == Interrupt(t, text)
<1>0. \A how \in {"gone", "sent"} : [act |-> "result", what |-> text, how |-> how] \in TurnActs
  BY DEF TurnActs, Whats, Texts
<1>1. CASE t.gone
  <2> DEFINE acts == Do("result", text, "gone")
  <2>1. r.t = t /\ r.acts = acts
    BY <1>1 DEF Interrupt, With
  <2>2. Starts(acts) = 0 /\ ~ Cuts(acts) /\ Does(acts, "result", text) /\ ~ Does(acts, "start", None)
    BY <1>0, OneAct
  <2> HIDE DEF acts, r
  <2>3. Starts(acts) = Running(t) - Running(t)
    BY <2>2 DEF Running
  <2>4. Deals(t, r, Running(t))
    BY <2>1, <2>2, <2>3 DEF Deals
  <2> QED
    BY <2>1, <2>2, <2>4 DEF r
<1>2. CASE ~ t.gone /\ t.busy
  <2> DEFINE q == QueueInterrupt(t, text)
             next == [q EXCEPT !.interrupts = Append(q.interrupts, text)]
             s == SendInterrupt(next)
  <2>1. r = s
    BY <1>2 DEF Interrupt
  <2>2. next \in AllTurns
    BY QueueInterruptIsTyped
  <2>3. /\ next.running = t.running /\ next.busy = t.busy /\ next.gone = t.gone /\ next.turn = t.turn
        /\ next.interrupts = Append(t.interrupts, text)
    BY DEF QueueInterrupt, AllTurns
  <2> HIDE DEF next
  <2>4. Fits(next) /\ Bound(next) /\ Running(next) = Running(t) /\ t.running # None
    BY <1>2, <2>3 DEF Fits, Bound, Running
  <2>5. /\ Fits(s.t) /\ s.t.turn = next.turn /\ s.t.running = next.running
        /\ s.t.interrupts = next.interrupts /\ s.t.gone = next.gone
        /\ Starts(s.acts) = 0 /\ ~ Does(s.acts, "start", None)
    BY <2>2, <2>4, SendDeals
  <2>6. /\ Listed(next.interrupts, text)
        /\ \A m \in Messages : Listed(t.interrupts, m) => Listed(next.interrupts, m)
    <3>1. t.interrupts \in Seq(Messages)
      BY DEF AllTurns
    <3>2. /\ Len(next.interrupts) = Len(t.interrupts) + 1 /\ Len(t.interrupts) \in Nat
          /\ next.interrupts[Len(t.interrupts) + 1] = text
          /\ \A i \in 1..Len(t.interrupts) : next.interrupts[i] = t.interrupts[i]
      BY <2>3, <3>1
    <3> QED
      BY <3>2 DEF Listed
  <2> HIDE DEF s, r
  <2>7. Bound(s.t) /\ Running(s.t) = Running(t) /\ s.t.running # None
    BY <2>3, <2>4, <2>5 DEF Bound, Running
  <2>8. Starts(s.acts) = Running(s.t) - Running(t)
    BY <2>5, <2>7 DEF Running
  <2>9. Deals(t, s, Running(t))
    BY <2>3, <2>5, <2>6, <2>7, <2>8 DEF Deals
  <2> QED
    BY <2>1, <2>5, <2>6, <2>9 DEF r
<1>3. CASE ~ t.gone /\ ~ t.busy
  <2> DEFINE q == QueueInterrupt(t, text)
             s == Advance(q)
             acts == Do("result", text, "sent")
  <2>1. r.t = s.t /\ r.acts = acts \o s.acts
    BY <1>3 DEF Interrupt, Then, With
  <2>2. q \in AllTurns
    BY QueueInterruptIsTyped
  <2>3. /\ q.running = t.running /\ q.busy = t.busy /\ q.gone = t.gone /\ q.turn = t.turn
        /\ q.interrupts = t.interrupts
    BY DEF QueueInterrupt, AllTurns
  <2>4. acts \in Seq(Acts) /\ Starts(acts) = 0 /\ ~ Cuts(acts) /\ Does(acts, "result", text) /\ ~ Does(acts, "start", None)
    BY <1>0, OneAct
  <2> HIDE DEF q, acts, r
  <2>5. Ready(q) /\ Running(q) = Running(t)
    BY <2>3 DEF Ready, Fits, Bound, Running
  <2>6. s \in Asked /\ Deals(q, s, Running(t))
    BY <2>2, <2>5, AdvanceIsTyped, AdvanceDeals
  <2>7. s.acts \in Seq(Acts)
    BY <2>6, ActNames DEF Asked
  <2> HIDE DEF s
  <2>8. Deals(t, [t |-> s.t, acts |-> acts \o s.acts], Running(t))
    BY <2>3, <2>4, <2>5, <2>6, <2>7, ThenDeals
  <2>9. Deals(t, r, Running(t))
    BY <2>1, <2>8 DEF Deals
  <2>10. Does(r.acts, "result", text)
    <3>1. Does(acts \o s.acts, "result", text)
      BY <2>4, <2>7, ActsConcat
    <3> QED
      BY <2>1, <3>1
  <2> QED
    BY <2>9, <2>10 DEF r
<1> QED
  BY <1>1, <1>2, <1>3

LEMMA EndDeals ==
  ASSUME NEW t \in AllTurns, Fits(t), Bound(t), NEW end \in Ends, NEW closes \in BOOLEAN
  PROVE  Deals(t, End(t, end, closes), 0)
<1>1. CASE t.running = None
  <2>1. End(t, end, closes).t = t /\ End(t, end, closes).acts = <<>> /\ Running(t) = 0
    BY <1>1 DEF End, With, Running
  <2>2. Starts(<<>>) = Running(t) - 0 /\ ~ Cuts(<<>>) /\ ~ Does(<<>>, "start", None)
    BY <2>1, NoActs
  <2> QED
    BY <2>1, <2>2 DEF Deals
<1>2. CASE t.running # None
  <2> DEFINE done == [FinishQueued(t) EXCEPT !.running = None]
             out  == TurnOutcome(end, t.reported, t.running = Reminder, closes,
                                 end = "interrupted" /\ t.sent)
             how  == IF end = "interrupted" THEN "cancelled" ELSE "sent"
             told == Resolve(done, how)
             next == IF out = "remind" THEN Remind(told.t) ELSE told.t
             first == IF closes THEN <<>> ELSE Do("snapshot", None, None)
             ended == Do("emit", "TurnEnded", end)
             last == CASE out = "unreported" -> Do("unreported", None, None)
                       [] out = "problem" -> Do("failure", None, None)
                       [] OTHER -> <<>>
             acts == first \o ended \o told.acts \o last
             r == Advance(next)
  <2>1. /\ done \in AllTurns /\ done.running = None /\ done.busy = FALSE
        /\ done.interrupts = t.interrupts /\ done.gone = t.gone /\ t.interrupts \in Seq(Messages)
    BY DEF FinishQueued, AllTurns
  <2>2. End(t, end, closes).t = r.t /\ End(t, end, closes).acts = acts \o r.acts
    BY <1>2 DEF End, Then, With
  <2> HIDE DEF done
  <2>3. told \in Asked /\ told.t \in AllTurns
    BY <2>1, ResolveIsTyped DEF Asked
  <2>4. told.acts = Each("result", t.interrupts, how) /\ told.t = [done EXCEPT !.interrupts = <<>>]
    BY <2>1 DEF Resolve, With
  <2>5. told.t.running = None /\ told.t.busy = FALSE /\ told.t.interrupts = <<>> /\ told.t.gone = t.gone
    BY <2>1, <2>4 DEF AllTurns
  <2>6. /\ told.acts \in Seq(Acts) /\ Starts(told.acts) = 0 /\ ~ Cuts(told.acts)
        /\ ~ Does(told.acts, "start", None)
        /\ \A m : Listed(t.interrupts, m) => Does(told.acts, "result", m)
    BY <2>1, <2>4, EachResult
  <2> HIDE DEF told, out, how
  <2>7. /\ next \in AllTurns /\ next.running = None /\ next.busy = FALSE /\ next.interrupts = <<>> /\ next.gone = t.gone
    <3>1. \A q \in AllTurns : QueuePrompt(q, Reminder) \in AllTurns
      BY QueueIsTyped DEF Texts
    <3>2. \A q \in AllTurns : /\ QueuePrompt(q, Reminder).running = q.running
                              /\ QueuePrompt(q, Reminder).busy = q.busy
                              /\ QueuePrompt(q, Reminder).interrupts = q.interrupts
                              /\ QueuePrompt(q, Reminder).gone = q.gone
      BY DEF QueuePrompt, AllTurns
    <3> QED
      BY <2>3, <2>5, <3>1, <3>2 DEF Remind
  <2> HIDE DEF next
  <2>8. Ready(next) /\ Running(next) = 0
    BY <2>7 DEF Ready, Bound, Running
  <2>9. r \in Asked /\ Deals(next, r, 0)
    BY <2>7, <2>8, AdvanceIsTyped, AdvanceDeals
  <2>10. r.acts \in Seq(Acts)
    BY <2>9, ActNames DEF Asked
  <2>11. \A act \in {"snapshot", "unreported", "failure"} :
           /\ Do(act, None, None) \in Seq(Acts) /\ Starts(Do(act, None, None)) = 0
           /\ ~ Cuts(Do(act, None, None)) /\ ~ Does(Do(act, None, None), "start", None)
    <3>1. \A act \in {"snapshot", "unreported", "failure"} : [act |-> act, what |-> None, how |-> None] \in TurnActs
      BY DEF TurnActs, Whats
    <3> QED
      BY <3>1, OneAct
  <2>12. /\ ended \in Seq(Acts) /\ Starts(ended) = 0 /\ ~ Cuts(ended) /\ Does(ended, "emit", "TurnEnded")
         /\ ~ Does(ended, "start", None)
    <3>1. [act |-> "emit", what |-> "TurnEnded", how |-> end] \in TurnActs
      BY DEF TurnActs, Whats
    <3> QED
      BY <3>1, OneAct
  <2>13. first \in Seq(Acts) /\ Starts(first) = 0 /\ ~ Cuts(first) /\ ~ Does(first, "start", None)
    BY <2>11, NoActs
  <2>14. last \in Seq(Acts) /\ Starts(last) = 0 /\ ~ Cuts(last) /\ ~ Does(last, "start", None)
    BY <2>11, NoActs
  <2> HIDE DEF first, ended, last, r
  <2>15. /\ acts \in Seq(Acts) /\ Starts(acts) = 0 /\ ~ Cuts(acts) /\ ~ Does(acts, "start", None)
         /\ Does(acts, "emit", "TurnEnded")
         /\ \A m : Listed(t.interrupts, m) => Does(acts, "result", m)
    <3> DEFINE one == first \o ended
               two == one \o told.acts
    <3>1. /\ one \in Seq(Acts) /\ Starts(one) = 0 /\ ~ Cuts(one) /\ ~ Does(one, "start", None)
          /\ Does(one, "emit", "TurnEnded")
      BY <2>12, <2>13, ActsConcat
    <3> HIDE DEF one
    <3>2. /\ two \in Seq(Acts) /\ Starts(two) = 0 /\ ~ Cuts(two) /\ ~ Does(two, "start", None)
          /\ \A act, what : Does(one, act, what) => Does(two, act, what)
          /\ \A act, what : Does(told.acts, act, what) => Does(two, act, what)
      <4> DEFINE mid == told.acts
      <4>1. mid \in Seq(Acts) /\ Starts(mid) = 0 /\ ~ Cuts(mid) /\ ~ Does(mid, "start", None)
        BY <2>6
      <4> HIDE DEF mid
      <4>2. /\ one \o mid \in Seq(Acts) /\ Starts(one \o mid) = 0 /\ ~ Cuts(one \o mid)
            /\ ~ Does(one \o mid, "start", None)
            /\ \A act, what : Does(one, act, what) \/ Does(mid, act, what) <=> Does(one \o mid, act, what)
        BY <3>1, <4>1, ActsConcat
      <4> QED
        BY <4>2 DEF mid
    <3> HIDE DEF two
    <3>3. /\ two \o last \in Seq(Acts) /\ Starts(two \o last) = 0 /\ ~ Cuts(two \o last)
          /\ ~ Does(two \o last, "start", None)
          /\ \A act, what : Does(two, act, what) => Does(two \o last, act, what)
      BY <2>14, <3>2, ActsConcat
    <3> QED
      BY <2>6, <3>1, <3>2, <3>3 DEF one, two
  <2> HIDE DEF acts
  <2>16. Deals(t, [t |-> r.t, acts |-> acts \o r.acts], 0)
    BY <2>7, <2>8, <2>9, <2>10, <2>15, ThenDeals
  <2> QED
    BY <2>2, <2>16 DEF Deals
<1> QED
  BY <1>1, <1>2

\* A turn that starts has an id as soon as the thread goes on.
LEMMA DriveDeals ==
  ASSUME HostTypes, NEW thread \in {"reader", "poller"}, NEW r \in Asked, Drive(thread, r),
         NEW t, NEW before \in {0, 1}, Deals(t, r, before)
  PROVE  /\ todo = <<>> /\ todo' \in Seq(Acts)
         /\ Deals(t, [t |-> turns', acts |-> todo'], before) /\ Bound(turns')
         /\ \A m : Listed(r.t.interrupts, m) \/ Does(r.acts, "result", m)
                     => Listed(turns'.interrupts, m) \/ Does(todo', "result", m)
<1> DEFINE starts == \E i \in DOMAIN r.acts : r.acts[i].act = "start"
           bound == IF starts THEN Then(r, BindTurn(r.t, seq + 1)) ELSE r
<1>1. r.t \in AllTurns /\ r.acts \in Seq(Acts) /\ seq + 1 \in Nat /\ seq + 1 # NoTurn
  BY ActNames DEF Asked, HostTypes, NoTurn
<1>2. turns' = bound.t /\ todo' = bound.acts
  BY DEF Drive
<1>3. todo = <<>> /\ todo' \in Seq(Acts)
  BY DriveIsTyped
<1>4. starts <=> Starts(r.acts) # 0
  <2>1. \A i \in 1..Len(r.acts) : r.acts[i] \in Acts
    BY <1>1
  <2>2. \A i \in 1..Len(r.acts) : ActName[r.acts[i]] = r.acts[i].act
    BY <2>1, ActNames
  <2>3. Starts(r.acts) = 0 <=> \A i \in 1..Len(r.acts) : ActName[r.acts[i]] # "start"
    BY <1>1, ActNames, ByType DEF Starts
  <2>4. DOMAIN r.acts = 1..Len(r.acts)
    BY <1>1
  <2> QED
    BY <2>2, <2>3, <2>4
<1> HIDE DEF starts
<1>5. CASE ~ starts
  <2>1. turns' = r.t /\ todo' = r.acts /\ Bound(r.t)
    BY <1>2, <1>4, <1>5 DEF Deals
  <2>2. Deals(t, [t |-> turns', acts |-> todo'], before)
    BY <2>1 DEF Deals
  <2> QED
    BY <1>3, <2>1, <2>2
<1>6. CASE starts
  <2> DEFINE b == [r.t EXCEPT !.turn = seq + 1]
             s == SendInterrupt(b)
  <2>1. r.t.running # None
    <3>1. Starts(r.acts) = Running(r.t) - before /\ Starts(r.acts) \in Nat
      BY <1>1, ActsConcat DEF Deals
    <3>2. Running(r.t) # 0
      BY <1>4, <1>6, <3>1 DEF Running
    <3> QED
      BY <3>2 DEF Running
  <2>2. turns' = s.t /\ todo' = r.acts \o s.acts
    BY <1>2, <1>6, <2>1 DEF Then, With, BindTurn
  <2>3. /\ b \in AllTurns /\ b.turn = seq + 1 /\ b.running = r.t.running /\ b.interrupts = r.t.interrupts
        /\ b.busy = r.t.busy /\ b.pending = r.t.pending /\ b.gone = r.t.gone
    BY <1>1 DEF AllTurns
  <2> HIDE DEF b
  <2>4. Fits(b) /\ Bound(b)
    BY <1>1, <2>3 DEF Deals, Fits, Bound
  <2>5. /\ s \in Asked /\ Fits(s.t) /\ s.t.turn = b.turn /\ s.t.running = b.running
        /\ s.t.interrupts = b.interrupts /\ s.t.gone = b.gone
        /\ Starts(s.acts) = 0 /\ ~ Does(s.acts, "start", None)
        /\ s.acts \in Seq(Acts)
    BY <2>3, <2>4, SendDeals
  <2> HIDE DEF s
  <2>6. /\ Starts(todo') = Starts(r.acts) + Starts(s.acts) /\ Starts(r.acts) \in Nat
        /\ \A act, what : Does(r.acts, act, what) \/ Does(s.acts, act, what) <=> Does(todo', act, what)
    BY <1>1, <2>2, <2>5, ActsConcat
  <2>7. Starts(todo') = Starts(r.acts)
    BY <2>5, <2>6
  <2>8. Bound(turns') /\ Running(turns') = Running(r.t) /\ turns'.running = r.t.running
    BY <2>2, <2>3, <2>4, <2>5 DEF Bound, Running
  <2>9. Deals(t, [t |-> turns', acts |-> todo'], before)
    BY <2>1, <2>2, <2>3, <2>5, <2>6, <2>7, <2>8 DEF Deals
  <2> QED
    BY <1>3, <2>2, <2>3, <2>5, <2>6, <2>8, <2>9
<1> QED
  BY <1>5, <1>6

(***************************************************************************)
(* Nothing is left behind.  The turn that runs is in one place as well: a  *)
(* start to perform, a line for the agent, the run of the agent, or a line *)
(* that says it ended.  An interrupt waits in its folder, with the turn it *)
(* interrupts or among the actions to perform until it has a result.       *)
(***************************************************************************)
LineName == [x \in StdinLines |-> x[1]]
SaidName == [x \in StdoutLines |-> x[1]]
SentStarts(lines) == CountBy(LineName, lines, "start")
SaidEnds(lines) == CountBy(SaidName, lines, "ended")
Runs(a) == IF a.run # None THEN 1 ELSE 0

TurnsFit == Fits(turns) /\ Bound(turns)
Named == ~ Does(todo, "start", None) /\ ~ Listed(stdin, <<"start", None>>)
OneRun == Up => Starts(todo) + SentStarts(stdin) + Runs(agent) + SaidEnds(stdout) = Running(turns)
Refuses ==
  /\ refusing => Turning \/ Does(todo, "emit", "TurnEnded")
  /\ Cuts(todo) => Turning
InterruptHeld(m) ==
  \/ m \in posted \/ m \in DOMAIN results
  \/ Listed(turns.interrupts, m) \/ Does(todo, "result", m)
InterruptsHeld == \A m \in Interrupts : InterruptHeld(m)
Exits == (exited => eof) /\ (eof => turns.gone) /\ (turns.gone => ~ Up)
Holds == (held <=> ~ closing) /\ (closing /\ Up => poller[1] \in {"drain", "settle", "kill"})
TurnInv == TurnsFit /\ Named /\ OneRun /\ Refuses
MailInv == InterruptsHeld /\ Exits /\ Holds

LEMMA LineNames ==
  /\ LineName \in [StdinLines -> Names] /\ \A x \in StdinLines : LineName[x] = x[1]
  /\ SaidName \in [StdoutLines -> Names] /\ \A x \in StdoutLines : SaidName[x] = x[1]
<1>1. \A x \in StdinLines : x[1] \in Names
  BY DEF StdinLines, Names
<1>2. \A x \in StdoutLines : x[1] \in Names
  BY DEF StdoutLines, Names
<1> QED
  BY <1>1, <1>2 DEF LineName, SaidName

LEMMA LinesSent ==
  ASSUME NEW s \in Seq(StdinLines), NEW line \in StdinLines
  PROVE  /\ SentStarts(s) \in Nat
         /\ SentStarts(Append(s, line)) = SentStarts(s) + (IF line[1] = "start" THEN 1 ELSE 0)
         /\ \A x : Listed(Append(s, line), x) => Listed(s, x) \/ x = line
<1>1. SentStarts(s) \in Nat
  BY LineNames, ByType DEF SentStarts
<1>2. SentStarts(Append(s, line)) = SentStarts(s) + (IF LineName[line] = "start" THEN 1 ELSE 0)
  BY LineNames, ByAppend DEF SentStarts
<1>3. LineName[line] = line[1]
  BY LineNames
<1>4. \A x : Listed(Append(s, line), x) => Listed(s, x) \/ x = line
  BY DEF Listed
<1> QED
  BY <1>1, <1>2, <1>3, <1>4

LEMMA LinesHeard ==
  ASSUME NEW s \in Seq(StdinLines), s # <<>>
  PROVE  /\ SentStarts(s) \in Nat /\ SentStarts(Tail(s)) \in Nat /\ Tail(s) \in Seq(StdinLines)
         /\ SentStarts(Tail(s)) = SentStarts(s) - (IF Head(s)[1] = "start" THEN 1 ELSE 0)
         /\ Head(s) \in StdinLines /\ Listed(s, Head(s))
         /\ \A x : Listed(Tail(s), x) => Listed(s, x)
<1>1. Head(s) \in StdinLines /\ Tail(s) \in Seq(StdinLines) /\ Listed(s, Head(s))
  BY DEF Listed
<1>2. SentStarts(s) \in Nat /\ SentStarts(Tail(s)) \in Nat
  BY <1>1, LineNames, ByType DEF SentStarts
<1>3. SentStarts(Tail(s)) = SentStarts(s) - (IF LineName[Head(s)] = "start" THEN 1 ELSE 0)
  BY LineNames, ByTail DEF SentStarts
<1>4. LineName[Head(s)] = Head(s)[1]
  BY <1>1, LineNames
<1>5. \A x : Listed(Tail(s), x) => Listed(s, x)
  BY DEF Listed
<1> QED
  BY <1>1, <1>2, <1>3, <1>4, <1>5

LEMMA LinesRead ==
  ASSUME NEW s \in Seq(StdoutLines), s # <<>>
  PROVE  /\ SaidEnds(s) \in Nat /\ SaidEnds(Tail(s)) \in Nat
         /\ SaidEnds(Tail(s)) = SaidEnds(s) - (IF Head(s)[1] = "ended" THEN 1 ELSE 0)
<1>1. Head(s) \in StdoutLines /\ Tail(s) \in Seq(StdoutLines)
  OBVIOUS
<1>2. SaidEnds(s) \in Nat /\ SaidEnds(Tail(s)) \in Nat
  BY <1>1, LineNames, ByType DEF SaidEnds
<1>3. SaidEnds(Tail(s)) = SaidEnds(s) - (IF SaidName[Head(s)] = "ended" THEN 1 ELSE 0)
  BY LineNames, ByTail DEF SaidEnds
<1>4. SaidName[Head(s)] = Head(s)[1]
  BY <1>1, LineNames
<1> QED
  BY <1>2, <1>3, <1>4

LEMMA LinesSaid ==
  ASSUME NEW s \in Seq(StdoutLines), NEW line \in StdoutLines
  PROVE  /\ SaidEnds(s) \in Nat
         /\ SaidEnds(Append(s, line)) = SaidEnds(s) + (IF line[1] = "ended" THEN 1 ELSE 0)
<1>1. SaidEnds(s) \in Nat
  BY LineNames, ByType DEF SaidEnds
<1>2. SaidEnds(Append(s, line)) = SaidEnds(s) + (IF SaidName[line] = "ended" THEN 1 ELSE 0)
  BY LineNames, ByAppend DEF SaidEnds
<1>3. SaidName[line] = line[1]
  BY LineNames
<1> QED
  BY <1>1, <1>2, <1>3

\* The rest of the actions, when the first is performed.
LEMMA ActsTail ==
  ASSUME NEW s \in Seq(Acts), s # <<>>
  PROVE  /\ Tail(s) \in Seq(Acts) /\ Head(s) \in Acts
         /\ Starts(s) \in Nat /\ Starts(Tail(s)) \in Nat
         /\ Starts(Tail(s)) = Starts(s) - (IF Head(s).act = "start" THEN 1 ELSE 0)
         /\ Cuts(Tail(s)) => Cuts(s)
         /\ Head(s).act = "interrupt" => Cuts(s)
         /\ \A act, what : Does(s, act, what)
               <=> Does(Tail(s), act, what) \/ (Head(s).act = act /\ Head(s).what = what)
<1>1. Tail(s) \in Seq(Acts) /\ Head(s) \in Acts
  OBVIOUS
<1>2. Starts(s) \in Nat /\ Starts(Tail(s)) \in Nat
  BY <1>1, ActNames, ByType DEF Starts
<1>3. Starts(Tail(s)) = Starts(s) - (IF ActName[Head(s)] = "start" THEN 1 ELSE 0)
  BY ActNames, ByTail DEF Starts
<1>4. ActName[Head(s)] = Head(s).act
  BY <1>1, ActNames
<1> DEFINE n == Len(s)
           t == Tail(s)
<1>5. /\ n \in Nat /\ n >= 1 /\ s[1] = Head(s) /\ Len(t) = n - 1
      /\ \A i \in 1..(n - 1) : t[i] = s[i + 1]
  OBVIOUS
<1> HIDE DEF n, t
<1>6. \A i \in 1..n : i = 1 \/ (i - 1 \in 1..(n - 1) /\ t[i - 1] = s[i])
  <2> SUFFICES ASSUME NEW i \in 1..n, i # 1 PROVE i - 1 \in 1..(n - 1) /\ t[i - 1] = s[i]
    OBVIOUS
  <2>1. i - 1 \in 1..(n - 1) /\ (i - 1) + 1 = i
    BY <1>5
  <2> QED
    BY <1>5, <2>1
<1>7. \A i \in 1..(n - 1) : i + 1 \in 1..n /\ t[i] = s[i + 1]
  BY <1>5
<1>8. 1 \in 1..n
  BY <1>5
<1>9. /\ Cuts(t) => Cuts(s)
      /\ Head(s).act = "interrupt" => Cuts(s)
  BY <1>5, <1>7, <1>8 DEF Cuts, n
<1>10. \A act, what : Does(s, act, what)
               <=> Does(t, act, what) \/ (Head(s).act = act /\ Head(s).what = what)
  <2> TAKE act, what
  <2>1. Does(t, act, what) => Does(s, act, what)
    BY <1>5, <1>7 DEF Does, n
  <2>2. Head(s).act = act /\ Head(s).what = what => Does(s, act, what)
    BY <1>5, <1>8 DEF Does, n
  <2>3. Does(s, act, what) => Does(t, act, what) \/ (Head(s).act = act /\ Head(s).what = what)
    BY <1>5, <1>6 DEF Does, n
  <2> QED
    BY <2>1, <2>2, <2>3
<1>11. Cuts(Tail(s)) => Cuts(s)
  BY <1>9 DEF t
<1>12. \A act, what : Does(s, act, what)
               <=> Does(Tail(s), act, what) \/ (Head(s).act = act /\ Head(s).what = what)
  BY <1>10 DEF t
<1>13. Starts(Tail(s)) = Starts(s) - (IF Head(s).act = "start" THEN 1 ELSE 0)
  BY <1>3, <1>4
<1> QED
  BY <1>1, <1>2, <1>9, <1>11, <1>12, <1>13

LEMMA RunCounts ==
  ASSUME HostTypes
  PROVE  /\ Starts(todo) \in Nat /\ SentStarts(stdin) \in Nat /\ SaidEnds(stdout) \in Nat
         /\ Runs(agent) \in {0, 1} /\ Running(turns) \in {0, 1}
  BY ActNames, LineNames, ByType DEF HostTypes, Starts, SentStarts, SaidEnds, Runs, Running

LEMMA DenialsDeal ==
  ASSUME NEW q \in Seq(Asks), NEW turn \in Whats
  PROVE  /\ Starts(InterruptSends(q, turn)) = 0 /\ ~ Cuts(InterruptSends(q, turn))
         /\ ~ Does(InterruptSends(q, turn), "start", None)
<1> DEFINE each == Each("verdict", q, None)
           cut == [act |-> "cut", what |-> turn, how |-> None]
           all == InterruptSends(q, turn)
<1>1. Len(each) = Len(q) /\ each \in Seq(Acts) /\ \A i \in 1..Len(each) : each[i].act = "verdict"
  <2>1. \A i \in 1..Len(q) : q[i] \in Asks
    OBVIOUS
  <2>2. \A i \in 1..Len(q) : Verdict(q[i]) \in Acts
    BY <2>1, AsksAreTyped
  <2> QED
    BY <2>2 DEF Each, Verdict
<1>2. cut \in Acts /\ all = each \o <<cut>> /\ cut.act = "cut"
  BY DEF InterruptSends, Do, Acts
<1> HIDE DEF each, cut, all
<1>3. all \in Seq(Acts) /\ \A i \in 1..Len(all) : all[i].act \in {"verdict", "cut"}
  BY <1>1, <1>2
<1>4. Starts(all) = 0
  <2>1. \A i \in 1..Len(all) : all[i] \in Acts
    BY <1>3
  <2>2. \A i \in 1..Len(all) : ActName[all[i]] # "start"
    BY <1>3, <2>1, ActNames
  <2> QED
    BY <1>3, <2>2, ActNames, ByType DEF Starts
<1> QED
  BY <1>3, <1>4 DEF Cuts, Does, all

\* The turns do not change, and what runs is where it was.
LEMMA RunStays ==
  ASSUME HostTypes, HostTypes', TurnInv,
         turns' = turns, todo' = todo, refusing' = refusing,
         \A x : Listed(stdin', x) => Listed(stdin, x) \/ x # <<"start", None>>,
         Up' => Up /\ SentStarts(stdin') + Runs(agent') + SaidEnds(stdout')
                        = SentStarts(stdin) + Runs(agent) + SaidEnds(stdout)
  PROVE  TurnInv'
<1>1. TurnsFit' /\ Refuses'
  BY DEF TurnInv, TurnsFit, Refuses, Turning
<1>2. Named'
  BY DEF TurnInv, Named
<1>3. OneRun'
  <2> DEFINE s == Starts(todo)
             a == SentStarts(stdin)
             b == Runs(agent)
             c == SaidEnds(stdout)
             a2 == SentStarts(stdin')
             b2 == Runs(agent')
             c2 == SaidEnds(stdout')
             n == Running(turns)
  <2>1. s \in Nat /\ a \in Nat /\ b \in Nat /\ c \in Nat /\ n \in Nat
    BY RunCounts
  <2>2. a2 \in Nat /\ b2 \in Nat /\ c2 \in Nat
    BY ActNames, LineNames, ByType DEF HostTypes, SentStarts, SaidEnds, Runs
  <2>3. Up' => s + a + b + c = n /\ a2 + b2 + c2 = a + b + c
    BY DEF TurnInv, OneRun
  <2>4. OneRun' <=> (Up' => s + a2 + b2 + c2 = n)
    BY DEF OneRun
  <2> HIDE DEF s, a, b, c, a2, b2, c2, n
  <2>5. Up' => s + a2 + b2 + c2 = n
    BY <2>1, <2>2, <2>3
  <2> QED
    BY <2>4, <2>5
<1> QED
  BY <1>1, <1>2, <1>3 DEF TurnInv

\* The messages and the process, in a step of the host that takes none of them.
LEMMA MailStays ==
  ASSUME MailInv, posted' = posted, DOMAIN results \subseteq DOMAIN results',
         turns' = turns, \A m : Does(todo, "result", m) => Does(todo', "result", m) \/ m \in DOMAIN results',
         held' = held, closing' = closing, exited' = exited, eof' = eof,
         Up' => Up,
         closing /\ Up => poller' = poller \/ poller'[1] \in {"drain", "settle", "kill"}
  PROVE  MailInv'
  BY DEF MailInv, InterruptsHeld, InterruptHeld, Exits, Holds, Up

LEMMA PerformTurns ==
  ASSUME HostTypes, HostTypes', TurnInv, MailInv, Perform
  PROVE  TurnInv' /\ MailInv'
<1>1. todo # <<>> /\ todo \in Seq(Acts)
  BY DEF Perform, PerformSend, PerformEmit, PerformInterrupt, PerformResult, PerformReport, Performing, HostTypes
<1> DEFINE head == Head(todo)
           rest == Tail(todo)
<1>2. /\ rest \in Seq(Acts) /\ head \in Acts
      /\ Starts(todo) \in Nat /\ Starts(rest) \in Nat
      /\ Starts(rest) = Starts(todo) - (IF head.act = "start" THEN 1 ELSE 0)
      /\ Cuts(rest) => Cuts(todo)
      /\ head.act = "interrupt" => Cuts(todo)
      /\ \A act, what : Does(todo, act, what)
             <=> Does(rest, act, what) \/ (head.act = act /\ head.what = what)
  BY <1>1, ActsTail
<1> HIDE DEF head, rest
<1>3. /\ turns' = turns /\ posted' = posted /\ poller' = poller /\ agent' = agent /\ stdout' = stdout
      /\ held' = held /\ closing' = closing /\ exited' = exited /\ eof' = eof
  BY DEF Perform, PerformSend, PerformEmit, PerformInterrupt, PerformResult, PerformReport, PerformRest,
         lifeVars, agentVars
<1>4. TurnsFit' /\ (Turning' <=> Turning) /\ (Up' <=> Up)
  BY <1>3 DEF TurnInv, TurnsFit, Turning, Up
<1>5. ASSUME NEW done, DOMAIN results \subseteq DOMAIN results', done \subseteq DOMAIN results',
             \A m : Does(todo, "result", m) => Does(todo', "result", m) \/ m \in done
      PROVE  MailInv'
  BY <1>3, <1>5, MailStays DEF Up
<1>6. /\ Starts(todo) \in Nat /\ SentStarts(stdin) \in Nat /\ SaidEnds(stdout) \in Nat
      /\ Runs(agent) \in {0, 1} /\ Running(turns) \in {0, 1}
  BY RunCounts
<1>7. CASE PerformSend
  <2> DEFINE line == <<head.act, head.what>>
  <2>1. Send(line) /\ todo' = rest /\ refusing' = refusing /\ results' = results
        /\ head.act \in {"start", "verdict", "cut"}
    BY <1>7 DEF PerformSend, Performing, GoOn, queueVars, head, rest
  <2>2. line \in StdinLines /\ stdin \in Seq(StdinLines)
    BY <1>2, <2>1, AsksAreTyped DEF StdinLines, HostTypes
  <2>3. line # <<"start", None>>
    BY <1>2 DEF TurnInv, Named
  <2>4. line[1] = head.act
    OBVIOUS
  <2> HIDE DEF line
  <2>5. /\ Up => SentStarts(stdin') = SentStarts(stdin) + (IF head.act = "start" THEN 1 ELSE 0)
        /\ \A x : Listed(stdin', x) => Listed(stdin, x) \/ x = line
    BY <2>1, <2>2, <2>4, LinesSent DEF Send, Up
  <2>6. Named'
    BY <1>2, <2>1, <2>3, <2>5 DEF TurnInv, Named
  <2>7. Refuses'
    BY <1>2, <1>4, <2>1 DEF TurnInv, Refuses
  <2>8. OneRun'
    <3> SUFFICES ASSUME Up
                 PROVE  Starts(rest) + SentStarts(stdin') + Runs(agent) + SaidEnds(stdout) = Running(turns)
      BY <1>3, <1>4, <2>1 DEF OneRun
    <3> DEFINE s == Starts(todo)
               s2 == Starts(rest)
               a == SentStarts(stdin)
               a2 == SentStarts(stdin')
               b == Runs(agent)
               c == SaidEnds(stdout)
               n == Running(turns)
               k == IF head.act = "start" THEN 1 ELSE 0
    <3>1. /\ s \in Nat /\ a \in Nat /\ b \in Nat /\ c \in Nat /\ n \in Nat /\ k \in Nat
          /\ s2 = s - k /\ a2 = a + k /\ s + a + b + c = n
      BY <1>2, <1>6, <2>5 DEF TurnInv, OneRun
    <3> HIDE DEF s, s2, a, a2, b, c, n, k
    <3>2. s2 + a2 + b + c = n
      BY <3>1
    <3> QED
      BY <3>2 DEF s2, a2, b, c, n
  <2>9. \A m : Does(todo, "result", m) => Does(todo', "result", m) \/ m \in {}
    BY <1>2, <2>1
  <2>10. MailInv'
    BY <1>5, <2>1, <2>9
  <2> QED
    BY <1>4, <2>6, <2>7, <2>8, <2>10 DEF TurnInv
<1>8. ASSUME todo' = rest, stdin' = stdin, head.act # "start",
             refusing' => Turning \/ Does(rest, "emit", "TurnEnded")
      PROVE  TurnInv'
  <2>1. Starts(rest) = Starts(todo)
    BY <1>2, <1>6, <1>8
  <2>2. OneRun'
    BY <1>3, <1>4, <1>8, <2>1 DEF TurnInv, OneRun
  <2>3. Named'
    BY <1>2, <1>8 DEF TurnInv, Named
  <2>4. Refuses'
    BY <1>2, <1>4, <1>8 DEF TurnInv, Refuses
  <2> QED
    BY <1>4, <2>2, <2>3, <2>4 DEF TurnInv
<1>9. CASE PerformEmit
  <2>1. /\ todo' = rest /\ stdin' = stdin /\ results' = results /\ head.act = "emit"
        /\ refusing' = (refusing /\ head.what # "TurnEnded")
    BY <1>9 DEF PerformEmit, Performing, GoOn, head, rest
  <2>2. refusing' => Turning \/ Does(rest, "emit", "TurnEnded")
    BY <1>2, <2>1 DEF TurnInv, Refuses
  <2>3. \A m : Does(todo, "result", m) => Does(todo', "result", m) \/ m \in {}
    BY <1>2, <2>1
  <2> QED
    BY <1>5, <1>8, <2>1, <2>2, <2>3
<1>10. CASE PerformInterrupt
  <2> DEFINE sends == InterruptSends(queue, head.what)
  <2>1. todo' = sends \o rest /\ stdin' = stdin /\ results' = results /\ head.act = "interrupt"
    BY <1>10 DEF PerformInterrupt, Performing, GoOn, head, rest
  <2>2. /\ sends \in Seq(Acts) /\ Starts(sends) = 0 /\ ~ Cuts(sends) /\ ~ Does(sends, "start", None)
    BY <1>2, AsksAreTyped, DenialsAreTyped, DenialsDeal DEF HostTypes
  <2> HIDE DEF sends
  <2>3. /\ Starts(sends \o rest) = Starts(sends) + Starts(rest)
        /\ Cuts(sends \o rest) => Cuts(sends) \/ Cuts(rest)
        /\ \A act, what : Does(sends, act, what) \/ Does(rest, act, what) <=> Does(sends \o rest, act, what)
    BY <1>2, <2>2, ActsConcat
  <2>4. Turning
    BY <1>2, <2>1 DEF TurnInv, Refuses
  <2>5. Starts(todo') = Starts(todo)
    BY <1>2, <1>6, <2>1, <2>2, <2>3
  <2>6. OneRun'
    BY <1>3, <1>4, <2>1, <2>5 DEF TurnInv, OneRun
  <2>7. Named'
    BY <1>2, <2>1, <2>2, <2>3 DEF TurnInv, Named
  <2>8. Refuses'
    BY <1>4, <2>4 DEF Refuses
  <2>9. \A m : Does(todo, "result", m) => Does(todo', "result", m) \/ m \in {}
    BY <1>2, <2>1, <2>3
  <2>10. MailInv'
    BY <1>5, <2>1, <2>9
  <2> QED
    BY <1>4, <2>6, <2>7, <2>8, <2>10 DEF TurnInv
<1>11. CASE PerformResult
  <2>1. /\ todo' = rest /\ stdin' = stdin /\ head.act = "result" /\ refusing' = refusing
        /\ DOMAIN results' = DOMAIN results \cup {head.what}
    BY <1>11 DEF PerformResult, Performing, GoOn, WriteResult, queueVars, head, rest
  <2>2. refusing' => Turning \/ Does(rest, "emit", "TurnEnded")
    BY <1>2, <2>1 DEF TurnInv, Refuses
  <2>3. \A m : Does(todo, "result", m) => Does(todo', "result", m) \/ m \in {head.what}
    BY <1>2, <2>1
  <2> QED
    BY <1>5, <1>8, <2>1, <2>2, <2>3
<1>12. CASE PerformReport
  <2>1. /\ todo' = rest /\ stdin' = stdin /\ head.act \in {"snapshot", "unreported", "failure"}
        /\ refusing' = refusing /\ results' = results
    BY <1>12 DEF PerformReport, Performing, GoOn, queueVars, head, rest
  <2>2. refusing' => Turning \/ Does(rest, "emit", "TurnEnded")
    BY <1>2, <2>1 DEF TurnInv, Refuses
  <2>3. \A m : Does(todo, "result", m) => Does(todo', "result", m) \/ m \in {}
    BY <1>2, <2>1
  <2> QED
    BY <1>5, <1>8, <2>1, <2>2, <2>3
<1> QED
  BY <1>7, <1>9, <1>10, <1>11, <1>12 DEF Perform

\* A step of the turns, which takes from the lines the end of a turn, if any.
LEMMA DriveTurns ==
  ASSUME HostTypes, HostTypes', TurnInv, MailInv, NEW thread \in {"reader", "poller"},
         NEW r \in Asked, Drive(thread, r),
         NEW t, t.running = turns.running, t.interrupts = turns.interrupts,
         NEW before \in {0, 1}, Deals(t, r, before),
         refusing' = refusing, stdin' = stdin, agent' = agent,
         Up => SaidEnds(stdout') = SaidEnds(stdout) - (Running(turns) - before)
  PROVE  /\ TurnInv' /\ turns'.gone = t.gone
         /\ \A m \in Interrupts : \/ m \in posted \/ m \in DOMAIN results
                                  \/ Listed(turns'.interrupts, m) \/ Does(todo', "result", m)
<1> DEFINE d == [t |-> turns', acts |-> todo']
<1>1. /\ todo = <<>> /\ todo' \in Seq(Acts) /\ Deals(t, d, before) /\ Bound(turns')
  BY DriveDeals
<1>2. /\ Fits(turns') /\ turns'.gone = t.gone
      /\ Starts(todo') = Running(turns') - before /\ ~ Does(todo', "start", None)
      /\ Cuts(todo') => turns'.running # None
      /\ t.running # None /\ turns'.running = None => Does(todo', "emit", "TurnEnded")
      /\ \A m \in Messages : Listed(t.interrupts, m) => Listed(turns'.interrupts, m) \/ Does(todo', "result", m)
  BY <1>1 DEF Deals
<1> HIDE DEF d
<1>3. TurnsFit' /\ Named'
  BY <1>1, <1>2 DEF TurnInv, TurnsFit, Named
<1>4. Refuses'
  BY <1>1, <1>2, NoActs DEF TurnInv, Refuses, Turning
<1>5. OneRun'
  <2> SUFFICES ASSUME Up
               PROVE  Starts(todo') + SentStarts(stdin) + Runs(agent) + SaidEnds(stdout') = Running(turns')
    BY DEF OneRun, Up
  <2> DEFINE s2 == Starts(todo')
             a == SentStarts(stdin)
             b == Runs(agent)
             c == SaidEnds(stdout)
             c2 == SaidEnds(stdout')
             n == Running(turns)
             n2 == Running(turns')
  <2>1. /\ a \in Nat /\ b \in Nat /\ c \in Nat /\ n \in Nat /\ n2 \in Nat /\ before \in Nat
        /\ s2 = n2 - before /\ c2 = c - (n - before)
    BY <1>2, RunCounts DEF Running
  <2>2. 0 + a + b + c = n
    BY <1>1, NoActs DEF TurnInv, OneRun
  <2> HIDE DEF s2, a, b, c, c2, n, n2
  <2>3. s2 + a + b + c2 = n2
    BY <2>1, <2>2
  <2> QED
    BY <2>3 DEF s2, a, b, c2, n2
<1>6. \A m \in Interrupts : \/ m \in posted \/ m \in DOMAIN results
                            \/ Listed(turns'.interrupts, m) \/ Does(todo', "result", m)
  <2>1. Interrupts \subseteq Messages
    BY DEF Messages
  <2> QED
    BY <1>1, <1>2, <2>1, NoActs DEF MailInv, InterruptsHeld, InterruptHeld
<1> QED
  BY <1>2, <1>3, <1>4, <1>5, <1>6 DEF TurnInv

\* The reader hears that a turn ended, or that it reported.
LEMMA SignalTurns ==
  ASSUME HostTypes, HostTypes', TurnInv, MailInv, Signal
  PROVE  TurnInv' /\ MailInv'
<1>1. turns \in AllTurns /\ Fits(turns) /\ Bound(turns) /\ stdout \in Seq(StdoutLines)
  BY DEF HostTypes, TurnInv, TurnsFit
<1>2. /\ stdout # <<>> /\ stdout' = Tail(stdout) /\ stdin' = stdin /\ agent' = agent /\ refusing' = refusing
      /\ poller' = poller /\ posted' = posted /\ results' = results
      /\ held' = held /\ closing' = closing /\ exited' = exited /\ eof' = eof
  BY DEF Signal, Reads, ReadRest, queueVars, mailVars, lifeVars
<1>3. /\ SaidEnds(stdout) \in Nat /\ SaidEnds(stdout') \in Nat
      /\ SaidEnds(stdout') = SaidEnds(stdout) - (IF Head(stdout)[1] = "ended" THEN 1 ELSE 0)
  BY <1>1, <1>2, LinesRead
<1>4. ASSUME NEW r \in Asked, Drive("reader", r), NEW before \in {0, 1}, Deals(turns, r, before),
             Up => SaidEnds(stdout') = SaidEnds(stdout) - (Running(turns) - before)
      PROVE  TurnInv' /\ MailInv'
  <2>1. /\ TurnInv' /\ turns'.gone = turns.gone
        /\ \A m \in Interrupts : \/ m \in posted \/ m \in DOMAIN results
                                 \/ Listed(turns'.interrupts, m) \/ Does(todo', "result", m)
    BY <1>2, <1>4, DriveTurns
  <2>2. InterruptsHeld'
    BY <1>2, <2>1 DEF InterruptsHeld, InterruptHeld
  <2>3. Exits' /\ Holds'
    BY <1>2, <2>1 DEF MailInv, Exits, Holds, Up
  <2> QED
    BY <2>1, <2>2, <2>3 DEF MailInv
<1>5. Running(turns) \in {0, 1}
  BY DEF Running
<1>6. CASE Reads("reported") /\ Drive("reader", Reported(turns))
  <2>1. Reported(turns) \in Asked /\ Deals(turns, Reported(turns), Running(turns))
    BY <1>1, ReportedIsTyped, ReportedDeals
  <2>2. SaidEnds(stdout') = SaidEnds(stdout) - (Running(turns) - Running(turns))
    BY <1>3, <1>5, <1>6 DEF Reads
  <2> QED
    BY <1>4, <1>5, <1>6, <2>1, <2>2
<1>7. CASE /\ Reads("ended")
           /\ LET end == IF Line = "failed" /\ turns.sent THEN "interrupted" ELSE Line
              IN  \E closes \in {FALSE, closing} : Drive("reader", End(turns, end, closes))
  <2> DEFINE end == IF Line = "failed" /\ turns.sent THEN "interrupted" ELSE Line
  <2>1. end \in Ends
    BY <1>7, LinesAreTyped DEF Reads, Ends
  <2> HIDE DEF end
  <2>2. PICK closes \in {FALSE, closing} : Drive("reader", End(turns, end, closes))
    BY <1>7 DEF end
  <2>3. closes \in BOOLEAN
    BY DEF HostTypes
  <2>4. End(turns, end, closes) \in Asked /\ Deals(turns, End(turns, end, closes), 0)
    BY <1>1, <2>1, <2>3, EndIsTyped, EndDeals
  <2>5. Up => SaidEnds(stdout') = SaidEnds(stdout) - (Running(turns) - 0)
    <3> SUFFICES ASSUME Up PROVE SaidEnds(stdout') = SaidEnds(stdout) - (Running(turns) - 0)
      OBVIOUS
    <3>1. Starts(todo) + SentStarts(stdin) + Runs(agent) + SaidEnds(stdout) = Running(turns)
      BY DEF TurnInv, OneRun
    <3> DEFINE s == Starts(todo)
               a == SentStarts(stdin)
               b == Runs(agent)
               c == SaidEnds(stdout)
               c2 == SaidEnds(stdout')
               n == Running(turns)
    <3>2. /\ s \in Nat /\ a \in Nat /\ b \in Nat /\ c \in Nat /\ n \in {0, 1} /\ c2 \in Nat
          /\ s + a + b + c = n /\ c2 = c - 1
      BY <1>3, <1>7, <3>1, RunCounts DEF Reads
    <3> HIDE DEF s, a, b, c, c2, n
    <3>3. c2 = c - (n - 0)
      BY <3>2
    <3> QED
      BY <3>3 DEF c, c2, n
  <2> QED
    BY <1>4, <2>2, <2>4, <2>5
<1> QED
  BY <1>6, <1>7 DEF Signal

\* A verdict for the agent is not a turn.
LEMMA VerdictSent ==
  ASSUME HostTypes, HostTypes', TurnInv, NEW a, <<"verdict", a>> \in StdinLines, Send(<<"verdict", a>>),
         turns' = turns, todo' = todo, refusing' = refusing, stdout' = stdout, agent' = agent
  PROVE  TurnInv'
<1> DEFINE line == <<"verdict", a>>
<1>1. line[1] = "verdict" /\ line # <<"start", None>> /\ line \in StdinLines /\ Send(line)
  OBVIOUS
<1> HIDE DEF line
<1>2. stdin \in Seq(StdinLines) /\ stdin' = IF Up THEN Append(stdin, line) ELSE stdin
  BY <1>1 DEF HostTypes, Send, Up
<1>3. /\ SentStarts(stdin) \in Nat
      /\ SentStarts(Append(stdin, line)) = SentStarts(stdin) + (IF line[1] = "start" THEN 1 ELSE 0)
      /\ \A x : Listed(Append(stdin, line), x) => Listed(stdin, x) \/ x = line
  BY <1>1, <1>2, LinesSent
<1>4. SentStarts(stdin') = SentStarts(stdin)
  BY <1>1, <1>2, <1>3
<1>5. \A x : Listed(stdin', x) => Listed(stdin, x) \/ x # <<"start", None>>
  BY <1>1, <1>2, <1>3
<1> QED
  BY <1>4, <1>5, RunStays DEF Up

LEMMA ReadTurns ==
  ASSUME HostTypes, HostTypes', TurnInv, MailInv, Read
  PROVE  TurnInv' /\ MailInv'
<1>1. CASE Signal
  BY <1>1, SignalTurns
<1>2. stdout \in Seq(StdoutLines) /\ stdin \in Seq(StdinLines)
  BY DEF HostTypes
<1>3. CASE Ask \/ Settle
  <2>1. /\ turns' = turns /\ todo' = todo /\ refusing' = refusing /\ stdin' = stdin /\ agent' = agent
        /\ poller' = poller /\ posted' = posted /\ results' = results
        /\ held' = held /\ closing' = closing /\ exited' = exited /\ eof' = eof
        /\ stdout # <<>> /\ stdout' = Tail(stdout) /\ Head(stdout)[1] \in {"ask", "cancel"}
    BY <1>3 DEF Ask, Settle, Reads, ReadRest, turnVars, mailVars, lifeVars
  <2>2. SaidEnds(stdout') = SaidEnds(stdout)
    <3>1. /\ SaidEnds(stdout) \in Nat
          /\ SaidEnds(stdout') = SaidEnds(stdout) - (IF Head(stdout)[1] = "ended" THEN 1 ELSE 0)
      BY <1>2, <2>1, LinesRead
    <3> QED
      BY <2>1, <3>1
  <2>3. TurnInv'
    BY <2>1, <2>2, RunStays DEF Up
  <2>4. MailInv'
    BY <2>1, MailStays DEF Up
  <2> QED
    BY <2>3, <2>4
<1>4. CASE SendDenial
  <2>1. /\ turns' = turns /\ todo' = todo /\ refusing' = refusing /\ stdout' = stdout /\ agent' = agent
        /\ poller' = poller /\ posted' = posted /\ results' = results
        /\ held' = held /\ closing' = closing /\ exited' = exited /\ eof' = eof
        /\ denial # 0 /\ Send(<<"verdict", denial>>)
    BY <1>4 DEF SendDenial, turnVars, queueVars, mailVars, lifeVars, agentVars
  <2>2. <<"verdict", denial>> \in StdinLines
    BY <2>1, AsksAreTyped DEF HostTypes, StdinLines
  <2>3. TurnInv' /\ MailInv'
    BY <2>1, <2>2, VerdictSent, MailStays DEF Up
  <2> QED
    BY <2>3
<1>5. CASE EndOfFile
  <2>1. /\ agent.is = "dead" /\ Drive("reader", ProcessGone(turns)) /\ eof' = TRUE
        /\ refusing' = refusing /\ stdin' = stdin /\ stdout' = stdout /\ agent' = agent
        /\ poller' = poller /\ posted' = posted /\ results' = results
        /\ held' = held /\ closing' = closing /\ exited' = exited
    BY <1>5 DEF EndOfFile, queueVars, mailVars, agentVars
  <2> DEFINE g == [turns EXCEPT !.gone = TRUE]
  <2>2. turns \in AllTurns /\ Fits(turns) /\ Bound(turns)
    BY DEF HostTypes, TurnInv, TurnsFit
  <2>3. /\ ProcessGone(turns) \in Asked /\ Deals(g, ProcessGone(turns), Running(turns))
        /\ Running(turns) \in {0, 1}
    BY <2>2, GoneIsTyped, GoneDeals DEF Running
  <2>4. g.running = turns.running /\ g.interrupts = turns.interrupts /\ g.gone = TRUE
    BY <2>2 DEF AllTurns
  <2>5. ~ Up
    BY <2>1 DEF Up
  <2> HIDE DEF g
  <2>6. /\ TurnInv' /\ turns'.gone = TRUE
        /\ \A m \in Interrupts : \/ m \in posted \/ m \in DOMAIN results
                                 \/ Listed(turns'.interrupts, m) \/ Does(todo', "result", m)
    BY <2>1, <2>3, <2>4, <2>5, DriveTurns
  <2>7. InterruptsHeld'
    BY <2>1, <2>6 DEF InterruptsHeld, InterruptHeld
  <2>8. Exits' /\ Holds'
    BY <2>1, <2>5, <2>6 DEF MailInv, Exits, Holds, Up
  <2> QED
    BY <2>6, <2>7, <2>8 DEF MailInv
<1>6. CASE ReportExit
  <2>1. /\ turns' = turns /\ todo' = todo /\ refusing' = refusing /\ stdin' = stdin /\ agent' = agent
        /\ poller' = poller /\ posted' = posted /\ results' = results /\ stdout' = stdout
        /\ held' = held /\ closing' = closing /\ exited' = TRUE /\ eof /\ eof' = eof
    BY <1>6 DEF ReportExit, turnVars, queueVars, mailVars, agentVars
  <2>2. TurnInv'
    BY <2>1, RunStays DEF Up
  <2>3. MailInv'
    BY <2>1 DEF MailInv, InterruptsHeld, InterruptHeld, Exits, Holds, Up
  <2> QED
    BY <2>2, <2>3
<1> QED
  BY <1>1, <1>3, <1>4, <1>5, <1>6 DEF Read

LEMMA DeliverTurns ==
  ASSUME HostTypes, HostTypes', TurnInv, MailInv, NEW m \in Messages, Deliver(m)
  PROVE  TurnInv' /\ MailInv'
<1>1. /\ Drive("poller", IF m \in Prompts THEN Accept(turns, m) ELSE Interrupt(turns, m))
      /\ posted' = posted \ {m} /\ results' = results /\ poller' = poller
      /\ refusing' = refusing /\ stdin' = stdin /\ stdout' = stdout /\ agent' = agent
      /\ held' = held /\ closing' = closing /\ exited' = exited /\ eof' = eof
  BY DEF Deliver, PollRest, agentVars
<1>2. turns \in AllTurns /\ Fits(turns) /\ Bound(turns)
  BY DEF HostTypes, TurnInv, TurnsFit
<1> DEFINE r == IF m \in Prompts THEN Accept(turns, m) ELSE Interrupt(turns, m)
<1>3. Running(turns) \in {0, 1}
  BY DEF Running
<1>4. r \in Asked /\ Deals(turns, r, Running(turns))
  BY <1>2, AcceptIsTyped, AcceptDeals, InterruptIsTyped, InterruptDeals
<1>5. m \in Interrupts => Listed(r.t.interrupts, m) \/ Does(r.acts, "result", m)
  BY <1>2, InterruptDeals, ClaudeHostAssumption
<1>6. Drive("poller", r)
  BY <1>1
<1> HIDE DEF r
<1>7. SaidEnds(stdout') = SaidEnds(stdout) - (Running(turns) - Running(turns))
  <2>1. SaidEnds(stdout) \in Nat
    BY RunCounts
  <2> QED
    BY <1>1, <1>3, <2>1
<1>8. /\ TurnInv' /\ turns'.gone = turns.gone
      /\ \A i \in Interrupts : \/ i \in posted \/ i \in DOMAIN results
                               \/ Listed(turns'.interrupts, i) \/ Does(todo', "result", i)
  BY <1>1, <1>3, <1>4, <1>6, <1>7, DriveTurns
<1>9. m \in Interrupts => Listed(turns'.interrupts, m) \/ Does(todo', "result", m)
  BY <1>3, <1>4, <1>5, <1>6, DriveDeals
<1>10. InterruptsHeld'
  BY <1>1, <1>8, <1>9 DEF InterruptsHeld, InterruptHeld
<1>11. Exits' /\ Holds'
  BY <1>1, <1>8 DEF MailInv, Exits, Holds, Up
<1> QED
  BY <1>8, <1>10, <1>11 DEF MailInv

LEMMA PollTurns ==
  ASSUME HostTypes, HostTypes', TurnInv, MailInv,
         \/ (\E a \in Asks : TakeAnswer(a)) \/ (\E m \in Messages : Deliver(m) \/ Lose(m))
         \/ DrainEvents \/ SendAnswer \/ StartClose \/ CloseDrain \/ CloseSettle \/ CloseForget
  PROVE  TurnInv' /\ MailInv'
<1>1. CASE DrainEvents
  <2>1. /\ turns' = turns /\ todo' = todo /\ refusing' = refusing /\ stdin' = stdin /\ stdout' = stdout
        /\ agent' = agent /\ poller' = poller /\ posted' = posted /\ results' = results
        /\ held' = held /\ closing' = closing /\ exited' = exited /\ eof' = eof
    BY <1>1 DEF DrainEvents, PollRest, turnVars, agentVars
  <2> QED
    BY <2>1, RunStays, MailStays DEF Up
<1>2. ASSUME NEW a \in Asks, TakeAnswer(a) PROVE TurnInv' /\ MailInv'
  <2>1. /\ turns' = turns /\ todo' = todo /\ refusing' = refusing /\ stdin' = stdin /\ stdout' = stdout
        /\ agent' = agent /\ posted' = posted /\ results' = results /\ held
        /\ held' = held /\ closing' = closing /\ exited' = exited /\ eof' = eof
    BY <1>2 DEF TakeAnswer, PollRest, turnVars, agentVars
  <2>2. ~ closing
    BY <2>1 DEF MailInv, Holds
  <2> QED
    BY <2>1, <2>2, RunStays, MailStays DEF Up
<1>3. CASE SendAnswer
  <2>1. /\ turns' = turns /\ todo' = todo /\ refusing' = refusing /\ stdout' = stdout
        /\ agent' = agent /\ posted' = posted /\ results' = results
        /\ held' = held /\ closing' = closing /\ exited' = exited /\ eof' = eof
        /\ poller[1] = "answer" /\ Send(<<"verdict", poller[2]>>)
    BY <1>3 DEF SendAnswer, PollRest, turnVars, agentVars
  <2>2. <<"verdict", poller[2]>> \in StdinLines
    BY <2>1, AsksAreTyped DEF HostTypes, Steps, StdinLines
  <2>3. ~ (closing /\ Up)
    BY <2>1 DEF MailInv, Holds
  <2>4. TurnInv'
    BY <2>1, <2>2, VerdictSent
  <2>5. MailInv'
    BY <2>1, <2>3, MailStays DEF Up
  <2> QED
    BY <2>4, <2>5
<1>4. ASSUME NEW m \in Messages, Lose(m) PROVE TurnInv' /\ MailInv'
  <2>1. /\ turns' = turns /\ todo' = todo /\ refusing' = refusing /\ stdin' = stdin /\ stdout' = stdout
        /\ agent' = agent /\ poller' = poller /\ posted' = posted \ {m}
        /\ held' = held /\ closing' = closing /\ exited' = exited /\ eof' = eof
    BY <1>4 DEF Lose, PollRest, turnVars, agentVars
  <2>2. DOMAIN results' = DOMAIN results \cup (IF m \in Prompts THEN {} ELSE {m})
    BY <1>4 DEF Lose, WriteResult
  <2>3. TurnInv'
    BY <2>1, RunStays DEF Up
  <2>4. InterruptsHeld'
    BY <2>1, <2>2, ClaudeHostAssumption DEF MailInv, InterruptsHeld, InterruptHeld
  <2>5. Exits' /\ Holds'
    BY <2>1 DEF MailInv, Exits, Holds, Up
  <2> QED
    BY <2>3, <2>4, <2>5 DEF MailInv
<1>5. CASE StartClose
  <2>1. /\ turns' = turns /\ todo' = todo /\ refusing' = refusing /\ stdin' = stdin /\ stdout' = stdout
        /\ agent' = agent /\ posted' = posted /\ results' = results
        /\ held' = FALSE /\ closing' = TRUE /\ poller'[1] = "drain" /\ exited' = exited /\ eof' = eof
    BY <1>5 DEF StartClose, PollRest, turnVars, agentVars
  <2>2. TurnInv'
    BY <2>1, RunStays DEF Up
  <2>3. MailInv'
    BY <2>1 DEF MailInv, InterruptsHeld, InterruptHeld, Exits, Holds, Up
  <2> QED
    BY <2>2, <2>3
<1>6. CASE CloseDrain \/ CloseSettle
  <2>1. /\ turns' = turns /\ todo' = todo /\ refusing' = refusing /\ stdin' = stdin /\ stdout' = stdout
        /\ agent' = agent /\ posted' = posted /\ results' = results
        /\ held' = held /\ closing' = closing /\ exited' = exited /\ eof' = eof
        /\ poller'[1] \in {"settle", "kill"}
    BY <1>6 DEF CloseDrain, CloseSettle, PollRest, turnVars, agentVars
  <2> QED
    BY <2>1, RunStays, MailStays DEF Up
<1>7. CASE CloseForget
  <2>1. /\ turns' = turns /\ todo' = todo /\ refusing' = refusing /\ stdin' = stdin /\ stdout' = stdout
        /\ agent' = agent /\ posted' = posted \ Prompts /\ results' = results
        /\ held' = held /\ closing' = closing /\ exited' = exited /\ eof' = eof
        /\ poller[1] = "forget"
    BY <1>7 DEF CloseForget, PollRest, turnVars, agentVars
  <2>2. ~ (closing /\ Up)
    BY <2>1 DEF MailInv, Holds
  <2>3. TurnInv'
    BY <2>1, RunStays DEF Up
  <2>4. InterruptsHeld'
    BY <2>1, ClaudeHostAssumption DEF MailInv, InterruptsHeld, InterruptHeld
  <2>5. Exits' /\ Holds'
    BY <2>1, <2>2 DEF MailInv, Exits, Holds, Up
  <2> QED
    BY <2>3, <2>4, <2>5 DEF MailInv
<1> QED
  BY <1>1, <1>2, <1>3, <1>4, <1>5, <1>6, <1>7, DeliverTurns

LEMMA AgentTurns ==
  ASSUME HostTypes, HostTypes', TurnInv, MailInv,
         \/ Hear \/ RaiseAsk \/ Die \/ CloseKill \/ (\E a \in Asks : TakeBack(a))
         \/ (\E end \in {"succeeded", "failed"} : EndTurn(end))
  PROVE  TurnInv' /\ MailInv'
<1>1. /\ turns' = turns /\ todo' = todo /\ refusing' = refusing
      /\ posted' = posted /\ results' = results
      /\ held' = held /\ closing' = closing /\ exited' = exited /\ eof' = eof
  BY DEF Hear, RaiseAsk, Die, CloseKill, TakeBack, EndTurn, hostVars, turnVars, queueVars, mailVars, lifeVars
<1>2. stdin \in Seq(StdinLines) /\ stdout \in Seq(StdoutLines) /\ agent \in Agents
  BY DEF HostTypes
<1>3. CASE Die \/ CloseKill
  <2>1. stdin' = <<>> /\ ~ Up'
    BY <1>3 DEF Die, CloseKill, Agent, Up
  <2>2. \A x : ~ Listed(stdin', x)
    BY <2>1 DEF Listed
  <2>3. TurnInv'
    BY <1>1, <2>1, <2>2, RunStays
  <2>4. MailInv'
    BY <1>1, <2>1 DEF MailInv, InterruptsHeld, InterruptHeld, Exits, Holds
  <2> QED
    BY <2>3, <2>4
<1>4. CASE ~ (Die \/ CloseKill)
  <2>1. Up /\ poller' = poller
    BY <1>4 DEF Hear, RaiseAsk, TakeBack, EndTurn, hostVars
  <2>2. MailInv'
    BY <1>1, <2>1, MailStays
  <2>3. /\ SentStarts(stdin) \in Nat /\ SaidEnds(stdout) \in Nat /\ Runs(agent) \in {0, 1}
    BY RunCounts
  <2>4. CASE Hear
    <3> DEFINE line == Head(stdin)
    <3>1. stdin # <<>> /\ stdin' = Tail(stdin) /\ stdout' = stdout
      BY <2>4 DEF Hear
    <3>2. /\ SentStarts(stdin') \in Nat
          /\ SentStarts(stdin') = SentStarts(stdin) - (IF line[1] = "start" THEN 1 ELSE 0)
          /\ line \in StdinLines /\ Listed(stdin, line)
          /\ \A x : Listed(stdin', x) => Listed(stdin, x)
      BY <1>2, <3>1, LinesHeard
    <3>3. line = <<line[1], line[2]>>
      BY <3>2 DEF StdinLines
    <3> HIDE DEF line
    <3>4. SentStarts(stdin') + Runs(agent') = SentStarts(stdin) + Runs(agent)
      <4>1. CASE line[1] = "start" /\ agent.run = None /\ agent' = [agent EXCEPT !.run = line[2], !.cut = FALSE]
        <5>1. line[2] # None
          BY <3>2, <3>3, <4>1 DEF TurnInv, Named
        <5>2. agent'.run = line[2]
          BY <1>2, <4>1 DEF Agents
        <5> QED
          BY <2>3, <3>2, <4>1, <5>1, <5>2 DEF Runs
      <4>2. CASE /\ line[1] \in {"verdict", "cut"}
                 /\ \/ agent' = [agent EXCEPT !.asks = @ \ {line[2]}]
                    \/ agent' = [agent EXCEPT !.cut = agent.run # None]
        <5>1. agent'.run = agent.run
          BY <1>2, <4>2 DEF Agents
        <5> QED
          BY <2>3, <3>2, <4>2, <5>1 DEF Runs
      <4> QED
        BY <2>4, <4>1, <4>2 DEF Hear, line
    <3>5. TurnInv'
      BY <1>1, <2>1, <3>1, <3>2, <3>4, RunStays
    <3> QED
      BY <2>2, <3>5
  <2>5. ASSUME NEW line \in StdoutLines, line[1] \in {"ask", "cancel"}, stdout' = Append(stdout, line),
               stdin' = stdin, agent'.run = agent.run
        PROVE  TurnInv'
    <3>1. SaidEnds(stdout') = SaidEnds(stdout) + (IF line[1] = "ended" THEN 1 ELSE 0)
      BY <1>2, <2>5, LinesSaid
    <3>2. SaidEnds(stdout') = SaidEnds(stdout)
      BY <2>3, <2>5, <3>1
    <3> QED
      BY <1>1, <2>1, <2>5, <3>2, RunStays DEF Runs
  <2>6. CASE RaiseAsk
    <3> DEFINE line == <<"ask", agent.asked + 1>>
    <3>1. stdout' = Append(stdout, line) /\ stdin' = stdin /\ agent'.run = agent.run
      BY <1>2, <2>6 DEF RaiseAsk, Says, Agents
    <3>2. line \in StdoutLines
      <4>1. agent.asked + 1 \in Asks
        BY <1>2, <2>6, ClaudeHostAssumption DEF RaiseAsk, Asks, Agents
      <4> QED
        BY <4>1 DEF StdoutLines
    <3> QED
      BY <2>2, <2>5, <3>1, <3>2
  <2>7. ASSUME NEW a \in Asks, TakeBack(a) PROVE TurnInv'
    <3> DEFINE line == <<"cancel", a>>
    <3>1. stdout' = Append(stdout, line) /\ stdin' = stdin /\ agent'.run = agent.run
      BY <1>2, <2>7 DEF TakeBack, Says, Agents
    <3>2. line \in StdoutLines
      BY DEF StdoutLines
    <3> QED
      BY <2>5, <3>1, <3>2
  <2>8. ASSUME NEW end \in {"succeeded", "failed"}, EndTurn(end) PROVE TurnInv'
    <3>1. agent.run # None /\ stdin' = stdin /\ agent'.run = None
      BY <1>2, <2>8 DEF EndTurn, Agents
    <3>2. PICK report \in {<<>>, <<<<"reported", None>>>>} : stdout' = stdout \o report \o <<<<"ended", end>>>>
      BY <2>8 DEF EndTurn
    <3> DEFINE last == <<"ended", end>>
               said == stdout \o report
    <3>3. last \in StdoutLines /\ last[1] = "ended"
      BY DEF StdoutLines
    <3>4. said \in Seq(StdoutLines) /\ SaidEnds(said) = SaidEnds(stdout)
      <4>1. CASE report = <<>>
        BY <1>2, <4>1
      <4>2. CASE report = <<<<"reported", None>>>>
        <5> DEFINE line == <<"reported", None>>
        <5>1. line \in StdoutLines /\ line[1] = "reported"
          BY DEF StdoutLines
        <5>2. report = <<line>>
          BY <4>2
        <5> HIDE DEF line
        <5>3. said = Append(stdout, line)
          BY <1>2, <5>1, <5>2
        <5>4. SaidEnds(Append(stdout, line)) = SaidEnds(stdout) + (IF line[1] = "ended" THEN 1 ELSE 0)
          BY <1>2, <5>1, LinesSaid
        <5>5. Append(stdout, line) \in Seq(StdoutLines)
          BY <1>2, <5>1
        <5> HIDE DEF said
        <5> QED
          BY <2>3, <5>1, <5>3, <5>4, <5>5
      <4> QED
        BY <4>1, <4>2
    <3>5. stdout' = said \o <<last>>
      BY <3>2
    <3> HIDE DEF said, last
    <3>6. stdout' = Append(said, last)
      BY <3>3, <3>4, <3>5
    <3>7. SaidEnds(Append(said, last)) = SaidEnds(said) + (IF last[1] = "ended" THEN 1 ELSE 0)
      BY <3>3, <3>4, LinesSaid
    <3>8. SaidEnds(stdout') = SaidEnds(stdout) + 1
      BY <3>3, <3>4, <3>6, <3>7
    <3>9. Runs(agent) = 1 /\ Runs(agent') = 0
      BY <3>1 DEF Runs
    <3>10. SentStarts(stdin') + Runs(agent') + SaidEnds(stdout') = SentStarts(stdin) + Runs(agent) + SaidEnds(stdout)
      BY <2>3, <3>1, <3>8, <3>9
    <3> QED
      BY <1>1, <2>1, <3>1, <3>10, RunStays
  <2> QED
    BY <1>4, <2>2, <2>4, <2>6, <2>7, <2>8
<1> QED
  BY <1>3, <1>4

LeftInv == PlacesInv /\ TurnInv /\ MailInv

LEMMA LeftInit ==
  ASSUME Init
  PROVE  LeftInv
<1>1. PlacesInv
  BY PlacesInit
<1>2. turns = NoTurns /\ todo = <<>> /\ stdin = <<>> /\ stdout = <<>> /\ agent.run = None /\ ~ refusing
  BY DEF Init, Agent
<1>3. TurnsFit /\ Running(turns) = 0
  BY <1>2 DEF TurnsFit, Fits, Bound, Running, NoTurns
<1>4. Named /\ Refuses
  BY <1>2, NoActs DEF Named, Refuses, Listed
<1>5. OneRun
  BY <1>2, <1>3, NoActs, ByEmpty DEF OneRun, Runs, SentStarts, SaidEnds
<1>6. MailInv
  BY DEF Init, NoTurns, MailInv, InterruptsHeld, InterruptHeld, Exits, Holds, Messages, Up
<1> QED
  BY <1>1, <1>3, <1>4, <1>5, <1>6 DEF LeftInv, TurnInv

LEMMA LeftStep ==
  ASSUME LeftInv, [Next]_claudeVars
  PROVE  LeftInv'
<1>1. PlacesInv'
  BY PlacesStep DEF LeftInv
<1>2. HostTypes /\ HostTypes' /\ TurnInv /\ MailInv
  BY <1>1 DEF LeftInv, PlacesInv
<1>3. CASE UNCHANGED claudeVars
  <2>1. TurnInv'
    BY <1>2, <1>3 DEF TurnInv, TurnsFit, Named, OneRun, Refuses, Turning, Up,
         claudeVars, hostVars, turnVars, queueVars, agentVars
  <2>2. MailInv'
    BY <1>2, <1>3 DEF MailInv, InterruptsHeld, InterruptHeld, Exits, Holds, Up,
         claudeVars, hostVars, turnVars, mailVars, lifeVars, agentVars
  <2> QED
    BY <1>1, <2>1, <2>2 DEF LeftInv
<1>4. CASE Next
  <2>1. TurnInv' /\ MailInv'
    BY <1>2, <1>4, PerformTurns, ReadTurns, PollTurns, AgentTurns DEF Next, Progress, Unforced
  <2> QED
    BY <1>1, <2>1 DEF LeftInv
<1> QED
  BY <1>3, <1>4

\* Where no progress is possible, the agent has no turn and waits for none.
LEMMA QuietLeavesNothing ==
  ASSUME LeftInv, Quiet
  PROVE  Interrupts \subseteq DOMAIN results
         /\ (Up => ~ Turning /\ turns.pending = <<>> /\ ~ refusing /\ stdin = <<>>)
<1> USE DEF LeftInv
<1>1. HostTypes /\ Fits(turns) /\ Exits /\ Holds /\ OneRun /\ OnePlace
  BY DEF PlacesInv, TurnInv, TurnsFit, MailInv
<1>2. todo = <<>> /\ stdout = <<>> /\ denial = 0 /\ poller = Empty /\ posted = {}
  BY DEF Quiet
<1>3. Up => agent.asks = {} /\ agent.run = None /\ stdin = <<>>
  <2> SUFFICES ASSUME Up PROVE agent.asks = {} /\ agent.run = None /\ stdin = <<>>
    OBVIOUS
  <2>1. ~ closing /\ held
    BY <1>1, <1>2 DEF Holds, Empty
  <2>2. queue = <<>> /\ (agent.run = None \/ agent.asks # {})
        /\ (stdin = <<>> \/ (Head(stdin)[1] = "start" /\ agent.run # None))
    BY <2>1 DEF Quiet
  <2>3. stdin = <<>>
    <3> SUFFICES ASSUME stdin # <<>> PROVE FALSE
      OBVIOUS
    <3>1. Head(stdin)[1] = "start" /\ Runs(agent) = 1
      BY <2>2 DEF Runs
    <3>2. /\ SentStarts(stdin) \in Nat /\ SentStarts(Tail(stdin)) \in Nat
          /\ SentStarts(Tail(stdin)) = SentStarts(stdin) - (IF Head(stdin)[1] = "start" THEN 1 ELSE 0)
      BY <1>1, LinesHeard DEF HostTypes
    <3>3. Starts(todo) + SentStarts(stdin) + Runs(agent) + SaidEnds(stdout) = Running(turns)
      BY <1>1 DEF OneRun
    <3> DEFINE s == Starts(todo)
               a == SentStarts(stdin)
               a2 == SentStarts(Tail(stdin))
               b == Runs(agent)
               c == SaidEnds(stdout)
               n == Running(turns)
    <3>4. /\ s \in Nat /\ a \in Nat /\ a2 \in Nat /\ c \in Nat /\ n \in {0, 1} /\ b = 1
          /\ a2 = a - 1 /\ s + a + b + c = n
      BY <1>1, <3>1, <3>2, <3>3, RunCounts
    <3> HIDE DEF s, a, a2, b, c, n
    <3> QED
      BY <3>4
  <2>4. agent.asks = {}
    <3> SUFFICES ASSUME NEW a \in agent.asks PROVE FALSE
      OBVIOUS
    <3>1. Places(a) = 1
      BY <1>1, <2>1 DEF OnePlace
    <3>2. a # 0 /\ poller # <<"answer", a>>
      BY <1>1, <1>2, AsksAreTyped DEF HostTypes, Agents, Empty
    <3>3. Places(a) = 0
      BY <1>2, <2>2, <2>3, <3>2, CountEmpty DEF Places
    <3> QED
      BY <3>1, <3>3
  <2> QED
    BY <2>2, <2>3, <2>4
<1>4. Up => ~ Turning
  <2> SUFFICES ASSUME Up PROVE ~ Turning
    OBVIOUS
  <2>1. Starts(todo) = 0 /\ Runs(agent) = 0 /\ SentStarts(stdin) = 0 /\ SaidEnds(stdout) = 0
    BY <1>2, <1>3, NoActs, ByEmpty DEF Runs, SentStarts, SaidEnds
  <2>2. Running(turns) = 0
    BY <1>1, <2>1 DEF OneRun
  <2> QED
    BY <2>2 DEF Running, Turning
<1>5. Up => turns.pending = <<>> /\ ~ refusing
  BY <1>1, <1>2, <1>4, NoActs DEF Fits, Turning, TurnInv, Refuses
<1>6. Interrupts \subseteq DOMAIN results
  <2>1. turns.interrupts = <<>>
    <3>1. turns.interrupts # <<>> => Turning /\ ~ turns.gone
      BY <1>1 DEF Fits, Turning
    <3>2. ~ Up => turns.gone
      BY <1>1 DEF Quiet, Exits
    <3> QED
      BY <1>4, <3>1, <3>2
  <2>2. \A m : ~ Listed(turns.interrupts, m) /\ ~ Does(todo, "result", m)
    BY <1>2, <2>1, NoActs DEF Listed
  <2> QED
    BY <1>2, <2>2 DEF MailInv, InterruptsHeld, InterruptHeld
<1> QED
  BY <1>3, <1>4, <1>5, <1>6

\* Every interrupt gets a result, and every message that the host took is
\* given to the agent, unless the agent dies or the worker is closed: where no
\* step of the threads, the person or the agent is left, nothing waits.
THEOREM NothingIsLeft == Spec => []NothingLeftBehind
<1>1. Init => LeftInv
  BY LeftInit
<1>2. LeftInv /\ [Next]_claudeVars => LeftInv'
  BY LeftStep
<1>3. LeftInv => NothingLeftBehind
  BY QuietLeavesNothing DEF NothingLeftBehind
<1> QED
  BY <1>1, <1>2, <1>3, PTL DEF Spec

(***************************************************************************)
(* What waiting events make of the view.  Two wait at most: the last that  *)
(* settles all that went before, and a start after it.                     *)
(***************************************************************************)
StartedEvent == <<"TurnStarted">>
Resets == {<<"TurnEnded">>, <<"settled">>} \cup ({"asked"} \X SUBSET Asks)
FewEvents(all) ==
  \/ all = <<>> \/ all = <<StartedEvent>>
  \/ \E e \in Resets : all = <<e>> \/ all = <<e, StartedEvent>>

LEMMA NoneApplied == \A view : Applied(view, <<>>) = view
<1> SUFFICES ASSUME NEW view PROVE Applied(view, <<>>) = view
  OBVIOUS
<1> DEFINE after[n \in 0..0] == IF n = 0 THEN view ELSE Reduce(after[n - 1], <<>>[n])
<1>1. Applied(view, <<>>) = after[0]
  BY DEF Applied
<1>2. after = [n \in 0..0 |-> IF n = 0 THEN view ELSE Reduce(after[n - 1], <<>>[n])]
  <2> DEFINE g == [n \in 0..0 |-> view]
  <2>1. g = [n \in 0..0 |-> IF n = 0 THEN view ELSE Reduce(g[n - 1], <<>>[n])]
    OBVIOUS
  <2> QED
    BY <2>1
<1> QED
  BY <1>1, <1>2
LEMMA OneApplied == \A view, e : Applied(view, <<e>>) = Reduce(view, e)
<1> SUFFICES ASSUME NEW view, NEW e PROVE Applied(view, <<e>>) = Reduce(view, e)
  OBVIOUS
<1> DEFINE all == <<e>>
           after[n \in 0..1] == IF n = 0 THEN view ELSE Reduce(after[n - 1], all[n])
<1>1. Len(all) = 1 /\ all[1] = e
  OBVIOUS
<1> HIDE DEF all
<1>2. Applied(view, all) = after[1]
  BY <1>1 DEF Applied
<1>3. after = [n \in 0..1 |-> IF n = 0 THEN view ELSE Reduce(after[n - 1], all[n])]
  <2> DEFINE g == [n \in 0..1 |-> IF n = 0 THEN view ELSE Reduce(view, all[1])]
  <2>1. g = [n \in 0..1 |-> IF n = 0 THEN view ELSE Reduce(g[n - 1], all[n])]
    OBVIOUS
  <2> QED
    BY <2>1
<1> HIDE DEF after
<1>4. after[0] = view
  BY <1>3
<1>5. after[1] = Reduce(after[0], all[1])
  BY <1>3
<1> QED
  BY <1>1, <1>2, <1>4, <1>5 DEF all

LEMMA TwoApplied == \A view, e, f : Applied(view, <<e, f>>) = Reduce(Reduce(view, e), f)
<1> SUFFICES ASSUME NEW view, NEW e, NEW f PROVE Applied(view, <<e, f>>) = Reduce(Reduce(view, e), f)
  OBVIOUS
<1> DEFINE all == <<e, f>>
           after[n \in 0..2] == IF n = 0 THEN view ELSE Reduce(after[n - 1], all[n])
<1>1. Len(all) = 2 /\ all[1] = e /\ all[2] = f
  OBVIOUS
<1> HIDE DEF all
<1>2. Applied(view, all) = after[2]
  BY <1>1 DEF Applied
<1>3. after = [n \in 0..2 |-> IF n = 0 THEN view ELSE Reduce(after[n - 1], all[n])]
  <2> DEFINE one == Reduce(view, all[1])
             g == [n \in 0..2 |-> IF n = 0 THEN view ELSE IF n = 1 THEN one ELSE Reduce(one, all[2])]
  <2>1. g = [n \in 0..2 |-> IF n = 0 THEN view ELSE Reduce(g[n - 1], all[n])]
    OBVIOUS
  <2> QED
    BY <2>1
<1> HIDE DEF after
<1>4. after[0] = view /\ after[1] = Reduce(after[0], all[1]) /\ after[2] = Reduce(after[1], all[2])
  BY <1>3
<1> QED
  BY <1>1, <1>2, <1>4 DEF all


LEMMA OneThenOther ==
  ASSUME NEW x, NEW y
  PROVE  Append(<<x>>, y) = <<x, y>>
<1> DEFINE S == {x, y}
           s == <<x>>
           t == <<x, y>>
           u == Append(s, y)
<1>1. x \in S /\ y \in S /\ s \in Seq(S) /\ Len(s) = 1 /\ s[1] = x
  OBVIOUS
<1>2. t \in Seq(S) /\ Len(t) = 2 /\ t[1] = x /\ t[2] = y
  OBVIOUS
<1> HIDE DEF S, s, t
<1>3. u \in Seq(S) /\ Len(u) = Len(s) + 1 /\ \A i \in 1..Len(s) : u[i] = s[i]
  BY <1>1, AppendProperties
<1>4. u[Len(s) + 1] = y
  BY <1>1, AppendProperties
<1> HIDE DEF u
<1>5. Len(u) = 2 /\ u[1] = x /\ u[2] = y
  BY <1>1, <1>3, <1>4
<1>6. \A i \in 1..Len(u) : u[i] = t[i]
  <2>1. \A i \in 1..Len(u) : i = 1 \/ i = 2
    BY <1>5
  <2> QED
    BY <1>2, <1>5, <2>1
<1>7. u = t
  BY <1>2, <1>3, <1>5, <1>6, SeqEqual
<1> QED
  BY <1>7 DEF s, t, u

\* What each event makes of a view.
LEMMA Reduced ==
  ASSUME NEW p, NEW b
  PROVE  /\ Reduce([phase |-> p, blocked |-> b], StartedEvent) = [phase |-> "running", blocked |-> b]
         /\ Reduce([phase |-> p, blocked |-> b], <<"TurnEnded">>) = [phase |-> "idle", blocked |-> {}]
         /\ Reduce([phase |-> p, blocked |-> b], <<"settled">>) = [phase |-> "running", blocked |-> {}]
         /\ \A asks : Reduce([phase |-> p, blocked |-> b], <<"asked", asks>>) = [phase |-> "blocked", blocked |-> asks]
         /\ \A e : e[1] \in {"Reported", "gone"}
                     => Reduce([phase |-> p, blocked |-> b], e) = [phase |-> p, blocked |-> b]
  BY DEF Reduce, StartedEvent

\* What the waiting events make of a view is a view.
LEMMA AppliedIsView ==
  ASSUME FewEvents(events), NEW p, NEW b
  PROVE  \E q, c : Applied([phase |-> p, blocked |-> b], events) = [phase |-> q, blocked |-> c]
<1> DEFINE view == [phase |-> p, blocked |-> b]
<1>1. \A x \in Resets : \A v : Reduce(v, x) = [phase |-> Reduce(v, x).phase, blocked |-> Reduce(v, x).blocked]
  BY DEF Resets, Reduce
<1>2. \A q, c : Reduce([phase |-> q, blocked |-> c], StartedEvent) = [phase |-> "running", blocked |-> c]
  BY DEF Reduce, StartedEvent
<1>3. \E q, c : Applied(view, events) = [phase |-> q, blocked |-> c]
  <2>1. CASE events = <<>>
    BY <2>1, NoneApplied
  <2>2. CASE events = <<StartedEvent>>
    <3>1. Applied(view, events) = Reduce(view, StartedEvent)
      BY <2>2, OneApplied
    <3>2. Reduce(view, StartedEvent) = [phase |-> "running", blocked |-> b]
      BY <1>2
    <3> QED
      BY <3>1, <3>2
  <2>3. ASSUME NEW x \in Resets, events = <<x>> \/ events = <<x, StartedEvent>>
        PROVE  \E q, c : Applied(view, events) = [phase |-> q, blocked |-> c]
    <3> DEFINE v == Reduce(view, x)
    <3>1. v = [phase |-> v.phase, blocked |-> v.blocked]
      BY <1>1
    <3>2. Applied(view, events) = v \/ Applied(view, events) = Reduce(v, StartedEvent)
      BY <2>3, OneApplied, TwoApplied
    <3> HIDE DEF v, view
    <3>3. Reduce(v, StartedEvent) = [phase |-> "running", blocked |-> v.blocked]
      BY <1>2, <3>1
    <3> QED
      BY <3>1, <3>2, <3>3
  <2> QED
    BY <2>1, <2>2, <2>3 DEF FewEvents
<1> QED
  BY <1>3

\* A pushed event is applied after those that wait.
LEMMA PushShows ==
  ASSUME FewEvents(events), NEW e,
         e \in Resets \cup {StartedEvent} \/ e[1] \in {"Reported", "gone"}, Push(e), NEW p, NEW b
  PROVE  /\ FewEvents(events')
         /\ Applied([phase |-> p, blocked |-> b], events') = Reduce(Applied([phase |-> p, blocked |-> b], events), e)
<1> DEFINE view == [phase |-> p, blocked |-> b]
<1>1. \A x \in Resets : /\ \A v, w : Reduce(v, x) = Reduce(w, x)
                        /\ \A v : Reduce(v, x) = [phase |-> Reduce(v, x).phase, blocked |-> Reduce(v, x).blocked]
                        /\ x[1] \in {"TurnEnded", "asked", "settled"}
  BY DEF Resets, Reduce
<1>2. \A q, c : /\ Reduce([phase |-> q, blocked |-> c], StartedEvent) = [phase |-> "running", blocked |-> c]
                /\ e[1] \in {"Reported", "gone"} => Reduce([phase |-> q, blocked |-> c], e) = [phase |-> q, blocked |-> c]
  BY DEF Reduce, StartedEvent
<1>3. \E q, c : Applied(view, events) = [phase |-> q, blocked |-> c]
  BY AppliedIsView
<1> HIDE DEF view
<1>4. CASE e \in Resets
  <2>1. events' = <<e>>
    BY <1>1, <1>4 DEF Push
  <2>2. Applied(view, events') = Reduce(view, e)
    BY <2>1, OneApplied
  <2> QED
    BY <1>1, <1>4, <2>1, <2>2 DEF FewEvents, view
<1>5. CASE e = StartedEvent
  <2>1. events' = IF ~ Contains(events, e) THEN Append(events, e) ELSE events
    BY <1>5 DEF Push, StartedEvent
  <2>2. CASE events = <<>>
    <3>1. ~ Contains(events, e) /\ Append(events, e) = <<e>>
      BY <2>2 DEF Contains
    <3> QED
      BY <1>5, <2>1, <2>2, <3>1, NoneApplied, OneApplied DEF FewEvents, view
  <2>3. ASSUME NEW x \in Resets, events = <<x>>
        PROVE  FewEvents(events') /\ Applied(view, events') = Reduce(Applied(view, events), e)
    <3>1. x # e
      BY <1>1, <1>5 DEF StartedEvent
    <3>2. \A i \in 1..Len(<<x>>) : <<x>>[i] = x
      OBVIOUS
    <3>3. ~ Contains(<<x>>, e)
      BY <3>1, <3>2 DEF Contains
    <3>4. events' = Append(<<x>>, e)
      BY <2>1, <2>3, <3>3
    <3>5. Append(<<x>>, e) = <<x, e>>
      BY OneThenOther
    <3>6. events' = <<x, e>>
      BY <3>4, <3>5
    <3>7. FewEvents(events')
      BY <1>5, <3>6 DEF FewEvents
    <3>8. Applied(view, <<x, e>>) = Reduce(Reduce(view, x), e) /\ Applied(view, <<x>>) = Reduce(view, x)
      BY OneApplied, TwoApplied
    <3> QED
      BY <2>3, <3>6, <3>7, <3>8
  <2>4. ASSUME events = <<StartedEvent>> \/ \E x \in Resets : events = <<x, StartedEvent>>
        PROVE  FewEvents(events') /\ Applied(view, events') = Reduce(Applied(view, events), e)
    <3>1. Contains(events, e)
      BY <1>5, <2>4 DEF Contains
    <3>2. \E v : Applied(view, events) = Reduce(v, e) /\ v = [phase |-> v.phase, blocked |-> v.blocked]
      BY <1>1, <1>5, <2>4, OneApplied, TwoApplied DEF view
    <3>3. PICK v : Applied(view, events) = Reduce(v, e) /\ v = [phase |-> v.phase, blocked |-> v.blocked]
      BY <3>2
    <3>4. Reduce(Reduce(v, e), e) = Reduce(v, e)
      <4>1. Reduce(v, e) = [phase |-> "running", blocked |-> v.blocked]
        BY <1>2, <1>5, <3>3
      <4>2. Reduce([phase |-> "running", blocked |-> v.blocked], e) = [phase |-> "running", blocked |-> v.blocked]
        BY <1>2, <1>5
      <4> QED
        BY <4>1, <4>2
    <3> QED
      BY <2>1, <3>1, <3>3, <3>4
  <2> QED
    BY <2>2, <2>3, <2>4 DEF FewEvents, view
<1>6. CASE e[1] \in {"Reported", "gone"}
  <2>1. events' = events
    BY <1>6 DEF Push
  <2> QED
    BY <1>2, <1>3, <1>6, <2>1 DEF view
<1> QED
  BY <1>4, <1>5, <1>6 DEF view

(***************************************************************************)
(* The order in which an operation tells of the turns: the end of one, the *)
(* start of the next, then the start itself.                               *)
(***************************************************************************)
Rank(x) ==
  IF x.act = "start" THEN 3
  ELSE IF x.act = "emit" /\ x.what = "TurnStarted" THEN 2
  ELSE IF x.act = "emit" /\ x.what = "TurnEnded" THEN 1 ELSE 0
Has(acts, rank) == \E i \in 1..Len(acts) : Rank(acts[i]) = rank
Orderly(acts) ==
  /\ \A i \in 1..Len(acts) : acts[i].act = "emit" => acts[i].what \in {"TurnStarted", "TurnEnded", "Reported"}
  /\ \A i, j \in 1..Len(acts) :
       i < j /\ Rank(acts[i]) # 0 /\ Rank(acts[j]) # 0 => Rank(acts[i]) < Rank(acts[j])

\* The actions that wait tell which turn runs once they are performed.
Tells(t, acts) ==
  /\ Orderly(acts)
  /\ Has(acts, 2) => t.running # None /\ Has(acts, 3)
  /\ Has(acts, 1) /\ t.running # None => Has(acts, 2)

\* From the turns t to r: nobody starts a turn untold, and who ends none starts none
\* while one runs.
Announces(t, r) == Tells(r.t, r.acts) /\ (t.running = None /\ r.t.running # None => Has(r.acts, 2))
Calm(t, r) == t.running # None => ~ Has(r.acts, 1) /\ ~ Has(r.acts, 2)

LEMMA Ranks == \A x : Rank(x) \in 0..3 /\ (x.act \notin {"start", "emit"} => Rank(x) = 0)
  BY DEF Rank

LEMMA Joined ==
  ASSUME NEW a \in Seq(Acts), NEW b \in Seq(Acts), Orderly(a), Orderly(b),
         \A k, l \in 1..3 : Has(a, k) /\ Has(b, l) => k < l
  PROVE  /\ a \o b \in Seq(Acts) /\ Orderly(a \o b)
         /\ \A k : Has(a \o b, k) <=> Has(a, k) \/ Has(b, k)
<1> DEFINE c == a \o b
<1>1. /\ Len(a) \in Nat /\ Len(b) \in Nat /\ Len(c) = Len(a) + Len(b) /\ c \in Seq(Acts)
      /\ \A i \in 1..(Len(a) + Len(b)) : c[i] = IF i <= Len(a) THEN a[i] ELSE b[i - Len(a)]
  OBVIOUS
<1> HIDE DEF c
<1>2. \A i \in 1..Len(a) : i \in 1..Len(c) /\ c[i] = a[i]
  BY <1>1
<1>3. \A j \in 1..Len(b) : j + Len(a) \in 1..Len(c) /\ c[j + Len(a)] = b[j]
  <2> SUFFICES ASSUME NEW j \in 1..Len(b) PROVE j + Len(a) \in 1..Len(c) /\ c[j + Len(a)] = b[j]
    OBVIOUS
  <2>1. j + Len(a) \in 1..(Len(a) + Len(b)) /\ ~ (j + Len(a) <= Len(a)) /\ (j + Len(a)) - Len(a) = j
    BY <1>1
  <2> QED
    BY <1>1, <2>1
<1>4. \A i \in 1..Len(c) : \/ i \in 1..Len(a) /\ c[i] = a[i]
                           \/ i > Len(a) /\ i - Len(a) \in 1..Len(b) /\ c[i] = b[i - Len(a)]
  BY <1>1
<1>5. \A k : Has(c, k) <=> Has(a, k) \/ Has(b, k)
  <2> TAKE k
  <2>1. Has(c, k) => Has(a, k) \/ Has(b, k)
    BY <1>4 DEF Has
  <2>2. Has(a, k) => Has(c, k)
    BY <1>2 DEF Has
  <2>3. Has(b, k) => Has(c, k)
    BY <1>3 DEF Has
  <2> QED
    BY <2>1, <2>2, <2>3
<1>6. \A i \in 1..Len(c) : c[i].act = "emit" => c[i].what \in {"TurnStarted", "TurnEnded", "Reported"}
  BY <1>4 DEF Orderly
<1>7. ASSUME NEW i \in 1..Len(c), NEW j \in 1..Len(c), i < j, Rank(c[i]) # 0, Rank(c[j]) # 0
      PROVE  Rank(c[i]) < Rank(c[j])
  <2>1. CASE i \in 1..Len(a) /\ c[i] = a[i] /\ j \in 1..Len(a) /\ c[j] = a[j]
    BY <1>7, <2>1 DEF Orderly
  <2>2. CASE i > Len(a) /\ i - Len(a) \in 1..Len(b) /\ c[i] = b[i - Len(a)]
             /\ j > Len(a) /\ j - Len(a) \in 1..Len(b) /\ c[j] = b[j - Len(a)]
    <3>1. i - Len(a) < j - Len(a)
      BY <1>1, <1>7
    <3> QED
      BY <1>7, <2>2, <3>1 DEF Orderly
  <2>3. CASE i \in 1..Len(a) /\ c[i] = a[i] /\ j - Len(a) \in 1..Len(b) /\ c[j] = b[j - Len(a)]
    <3>1. Rank(c[i]) \in 1..3 /\ Rank(c[j]) \in 1..3
      BY <1>7, Ranks
    <3>2. Has(a, Rank(c[i])) /\ Has(b, Rank(c[j]))
      BY <2>3 DEF Has
    <3> QED
      BY <3>1, <3>2
  <2> QED
    BY <1>1, <1>4, <1>7, <2>1, <2>2, <2>3
<1>8. Orderly(c)
  BY <1>6, <1>7 DEF Orderly
<1> QED
  BY <1>1, <1>5, <1>8 DEF c

LEMMA NoneTold == Orderly(<<>>) /\ \A k : ~ Has(<<>>, k)
  BY DEF Orderly, Has

LEMMA OneTold ==
  ASSUME NEW act, NEW what, NEW how, [act |-> act, what |-> what, how |-> how] \in TurnActs,
         act = "emit" => what \in {"TurnStarted", "TurnEnded", "Reported"}
  PROVE  /\ Do(act, what, how) \in Seq(Acts) /\ Orderly(Do(act, what, how))
         /\ \A k : Has(Do(act, what, how), k) <=> Rank([act |-> act, what |-> what, how |-> how]) = k
<1> DEFINE x == [act |-> act, what |-> what, how |-> how]
           s == <<x>>
<1>1. Do(act, what, how) = s /\ Do(act, what, how) \in Seq(Acts)
  BY OneAct DEF Do
<1>2. Len(s) = 1 /\ s[1] = x /\ x.act = act /\ x.what = what /\ \A i \in 1..1 : i = 1
  OBVIOUS
<1> HIDE DEF x, s
<1>3. Orderly(s) /\ \A k : Has(s, k) <=> Rank(x) = k
  BY <1>2 DEF Orderly, Has
<1> QED
  BY <1>1, <1>3 DEF x, s

\* Actions of which no event or start is one.
Silent(acts) == \A i \in 1..Len(acts) : acts[i].act \notin {"emit", "start"}
LEMMA SilentTells == ASSUME NEW acts, Silent(acts) PROVE Orderly(acts) /\ \A k \in 1..3 : ~ Has(acts, k)
  BY Ranks DEF Silent, Orderly, Has

LEMMA SilentAfter ==
  ASSUME NEW t, NEW a \in Seq(Acts), NEW b \in Seq(Acts), Silent(b), NEW k \in 1..3
  PROVE  /\ Tells(t, a) => Tells(t, a \o b) /\ Tells(t, b \o a)
         /\ Orderly(a) => (Has(a \o b, k) <=> Has(a, k)) /\ (Has(b \o a, k) <=> Has(a, k))
<1>1. Orderly(b) /\ \A n \in 1..3 : ~ Has(b, n)
  BY SilentTells
<1>2. Orderly(a) => /\ Orderly(a \o b) /\ Orderly(b \o a)
                    /\ \A n \in 1..3 : (Has(a \o b, n) <=> Has(a, n)) /\ (Has(b \o a, n) <=> Has(a, n))
  BY <1>1, Joined
<1> QED
  BY <1>2 DEF Tells
LEMMA AdvanceTells ==
  ASSUME NEW t \in AllTurns
  PROVE  LET r == Advance(t) IN
         /\ r \in Asked /\ r.acts \in Seq(Acts) /\ Announces(t, r) /\ ~ Has(r.acts, 1)
         /\ t.running # None => r.acts = <<>> /\ r.t = t
<1> DEFINE r == Advance(t)
<1>1. r \in Asked /\ r.acts \in Seq(Acts)
  BY AdvanceIsTyped, ActNames DEF Asked
<1>2. CASE t.running # None \/ t.pending = <<>>
  <2>1. r.t = t /\ r.acts = <<>>
    BY <1>2 DEF Advance, With
  <2> HIDE DEF r
  <2> QED
    BY <1>1, <2>1, NoneTold DEF Announces, Tells, r
<1>3. CASE ~ (t.running # None \/ t.pending = <<>>)
  <2> DEFINE next == [StartQueued(t) EXCEPT !.running = Head(t.pending), !.reported = FALSE,
                                            !.previous = t.turn, !.turn = NoTurn, !.sent = FALSE]
             tell == Do("emit", "TurnStarted", None)
             start == Do("start", Head(t.pending), None)
  <2>1. Head(t.pending) \in Texts
    BY <1>3 DEF AllTurns
  <2>2. Head(t.pending) # None
    BY <2>1, ClaudeHostAssumption DEF Texts, Messages, None, Reminder
  <2>3. next.running = Head(t.pending)
    BY DEF StartQueued, AllTurns
  <2>4. [act |-> "emit", what |-> "TurnStarted", how |-> None] \in TurnActs
    BY DEF TurnActs, Whats
  <2>5. [act |-> "start", what |-> Head(t.pending), how |-> None] \in TurnActs
    BY <2>1 DEF TurnActs, Whats
  <2>6. tell \in Seq(Acts) /\ Orderly(tell) /\ \A k : Has(tell, k) <=> k = 2
    <3>1. Rank([act |-> "emit", what |-> "TurnStarted", how |-> None]) = 2
      BY DEF Rank
    <3> QED
      BY <2>4, <3>1, OneTold
  <2>7. start \in Seq(Acts) /\ Orderly(start) /\ \A k : Has(start, k) <=> k = 3
    <3>1. Rank([act |-> "start", what |-> Head(t.pending), how |-> None]) = 3
      BY DEF Rank
    <3> QED
      BY <2>5, <3>1, OneTold
  <2>8. r.t = next /\ r.acts = tell \o start
    BY <1>3 DEF Advance, With
  <2> HIDE DEF next, tell, start, r
  <2>9. Orderly(tell \o start) /\ \A k : Has(tell \o start, k) <=> k = 2 \/ k = 3
    <3>1. \A k, l \in 1..3 : Has(tell, k) /\ Has(start, l) => k < l
      BY <2>6, <2>7
    <3> QED
      BY <2>6, <2>7, <3>1, Joined
  <2>10. /\ Orderly(r.acts) /\ Has(r.acts, 2) /\ Has(r.acts, 3) /\ ~ Has(r.acts, 1) /\ r.t.running # None
    BY <2>2, <2>3, <2>8, <2>9
  <2> QED
    BY <1>1, <1>3, <2>10 DEF Announces, Tells, r
<1> QED
  BY <1>2, <1>3

\* What the turns tell, then what the next message asks for.
LEMMA ThenTells ==
  ASSUME NEW t, NEW a \in Seq(Acts), Orderly(a), ~ Has(a, 2), ~ Has(a, 3), NEW next, NEW r,
         r.acts \in Seq(Acts), Announces(next, r), ~ Has(r.acts, 1),
         t.running = None => next.running = None, Has(a, 1) => next.running = None
  PROVE  /\ Announces(t, [t |-> r.t, acts |-> a \o r.acts])
         /\ \A k \in 1..3 : Has(a \o r.acts, k) <=> Has(a, k) \/ Has(r.acts, k)
<1>1. Orderly(r.acts)
  BY DEF Announces, Tells
<1>2. \A k, l \in 1..3 : Has(a, k) /\ Has(r.acts, l) => k < l
  <2> SUFFICES ASSUME NEW k \in 1..3, NEW l \in 1..3, Has(a, k), Has(r.acts, l) PROVE k < l
    OBVIOUS
  <2>1. k = 1 /\ l # 1
    <3>1. k = 1 \/ k = 2 \/ k = 3
      OBVIOUS
    <3> QED
      BY <3>1
  <2> QED
    BY <2>1
<1> DEFINE all == a \o r.acts
           s == [t |-> r.t, acts |-> all]
<1>3. Orderly(all) /\ \A k : Has(all, k) <=> Has(a, k) \/ Has(r.acts, k)
  BY <1>1, <1>2, Joined
<1>4. s.t = r.t /\ s.acts = all
  OBVIOUS
<1> HIDE DEF all, s
<1>5. Announces(t, s)
  BY <1>3, <1>4 DEF Announces, Tells
<1> QED
  BY <1>3, <1>5 DEF all, s

LEMMA AcceptTells ==
  ASSUME NEW t \in AllTurns, NEW text \in Messages
  PROVE  Announces(t, Accept(t, text)) /\ Calm(t, Accept(t, text))
<1> DEFINE q == QueuePrompt(t, text)
<1>1. q \in AllTurns
  BY QueueIsTyped DEF Texts
<1>2. q.running = t.running
  BY DEF QueuePrompt, AllTurns
<1> HIDE DEF q
<1>3. /\ Announces(q, Advance(q)) /\ (q.running # None => Advance(q).acts = <<>>)
  BY <1>1, AdvanceTells
<1>4. Accept(t, text) = Advance(q)
  BY DEF Accept, q
<1> QED
  BY <1>2, <1>3, <1>4, NoneTold DEF Announces, Calm

LEMMA SendTells ==
  ASSUME NEW t \in AllTurns
  PROVE  LET r == SendInterrupt(t) IN
         r.acts \in Seq(Acts) /\ Silent(r.acts) /\ r.t.running = t.running
<1> DEFINE r == SendInterrupt(t)
<1>1. r.acts \in Seq(Acts)
  BY SendInterruptIsTyped, ActNames DEF Asked
<1>2. CASE t.turn # NoTurn /\ t.interrupts # <<>> /\ ~ t.sent
  <2>1. r.t = [t EXCEPT !.sent = TRUE] /\ r.acts = <<[act |-> "interrupt", what |-> t.turn, how |-> None]>>
    BY <1>2 DEF SendInterrupt, With, Do
  <2>2. r.t.running = t.running /\ Silent(r.acts)
    BY <2>1 DEF AllTurns, Silent
  <2> QED
    BY <1>1, <2>2
<1>3. CASE ~ (t.turn # NoTurn /\ t.interrupts # <<>> /\ ~ t.sent)
  <2>1. r.t = t /\ r.acts = <<>>
    BY <1>3 DEF SendInterrupt, With
  <2> QED
    BY <1>1, <2>1 DEF Silent
<1> QED
  BY <1>2, <1>3

LEMMA InterruptTells ==
  ASSUME NEW t \in AllTurns, Fits(t), NEW text \in Messages
  PROVE  Announces(t, Interrupt(t, text)) /\ Calm(t, Interrupt(t, text))
<1> DEFINE r == Interrupt(t, text)
<1>0. ASSUME NEW how \in {"gone", "sent"}
      PROVE  LET acts == Do("result", text, how) IN
             acts \in Seq(Acts) /\ Orderly(acts) /\ Silent(acts) /\ \A k \in 1..3 : ~ Has(acts, k)
  <2>1. [act |-> "result", what |-> text, how |-> how] \in TurnActs
    BY DEF TurnActs, Whats, Texts
  <2>2. Do("result", text, how) \in Seq(Acts)
    BY <2>1, OneAct
  <2>3. Silent(Do("result", text, how))
    BY DEF Silent, Do
  <2> QED
    BY <2>2, <2>3, SilentTells
<1>1. CASE t.gone
  <2> DEFINE acts == Do("result", text, "gone")
  <2>1. r.t = t /\ r.acts = acts
    BY <1>1 DEF Interrupt, With
  <2>2. Orderly(acts) /\ \A k \in 1..3 : ~ Has(acts, k)
    BY <1>0
  <2> HIDE DEF acts, r
  <2> QED
    BY <2>1, <2>2 DEF Announces, Tells, Calm, r
<1>2. CASE ~ t.gone /\ t.busy
  <2> DEFINE q == QueueInterrupt(t, text)
             next == [q EXCEPT !.interrupts = Append(q.interrupts, text)]
             s == SendInterrupt(next)
  <2>1. r = s
    BY <1>2 DEF Interrupt
  <2>2. next \in AllTurns
    BY QueueInterruptIsTyped
  <2>3. next.running = t.running
    BY DEF QueueInterrupt, AllTurns
  <2> HIDE DEF next
  <2>4. Silent(s.acts) /\ s.t.running = next.running
    BY <2>2, SendTells
  <2> HIDE DEF s, r
  <2>5. Orderly(s.acts) /\ \A k \in 1..3 : ~ Has(s.acts, k)
    BY <2>4, SilentTells
  <2> QED
    BY <2>1, <2>3, <2>4, <2>5 DEF Announces, Tells, Calm, r
<1>3. CASE ~ t.gone /\ ~ t.busy
  <2> DEFINE q == QueueInterrupt(t, text)
             s == Advance(q)
             acts == Do("result", text, "sent")
  <2>1. r.t = s.t /\ r.acts = acts \o s.acts
    BY <1>3 DEF Interrupt, Then, With
  <2>2. q \in AllTurns
    BY QueueInterruptIsTyped
  <2>3. q.running = t.running /\ t.running = None
    BY <1>3 DEF QueueInterrupt, AllTurns, Fits
  <2>4. acts \in Seq(Acts) /\ Orderly(acts) /\ \A k \in 1..3 : ~ Has(acts, k)
    BY <1>0
  <2> HIDE DEF q, acts, r
  <2>5. s.acts \in Seq(Acts) /\ Announces(q, s) /\ ~ Has(s.acts, 1)
    BY <2>2, AdvanceTells
  <2> HIDE DEF s
  <2>6. Announces(t, [t |-> s.t, acts |-> acts \o s.acts])
    <3>1. ~ Has(acts, 1) /\ ~ Has(acts, 2) /\ ~ Has(acts, 3)
      BY <2>4
    <3> QED
      BY <2>3, <2>4, <2>5, <3>1, ThenTells
  <2>7. Announces(t, r)
    BY <2>1, <2>6 DEF Announces
  <2> QED
    BY <2>3, <2>7 DEF Calm, r
<1> QED
  BY <1>1, <1>2, <1>3

LEMMA ResultsAreSilent ==
  ASSUME NEW items \in Seq(Messages), NEW how \in {"sent", "gone", "cancelled"}
  PROVE  /\ Each("result", items, how) \in Seq(Acts) /\ Silent(Each("result", items, how))
<1>1. Each("result", items, how) \in Seq(Acts)
  BY EachResult
<1>2. \A i \in 1..Len(items) : Each("result", items, how)[i].act = "result"
  BY DEF Each
<1>3. Len(Each("result", items, how)) = Len(items)
  BY DEF Each
<1> QED
  BY <1>1, <1>2, <1>3 DEF Silent

LEMMA GoneTells ==
  ASSUME NEW t \in AllTurns
  PROVE  Announces(t, ProcessGone(t)) /\ Calm(t, ProcessGone(t))
<1> DEFINE g == [t EXCEPT !.gone = TRUE]
           next == [g EXCEPT !.interrupts = <<>>]
           acts == Each("result", t.interrupts, "gone")
<1>1. g.interrupts = t.interrupts /\ t.interrupts \in Seq(Messages) /\ next.running = t.running
  BY DEF AllTurns
<1>2. ProcessGone(t).t = next /\ ProcessGone(t).acts = acts
  BY <1>1 DEF ProcessGone, Resolve, With
<1>3. Silent(acts)
  BY <1>1, ResultsAreSilent
<1> HIDE DEF g, next, acts
<1>4. Orderly(acts) /\ \A k \in 1..3 : ~ Has(acts, k)
  BY <1>3, SilentTells
<1> QED
  BY <1>1, <1>2, <1>4 DEF Announces, Tells, Calm

LEMMA ReportedTells ==
  ASSUME NEW t \in AllTurns
  PROVE  Announces(t, Reported(t)) /\ Calm(t, Reported(t))
<1>1. CASE t.running # None /\ ~ t.reported
  <2> DEFINE next == [t EXCEPT !.reported = TRUE]
             acts == Do("emit", "Reported", None)
  <2>1. Reported(t).t = next /\ Reported(t).acts = acts
    BY <1>1 DEF Reported, With
  <2>2. next.running = t.running
    BY DEF AllTurns
  <2>3. [act |-> "emit", what |-> "Reported", how |-> None] \in TurnActs
    BY DEF TurnActs, Whats
  <2>4. Rank([act |-> "emit", what |-> "Reported", how |-> None]) = 0
    BY DEF Rank
  <2>5. Orderly(acts) /\ \A k \in 1..3 : ~ Has(acts, k)
    BY <2>3, <2>4, OneTold
  <2> HIDE DEF next, acts
  <2> QED
    BY <2>1, <2>2, <2>5 DEF Announces, Tells, Calm
<1>2. CASE ~ (t.running # None /\ ~ t.reported)
  <2>1. Reported(t).t = t /\ Reported(t).acts = <<>>
    BY <1>2 DEF Reported, With
  <2> QED
    BY <2>1, NoneTold DEF Announces, Tells, Calm
<1> QED
  BY <1>1, <1>2

LEMMA EndTells ==
  ASSUME NEW t \in AllTurns, NEW end \in Ends, NEW closes \in BOOLEAN
  PROVE  Announces(t, End(t, end, closes))
<1>1. CASE t.running = None
  <2>1. End(t, end, closes).t = t /\ End(t, end, closes).acts = <<>>
    BY <1>1 DEF End, With
  <2> QED
    BY <2>1, NoneTold DEF Announces, Tells
<1>2. CASE t.running # None
  <2> DEFINE done == [FinishQueued(t) EXCEPT !.running = None]
             out  == TurnOutcome(end, t.reported, t.running = Reminder, closes,
                                 end = "interrupted" /\ t.sent)
             how  == IF end = "interrupted" THEN "cancelled" ELSE "sent"
             told == Resolve(done, how)
             next == IF out = "remind" THEN Remind(told.t) ELSE told.t
             first == IF closes THEN <<>> ELSE Do("snapshot", None, None)
             ended == Do("emit", "TurnEnded", end)
             last == CASE out = "unreported" -> Do("unreported", None, None)
                       [] out = "problem" -> Do("failure", None, None)
                       [] OTHER -> <<>>
             acts == first \o ended \o told.acts \o last
             r == Advance(next)
  <2>1. done \in AllTurns /\ done.running = None /\ done.interrupts \in Seq(Messages)
    BY DEF FinishQueued, AllTurns
  <2>2. End(t, end, closes).t = r.t /\ End(t, end, closes).acts = acts \o r.acts
    BY <1>2 DEF End, Then, With
  <2> HIDE DEF done
  <2>3. told.t \in AllTurns /\ told.t.running = None
    <3>1. told \in Asked
      BY <2>1, ResolveIsTyped
    <3>2. told.t = [done EXCEPT !.interrupts = <<>>]
      BY DEF Resolve, With
    <3>3. told.t.running = None
      BY <2>1, <3>2 DEF AllTurns
    <3> QED
      BY <3>1, <3>3 DEF Asked
  <2>4. told.acts \in Seq(Acts) /\ Silent(told.acts)
    <3>1. told.acts = Each("result", done.interrupts, how)
      BY DEF Resolve, With
    <3> QED
      BY <2>1, <3>1, ResultsAreSilent
  <2> HIDE DEF told, out, how
  <2>5. next \in AllTurns /\ next.running = None
    <3>1. \A q \in AllTurns : QueuePrompt(q, Reminder) \in AllTurns
      BY QueueIsTyped DEF Texts
    <3>2. \A q \in AllTurns : QueuePrompt(q, Reminder).running = q.running
      BY DEF QueuePrompt, AllTurns
    <3> QED
      BY <2>3, <3>1, <3>2 DEF Remind
  <2> HIDE DEF next
  <2>6. r.acts \in Seq(Acts) /\ Announces(next, r) /\ ~ Has(r.acts, 1)
    BY <2>5, AdvanceTells
  <2>7. \A act \in {"snapshot", "unreported", "failure"} : Do(act, None, None) \in Seq(Acts) /\ Silent(Do(act, None, None))
    <3>1. \A act \in {"snapshot", "unreported", "failure"} : [act |-> act, what |-> None, how |-> None] \in TurnActs
      BY DEF TurnActs, Whats
    <3>2. \A act \in {"snapshot", "unreported", "failure"} : Do(act, None, None) \in Seq(Acts)
      BY <3>1, OneAct
    <3>3. \A act \in {"snapshot", "unreported", "failure"} : Silent(Do(act, None, None))
      BY DEF Do, Silent
    <3> QED
      BY <3>2, <3>3
  <2>8. <<>> \in Seq(Acts) /\ Silent(<<>>)
    BY EmptySeq DEF Silent
  <2>9. first \in Seq(Acts) /\ Silent(first) /\ last \in Seq(Acts) /\ Silent(last)
    BY <2>7, <2>8
  <2>10. ended \in Seq(Acts) /\ Orderly(ended) /\ \A k : Has(ended, k) <=> k = 1
    <3>1. [act |-> "emit", what |-> "TurnEnded", how |-> end] \in TurnActs
      BY DEF TurnActs, Whats
    <3>2. Rank([act |-> "emit", what |-> "TurnEnded", how |-> end]) = 1
      BY DEF Rank
    <3> QED
      BY <3>1, <3>2, OneTold
  <2> DEFINE mid == told.acts
  <2>11. mid \in Seq(Acts) /\ Silent(mid)
    BY <2>4
  <2> HIDE DEF first, ended, last, r, mid
  <2>12. acts = ((first \o ended) \o mid) \o last
    BY DEF mid
  <2> HIDE DEF acts
  <2>13. acts \in Seq(Acts) /\ Orderly(acts) /\ \A k \in 1..3 : Has(acts, k) <=> k = 1
    <3> DEFINE one == first \o ended
               two == one \o mid
               three == two \o last
    <3>1. one \in Seq(Acts) /\ two \in Seq(Acts) /\ three \in Seq(Acts)
      BY <2>9, <2>10, <2>11
    <3>2. Orderly(one) /\ \A k \in 1..3 : Has(one, k) <=> k = 1
      BY <2>9, <2>10, SilentTells, Joined
    <3> HIDE DEF one
    <3>3. Orderly(two) /\ \A k \in 1..3 : Has(two, k) <=> k = 1
      BY <2>11, <3>1, <3>2, SilentTells, Joined
    <3> HIDE DEF two
    <3>4. Orderly(three) /\ \A k \in 1..3 : Has(three, k) <=> k = 1
      BY <2>9, <3>1, <3>3, SilentTells, Joined
    <3>5. acts = three
      BY <2>12 DEF one, two
    <3> HIDE DEF three
    <3> QED
      BY <3>1, <3>4, <3>5
  <2>14. Announces(t, [t |-> r.t, acts |-> acts \o r.acts])
    <3>1. ~ Has(acts, 2) /\ ~ Has(acts, 3)
      BY <2>13
    <3> QED
      BY <1>2, <2>5, <2>6, <2>13, <3>1, ThenTells
  <2> QED
    BY <2>2, <2>14 DEF Announces
<1> QED
  BY <1>1, <1>2

\* A turn that starts is bound, which may send the interrupt.
LEMMA DriveTells ==
  ASSUME HostTypes, NEW thread \in {"reader", "poller"}, NEW r \in Asked, Drive(thread, r),
         NEW t, Announces(t, r)
  PROVE  /\ Tells(turns', todo') /\ turns'.running = r.t.running
         /\ \A k \in 1..3 : Has(todo', k) <=> Has(r.acts, k)
<1> DEFINE starts == \E i \in DOMAIN r.acts : r.acts[i].act = "start"
           bound == IF starts THEN Then(r, BindTurn(r.t, seq + 1)) ELSE r
<1>1. r.t \in AllTurns /\ r.acts \in Seq(Acts) /\ seq + 1 \in Nat
  BY ActNames DEF Asked, HostTypes
<1>2. turns' = bound.t /\ todo' = bound.acts
  BY DEF Drive
<1> HIDE DEF starts
<1>3. CASE ~ starts \/ r.t.running = None
  <2>1. turns' = r.t /\ (todo' = r.acts \/ todo' = r.acts \o <<>>)
    BY <1>2, <1>3 DEF BindTurn, Then, With
  <2>2. r.acts \o <<>> = r.acts
    BY <1>1
  <2> QED
    BY <2>1, <2>2 DEF Announces
<1>4. CASE starts /\ r.t.running # None
  <2> DEFINE b == [r.t EXCEPT !.turn = seq + 1]
             s == SendInterrupt(b)
  <2>1. turns' = s.t /\ todo' = r.acts \o s.acts
    BY <1>2, <1>4 DEF Then, With, BindTurn
  <2>2. b \in AllTurns /\ b.running = r.t.running
    BY <1>1 DEF AllTurns
  <2> HIDE DEF b
  <2>3. s.acts \in Seq(Acts) /\ Silent(s.acts) /\ s.t.running = b.running
    BY <2>2, SendTells
  <2> DEFINE more == s.acts
  <2>4. more \in Seq(Acts) /\ Silent(more) /\ todo' = r.acts \o more
    BY <2>1, <2>3
  <2> HIDE DEF s, more
  <2>5. Tells(r.t, todo') /\ \A k \in 1..3 : Has(todo', k) <=> Has(r.acts, k)
    <3>1. Tells(r.t, r.acts) /\ Orderly(r.acts) /\ 1 \in 1..3
      BY DEF Announces, Tells
    <3>2. \A k \in 1..3 : /\ Tells(r.t, r.acts) => Tells(r.t, r.acts \o more)
                          /\ Orderly(r.acts) => (Has(r.acts \o more, k) <=> Has(r.acts, k))
      BY <1>1, <2>4, SilentAfter
    <3> QED
      BY <2>4, <3>1, <3>2
  <2>6. turns'.running = r.t.running
    BY <2>1, <2>2, <2>3
  <2> QED
    BY <2>5, <2>6 DEF Tells
<1> QED
  BY <1>3, <1>4

\* One action is performed.
LEMMA TailTells ==
  ASSUME NEW t, NEW acts \in Seq(Acts), acts # <<>>, Tells(t, acts)
  PROVE  /\ Tells(t, Tail(acts))
         /\ \A k : Has(acts, k) <=> Has(Tail(acts), k) \/ Rank(Head(acts)) = k
         /\ Rank(Head(acts)) # 0 => \A k \in 1..3 : Has(Tail(acts), k) => Rank(Head(acts)) < k
         /\ Head(acts).act = "emit" => Head(acts).what \in {"TurnStarted", "TurnEnded", "Reported"}
<1> DEFINE n == Len(acts)
           s == Tail(acts)
           x == Head(acts)
<1>1. /\ n \in Nat /\ n >= 1 /\ acts[1] = x /\ Len(s) = n - 1 /\ s \in Seq(Acts)
      /\ \A i \in 1..(n - 1) : s[i] = acts[i + 1]
  OBVIOUS
<1>2. \A i \in 1..n : i = 1 \/ (i - 1 \in 1..(n - 1) /\ s[i - 1] = acts[i])
  <2> SUFFICES ASSUME NEW i \in 1..n, i # 1 PROVE i - 1 \in 1..(n - 1) /\ s[i - 1] = acts[i]
    OBVIOUS
  <2>1. i - 1 \in 1..(n - 1) /\ (i - 1) + 1 = i
    BY <1>1
  <2> QED
    BY <1>1, <2>1
<1>3. \A i \in 1..(n - 1) : i + 1 \in 1..n /\ 1 < i + 1
  BY <1>1
<1>4. 1 \in 1..n
  BY <1>1
<1> HIDE DEF n, s, x
<1>5. \A k : Has(acts, k) <=> Has(s, k) \/ Rank(x) = k
  <2> TAKE k
  <2>1. Has(s, k) => Has(acts, k)
    BY <1>1, <1>3 DEF Has, n
  <2>2. Rank(x) = k => Has(acts, k)
    BY <1>1, <1>4 DEF Has, n
  <2>3. Has(acts, k) => Has(s, k) \/ Rank(x) = k
    BY <1>1, <1>2 DEF Has, n
  <2> QED
    BY <2>1, <2>2, <2>3
<1>6. /\ \A i \in 1..n : acts[i].act = "emit" => acts[i].what \in {"TurnStarted", "TurnEnded", "Reported"}
      /\ \A i, j \in 1..n : i < j /\ Rank(acts[i]) # 0 /\ Rank(acts[j]) # 0 => Rank(acts[i]) < Rank(acts[j])
  BY DEF Tells, Orderly, n
<1>7. Orderly(s)
  <2>1. \A i \in 1..(n - 1) : s[i].act = "emit" => s[i].what \in {"TurnStarted", "TurnEnded", "Reported"}
    BY <1>1, <1>3, <1>6
  <2>2. ASSUME NEW i \in 1..(n - 1), NEW j \in 1..(n - 1), i < j, Rank(s[i]) # 0, Rank(s[j]) # 0
        PROVE  Rank(s[i]) < Rank(s[j])
    <3>1. i + 1 \in 1..n /\ j + 1 \in 1..n /\ i + 1 < j + 1 /\ s[i] = acts[i + 1] /\ s[j] = acts[j + 1]
      BY <1>1, <1>3, <2>2
    <3> QED
      BY <1>6, <2>2, <3>1
  <2> QED
    BY <1>1, <2>1, <2>2 DEF Orderly
<1>8. Rank(x) # 0 => \A k \in 1..3 : Has(s, k) => Rank(x) < k
  <2> SUFFICES ASSUME Rank(x) # 0, NEW k \in 1..3, Has(s, k) PROVE Rank(x) < k
    OBVIOUS
  <2>1. PICK i \in 1..(n - 1) : Rank(s[i]) = k
    BY <1>1 DEF Has
  <2>2. i + 1 \in 1..n /\ 1 < i + 1 /\ Rank(acts[i + 1]) = k /\ k # 0
    BY <1>1, <1>3, <2>1
  <2> QED
    BY <1>1, <1>4, <1>6, <2>2
<1>9. x.act = "emit" => x.what \in {"TurnStarted", "TurnEnded", "Reported"}
  BY <1>1, <1>4, <1>6
<1>10. Tells(t, s)
  <2>1. Has(s, 2) => t.running # None /\ Has(s, 3)
    <3> SUFFICES ASSUME Has(s, 2) PROVE t.running # None /\ Has(s, 3)
      OBVIOUS
    <3>1. t.running # None /\ Has(acts, 3)
      BY <1>5 DEF Tells
    <3>2. Rank(x) # 3
      BY <1>8
    <3> QED
      BY <1>5, <3>1, <3>2
  <2>2. Has(s, 1) /\ t.running # None => Has(s, 2)
    <3> SUFFICES ASSUME Has(s, 1), t.running # None PROVE Has(s, 2)
      OBVIOUS
    <3>1. Has(acts, 2)
      BY <1>5 DEF Tells
    <3>2. Rank(x) # 2
      BY <1>8
    <3> QED
      BY <1>5, <3>1, <3>2
  <2> QED
    BY <1>7, <2>1, <2>2 DEF Tells
<1> QED
  BY <1>5, <1>8, <1>9, <1>10 DEF s, x

(***************************************************************************)
(* The requests that the view can show: said by the agent and not read, or *)
(* in the queue.  While the worker is watched, each is there once, before  *)
(* the line that takes it back, only while its turn runs; a turn ends      *)
(* with none but those that are taken back.                                *)
(***************************************************************************)
Watched == held /\ ~ closing /\ ~ exited
Waits(a) == Count(stdout, <<"ask", a>>) + Count(queue, a)
Cancelled(a) == Listed(stdout, <<"cancel", a>>)

Once == \A a \in Asks : Waits(a) <= 1
AskedFirst ==
  \A a \in Asks : \A i, j \in 1..Len(stdout) :
    stdout[i] = <<"ask", a>> /\ stdout[j] = <<"cancel", a>> => i < j
Known == Up => \A a \in Asks : Waits(a) # 0 => a <= agent.asked /\ (a \in agent.asks \/ Cancelled(a))
EndsLast ==
  \A i \in 1..Len(stdout) : stdout[i][1] = "ended" =>
    i = Len(stdout) /\ agent.asks = {} /\ \A a \in Asks : Waits(a) # 0 => Cancelled(a)
WaitsInv == Once /\ AskedFirst /\ Known /\ EndsLast

LEMMA WaitsCount ==
  ASSUME NEW s \in Seq(StdoutLines), NEW q \in Seq(Asks), NEW a
  PROVE  Count(s, <<"ask", a>>) \in Nat /\ Count(q, a) \in Nat /\ Count(s, <<"ask", a>>) + Count(q, a) \in Nat
<1>1. Count(s, <<"ask", a>>) \in Nat
  BY CountType
<1>2. Count(q, a) \in Nat
  BY CountType
<1> QED
  BY <1>1, <1>2

LEMMA WaitsType ==
  ASSUME HostTypes, NEW a \in Asks
  PROVE  /\ Waits(a) \in Nat /\ Count(stdout, <<"ask", a>>) \in Nat /\ Count(queue, a) \in Nat
         /\ Count(stdout, <<"ask", a>>) # 0 <=> Listed(stdout, <<"ask", a>>)
         /\ Count(queue, a) # 0 <=> a \in ToSet(queue)
<1>1. stdout \in Seq(StdoutLines) /\ queue \in Seq(Asks)
  BY DEF HostTypes
<1>2. /\ Count(stdout, <<"ask", a>>) \in Nat
      /\ Count(stdout, <<"ask", a>>) # 0 <=> Listed(stdout, <<"ask", a>>)
  BY <1>1, CountType DEF Listed
<1>3. Count(queue, a) \in Nat /\ (Count(queue, a) # 0 <=> \E i \in 1..Len(queue) : queue[i] = a)
  BY <1>1, CountType
<1>4. a \in ToSet(queue) <=> \E i \in 1..Len(queue) : queue[i] = a
  <2>1. DOMAIN queue = 1..Len(queue)
    BY <1>1
  <2> QED
    BY <2>1 DEF ToSet
<1> QED
  BY <1>2, <1>3, <1>4 DEF Waits

\* The lines stay, and no request waits anew.
LEMMA LinesStay ==
  ASSUME HostTypes, HostTypes', WaitsInv, stdout' = stdout,
         \A a \in Asks : Waits(a)' <= Waits(a),
         Up' => Up /\ agent'.asked = agent.asked, agent'.asks \subseteq agent.asks,
         Up' => \A a \in agent.asks : a \in agent'.asks \/ Waits(a) = 0
  PROVE  WaitsInv'
<1>1. \A a \in Asks : Waits(a) \in Nat /\ (Waits(a)' # 0 => Waits(a) # 0) /\ (Cancelled(a)' <=> Cancelled(a))
  <2>1. \A a \in Asks : Waits(a) \in Nat
    BY WaitsType
  <2>2. ASSUME NEW a \in Asks PROVE Waits(a)' \in Nat
    <3>1. stdout' \in Seq(StdoutLines) /\ queue' \in Seq(Asks)
      BY DEF HostTypes
    <3> QED
      BY <3>1, WaitsCount DEF Waits
  <2> QED
    BY <2>1, <2>2 DEF Cancelled
<1>2. Once'
  <2> SUFFICES ASSUME NEW a \in Asks PROVE Waits(a)' <= 1
    BY DEF Once
  <2>1. Waits(a) <= 1 /\ Waits(a)' <= Waits(a) /\ Waits(a) \in Nat
    BY <1>1 DEF WaitsInv, Once
  <2>2. Waits(a)' \in Nat
    <3>1. stdout' \in Seq(StdoutLines) /\ queue' \in Seq(Asks)
      BY DEF HostTypes
    <3> QED
      BY <3>1, WaitsCount DEF Waits
  <2> QED
    BY <2>1, <2>2
<1>3. AskedFirst'
  BY DEF WaitsInv, AskedFirst
<1>4. Known'
  BY <1>1 DEF WaitsInv, Known
<1>5. EndsLast'
  BY <1>1 DEF WaitsInv, EndsLast
<1> QED
  BY <1>2, <1>3, <1>4, <1>5 DEF WaitsInv

\* The reader takes a line, and the request that it takes back waits no more.
LEMMA LineTaken ==
  ASSUME HostTypes, HostTypes', WaitsInv, stdout # <<>>, stdout' = Tail(stdout), agent' = agent,
         \A a \in Asks : Waits(a)' <= Waits(a),
         \A a \in Asks : Head(stdout) = <<"cancel", a>> => Waits(a)' = 0
  PROVE  WaitsInv'
<1>1. \A a \in Asks : Waits(a) \in Nat
  BY WaitsType
<1>2. \A a \in Asks : Waits(a)' \in Nat
  <2> SUFFICES ASSUME NEW a \in Asks PROVE Waits(a)' \in Nat
    OBVIOUS
  <2>1. stdout' \in Seq(StdoutLines) /\ queue' \in Seq(Asks)
    BY DEF HostTypes
  <2> QED
    BY <2>1, WaitsCount DEF Waits
<1> DEFINE n == Len(stdout)
<1>3. /\ n \in Nat /\ n >= 1 /\ stdout[1] = Head(stdout) /\ Len(stdout') = n - 1
      /\ \A i \in 1..(n - 1) : stdout'[i] = stdout[i + 1] /\ i + 1 \in 1..n
      /\ \A i \in 1..n : i # 1 => i - 1 \in 1..(n - 1) /\ stdout'[i - 1] = stdout[i]
  <2>1. stdout \in Seq(StdoutLines)
    BY DEF HostTypes
  <2>2. /\ n \in Nat /\ n >= 1 /\ stdout[1] = Head(stdout) /\ Len(stdout') = n - 1
        /\ \A i \in 1..(n - 1) : stdout'[i] = stdout[i + 1]
    BY <2>1
  <2>3. \A i \in 1..(n - 1) : i + 1 \in 1..n
    BY <2>2
  <2>4. \A i \in 1..n : i # 1 => i - 1 \in 1..(n - 1) /\ (i - 1) + 1 = i
    BY <2>2
  <2> QED
    BY <2>2, <2>3, <2>4
<1> HIDE DEF n
<1>4. \A a \in Asks : Cancelled(a) => Cancelled(a)' \/ Waits(a)' = 0
  <2> SUFFICES ASSUME NEW a \in Asks, Cancelled(a), Head(stdout) # <<"cancel", a>> PROVE Cancelled(a)'
    OBVIOUS
  <2>1. PICK i \in 1..n : stdout[i] = <<"cancel", a>>
    BY DEF Cancelled, Listed, n
  <2>2. i - 1 \in 1..(n - 1) /\ stdout'[i - 1] = <<"cancel", a>>
    BY <1>3, <2>1
  <2> QED
    BY <1>3, <2>2 DEF Cancelled, Listed
<1>5. Once'
  BY <1>1, <1>2 DEF WaitsInv, Once
<1>6. AskedFirst'
  <2> SUFFICES ASSUME NEW a \in Asks, NEW i \in 1..(n - 1), NEW j \in 1..(n - 1),
                      stdout'[i] = <<"ask", a>>, stdout'[j] = <<"cancel", a>>
               PROVE  i < j
    BY <1>3 DEF AskedFirst
  <2>1. i + 1 < j + 1
    BY <1>3 DEF WaitsInv, AskedFirst, n
  <2> QED
    BY <1>3, <2>1
<1>7. Known'
  BY <1>1, <1>2, <1>4 DEF WaitsInv, Known, Up
<1>8. EndsLast'
  <2> SUFFICES ASSUME NEW i \in 1..(n - 1), stdout'[i][1] = "ended"
               PROVE  i = n - 1 /\ agent.asks = {} /\ \A a \in Asks : Waits(a)' # 0 => Cancelled(a)'
    BY <1>3 DEF EndsLast
  <2>1. i + 1 = n /\ agent.asks = {} /\ \A a \in Asks : Waits(a) # 0 => Cancelled(a)
    BY <1>3 DEF WaitsInv, EndsLast, n
  <2> QED
    BY <1>1, <1>2, <1>3, <1>4, <2>1
<1> QED
  BY <1>5, <1>6, <1>7, <1>8 DEF WaitsInv

\* The agent adds a line that is no request.
LEMMA LineAdded ==
  ASSUME HostTypes, NEW s \in Seq(StdoutLines), NEW line \in StdoutLines
  PROVE  /\ Append(s, line) \in Seq(StdoutLines) /\ Len(Append(s, line)) = Len(s) + 1
         /\ \A x : Listed(Append(s, line), x) <=> Listed(s, x) \/ x = line
         /\ \A x : Count(Append(s, line), x) = Count(s, x) + IF line = x THEN 1 ELSE 0
         /\ \A i \in 1..(Len(s) + 1) : \/ i \in 1..Len(s) /\ Append(s, line)[i] = s[i]
                                       \/ i = Len(s) + 1 /\ Append(s, line)[i] = line
<1> DEFINE t == Append(s, line)
<1>1. /\ Len(s) \in Nat /\ t \in Seq(StdoutLines) /\ Len(t) = Len(s) + 1 /\ t[Len(s) + 1] = line
      /\ \A i \in 1..Len(s) : t[i] = s[i]
  OBVIOUS
<1>2. \A x : Count(t, x) = Count(s, x) + IF line = x THEN 1 ELSE 0
  BY CountAppend
<1> HIDE DEF t
<1>3. \A i \in 1..(Len(s) + 1) : i \in 1..Len(s) \/ i = Len(s) + 1
  BY <1>1
<1>4. \A i \in 1..Len(s) : i \in 1..Len(t)
  BY <1>1
<1>5. Len(s) + 1 \in 1..Len(t)
  BY <1>1
<1>6. \A x : Listed(t, x) <=> Listed(s, x) \/ x = line
  BY <1>1, <1>3, <1>4, <1>5 DEF Listed
<1> QED
  BY <1>1, <1>2, <1>3, <1>6 DEF t

\* While the agent has a turn, no line says that it ended, and no event of the
\* turns is to come.
LEMMA RunIsTold ==
  ASSUME HostTypes, OneRun, Tells(turns, todo), Up, agent.run # None
  PROVE  /\ \A i \in 1..Len(stdout) : stdout[i][1] # "ended"
         /\ Turning /\ ~ Has(todo, 1) /\ ~ Has(todo, 2)
<1>1. Starts(todo) + SentStarts(stdin) + Runs(agent) + SaidEnds(stdout) = Running(turns)
  BY DEF OneRun
<1>2. Starts(todo) = 0 /\ SaidEnds(stdout) = 0 /\ Running(turns) = 1
  <2> DEFINE s == Starts(todo)
             a == SentStarts(stdin)
             b == Runs(agent)
             c == SaidEnds(stdout)
             n == Running(turns)
  <2>1. /\ s \in Nat /\ a \in Nat /\ b = 1 /\ c \in Nat /\ n \in {0, 1} /\ s + a + b + c = n
    BY <1>1, RunCounts DEF Runs
  <2> HIDE DEF s, a, b, c, n
  <2>2. s = 0 /\ c = 0 /\ n = 1
    BY <2>1
  <2> QED
    BY <2>2 DEF s, c, n
<1>3. \A i \in 1..Len(stdout) : stdout[i][1] # "ended"
  <2>1. stdout \in Seq(StdoutLines)
    BY DEF HostTypes
  <2>2. SaidEnds(stdout) = 0 <=> \A i \in 1..Len(stdout) : SaidName[stdout[i]] # "ended"
    BY <2>1, LineNames, ByType DEF SaidEnds
  <2>3. \A i \in 1..Len(stdout) : stdout[i] \in StdoutLines
    BY <2>1
  <2> QED
    BY <1>2, <2>2, <2>3, LineNames
<1>4. Turning
  BY <1>2 DEF Running, Turning
<1>5. ~ Has(todo, 3)
  <2>1. todo \in Seq(Acts)
    BY DEF HostTypes
  <2>2. \A i \in 1..Len(todo) : ActName[todo[i]] # "start"
    BY <1>2, <2>1, ActNames, ByType DEF Starts
  <2>3. \A i \in 1..Len(todo) : todo[i] \in Acts
    BY <2>1
  <2>4. \A i \in 1..Len(todo) : todo[i].act # "start"
    BY <2>2, <2>3, ActNames
  <2> QED
    BY <2>4 DEF Has, Rank
<1> QED
  BY <1>3, <1>4, <1>5 DEF Tells, Turning

\* What the agent does keeps what is known of its requests.
LEMMA AgentWaits ==
  ASSUME HostTypes, HostTypes', TakenBack, OneRun, Tells(turns, todo), WaitsInv, ~ closing, OnePlace,
         \/ Hear \/ RaiseAsk \/ Die \/ (\E a \in Asks : TakeBack(a))
         \/ (\E end \in {"succeeded", "failed"} : EndTurn(end))
  PROVE  WaitsInv' /\ (\A a \in Asks : Waits(a)' # 0 => Waits(a) # 0 \/ agent.run # None)
<1>1. queue' = queue /\ stdout \in Seq(StdoutLines) /\ agent \in Agents
  BY DEF Hear, RaiseAsk, Die, TakeBack, EndTurn, hostVars, queueVars, HostTypes
<1>2. \A a \in Asks : Waits(a) \in Nat /\ Count(stdout, <<"ask", a>>) \in Nat /\ Count(queue, a) \in Nat
  BY WaitsType
<1>3. CASE Hear
  <2>1. stdout' = stdout /\ Up /\ stdin # <<>>
    BY <1>3 DEF Hear
  <2>2. \A a \in Asks : Waits(a)' = Waits(a)
    BY <1>1, <2>1 DEF Waits
  <2>3. ASSUME NEW a \in Asks PROVE Waits(a)' <= Waits(a)
    <3>1. Waits(a)' = Waits(a) /\ Waits(a) \in Nat
      BY <1>2, <2>2
    <3> QED
      BY <3>1
  <2>4. ASSUME agent'.asks = agent.asks, agent'.asked = agent.asked, agent'.is = agent.is
        PROVE  WaitsInv'
    BY <2>1, <2>3, <2>4, LinesStay DEF Up
  <2>5. CASE agent' = [agent EXCEPT !.run = Head(stdin)[2], !.cut = FALSE]
    <3>1. agent'.asks = agent.asks /\ agent'.asked = agent.asked /\ agent'.is = agent.is
      BY <1>1, <2>5 DEF Agents
    <3> QED
      BY <2>2, <2>4, <3>1
  <2>6. CASE agent' = [agent EXCEPT !.cut = agent.run # None]
    <3>1. agent'.asks = agent.asks /\ agent'.asked = agent.asked /\ agent'.is = agent.is
      BY <1>1, <2>6 DEF Agents
    <3> QED
      BY <2>2, <2>4, <3>1
  <2>7. CASE Head(stdin)[1] = "verdict" /\ agent' = [agent EXCEPT !.asks = @ \ {Head(stdin)[2]}]
    <3> DEFINE b == Head(stdin)[2]
    <3>1. agent'.asks = agent.asks \ {b} /\ agent'.asked = agent.asked /\ agent'.is = agent.is
      BY <1>1, <2>7 DEF Agents
    <3>2. b \in agent.asks => Waits(b) = 0
      <4> SUFFICES ASSUME b \in agent.asks PROVE Waits(b) = 0
        OBVIOUS
      <4>1. Places(b) = 1 /\ b \in Asks
        BY <1>1 DEF OnePlace, Agents
      <4>2. Head(stdin) = <<"verdict", b>>
        <5>1. Head(stdin) \in StdinLines
          BY <2>1 DEF HostTypes
        <5>2. \A x \in StdinLines : x = <<x[1], x[2]>>
          BY DEF StdinLines
        <5> QED
          BY <2>7, <5>1, <5>2
      <4>3. Count(stdin, <<"verdict", b>>) # 0
        <5>1. stdin \in Seq(StdinLines)
          BY DEF HostTypes
        <5>2. 1 \in 1..Len(stdin) /\ stdin[1] = Head(stdin)
          BY <2>1, <5>1
        <5> QED
          BY <4>2, <5>1, <5>2, CountType
      <4> HIDE DEF b
      <4>4. /\ Count(stdout, <<"ask", b>>) \in Nat /\ Count(queue, b) \in Nat
            /\ Count(stdin, <<"verdict", b>>) \in Nat /\ Count(todo, Verdict(b)) \in Nat
        BY <4>1, PlacesAreCounts
      <4> DEFINE p == Count(stdout, <<"ask", b>>)
                 q == Count(queue, b)
                 r == Count(stdin, <<"verdict", b>>)
                 s == Count(todo, Verdict(b))
                 u == IF denial = b THEN 1 ELSE 0
                 v == IF poller = <<"answer", b>> THEN 1 ELSE 0
      <4>5. p \in Nat /\ q \in Nat /\ r \in Nat /\ s \in Nat /\ u \in Nat /\ v \in Nat /\ r # 0
            /\ p + q + r + s + u + v = 1
        BY <4>1, <4>3, <4>4 DEF Places
      <4> HIDE DEF p, q, r, s, u, v
      <4>6. p + q = 0
        BY <4>5
      <4> QED
        BY <4>6 DEF p, q, Waits
    <3> HIDE DEF b
    <3>3. Up /\ agent'.asked = agent.asked /\ agent'.asks \subseteq agent.asks
      BY <2>1, <3>1
    <3>4. \A a \in agent.asks : a \in agent'.asks \/ Waits(a) = 0
      BY <3>1, <3>2
    <3> QED
      BY <2>1, <2>2, <2>3, <3>3, <3>4, LinesStay
  <2> QED
    BY <1>3, <2>2, <2>5, <2>6, <2>7 DEF Hear
<1>4. CASE Die
  <2>1. stdout' = stdout /\ ~ Up' /\ agent'.asks = {}
    BY <1>4 DEF Die, Agent, Up
  <2>2. \A a \in Asks : Waits(a)' = Waits(a)
    BY <1>1, <2>1 DEF Waits
  <2>3. ASSUME NEW a \in Asks PROVE Waits(a)' <= Waits(a)
    <3>1. Waits(a)' = Waits(a) /\ Waits(a) \in Nat
      BY <1>2, <2>2
    <3> QED
      BY <3>1
  <2> QED
    BY <2>1, <2>2, <2>3, LinesStay
<1>5. CASE RaiseAsk
  <2> DEFINE b == agent.asked + 1
             line == <<"ask", b>>
  <2>1. /\ Up /\ agent.run # None /\ stdout' = Append(stdout, line) /\ b \in Asks
        /\ agent'.asks = agent.asks \cup {b} /\ agent'.asked = b
    BY <1>1, <1>5, ClaudeHostAssumption DEF RaiseAsk, Says, Agents, Asks
  <2>2. line \in StdoutLines /\ line[1] = "ask" /\ line[2] = b
    BY <2>1 DEF StdoutLines
  <2>3. Waits(b) = 0 /\ ~ Cancelled(b) /\ b > agent.asked
    <3>1. b > agent.asked /\ ~ (b <= agent.asked)
      BY <1>1 DEF Agents
    <3>2. Waits(b) = 0
      BY <2>1, <3>1 DEF WaitsInv, Known
    <3>3. ~ Cancelled(b)
      <4> SUFFICES ASSUME NEW i \in 1..Len(stdout), stdout[i] = <<"cancel", b>> PROVE FALSE
        BY DEF Cancelled, Listed
      <4>1. b <= agent.asked
        BY <2>1 DEF TakenBack
      <4> QED
        BY <3>1, <4>1
    <3> QED
      BY <3>1, <3>2, <3>3
  <2>4. \A x : line = x <=> x = line
    OBVIOUS
  <2>5. \A a \in Asks : line = <<"ask", a>> <=> a = b
    OBVIOUS
  <2>6. \A a \in Asks : line # <<"cancel", a>>
    BY <2>2
  <2> HIDE DEF line, b
  <2>7. /\ Len(stdout') = Len(stdout) + 1 /\ Len(stdout) \in Nat
        /\ \A x : Listed(stdout', x) <=> Listed(stdout, x) \/ x = line
        /\ \A x : Count(stdout', x) = Count(stdout, x) + IF line = x THEN 1 ELSE 0
        /\ \A i \in 1..(Len(stdout) + 1) : \/ i \in 1..Len(stdout) /\ stdout'[i] = stdout[i]
                                           \/ i = Len(stdout) + 1 /\ stdout'[i] = line
    BY <1>1, <2>1, <2>2, LineAdded
  <2>8. \A a \in Asks : Waits(a)' = (IF a = b THEN 1 ELSE Waits(a))
    <3> TAKE a \in Asks
    <3>1. Count(stdout', <<"ask", a>>) = Count(stdout, <<"ask", a>>) + IF a = b THEN 1 ELSE 0
      BY <2>5, <2>7
    <3>2. Waits(a)' = Count(stdout', <<"ask", a>>) + Count(queue, a)
      BY <1>1 DEF Waits
    <3>3. a = b => Waits(a) = 0
      BY <2>3
    <3> QED
      BY <1>2, <3>1, <3>2, <3>3 DEF Waits
  <2>9. \A a \in Asks : Cancelled(a)' <=> Cancelled(a)
    BY <2>6, <2>7 DEF Cancelled
  <2>10. Once'
    BY <2>8 DEF WaitsInv, Once
  <2>11. AskedFirst'
    <3> SUFFICES ASSUME NEW a \in Asks, NEW i \in 1..(Len(stdout) + 1), NEW j \in 1..(Len(stdout) + 1),
                        stdout'[i] = <<"ask", a>>, stdout'[j] = <<"cancel", a>>
                 PROVE  i < j
      BY <2>7 DEF AskedFirst
    <3>1. j \in 1..Len(stdout) /\ stdout[j] = <<"cancel", a>>
      BY <2>6, <2>7
    <3>2. a # b
      BY <2>3, <3>1 DEF Cancelled, Listed
    <3>3. i \in 1..Len(stdout) /\ stdout[i] = <<"ask", a>>
      BY <2>5, <2>7, <3>2
    <3> QED
      BY <3>1, <3>3 DEF WaitsInv, AskedFirst
  <2>12. Known'
    <3> SUFFICES ASSUME NEW a \in Asks, Waits(a)' # 0 PROVE a <= b /\ (a \in agent'.asks \/ Cancelled(a)')
      BY <2>1 DEF Known
    <3>1. CASE a = b
      BY <2>1, <3>1, AsksAreTyped
    <3>2. CASE a # b
      <4>1. a <= agent.asked /\ (a \in agent.asks \/ Cancelled(a))
        BY <2>1, <2>8, <3>2 DEF WaitsInv, Known
      <4> QED
        BY <1>1, <2>1, <2>3, <2>9, <4>1, AsksAreTyped DEF Agents
    <3> QED
      BY <3>1, <3>2
  <2>13. EndsLast'
    <3>1. \A i \in 1..Len(stdout) : stdout[i][1] # "ended"
      BY <2>1, RunIsTold
    <3>2. \A i \in 1..(Len(stdout) + 1) : stdout'[i][1] # "ended"
      BY <2>2, <2>7, <3>1
    <3> QED
      BY <2>7, <3>2 DEF EndsLast
  <2> QED
    BY <2>1, <2>10, <2>11, <2>12, <2>13 DEF WaitsInv
<1>6. ASSUME NEW b \in Asks, TakeBack(b) PROVE WaitsInv' /\ \A a \in Asks : Waits(a)' = Waits(a)
  <2> DEFINE line == <<"cancel", b>>
  <2>1. /\ Up /\ b \in agent.asks /\ stdout' = Append(stdout, line) /\ agent'.asks = agent.asks \ {b}
        /\ agent'.asked = agent.asked
    BY <1>1, <1>6 DEF TakeBack, Says, Agents
  <2>2. line \in StdoutLines /\ line[1] = "cancel" /\ line[2] = b
    BY DEF StdoutLines
  <2>3. \A a \in Asks : line # <<"ask", a>> /\ (line = <<"cancel", a>> <=> a = b)
    OBVIOUS
  <2>4. line = <<"cancel", b>>
    OBVIOUS
  <2> HIDE DEF line
  <2>5. /\ Len(stdout') = Len(stdout) + 1 /\ Len(stdout) \in Nat
        /\ \A x : Listed(stdout', x) <=> Listed(stdout, x) \/ x = line
        /\ \A x : Count(stdout', x) = Count(stdout, x) + IF line = x THEN 1 ELSE 0
        /\ \A i \in 1..(Len(stdout) + 1) : \/ i \in 1..Len(stdout) /\ stdout'[i] = stdout[i]
                                           \/ i = Len(stdout) + 1 /\ stdout'[i] = line
    BY <1>1, <2>1, <2>2, LineAdded
  <2>6. \A a \in Asks : Waits(a)' = Waits(a)
    <3> TAKE a \in Asks
    <3>1. Count(stdout', <<"ask", a>>) = Count(stdout, <<"ask", a>>) + 0
      BY <2>3, <2>5
    <3> QED
      BY <1>1, <1>2, <3>1 DEF Waits
  <2>7. \A a \in Asks : Cancelled(a)' <=> Cancelled(a) \/ a = b
    BY <2>3, <2>5 DEF Cancelled
  <2>8. Once'
    BY <2>6 DEF WaitsInv, Once
  <2>9. AskedFirst'
    <3> SUFFICES ASSUME NEW a \in Asks, NEW i \in 1..(Len(stdout) + 1), NEW j \in 1..(Len(stdout) + 1),
                        stdout'[i] = <<"ask", a>>, stdout'[j] = <<"cancel", a>>
                 PROVE  i < j
      BY <2>5 DEF AskedFirst
    <3>1. i \in 1..Len(stdout) /\ stdout[i] = <<"ask", a>>
      BY <2>3, <2>5
    <3>2. CASE j \in 1..Len(stdout) /\ stdout'[j] = stdout[j]
      BY <3>1, <3>2 DEF WaitsInv, AskedFirst
    <3>3. CASE j = Len(stdout) + 1
      BY <2>5, <3>1, <3>3
    <3> QED
      BY <2>5, <3>2, <3>3
  <2>10. Known'
    <3> SUFFICES ASSUME NEW a \in Asks, Waits(a)' # 0
                 PROVE  a <= agent.asked /\ (a \in agent'.asks \/ Cancelled(a)')
      BY <2>1 DEF Known
    <3>1. a <= agent.asked /\ (a \in agent.asks \/ Cancelled(a))
      BY <2>1, <2>6 DEF WaitsInv, Known
    <3> QED
      BY <2>1, <2>7, <3>1
  <2>11. EndsLast'
    <3>1. \A i \in 1..Len(stdout) : stdout[i][1] # "ended"
      BY <2>1 DEF WaitsInv, EndsLast
    <3>2. \A i \in 1..(Len(stdout) + 1) : stdout'[i][1] # "ended"
      BY <2>2, <2>5, <3>1
    <3> QED
      BY <2>5, <3>2 DEF EndsLast
  <2> QED
    BY <2>6, <2>8, <2>9, <2>10, <2>11 DEF WaitsInv
<1>7. ASSUME NEW end \in {"succeeded", "failed"}, EndTurn(end)
      PROVE  WaitsInv' /\ \A a \in Asks : Waits(a)' = Waits(a)
  <2>1. Up /\ agent.run # None /\ agent.asks = {} /\ agent'.asks = {} /\ agent'.asked = agent.asked
    BY <1>1, <1>7 DEF EndTurn, Agents
  <2>2. PICK report \in {<<>>, <<<<"reported", None>>>>} : stdout' = stdout \o report \o <<<<"ended", end>>>>
    BY <1>7 DEF EndTurn
  <2> DEFINE last == <<"ended", end>>
             said == stdout \o report
  <2>3. last \in StdoutLines /\ last[1] = "ended" /\ \A a : last # <<"ask", a>> /\ last # <<"cancel", a>>
    BY DEF StdoutLines
  <2>4. /\ said \in Seq(StdoutLines) /\ Len(stdout) <= Len(said)
        /\ \A i \in 1..Len(said) : \/ i \in 1..Len(stdout) /\ said[i] = stdout[i]
                                   \/ said[i] = <<"reported", None>>
        /\ \A a \in Asks : Count(said, <<"ask", a>>) = Count(stdout, <<"ask", a>>)
        /\ \A a \in Asks : Listed(said, <<"cancel", a>>) <=> Listed(stdout, <<"cancel", a>>)
    <3>1. CASE report = <<>>
      <4>1. said = stdout
        BY <1>1, <3>1
      <4>2. Len(stdout) \in Nat
        BY <1>1
      <4>3. Len(stdout) <= Len(stdout)
        BY <4>2
      <4> QED
        BY <1>1, <4>1, <4>3
    <3>2. CASE report = <<<<"reported", None>>>>
      <4> DEFINE line == <<"reported", None>>
      <4>1. line \in StdoutLines /\ \A a : line # <<"ask", a>> /\ line # <<"cancel", a>>
        BY DEF StdoutLines
      <4>2. report = <<line>>
        BY <3>2
      <4>3. line = <<"reported", None>>
        OBVIOUS
      <4> HIDE DEF line
      <4>4. said = Append(stdout, line)
        BY <1>1, <4>1, <4>2
      <4> HIDE DEF said
      <4>5. /\ said \in Seq(StdoutLines) /\ Len(said) = Len(stdout) + 1 /\ Len(stdout) \in Nat
            /\ \A x : Listed(said, x) <=> Listed(stdout, x) \/ x = line
            /\ \A x : Count(said, x) = Count(stdout, x) + IF line = x THEN 1 ELSE 0
            /\ \A i \in 1..(Len(stdout) + 1) : \/ i \in 1..Len(stdout) /\ said[i] = stdout[i]
                                               \/ i = Len(stdout) + 1 /\ said[i] = line
        BY <1>1, <4>1, <4>4, LineAdded
      <4>6. \A a \in Asks : Count(said, <<"ask", a>>) = Count(stdout, <<"ask", a>>)
        <5> TAKE a \in Asks
        <5>1. Count(said, <<"ask", a>>) = Count(stdout, <<"ask", a>>) + 0
          BY <4>1, <4>5
        <5> QED
          BY <1>2, <5>1
      <4>7. \A a \in Asks : Listed(said, <<"cancel", a>>) <=> Listed(stdout, <<"cancel", a>>)
        BY <4>1, <4>5
      <4>8. \A i \in 1..Len(said) : \/ i \in 1..Len(stdout) /\ said[i] = stdout[i]
                                    \/ said[i] = <<"reported", None>>
        BY <4>3, <4>5
      <4>9. Len(stdout) <= Len(said)
        BY <4>5
      <4> QED
        BY <4>5, <4>6, <4>7, <4>8, <4>9
    <3> QED
      BY <3>1, <3>2
  <2>5. stdout' = said \o <<last>> /\ Len(said) \in Nat /\ Len(stdout) \in Nat
    BY <1>1, <2>2, <2>4
  <2> HIDE DEF said, last
  <2>4a. \A b \in Asks : Count(said, <<"ask", b>>) = Count(stdout, <<"ask", b>>)
    BY <2>4
  <2>4b. \A b \in Asks : Listed(said, <<"cancel", b>>) <=> Listed(stdout, <<"cancel", b>>)
    BY <2>4
  <2>6. stdout' = Append(said, last)
    BY <2>3, <2>4, <2>5
  <2>7. /\ Len(stdout') = Len(said) + 1
        /\ \A x : Listed(stdout', x) <=> Listed(said, x) \/ x = last
        /\ \A x : Count(stdout', x) = Count(said, x) + IF last = x THEN 1 ELSE 0
        /\ \A i \in 1..(Len(said) + 1) : \/ i \in 1..Len(said) /\ stdout'[i] = said[i]
                                         \/ i = Len(said) + 1 /\ stdout'[i] = last
    BY <2>3, <2>4, <2>6, LineAdded
  <2>8. \A a \in Asks : Waits(a)' = Waits(a)
    <3> TAKE a \in Asks
    <3>1. Count(stdout', <<"ask", a>>) = Count(said, <<"ask", a>>) + IF last = <<"ask", a>> THEN 1 ELSE 0
      BY <2>7
    <3>2. last # <<"ask", a>>
      BY <2>3
    <3>3. Count(said, <<"ask", a>>) = Count(stdout, <<"ask", a>>)
      BY <2>4a
    <3>4. Count(stdout', <<"ask", a>>) = Count(stdout, <<"ask", a>>)
      BY <1>2, <3>1, <3>2, <3>3
    <3> QED
      BY <1>1, <3>4 DEF Waits
  <2>9. ASSUME NEW a \in Asks PROVE Cancelled(a)' <=> Cancelled(a)
    <3>1. Listed(stdout', <<"cancel", a>>) <=> Listed(said, <<"cancel", a>>) \/ <<"cancel", a>> = last
      BY <2>7
    <3>2. Listed(said, <<"cancel", a>>) <=> Listed(stdout, <<"cancel", a>>)
      BY <2>4b
    <3>3. last # <<"cancel", a>>
      BY <2>3
    <3> QED
      BY <3>1, <3>2, <3>3 DEF Cancelled
  <2>10. Once'
    BY <2>8 DEF WaitsInv, Once
  <2>11. \A i \in 1..(Len(said) + 1) : \/ i \in 1..Len(stdout) /\ stdout'[i] = stdout[i]
                                       \/ stdout'[i] = <<"reported", None>>
                                       \/ i = Len(said) + 1 /\ stdout'[i] = last
    BY <2>4, <2>7
  <2>12. AskedFirst'
    <3> SUFFICES ASSUME NEW a \in Asks, NEW i \in 1..(Len(said) + 1), NEW j \in 1..(Len(said) + 1),
                        stdout'[i] = <<"ask", a>>, stdout'[j] = <<"cancel", a>>
                 PROVE  i < j
      BY <2>7 DEF AskedFirst
    <3>1. i \in 1..Len(stdout) /\ stdout[i] = <<"ask", a>>
      BY <2>3, <2>11
    <3>2. j \in 1..Len(stdout) /\ stdout[j] = <<"cancel", a>>
      BY <2>3, <2>11
    <3> QED
      BY <3>1, <3>2 DEF WaitsInv, AskedFirst
  <2>13. \A a \in Asks : Waits(a)' # 0 => a <= agent.asked /\ Cancelled(a)'
    BY <2>1, <2>8, <2>9 DEF WaitsInv, Known
  <2>14. Known'
    BY <2>1, <2>13 DEF Known
  <2>15. EndsLast'
    <3>1. \A i \in 1..Len(stdout) : stdout[i][1] # "ended"
      BY <2>1, RunIsTold
    <3>2. \A i \in 1..(Len(said) + 1) : stdout'[i][1] = "ended" => i = Len(said) + 1
      BY <2>11, <3>1
    <3> QED
      BY <2>1, <2>7, <2>13, <3>2 DEF EndsLast
  <2> QED
    BY <2>8, <2>10, <2>12, <2>14, <2>15 DEF WaitsInv
<1> QED
  BY <1>3, <1>4, <1>5, <1>6, <1>7

(***************************************************************************)
(* The view that the events lead to.  It tells the queue at any moment,    *)
(* and the turn when no start and no end of a turn is still to be told.    *)
(***************************************************************************)
InRun == (\E a \in Asks : Waits(a) # 0) => Turning /\ ~ Has(todo, 1) /\ ~ Has(todo, 2)
Shown == Applied([phase |-> phase, blocked |-> blocked], events)
TurnPhase == IF ~ Turning THEN "idle" ELSE IF queue = <<>> THEN "running" ELSE "blocked"
ShownTrue ==
  /\ Shown.blocked = ToSet(queue)
  /\ ~ Has(todo, 1) /\ ~ Has(todo, 2) =>
       Shown.phase = TurnPhase \/ (Shown.phase = "starting" /\ ~ Turning)
ViewInv ==
  /\ FewEvents(events) /\ Tells(turns, todo)
  /\ Watched => WaitsInv /\ InRun /\ ShownTrue

LEMMA ShownNext ==
  ASSUME FewEvents(events), phase' = phase, blocked' = blocked,
         NEW e, e \in Resets \cup {StartedEvent} \/ e[1] \in {"Reported", "gone"}, Push(e)
  PROVE  FewEvents(events') /\ Shown' = Reduce(Shown, e)
         /\ \E q, c : Shown = [phase |-> q, blocked |-> c]
  BY PushShows, AppliedIsView DEF Shown

\* A step that is not about the turns, the queue or the events.
LEMMA ViewStays ==
  ASSUME InRun, ShownTrue, events' = events, phase' = phase, blocked' = blocked, queue' = queue,
         turns'.running = turns.running,
         Has(todo', 1) <=> Has(todo, 1), Has(todo', 2) <=> Has(todo, 2),
         \A a \in Asks : Waits(a)' # 0 => Waits(a) # 0
  PROVE  InRun' /\ ShownTrue'
<1>1. InRun'
  BY DEF InRun, Turning
<1>2. Shown' = Shown /\ TurnPhase' = TurnPhase /\ (Turning' <=> Turning)
  BY DEF Shown, TurnPhase, Turning
<1> QED
  BY <1>1, <1>2 DEF ShownTrue

\* The queue is told while the turn runs.
LEMMA QueueShown ==
  ASSUME FewEvents(events), phase' = phase, blocked' = blocked, queue' \in Seq(Asks), Publish(queue'), Turning'
  PROVE  FewEvents(events') /\ ShownTrue'
<1> DEFINE e == IF queue' = <<>> THEN <<"settled">> ELSE <<"asked", ToSet(queue')>>
<1>1. Push(e)
  BY DEF Publish
<1>2. ToSet(queue') \in SUBSET Asks
  BY DEF ToSet
<1>3. e \in Resets
  BY <1>2 DEF Resets
<1> HIDE DEF e
<1>4. FewEvents(events') /\ Shown' = Reduce(Shown, e) /\ \E q, c : Shown = [phase |-> q, blocked |-> c]
  BY <1>1, <1>3, ShownNext
<1>5. PICK q, c : Shown = [phase |-> q, blocked |-> c]
  BY <1>4
<1>6. Shown' = IF queue' = <<>> THEN [phase |-> "running", blocked |-> {}]
                               ELSE [phase |-> "blocked", blocked |-> ToSet(queue')]
  <2>1. Reduce([phase |-> q, blocked |-> c], <<"settled">>) = [phase |-> "running", blocked |-> {}]
    BY Reduced
  <2>2. ASSUME NEW asks
        PROVE  Reduce([phase |-> q, blocked |-> c], <<"asked", asks>>) = [phase |-> "blocked", blocked |-> asks]
    BY DEF Reduce
  <2>3. Shown' = Reduce([phase |-> q, blocked |-> c], e)
    BY <1>4, <1>5
  <2> QED
    BY <2>1, <2>2, <2>3 DEF e
<1>7. queue' = <<>> => ToSet(queue') = {}
  BY DEF ToSet
<1>8. Shown'.blocked = ToSet(queue') /\ Shown'.phase = TurnPhase'
  BY <1>6, <1>7 DEF TurnPhase
<1> QED
  BY <1>4, <1>8 DEF ShownTrue

\* An operation of the turns.
LEMMA DriveShown ==
  ASSUME HostTypes, NEW thread \in {"reader", "poller"}, NEW r \in Asked, Drive(thread, r),
         NEW t, t.running = turns.running, NEW before, Deals(t, r, before), Announces(turns, r),
         events' = events, phase' = phase, blocked' = blocked, queue' = queue
  PROVE  /\ Tells(turns', todo') /\ (ShownTrue => ShownTrue')
         /\ InRun /\ Calm(turns, r) /\ (\A a \in Asks : Waits(a)' # 0 => Waits(a) # 0) => InRun'
<1>1. /\ Tells(turns', todo') /\ turns'.running = r.t.running /\ todo = <<>>
      /\ \A k \in 1..3 : Has(todo', k) <=> Has(r.acts, k)
  BY DriveTells, DriveIsTyped
<1>2. (Has(todo', 1) <=> Has(r.acts, 1)) /\ (Has(todo', 2) <=> Has(r.acts, 2))
  BY <1>1
<1>3. ~ Has(todo, 1) /\ ~ Has(todo, 2)
  BY <1>1, NoneTold
<1>4. Turning /\ ~ Turning' => Has(todo', 1)
  <2>1. Turning /\ ~ Turning' => Does(r.acts, "emit", "TurnEnded")
    BY <1>1 DEF Deals, Turning
  <2>2. Does(r.acts, "emit", "TurnEnded") => Has(r.acts, 1)
    BY DEF Does, Has, Rank
  <2> QED
    BY <1>2, <2>1, <2>2
<1>5. ~ Turning /\ Turning' => Has(todo', 2)
  BY <1>1, <1>2 DEF Announces, Turning
<1>6. Shown' = Shown /\ ((Turning' <=> Turning) => TurnPhase' = TurnPhase)
  BY DEF Shown, TurnPhase
<1>7. ShownTrue => ShownTrue'
  BY <1>3, <1>4, <1>5, <1>6 DEF ShownTrue
<1>8. InRun /\ Calm(turns, r) /\ (\A a \in Asks : Waits(a)' # 0 => Waits(a) # 0) => InRun'
  <2> SUFFICES ASSUME InRun, Calm(turns, r), \A a \in Asks : Waits(a)' # 0 => Waits(a) # 0,
                      \E a \in Asks : Waits(a)' # 0
               PROVE  Turning' /\ ~ Has(todo', 1) /\ ~ Has(todo', 2)
    BY DEF InRun
  <2>1. Turning
    BY DEF InRun
  <2>2. ~ Has(todo', 1) /\ ~ Has(todo', 2)
    BY <1>2, <2>1 DEF Calm, Turning
  <2> QED
    BY <1>4, <2>1, <2>2
<1> QED
  BY <1>1, <1>7, <1>8

LEMMA DenialsAreSilent ==
  ASSUME NEW q \in Seq(Asks), NEW turn
  PROVE  Silent(InterruptSends(q, turn))
<1> DEFINE each == Each("verdict", q, None)
           cut == [act |-> "cut", what |-> turn, how |-> None]
<1>1. Len(each) = Len(q) /\ Len(q) \in Nat /\ \A i \in 1..Len(each) : each[i].act = "verdict"
  BY DEF Each
<1>2. each = [i \in 1..Len(q) |-> each[i]] /\ InterruptSends(q, turn) = each \o <<cut>> /\ cut.act = "cut"
  BY DEF InterruptSends, Do, Each
<1> DEFINE S == {each[i] : i \in 1..Len(q)} \cup {cut}
<1>3. each \in Seq(S) /\ <<cut>> \in Seq(S) /\ \A x \in S : x.act \in {"verdict", "cut"}
  <2>1. each \in [1..Len(q) -> S]
    BY <1>2
  <2>2. each \in Seq(S) /\ <<cut>> \in Seq(S)
    BY <1>1, <2>1
  <2>3. \A x \in S : x.act \in {"verdict", "cut"}
    BY <1>1, <1>2
  <2> QED
    BY <2>2, <2>3
<1> HIDE DEF each, cut, S
<1>4. each \o <<cut>> \in Seq(S)
  BY <1>3
<1>5. \A i \in 1..Len(each \o <<cut>>) : (each \o <<cut>>)[i] \in S
  BY <1>4
<1> QED
  BY <1>2, <1>3, <1>5 DEF Silent

LEMMA PerformView ==
  ASSUME HostTypes, HostTypes', Refuses, ViewInv, Perform
  PROVE  ViewInv'
<1> DEFINE head == Head(todo)
           rest == Tail(todo)
<1>1. /\ todo # <<>> /\ todo \in Seq(Acts)
      /\ turns' = turns /\ phase' = phase /\ blocked' = blocked /\ stdout' = stdout /\ agent' = agent
      /\ held' = held /\ closing' = closing /\ exited' = exited
  BY DEF Perform, PerformSend, PerformEmit, PerformInterrupt, PerformResult, PerformReport, Performing,
         PerformRest, viewVars, lifeVars, agentVars, HostTypes
<1>2. /\ Tells(turns, rest) /\ rest \in Seq(Acts)
      /\ \A k : Has(todo, k) <=> Has(rest, k) \/ Rank(head) = k
      /\ Rank(head) # 0 => \A k \in 1..3 : Has(rest, k) => Rank(head) < k
      /\ head.act = "emit" => head.what \in {"TurnStarted", "TurnEnded", "Reported"}
  BY <1>1, TailTells DEF ViewInv
<1>3. (Watched' <=> Watched) /\ (Turning' <=> Turning) /\ FewEvents(events) /\ Tells(turns, todo)
  BY <1>1 DEF Watched, Turning, ViewInv
<1>4. ASSUME queue' = queue \/ queue' = <<>>
      PROVE  /\ Watched' => WaitsInv'
             /\ \A a \in Asks : Waits(a)' # 0 => Waits(a) # 0
  <2>1. ASSUME NEW a \in Asks PROVE Waits(a)' <= Waits(a) /\ Waits(a)' \in Nat /\ Waits(a) \in Nat
    <3>1. /\ Waits(a) \in Nat /\ Count(stdout, <<"ask", a>>) \in Nat /\ Count(queue, a) \in Nat
      BY WaitsType
    <3>2. Count(<<>>, a) = 0
      BY CountEmpty
    <3>3. Waits(a)' = Count(stdout, <<"ask", a>>) + Count(queue', a)
      BY <1>1 DEF Waits
    <3> QED
      BY <1>4, <3>1, <3>2, <3>3 DEF Waits
  <2>2. Watched => WaitsInv'
    BY <1>1, <2>1, LinesStay DEF ViewInv, Up
  <2>3. \A a \in Asks : Waits(a)' # 0 => Waits(a) # 0
    BY <2>1
  <2> QED
    BY <1>3, <2>2, <2>3
<1> HIDE DEF head, rest
<1>5. ASSUME todo' = rest, events' = events, queue' = queue, Rank(head) \in {0, 3}
      PROVE  ViewInv'
  <2>1. (Has(todo', 1) <=> Has(todo, 1)) /\ (Has(todo', 2) <=> Has(todo, 2))
    BY <1>2, <1>5
  <2>2. Watched => InRun' /\ ShownTrue'
    BY <1>1, <1>4, <1>5, <2>1, ViewStays DEF ViewInv
  <2>3. FewEvents(events') /\ Tells(turns', todo')
    BY <1>1, <1>2, <1>3, <1>5
  <2> QED
    BY <1>3, <1>4, <1>5, <2>2, <2>3 DEF ViewInv
<1>6. CASE PerformSend \/ PerformResult \/ PerformReport
  <2>1. todo' = rest /\ events' = events /\ queue' = queue /\ head.act # "emit"
    BY <1>6 DEF PerformSend, PerformResult, PerformReport, Performing, GoOn, queueVars, head, rest
  <2>2. Rank(head) \in {0, 3}
    BY <2>1 DEF Rank
  <2> QED
    BY <1>5, <2>1, <2>2
<1>7. CASE PerformEmit
  <2>1. todo' = rest /\ queue' = queue /\ head.act = "emit" /\ Push(<<head.what>>)
    BY <1>7 DEF PerformEmit, Performing, GoOn, head, rest
  <2>2. CASE head.what = "Reported"
    <3>1. events' = events
      BY <2>1, <2>2 DEF Push
    <3>2. Rank(head) = 0
      BY <2>1, <2>2 DEF Rank
    <3> QED
      BY <1>5, <2>1, <3>1, <3>2
  <2>3. ASSUME head.what \in {"TurnEnded", "TurnStarted"}, NEW e, e = <<head.what>>,
               NEW k \in {1, 2}, Rank(head) = k
        PROVE  /\ FewEvents(events') /\ Tells(turns', todo')
               /\ \E q, c : Shown = [phase |-> q, blocked |-> c]
               /\ Shown' = Reduce(Shown, e)
               /\ Watched => queue = <<>> /\ InRun'
    <3>1. e \in Resets \cup {StartedEvent} /\ Push(e)
      BY <2>1, <2>3 DEF Resets, StartedEvent
    <3>2. FewEvents(events') /\ Shown' = Reduce(Shown, e) /\ \E q, c : Shown = [phase |-> q, blocked |-> c]
      BY <1>1, <1>3, <3>1, ShownNext
    <3>3. Has(todo, k)
      BY <1>2, <2>3
    <3>4. Watched => \A a \in Asks : Waits(a) = 0
      BY <3>3 DEF ViewInv, InRun
    <3>5. Watched => queue = <<>>
      <4> SUFFICES ASSUME Watched, queue # <<>> PROVE FALSE
        OBVIOUS
      <4>1. queue[1] \in Asks /\ 1 \in 1..Len(queue) /\ queue \in Seq(Asks)
        BY DEF HostTypes
      <4> DEFINE a == queue[1]
      <4>2. Count(queue, a) # 0 /\ a \in Asks
        BY <4>1, CountType
      <4> HIDE DEF a
      <4>3. Count(queue, a) \in Nat /\ Count(stdout, <<"ask", a>>) \in Nat
        BY <4>2, WaitsType
      <4> QED
        BY <3>4, <4>2, <4>3 DEF Waits
    <3>6. Watched => InRun'
      BY <1>4, <2>1, <3>4 DEF InRun
    <3> QED
      BY <1>1, <1>2, <2>1, <3>2, <3>5, <3>6
  <2>4. ASSUME Watched, Shown'.blocked = {}, queue = <<>>,
               Has(rest, 1) \/ Has(rest, 2) \/ Shown'.phase = IF Turning THEN "running" ELSE "idle"
        PROVE  ShownTrue'
    <3>1. ToSet(queue') = {} /\ queue' = <<>>
      BY <2>1, <2>4 DEF ToSet
    <3>2. Shown'.phase = TurnPhase' \/ Has(rest, 1) \/ Has(rest, 2)
      BY <1>3, <2>4, <3>1 DEF TurnPhase
    <3> QED
      BY <2>1, <2>4, <3>1, <3>2 DEF ShownTrue
  <2>5. CASE head.what = "TurnEnded"
    <3> DEFINE e == <<"TurnEnded">>
    <3>1. Rank(head) = 1
      BY <2>1, <2>5 DEF Rank
    <3>2. /\ FewEvents(events') /\ Tells(turns', todo')
          /\ \E q, c : Shown = [phase |-> q, blocked |-> c]
          /\ Shown' = Reduce(Shown, e)
          /\ Watched => queue = <<>> /\ InRun'
      BY <2>3, <2>5, <3>1
    <3>3. Shown' = [phase |-> "idle", blocked |-> {}]
      <4>1. PICK q, c : Shown = [phase |-> q, blocked |-> c]
        BY <3>2
      <4>2. Reduce([phase |-> q, blocked |-> c], e) = [phase |-> "idle", blocked |-> {}]
        BY Reduced
      <4> QED
        BY <3>2, <4>1, <4>2
    <3>4. Turning => Has(rest, 2)
      <4>1. Has(todo, 1) /\ (Has(todo, 2) => Has(rest, 2))
        BY <1>2, <3>1
      <4> QED
        BY <1>3, <4>1 DEF Tells, Turning
    <3>5. Watched => ShownTrue'
      BY <2>4, <3>2, <3>3, <3>4
    <3> QED
      BY <1>3, <1>4, <2>1, <3>2, <3>5 DEF ViewInv
  <2>6. CASE head.what = "TurnStarted"
    <3> DEFINE e == <<"TurnStarted">>
    <3>1. Rank(head) = 2
      BY <2>1, <2>6 DEF Rank
    <3>2. /\ FewEvents(events') /\ Tells(turns', todo')
          /\ \E q, c : Shown = [phase |-> q, blocked |-> c]
          /\ Shown' = Reduce(Shown, e)
          /\ Watched => queue = <<>> /\ InRun'
      BY <2>3, <2>6, <3>1
    <3>3. Shown'.phase = "running" /\ Shown'.blocked = Shown.blocked
      <4>1. PICK q, c : Shown = [phase |-> q, blocked |-> c]
        BY <3>2
      <4>2. Reduce([phase |-> q, blocked |-> c], e) = [phase |-> "running", blocked |-> c]
        BY Reduced DEF StartedEvent
      <4> QED
        BY <3>2, <4>1, <4>2
    <3>4. Turning
      <4>1. Has(todo, 2)
        BY <1>2, <3>1
      <4> QED
        BY <1>3, <4>1 DEF Tells, Turning
    <3>5. Watched => Shown.blocked = {}
      BY <3>2 DEF ViewInv, ShownTrue, ToSet
    <3>6. Watched => ShownTrue'
      BY <2>4, <3>2, <3>3, <3>4, <3>5
    <3> QED
      BY <1>3, <1>4, <2>1, <3>2, <3>6 DEF ViewInv
  <2> QED
    BY <1>2, <2>1, <2>2, <2>5, <2>6
<1>8. CASE PerformInterrupt
  <2> DEFINE sends == InterruptSends(queue, head.what)
             e == <<"settled">>
  <2>1. queue' = <<>> /\ Push(e) /\ todo' = sends \o rest /\ head.act = "interrupt"
    BY <1>8 DEF PerformInterrupt, Performing, GoOn, head, rest
  <2>2. Turning
    <3>1. Cuts(todo)
      BY <1>1, <2>1, ActsTail DEF head
    <3> QED
      BY <3>1 DEF Refuses
  <2>3. sends \in Seq(Acts) /\ Silent(sends)
    <3>1. head.what \in Whats /\ queue \in Seq(Asks)
      <4>1. head \in Acts
        BY <1>1, ActsTail DEF head
      <4> QED
        BY <4>1, AsksAreTyped DEF HostTypes
    <3>2. sends \in Seq(Acts)
      BY <3>1, DenialsAreTyped
    <3>3. Silent(sends)
      BY <3>1, DenialsAreSilent
    <3> QED
      BY <3>2, <3>3
  <2>4. e \in Resets
    BY DEF Resets
  <2> HIDE DEF sends
  <2>5. FewEvents(events') /\ Shown' = Reduce(Shown, e) /\ \E q, c : Shown = [phase |-> q, blocked |-> c]
    BY <1>1, <1>3, <2>1, <2>4, ShownNext
  <2>6. Shown' = [phase |-> "running", blocked |-> {}]
    <3>1. PICK q, c : Shown = [phase |-> q, blocked |-> c]
      BY <2>5
    <3>2. Reduce([phase |-> q, blocked |-> c], e) = [phase |-> "running", blocked |-> {}]
      BY Reduced
    <3> QED
      BY <2>5, <3>1, <3>2
  <2>7. /\ Tells(turns', todo')
        /\ (Has(todo', 1) <=> Has(rest, 1)) /\ (Has(todo', 2) <=> Has(rest, 2))
    <3>1. Orderly(rest)
      BY <1>2 DEF Tells
    <3>2. \A k \in 1..3 : Tells(turns, sends \o rest) /\ (Has(sends \o rest, k) <=> Has(rest, k))
      BY <1>2, <2>3, <3>1, SilentAfter
    <3> QED
      BY <1>1, <2>1, <3>2
  <2>8. (Has(todo', 1) => Has(todo, 1)) /\ (Has(todo', 2) => Has(todo, 2))
    BY <1>2, <2>7
  <2>9. Watched => InRun'
    BY <1>3, <1>4, <2>1, <2>8 DEF ViewInv, InRun
  <2>10. ShownTrue'
    <3>1. ToSet(queue') = {}
      BY <2>1 DEF ToSet
    <3>2. TurnPhase' = "running"
      BY <1>3, <2>1, <2>2 DEF TurnPhase
    <3> QED
      BY <2>6, <3>1, <3>2 DEF ShownTrue
  <2> QED
    BY <1>3, <1>4, <2>1, <2>5, <2>7, <2>9, <2>10 DEF ViewInv
<1> QED
  BY <1>6, <1>7, <1>8 DEF Perform

LEMMA FewPushed ==
  ASSUME FewEvents(events), NEW e, e \in Resets \cup {StartedEvent} \/ e[1] \in {"Reported", "gone"}, Push(e)
  PROVE  FewEvents(events')
<1> DEFINE p == 0
<1>1. FewEvents(events') /\ Applied([phase |-> p, blocked |-> p], events') = Reduce(Applied([phase |-> p, blocked |-> p], events), e)
  BY PushShows
<1> QED
  BY <1>1

\* The reader takes a line, and the queue is as it was.
LEMMA TakenWaits ==
  ASSUME HostTypes, HostTypes', stdout # <<>>, stdout' = Tail(stdout), NEW a \in Asks
  PROVE  /\ Waits(a)' = Waits(a) + Count(queue', a) - Count(queue, a)
                        - (IF Head(stdout) = <<"ask", a>> THEN 1 ELSE 0)
         /\ Waits(a) \in Nat /\ Waits(a)' \in Nat /\ Count(queue, a) \in Nat /\ Count(queue', a) \in Nat
<1>1. stdout \in Seq(StdoutLines) /\ stdout' \in Seq(StdoutLines) /\ queue \in Seq(Asks) /\ queue' \in Seq(Asks)
  BY DEF HostTypes
<1>2. Count(stdout', <<"ask", a>>) = Count(stdout, <<"ask", a>>) - IF Head(stdout) = <<"ask", a>> THEN 1 ELSE 0
  BY <1>1, CountTail
<1>3. Count(stdout, <<"ask", a>>) \in Nat /\ Count(queue, a) \in Nat
  BY WaitsType
<1>4. Count(stdout', <<"ask", a>>) \in Nat /\ Count(queue', a) \in Nat
  BY <1>1, WaitsCount
<1>5. Waits(a) = Count(stdout, <<"ask", a>>) + Count(queue, a)
  BY DEF Waits
<1>6. Waits(a)' = Count(stdout', <<"ask", a>>) + Count(queue', a)
  BY DEF Waits
<1> DEFINE x == Count(stdout, <<"ask", a>>)
           y == Count(queue, a)
           x2 == Count(stdout', <<"ask", a>>)
           y2 == Count(queue', a)
           k == IF Head(stdout) = <<"ask", a>> THEN 1 ELSE 0
<1>7. /\ x \in Nat /\ y \in Nat /\ x2 \in Nat /\ y2 \in Nat /\ k \in Nat
      /\ x2 = x - k /\ Waits(a) = x + y /\ Waits(a)' = x2 + y2
  BY <1>2, <1>3, <1>4, <1>5, <1>6
<1> HIDE DEF x, y, x2, y2, k
<1>8. Waits(a)' = Waits(a) + y2 - y - k /\ Waits(a) \in Nat /\ Waits(a)' \in Nat
  BY <1>7
<1> QED
  BY <1>7, <1>8 DEF y, y2, k

LEMMA SignalView ==
  ASSUME HostTypes, HostTypes', TurnInv, ViewInv, Signal
  PROVE  ViewInv'
<1>1. /\ stdout # <<>> /\ stdout' = Tail(stdout) /\ agent' = agent /\ queue' = queue /\ events' = events
      /\ phase' = phase /\ blocked' = blocked /\ held' = held /\ closing' = closing /\ exited' = exited
      /\ Head(stdout)[1] \in {"reported", "ended"}
  BY DEF Signal, Reads, ReadRest, queueVars, viewVars, lifeVars
<1>2. turns \in AllTurns /\ Fits(turns) /\ Bound(turns)
  BY DEF HostTypes, TurnInv, TurnsFit
<1>3. ASSUME NEW a \in Asks PROVE Waits(a)' <= Waits(a) /\ (Waits(a)' # 0 => Waits(a) # 0)
  <2>1. /\ Waits(a)' = Waits(a) + Count(queue', a) - Count(queue, a)
                        - (IF Head(stdout) = <<"ask", a>> THEN 1 ELSE 0)
        /\ Waits(a) \in Nat /\ Waits(a)' \in Nat /\ Count(queue, a) \in Nat /\ Count(queue', a) \in Nat
    BY <1>1, TakenWaits
  <2>2. Count(queue', a) = Count(queue, a)
    BY <1>1
  <2> QED
    BY <2>1, <2>2
<1>4. \A a \in Asks : Head(stdout) # <<"cancel", a>>
  BY <1>1
<1>5. Watched => WaitsInv'
  BY <1>1, <1>3, <1>4, LineTaken DEF ViewInv
<1>6. Watched' <=> Watched
  BY <1>1 DEF Watched
<1>7. CASE Reads("reported") /\ Drive("reader", Reported(turns))
  <2> DEFINE r == Reported(turns)
  <2>1. r \in Asked /\ Deals(turns, r, Running(turns)) /\ Announces(turns, r) /\ Calm(turns, r)
    BY <1>2, ReportedIsTyped, ReportedDeals, ReportedTells
  <2>2. Drive("reader", r)
    BY <1>7
  <2> HIDE DEF r
  <2>3. /\ Tells(turns', todo') /\ (ShownTrue => ShownTrue')
        /\ InRun /\ Calm(turns, r) /\ (\A a \in Asks : Waits(a)' # 0 => Waits(a) # 0) => InRun'
    BY <1>1, <2>1, <2>2, DriveShown
  <2> QED
    BY <1>1, <1>3, <1>5, <1>6, <2>1, <2>3 DEF ViewInv
<1>8. CASE /\ Reads("ended")
           /\ LET end == IF Line = "failed" /\ turns.sent THEN "interrupted" ELSE Line
              IN  \E closes \in {FALSE, closing} : Drive("reader", End(turns, end, closes))
  <2> DEFINE end == IF Line = "failed" /\ turns.sent THEN "interrupted" ELSE Line
  <2>1. end \in Ends
    BY <1>8, LinesAreTyped DEF Reads, Ends
  <2> HIDE DEF end
  <2>2. PICK closes \in {FALSE, closing} : Drive("reader", End(turns, end, closes))
    BY <1>8 DEF end
  <2>3. closes \in BOOLEAN
    BY DEF HostTypes
  <2> DEFINE r == End(turns, end, closes)
  <2>4. r \in Asked /\ Deals(turns, r, 0) /\ Announces(turns, r) /\ Drive("reader", r)
    BY <1>2, <2>1, <2>2, <2>3, EndIsTyped, EndDeals, EndTells
  <2> HIDE DEF r
  <2>5. Tells(turns', todo') /\ (ShownTrue => ShownTrue')
    BY <1>1, <2>4, DriveShown
  <2>6. Watched => \A a \in Asks : Waits(a) = 0
    <3> SUFFICES ASSUME Watched, NEW a \in Asks, Waits(a) # 0 PROVE FALSE
      OBVIOUS
    <3>1. 1 \in 1..Len(stdout) /\ stdout[1] = Head(stdout) /\ Len(stdout) \in Nat
      BY <1>1 DEF HostTypes
    <3>2. stdout[1][1] = "ended"
      BY <1>8, <3>1 DEF Reads
    <3>3. 1 = Len(stdout) /\ Cancelled(a)
      BY <3>1, <3>2 DEF ViewInv, WaitsInv, EndsLast
    <3>4. PICK i \in 1..Len(stdout) : stdout[i] = <<"cancel", a>>
      BY <3>3 DEF Cancelled, Listed
    <3>5. i = 1
      <4>1. i \in 1..1
        BY <3>3, <3>4
      <4> QED
        BY <4>1
    <3> QED
      BY <3>2, <3>4, <3>5
  <2>7. Watched => InRun'
    BY <1>3, <2>6 DEF InRun
  <2> QED
    BY <1>1, <1>5, <1>6, <2>5, <2>7 DEF ViewInv
<1> QED
  BY <1>7, <1>8 DEF Signal

LEMMA QueuePushed ==
  ASSUME FewEvents(events), queue' \in Seq(Asks), Publish(queue')
  PROVE  FewEvents(events')
<1> DEFINE e == IF queue' = <<>> THEN <<"settled">> ELSE <<"asked", ToSet(queue')>>
<1>1. Push(e)
  BY DEF Publish
<1>2. ToSet(queue') \in SUBSET Asks
  BY DEF ToSet
<1>3. e \in Resets
  BY <1>2 DEF Resets
<1> HIDE DEF e
<1> QED
  BY <1>1, <1>3, FewPushed

\* A step that touches nothing of the view.
LEMMA ViewUnchanged ==
  ASSUME HostTypes, HostTypes', ViewInv, turns' = turns, todo' = todo, queue' = queue, events' = events,
         phase' = phase, blocked' = blocked, stdout' = stdout, agent' = agent,
         held' = held, closing' = closing, exited' = exited
  PROVE  ViewInv'
<1>1. \A a \in Asks : Waits(a)' = Waits(a) /\ Waits(a) \in Nat
  BY WaitsType DEF Waits
<1>2. \A a \in Asks : Waits(a)' <= Waits(a) /\ (Waits(a)' # 0 => Waits(a) # 0)
  BY <1>1
<1>3. Watched' <=> Watched
  BY DEF Watched
<1>4. Watched => WaitsInv'
  BY <1>2, LinesStay DEF ViewInv, Up
<1>5. Watched => InRun' /\ ShownTrue'
  BY <1>2, ViewStays DEF ViewInv
<1> QED
  BY <1>3, <1>4, <1>5 DEF ViewInv

\* An operation of the turns that ends none while one runs.
LEMMA CalmDrive ==
  ASSUME HostTypes, HostTypes', ViewInv, NEW thread \in {"reader", "poller"}, NEW r \in Asked,
         Drive(thread, r), NEW t, t.running = turns.running, NEW before, Deals(t, r, before),
         Announces(turns, r), Calm(turns, r), queue' = queue, events' = events,
         phase' = phase, blocked' = blocked, stdout' = stdout, agent' = agent,
         held' = held, closing' = closing, exited' = exited
  PROVE  ViewInv'
<1>1. \A a \in Asks : Waits(a)' = Waits(a) /\ Waits(a) \in Nat
  BY WaitsType DEF Waits
<1>2. \A a \in Asks : Waits(a)' <= Waits(a) /\ (Waits(a)' # 0 => Waits(a) # 0)
  BY <1>1
<1>3. Watched' <=> Watched
  BY DEF Watched
<1>4. Watched => WaitsInv'
  BY <1>2, LinesStay DEF ViewInv, Up
<1>5. /\ Tells(turns', todo') /\ (ShownTrue => ShownTrue')
      /\ InRun /\ Calm(turns, r) /\ (\A a \in Asks : Waits(a)' # 0 => Waits(a) # 0) => InRun'
  BY DriveShown
<1>6. InRun => InRun'
  BY <1>2, <1>5
<1> QED
  BY <1>3, <1>4, <1>5, <1>6 DEF ViewInv

LEMMA ReadView ==
  ASSUME HostTypes, HostTypes', TurnInv, ViewInv, Read
  PROVE  ViewInv'
<1>1. CASE Signal
  BY <1>1, SignalView
<1>2. CASE Ask
  <2>0. PICK b \in Asks : b = Line /\ Head(stdout) = <<"ask", b>>
    <3>1. stdout # <<>> /\ Head(stdout)[1] = "ask"
      BY <1>2 DEF Ask, Reads
    <3> QED
      BY <3>1, LinesAreTyped
  <2>1. /\ stdout # <<>> /\ stdout' = Tail(stdout) /\ agent' = agent /\ Head(stdout)[1] = "ask"
        /\ turns' = turns /\ todo' = todo /\ phase' = phase /\ blocked' = blocked
        /\ held' = held /\ closing' = closing /\ exited' = exited
        /\ \/ queue' = queue /\ events' = events
           \/ queue' = Append(queue, b) /\ Publish(queue')
    BY <1>2, <2>0 DEF Ask, Reads, ReadRest, turnVars, viewVars, lifeVars
  <2>2. b \in Asks /\ Head(stdout) = <<"ask", b>>
    BY <2>0
  <2>3. \A a \in Asks : Head(stdout) # <<"cancel", a>>
    BY <2>1
  <2>4. (Watched' <=> Watched) /\ (Turning' <=> Turning) /\ Tells(turns', todo') /\ FewEvents(events)
    BY <2>1 DEF Watched, Turning, ViewInv
  <2>5. \A a \in Asks : Head(stdout) = <<"ask", a>> <=> a = b
    BY <2>2
  <2>6. ASSUME NEW a \in Asks,
               Count(queue', a) = Count(queue, a) \/ (a = b /\ Count(queue', a) = Count(queue, a) + 1)
        PROVE  Waits(a)' <= Waits(a) /\ (Waits(a)' # 0 => Waits(a) # 0)
    <3>1. /\ Waits(a)' = Waits(a) + Count(queue', a) - Count(queue, a)
                          - (IF Head(stdout) = <<"ask", a>> THEN 1 ELSE 0)
          /\ Waits(a) \in Nat /\ Waits(a)' \in Nat /\ Count(queue, a) \in Nat /\ Count(queue', a) \in Nat
      BY <2>1, TakenWaits
    <3>2. CASE a = b
      BY <2>5, <2>6, <3>1, <3>2
    <3>3. CASE a # b
      BY <2>5, <2>6, <3>1, <3>3
    <3> QED
      BY <3>2, <3>3
  <2>7. CASE queue' = queue /\ events' = events
    <3>1. \A a \in Asks : Waits(a)' <= Waits(a) /\ (Waits(a)' # 0 => Waits(a) # 0)
      BY <2>6, <2>7
    <3>2. Watched => WaitsInv'
      BY <2>1, <2>3, <3>1, LineTaken DEF ViewInv
    <3>3. Watched => InRun' /\ ShownTrue'
      BY <2>1, <2>7, <3>1, ViewStays DEF ViewInv
    <3> QED
      BY <2>4, <2>7, <3>2, <3>3 DEF ViewInv
  <2>8. CASE queue' = Append(queue, b) /\ Publish(queue')
    <3>1. queue \in Seq(Asks) /\ queue' \in Seq(Asks)
      BY DEF HostTypes
    <3>2. \A a : Count(queue', a) = Count(queue, a) + IF b = a THEN 1 ELSE 0
      BY <2>2, <2>8, <3>1, CountAppend
    <3>3. \A a \in Asks : Count(queue, a) \in Nat
      BY WaitsType
    <3>4. \A a \in Asks : Count(queue', a) = Count(queue, a) \/ (a = b /\ Count(queue', a) = Count(queue, a) + 1)
      BY <3>2, <3>3
    <3>5. \A a \in Asks : Waits(a)' <= Waits(a) /\ (Waits(a)' # 0 => Waits(a) # 0)
      BY <2>6, <3>4
    <3>6. Watched => WaitsInv'
      BY <2>1, <2>3, <3>5, LineTaken DEF ViewInv
    <3>7. Watched => InRun'
      BY <2>1, <2>4, <3>5 DEF ViewInv, InRun
    <3>8. Waits(b) # 0
      <4>1. Count(stdout, <<"ask", b>>) # 0
        <5>1. stdout \in Seq(StdoutLines)
          BY DEF HostTypes
        <5>2. 1 \in 1..Len(stdout) /\ stdout[1] = Head(stdout)
          BY <2>1, <5>1
        <5> QED
          BY <2>2, <5>1, <5>2, CountType
      <4>2. Count(stdout, <<"ask", b>>) \in Nat /\ Count(queue, b) \in Nat
        BY <2>2, WaitsType
      <4> QED
        BY <4>1, <4>2 DEF Waits
    <3>9. Watched => Turning'
      BY <2>2, <2>4, <3>8 DEF ViewInv, InRun
    <3>10. Watched => ShownTrue'
      BY <2>1, <2>4, <2>8, <3>1, <3>9, QueueShown
    <3>11. FewEvents(events')
      BY <2>4, <2>8, <3>1, QueuePushed
    <3> QED
      BY <2>4, <3>6, <3>7, <3>10, <3>11 DEF ViewInv
  <2> QED
    BY <2>1, <2>7, <2>8
<1>3. CASE Settle
  <2>0. PICK b \in Asks : b = Line /\ Head(stdout) = <<"cancel", b>>
    <3>1. stdout # <<>> /\ Head(stdout)[1] = "cancel"
      BY <1>3 DEF Settle, Reads
    <3> QED
      BY <3>1, LinesAreTyped
  <2>1. /\ stdout # <<>> /\ stdout' = Tail(stdout) /\ agent' = agent /\ Head(stdout)[1] = "cancel"
        /\ turns' = turns /\ todo' = todo /\ phase' = phase /\ blocked' = blocked
        /\ held' = held /\ closing' = closing /\ exited' = exited
        /\ queue' = WithoutAsk(queue, b)
        /\ IF queue' # queue THEN Publish(queue') ELSE events' = events
    BY <1>3, <2>0 DEF Settle, Reads, ReadRest, turnVars, viewVars, lifeVars
  <2>2. b \in Asks /\ Head(stdout) = <<"cancel", b>>
    BY <2>0
  <2>3. (Watched' <=> Watched) /\ (Turning' <=> Turning) /\ Tells(turns', todo') /\ FewEvents(events)
    BY <2>1 DEF Watched, Turning, ViewInv
  <2>4. \A a \in Asks : Head(stdout) # <<"ask", a>> /\ (Head(stdout) = <<"cancel", a>> <=> a = b)
    BY <2>2
  <2>5. queue \in Seq(Asks) /\ queue' \in Seq(Asks)
    BY DEF HostTypes
  <2>6. /\ \A a \in Asks : a # b => Count(queue', a) = Count(queue, a)
        /\ Count(queue', b) = IF b \in ToSet(queue) THEN Count(queue, b) - 1 ELSE Count(queue, b)
    BY <2>1, <2>2, <2>5, WithoutIsTyped
  <2>7. ASSUME NEW a \in Asks PROVE Waits(a)' <= Waits(a) /\ (Waits(a)' # 0 => Waits(a) # 0)
    <3>1. /\ Waits(a)' = Waits(a) + Count(queue', a) - Count(queue, a)
                          - (IF Head(stdout) = <<"ask", a>> THEN 1 ELSE 0)
          /\ Waits(a) \in Nat /\ Waits(a)' \in Nat /\ Count(queue, a) \in Nat /\ Count(queue', a) \in Nat
      BY <2>1, TakenWaits
    <3>2. Count(queue', a) = Count(queue, a) \/ Count(queue', a) = Count(queue, a) - 1
      BY <2>6
    <3> QED
      BY <2>4, <3>1, <3>2
  <2>8. Watched => Waits(b)' = 0
    <3> SUFFICES ASSUME Watched PROVE Waits(b)' = 0
      OBVIOUS
    <3>1. ~ Listed(stdout, <<"ask", b>>)
      <4> SUFFICES ASSUME NEW i \in 1..Len(stdout), stdout[i] = <<"ask", b>> PROVE FALSE
        BY DEF Listed
      <4>1. 1 \in 1..Len(stdout) /\ stdout[1] = <<"cancel", b>>
        BY <2>1, <2>2 DEF HostTypes
      <4>2. i < 1
        BY <2>2, <4>1 DEF ViewInv, WaitsInv, AskedFirst
      <4> QED
        BY <4>2
    <3>2. /\ Count(stdout, <<"ask", b>>) = 0 /\ Count(queue, b) \in Nat
          /\ Count(queue, b) # 0 <=> b \in ToSet(queue)
      BY <2>2, <3>1, WaitsType
    <3>3. Waits(b) <= 1
      BY <2>2 DEF ViewInv, WaitsInv, Once
    <3>4. Count(queue', b) = 0
      BY <2>6, <3>2, <3>3 DEF Waits
    <3>5. /\ Waits(b)' = Waits(b) + Count(queue', b) - Count(queue, b)
                          - (IF Head(stdout) = <<"ask", b>> THEN 1 ELSE 0)
      BY <2>1, <2>2, TakenWaits
    <3> QED
      BY <2>2, <2>4, <3>2, <3>4, <3>5 DEF Waits
  <2>9. Watched => WaitsInv'
    BY <2>1, <2>4, <2>7, <2>8, LineTaken DEF ViewInv
  <2>10. CASE queue' = queue
    <3>1. events' = events
      BY <2>1, <2>10
    <3>2. Watched => InRun' /\ ShownTrue'
      BY <2>1, <2>7, <2>10, <3>1, ViewStays DEF ViewInv
    <3> QED
      BY <2>3, <2>9, <3>1, <3>2 DEF ViewInv
  <2>11. CASE queue' # queue
    <3>1. b \in ToSet(queue) /\ Publish(queue')
      BY <2>1, <2>11 DEF WithoutAsk
    <3>2. Waits(b) # 0
      <4>1. Count(queue, b) # 0 /\ Count(stdout, <<"ask", b>>) \in Nat /\ Count(queue, b) \in Nat
        BY <2>2, <3>1, WaitsType
      <4> QED
        BY <4>1 DEF Waits
    <3>3. Watched => Turning'
      BY <2>2, <2>3, <3>2 DEF ViewInv, InRun
    <3>4. Watched => ShownTrue'
      BY <2>1, <2>3, <2>5, <3>1, <3>3, QueueShown
    <3>5. FewEvents(events')
      BY <2>3, <2>5, <3>1, QueuePushed
    <3>6. Watched => InRun'
      BY <2>1, <2>3, <2>7 DEF ViewInv, InRun
    <3> QED
      BY <2>3, <2>9, <3>4, <3>5, <3>6 DEF ViewInv
  <2> QED
    BY <2>10, <2>11
<1>4. CASE SendDenial
  <2>1. /\ turns' = turns /\ todo' = todo /\ queue' = queue /\ events' = events /\ phase' = phase
        /\ blocked' = blocked /\ stdout' = stdout /\ agent' = agent
        /\ held' = held /\ closing' = closing /\ exited' = exited
    BY <1>4 DEF SendDenial, turnVars, queueVars, viewVars, lifeVars, agentVars
  <2> QED
    BY <2>1, ViewUnchanged
<1>5. CASE EndOfFile
  <2>1. /\ Drive("reader", ProcessGone(turns)) /\ queue' = queue /\ events' = events /\ phase' = phase
        /\ blocked' = blocked /\ stdout' = stdout /\ agent' = agent
        /\ held' = held /\ closing' = closing /\ exited' = exited
    BY <1>5 DEF EndOfFile, queueVars, viewVars, agentVars
  <2> DEFINE g == [turns EXCEPT !.gone = TRUE]
             r == ProcessGone(turns)
  <2>2. turns \in AllTurns /\ Fits(turns) /\ Bound(turns)
    BY DEF HostTypes, TurnInv, TurnsFit
  <2>3. r \in Asked /\ Deals(g, r, Running(turns)) /\ Announces(turns, r) /\ Calm(turns, r)
    BY <2>2, GoneIsTyped, GoneDeals, GoneTells
  <2>4. g.running = turns.running /\ Drive("reader", r)
    BY <2>1, <2>2 DEF AllTurns
  <2> HIDE DEF g, r
  <2> QED
    BY <2>1, <2>3, <2>4, CalmDrive
<1>6. CASE ReportExit
  <2>1. turns' = turns /\ todo' = todo /\ ~ Watched' /\ (events' = events \/ Push(<<"gone">>))
    BY <1>6 DEF ReportExit, turnVars, Watched
  <2>2. FewEvents(events')
    <3>1. <<"gone">>[1] \in {"Reported", "gone"}
      OBVIOUS
    <3> QED
      BY <2>1, <3>1, FewPushed DEF ViewInv
  <2> QED
    BY <2>1, <2>2 DEF ViewInv
<1> QED
  BY <1>1, <1>2, <1>3, <1>4, <1>5, <1>6 DEF Read

LEMMA PollView ==
  ASSUME HostTypes, HostTypes', TurnInv, MailInv, Closes, ViewInv,
         \/ (\E a \in Asks : TakeAnswer(a)) \/ (\E m \in Messages : Deliver(m) \/ Lose(m))
         \/ DrainEvents \/ SendAnswer \/ StartClose \/ CloseDrain \/ CloseSettle \/ CloseKill \/ CloseForget
  PROVE  ViewInv'
<1>1. CASE DrainEvents
  <2>1. /\ turns' = turns /\ todo' = todo /\ queue' = queue /\ stdout' = stdout /\ agent' = agent
        /\ held' = held /\ closing' = closing /\ exited' = exited
        /\ ApplyEvents(events) /\ events' = <<>>
    BY <1>1 DEF DrainEvents, PollRest, turnVars, agentVars
  <2>2. phase' = Shown.phase /\ blocked' = Shown.blocked
    BY <2>1 DEF ApplyEvents, Shown
  <2>3. Shown' = [phase |-> phase', blocked |-> blocked']
    BY <2>1, NoneApplied DEF Shown
  <2>4. FewEvents(events') /\ Tells(turns', todo') /\ (Watched' <=> Watched)
    BY <2>1 DEF ViewInv, FewEvents, Watched
  <2>5. \A a \in Asks : Waits(a)' = Waits(a) /\ Waits(a) \in Nat
    BY <2>1, WaitsType DEF Waits
  <2>6. \A a \in Asks : Waits(a)' <= Waits(a) /\ (Waits(a)' # 0 => Waits(a) # 0)
    BY <2>5
  <2>7. Watched => WaitsInv'
    BY <2>1, <2>6, LinesStay DEF ViewInv, Up
  <2>8. Watched => InRun'
    BY <2>1, <2>6 DEF ViewInv, InRun, Turning
  <2>9. Shown'.phase = Shown.phase /\ Shown'.blocked = Shown.blocked
    BY <2>2, <2>3
  <2>10. Watched => ShownTrue'
    <3>1. TurnPhase' = TurnPhase /\ (Turning' <=> Turning)
      BY <2>1 DEF TurnPhase, Turning
    <3> QED
      BY <2>1, <2>9, <3>1 DEF ViewInv, ShownTrue
  <2> QED
    BY <2>4, <2>7, <2>8, <2>10 DEF ViewInv
<1>2. ASSUME NEW b \in Asks, TakeAnswer(b) PROVE ViewInv'
  <2>1. /\ turns' = turns /\ todo' = todo /\ stdout' = stdout /\ agent' = agent
        /\ phase' = phase /\ blocked' = blocked
        /\ held' = held /\ closing' = closing /\ exited' = exited
        /\ b \in ToSet(queue) /\ queue' = WithoutAsk(queue, b) /\ Publish(queue')
    BY <1>2 DEF TakeAnswer, PollRest, turnVars, viewVars, agentVars
  <2>2. (Watched' <=> Watched) /\ (Turning' <=> Turning) /\ Tells(turns', todo') /\ FewEvents(events)
    BY <2>1 DEF Watched, Turning, ViewInv
  <2>3. queue \in Seq(Asks) /\ queue' \in Seq(Asks)
    BY DEF HostTypes
  <2>4. /\ \A a \in Asks : a # b => Count(queue', a) = Count(queue, a)
        /\ Count(queue', b) = Count(queue, b) - 1
    BY <2>1, <2>3, WithoutIsTyped
  <2>5. ASSUME NEW a \in Asks PROVE Waits(a)' <= Waits(a) /\ (Waits(a)' # 0 => Waits(a) # 0)
    <3>1. Count(stdout, <<"ask", a>>) \in Nat /\ Count(queue, a) \in Nat
      BY WaitsType
    <3>2. Count(queue', a) \in Nat
      BY <2>3, CountType
    <3>3. Waits(a) = Count(stdout, <<"ask", a>>) + Count(queue, a)
      BY DEF Waits
    <3>4. Waits(a)' = Count(stdout, <<"ask", a>>) + Count(queue', a)
      BY <2>1 DEF Waits
    <3>5. Count(queue', a) = Count(queue, a) \/ Count(queue', a) = Count(queue, a) - 1
      BY <2>4
    <3> QED
      BY <3>1, <3>2, <3>3, <3>4, <3>5
  <2>6. Watched => WaitsInv'
    BY <2>1, <2>5, LinesStay DEF ViewInv, Up
  <2>7. Waits(b) # 0
    <3>1. Count(queue, b) # 0 /\ Count(stdout, <<"ask", b>>) \in Nat /\ Count(queue, b) \in Nat
      BY <2>1, WaitsType
    <3> QED
      BY <3>1 DEF Waits
  <2>8. Watched => Turning'
    BY <2>2, <2>7 DEF ViewInv, InRun
  <2>9. Watched => ShownTrue'
    BY <2>1, <2>2, <2>3, <2>8, QueueShown
  <2>10. FewEvents(events')
    BY <2>1, <2>2, <2>3, QueuePushed
  <2>11. Watched => InRun'
    BY <2>1, <2>2, <2>5 DEF ViewInv, InRun
  <2> QED
    BY <2>2, <2>6, <2>9, <2>10, <2>11 DEF ViewInv
<1>3. CASE SendAnswer
  <2>1. /\ turns' = turns /\ todo' = todo /\ queue' = queue /\ events' = events /\ phase' = phase
        /\ blocked' = blocked /\ stdout' = stdout /\ agent' = agent
        /\ held' = held /\ closing' = closing /\ exited' = exited
    BY <1>3 DEF SendAnswer, PollRest, turnVars, viewVars, agentVars
  <2> QED
    BY <2>1, ViewUnchanged
<1>4. ASSUME NEW m \in Messages, Lose(m) PROVE ViewInv'
  <2>1. /\ turns' = turns /\ todo' = todo /\ queue' = queue /\ events' = events /\ phase' = phase
        /\ blocked' = blocked /\ stdout' = stdout /\ agent' = agent
        /\ held' = held /\ closing' = closing /\ exited' = exited
    BY <1>4 DEF Lose, PollRest, turnVars, viewVars, agentVars
  <2> QED
    BY <2>1, ViewUnchanged
<1>5. ASSUME NEW m \in Messages, Deliver(m) PROVE ViewInv'
  <2>1. /\ Drive("poller", IF m \in Prompts THEN Accept(turns, m) ELSE Interrupt(turns, m))
        /\ queue' = queue /\ events' = events /\ phase' = phase
        /\ blocked' = blocked /\ stdout' = stdout /\ agent' = agent
        /\ held' = held /\ closing' = closing /\ exited' = exited
    BY <1>5 DEF Deliver, PollRest, viewVars, agentVars
  <2>2. turns \in AllTurns /\ Fits(turns) /\ Bound(turns)
    BY DEF HostTypes, TurnInv, TurnsFit
  <2> DEFINE r == IF m \in Prompts THEN Accept(turns, m) ELSE Interrupt(turns, m)
  <2>3. r \in Asked /\ Deals(turns, r, Running(turns))
    BY <2>2, AcceptIsTyped, AcceptDeals, InterruptIsTyped, InterruptDeals
  <2>4. Announces(turns, r) /\ Calm(turns, r)
    BY <2>2, AcceptTells, InterruptTells
  <2>5. Drive("poller", r)
    BY <2>1
  <2> HIDE DEF r
  <2> QED
    BY <2>1, <2>3, <2>4, <2>5, CalmDrive
<1>6. CASE StartClose
  <2>1. turns' = turns /\ todo' = todo /\ events' = events /\ ~ Watched'
    BY <1>6 DEF StartClose, turnVars, Watched
  <2> QED
    BY <2>1 DEF ViewInv
<1>7. ASSUME turns' = turns, todo' = todo, closing' = closing, FewEvents(events'),
             poller[1] \in {"drain", "settle", "kill", "forget"}
      PROVE  ViewInv'
  <2>1. ~ Watched'
    BY <1>7 DEF Closes, Watched
  <2> QED
    BY <1>7, <2>1 DEF ViewInv
<1>8. CASE CloseDrain \/ CloseKill
  <2>1. turns' = turns /\ todo' = todo /\ events' = events /\ closing' = closing /\ poller[1] \in {"drain", "kill"}
    BY <1>8 DEF CloseDrain, CloseKill, turnVars, lifeVars
  <2> QED
    BY <1>7, <2>1 DEF ViewInv
<1>9. CASE CloseSettle
  <2>1. turns' = turns /\ todo' = todo /\ Push(<<"settled">>) /\ closing' = closing /\ poller[1] = "settle"
    BY <1>9 DEF CloseSettle, turnVars
  <2>2. FewEvents(events')
    <3>1. <<"settled">> \in Resets
      BY DEF Resets
    <3> QED
      BY <2>1, <3>1, FewPushed DEF ViewInv
  <2> QED
    BY <1>7, <2>1, <2>2
<1>10. CASE CloseForget
  <2>1. turns' = turns /\ todo' = todo /\ events' = <<>> /\ closing' = closing /\ poller[1] = "forget"
    BY <1>10 DEF CloseForget, turnVars
  <2> QED
    BY <1>7, <2>1 DEF FewEvents
<1> QED
  BY <1>1, <1>2, <1>3, <1>4, <1>5, <1>6, <1>8, <1>9, <1>10

LEMMA AgentView ==
  ASSUME HostTypes, HostTypes', PlacesInv, TurnInv, ViewInv,
         \/ Hear \/ RaiseAsk \/ Die \/ (\E a \in Asks : TakeBack(a))
         \/ (\E end \in {"succeeded", "failed"} : EndTurn(end))
  PROVE  ViewInv'
<1>1. /\ turns' = turns /\ todo' = todo /\ queue' = queue /\ events' = events /\ phase' = phase
      /\ blocked' = blocked /\ held' = held /\ closing' = closing /\ exited' = exited
  BY DEF Hear, RaiseAsk, Die, TakeBack, EndTurn, hostVars, turnVars, queueVars, viewVars, lifeVars
<1>2. FewEvents(events') /\ Tells(turns', todo') /\ (Watched' <=> Watched) /\ Tells(turns, todo)
  BY <1>1 DEF ViewInv, Watched
<1>3. Watched => WaitsInv' /\ \A a \in Asks : Waits(a)' # 0 => Waits(a) # 0 \/ agent.run # None
  BY <1>2, AgentWaits DEF ViewInv, Watched, PlacesInv, TurnInv
<1>4. agent.run # None => Turning /\ ~ Has(todo, 1) /\ ~ Has(todo, 2)
  <2>1. Up
    BY DEF Hear, RaiseAsk, Die, TakeBack, EndTurn
  <2> QED
    BY <1>2, <2>1, RunIsTold DEF TurnInv
<1>5. Watched => InRun'
  BY <1>1, <1>3, <1>4 DEF ViewInv, InRun, Turning
<1>6. Watched => ShownTrue'
  <2>1. Shown' = Shown /\ TurnPhase' = TurnPhase /\ (Turning' <=> Turning)
    BY <1>1 DEF Shown, TurnPhase, Turning
  <2> QED
    BY <1>1, <2>1 DEF ViewInv, ShownTrue
<1> QED
  BY <1>2, <1>3, <1>5, <1>6 DEF ViewInv

LEMMA ViewInit ==
  ASSUME Init
  PROVE  ViewInv
<1>1. /\ turns.running = None /\ todo = <<>> /\ queue = <<>> /\ events = <<>> /\ stdout = <<>>
      /\ phase = "starting" /\ blocked = {}
  BY DEF Init, NoTurns
<1>2. FewEvents(events) /\ Tells(turns, todo)
  BY <1>1, NoneTold DEF FewEvents, Tells
<1>3. \A a \in Asks : Waits(a) = 0
  <2> TAKE a \in Asks
  <2>1. Count(stdout, <<"ask", a>>) = 0 /\ Count(queue, a) = 0
    BY <1>1, CountEmpty
  <2> QED
    BY <2>1 DEF Waits
<1>4. WaitsInv
  <2>1. Once
    BY <1>3 DEF Once
  <2>2. Len(stdout) = 0
    BY <1>1
  <2>3. AskedFirst /\ EndsLast
    BY <2>2 DEF AskedFirst, EndsLast
  <2>4. Known
    BY <1>3 DEF Known
  <2> QED
    BY <2>1, <2>3, <2>4 DEF WaitsInv
<1>5. InRun
  BY <1>3 DEF InRun
<1>6. ShownTrue
  <2>1. Shown = [phase |-> phase, blocked |-> blocked]
    BY <1>1, NoneApplied DEF Shown
  <2>2. ToSet(queue) = {}
    BY <1>1 DEF ToSet
  <2> QED
    BY <1>1, <2>1, <2>2 DEF ShownTrue, Turning
<1> QED
  BY <1>2, <1>4, <1>5, <1>6 DEF ViewInv

\* When all events are applied and no thread is at work, the phase and the
\* blocked marker of a worker say what its turns and its queue are, though the
\* reader and the poller change them under three locks.
THEOREM ViewTellsTruth == Spec => []ViewIsTrue
<1>1. Init => LeftInv /\ ViewInv
  BY LeftInit, ViewInit
<1>2. LeftInv /\ ViewInv /\ [Next]_claudeVars => LeftInv' /\ ViewInv'
  <2> SUFFICES ASSUME LeftInv, ViewInv, [Next]_claudeVars PROVE LeftInv' /\ ViewInv'
    OBVIOUS
  <2>1. LeftInv'
    BY LeftStep
  <2>2. HostTypes /\ HostTypes' /\ PlacesInv /\ TurnInv /\ MailInv /\ Closes /\ Refuses
    BY <2>1 DEF LeftInv, PlacesInv, TurnInv
  <2>3. ASSUME UNCHANGED claudeVars PROVE ViewInv'
    BY <2>2, <2>3, ViewUnchanged DEF claudeVars, hostVars, turnVars, queueVars, viewVars, lifeVars, agentVars
  <2>4. ASSUME Next PROVE ViewInv'
    BY <2>2, <2>4, PerformView, ReadView, PollView, AgentView DEF Next, Progress, Unforced
  <2> QED
    BY <2>1, <2>3, <2>4
<1>3. LeftInv /\ ViewInv => ViewIsTrue
  <2> SUFFICES ASSUME LeftInv, ViewInv, held, ~ closing, ~ exited, events = <<>>, lock = "free",
                      phase # "starting"
               PROVE  /\ blocked = ToSet(queue)
                      /\ phase = IF ~ Turning THEN "idle" ELSE IF queue = <<>> THEN "running" ELSE "blocked"
    BY DEF ViewIsTrue
  <2>1. Shown = [phase |-> phase, blocked |-> blocked]
    BY NoneApplied DEF Shown
  <2>2. ~ Has(todo, 1) /\ ~ Has(todo, 2)
    BY NoneTold DEF LeftInv, PlacesInv, HostTypes
  <2>3. ShownTrue
    BY DEF ViewInv, Watched
  <2> QED
    BY <2>1, <2>2, <2>3 DEF ShownTrue, TurnPhase
<1> QED
  BY <1>1, <1>2, <1>3, PTL DEF Spec
=============================================================================
