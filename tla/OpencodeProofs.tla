--------------------------- MODULE OpencodeProofs ---------------------------
(***************************************************************************)
(* What holds of the host of an opencode worker for any messages, requests *)
(* and faults: once nothing is under way it has what its server has, and   *)
(* the markers show it, unless one of its known limits was met.  What the  *)
(* host will believe is read off the updates that still come: the last of  *)
(* a kind decides, and without one what the host believes now.             *)
(***************************************************************************)
EXTENDS Opencode, FiniteSetTheorems, SequenceTheorems, WellFoundedInduction, TLAPS

USE OpencodeAssumption

(***************************************************************************)
(* The last entry of a sequence that is in a set.                          *)
(***************************************************************************)
Never(s, K) == \A i \in 1..Len(s) : s[i] \notin K
Lasts(s, K, L) ==
  \A i \in 1..Len(s) : s[i] \in K /\ (\A j \in 1..Len(s) : j > i => s[j] \notin K) => s[i] \in L
\* Of K, only what is in L.
Only(s, K, L) == \A i \in 1..Len(s) : s[i] \in K => s[i] \in L

LEMMA NothingSaid == \A K, L : Never(<<>>, K) /\ Lasts(<<>>, K, L)
  BY DEF Never, Lasts

LEMMA NeverLasts == \A s, K, L : Never(s, K) => Lasts(s, K, L)
  BY DEF Never, Lasts

LEMMA SaidFirst ==
  ASSUME NEW S, NEW s \in Seq(S), NEW t \in Seq(S), NEW K, NEW L
  PROVE  /\ Never(s \o t, K) <=> Never(s, K) /\ Never(t, K)
         /\ Lasts(s \o t, K, L) <=> Lasts(t, K, L) /\ (Never(t, K) => Lasts(s, K, L))
<1> DEFINE st == s \o t
           m == Len(s)
           n == Len(t)
<1>1. m \in Nat /\ n \in Nat /\ Len(st) = m + n
  BY ConcatProperties, LenProperties
<1>2. \A i \in 1..m : i \in 1..(m + n) /\ st[i] = s[i]
  BY <1>1, ConcatProperties
<1>3. \A i \in 1..n : i + m \in 1..(m + n) /\ st[i + m] = t[i]
  <2> TAKE i \in 1..n
  <2>1. i + m \in 1..(m + n) /\ ~ (i + m <= m) /\ (i + m) - m = i
    BY <1>1
  <2> QED
    BY <2>1, ConcatProperties
<1>4. \A i \in 1..(m + n) : i \in 1..m \/ \E k \in 1..n : i = k + m
  <2> TAKE i \in 1..(m + n)
  <2>1. i \in 1..m \/ (i - m \in 1..n /\ i = (i - m) + m)
    BY <1>1
  <2> QED
    BY <2>1
<1> HIDE DEF st, m, n
<1>5. Never(st, K) <=> Never(s, K) /\ Never(t, K)
  <2>1. ASSUME Never(st, K) PROVE Never(s, K) /\ Never(t, K)
    BY <1>1, <1>2, <1>3, <2>1 DEF Never, m, n
  <2>2. ASSUME Never(s, K), Never(t, K), NEW i \in 1..(m + n) PROVE st[i] \notin K
    BY <1>2, <1>3, <1>4, <2>2 DEF Never, m, n
  <2> QED
    BY <1>1, <2>1, <2>2 DEF Never
<1>6. ASSUME Lasts(st, K, L) PROVE Lasts(t, K, L)
  <2> SUFFICES ASSUME NEW i \in 1..n, t[i] \in K, \A j \in 1..n : j > i => t[j] \notin K PROVE t[i] \in L
    BY DEF Lasts, n
  <2>1. i + m \in 1..(m + n) /\ st[i + m] = t[i]
    BY <1>3
  <2>2. ASSUME NEW j \in 1..(m + n), j > i + m PROVE st[j] \notin K
    <3>1. j - m \in 1..n /\ j - m > i /\ (j - m) + m = j
      BY <1>1, <2>2
    <3> QED
      BY <1>3, <3>1
  <2> QED
    BY <1>1, <1>6, <2>1, <2>2 DEF Lasts
<1>7. ASSUME Lasts(st, K, L), Never(t, K) PROVE Lasts(s, K, L)
  <2> SUFFICES ASSUME NEW i \in 1..m, s[i] \in K, \A j \in 1..m : j > i => s[j] \notin K PROVE s[i] \in L
    BY DEF Lasts, m
  <2>1. i \in 1..(m + n) /\ st[i] = s[i]
    BY <1>2
  <2>2. ASSUME NEW j \in 1..(m + n), j > i PROVE st[j] \notin K
    BY <1>2, <1>3, <1>4, <1>7, <2>2 DEF Never, n
  <2> QED
    BY <1>1, <1>7, <2>1, <2>2 DEF Lasts
<1>8. ASSUME Lasts(t, K, L), Never(t, K) => Lasts(s, K, L) PROVE Lasts(st, K, L)
  <2> SUFFICES ASSUME NEW i \in 1..(m + n), st[i] \in K, \A j \in 1..(m + n) : j > i => st[j] \notin K
               PROVE st[i] \in L
    BY <1>1 DEF Lasts
  <2>1. CASE i \in 1..m
    <3>1. ASSUME NEW k \in 1..n PROVE t[k] \notin K
      <4>1. k + m \in 1..(m + n) /\ k + m > i
        BY <1>1, <2>1
      <4> QED
        BY <1>3, <4>1
    <3>2. Lasts(s, K, L)
      BY <1>8, <3>1 DEF Never, n
    <3>3. \A j \in 1..m : j > i => s[j] \notin K
      BY <1>2
    <3> QED
      BY <1>2, <2>1, <3>2, <3>3 DEF Lasts, m
  <2>2. ASSUME NEW k \in 1..n, i = k + m PROVE st[i] \in L
    <3>1. ASSUME NEW j \in 1..n, j > k PROVE t[j] \notin K
      <4>1. j + m \in 1..(m + n) /\ j + m > i
        BY <1>1, <2>2, <3>1
      <4> QED
        BY <1>3, <4>1
    <3>2. st[i] = t[k]
      BY <1>3, <2>2
    <3> QED
      BY <1>8, <3>1, <3>2 DEF Lasts, n
  <2> QED
    BY <1>4, <2>1, <2>2
<1> QED
  BY <1>5, <1>6, <1>7, <1>8 DEF st

LEMMA Appended ==
  ASSUME NEW S, NEW s \in Seq(S), NEW t \in Seq(S), NEW u \in S
  PROVE  s \o Append(t, u) = Append(s \o t, u)
  OBVIOUS

LEMMA SaidOne ==
  ASSUME NEW u, NEW K, NEW L
  PROVE  /\ Never(<<u>>, K) <=> u \notin K
         /\ Lasts(<<u>>, K, L) <=> (u \in K => u \in L)
  BY DEF Never, Lasts

LEMMA SaidNext ==
  ASSUME NEW S, NEW s \in Seq(S), NEW u \in S, NEW K, NEW L
  PROVE  /\ Never(Append(s, u), K) <=> Never(s, K) /\ u \notin K
         /\ Lasts(Append(s, u), K, L) <=> IF u \in K THEN u \in L ELSE Lasts(s, K, L)
<1>1. Append(s, u) = s \o <<u>> /\ <<u>> \in Seq(S)
  BY AppendIsConcat
<1>2. /\ Never(s \o <<u>>, K) <=> Never(s, K) /\ Never(<<u>>, K)
      /\ Lasts(s \o <<u>>, K, L) <=> Lasts(<<u>>, K, L) /\ (Never(<<u>>, K) => Lasts(s, K, L))
  BY <1>1, SaidFirst
<1> QED
  BY <1>1, <1>2, SaidOne

LEMMA SaidHead ==
  ASSUME NEW S, NEW s \in Seq(S), NEW t \in Seq(S), s # <<>>, NEW K, NEW L
  PROVE  /\ Never(s \o t, K) <=> Head(s) \notin K /\ Never(Tail(s) \o t, K)
         /\ Lasts(s \o t, K, L) <=> /\ Lasts(Tail(s) \o t, K, L)
                                    /\ Never(Tail(s) \o t, K) /\ Head(s) \in K => Head(s) \in L
<1> DEFINE u == Head(s)
           r == Tail(s) \o t
<1>1. u \in S /\ Tail(s) \in Seq(S) /\ <<u>> \in Seq(S) /\ r \in Seq(S)
  BY HeadTailProperties, ConcatProperties
<1>2. s \o t = <<u>> \o r
  <2>1. s = <<u>> \o Tail(s)
    BY HeadTailProperties, SeqEqual, ConcatProperties
  <2> QED
    BY <1>1, <2>1, ConcatAssociative
<1> HIDE DEF u, r
<1>3. /\ Never(<<u>> \o r, K) <=> Never(<<u>>, K) /\ Never(r, K)
      /\ Lasts(<<u>> \o r, K, L) <=> Lasts(r, K, L) /\ (Never(r, K) => Lasts(<<u>>, K, L))
  BY <1>1, SaidFirst
<1> QED
  BY <1>2, <1>3, SaidOne DEF u, r

(***************************************************************************)
(* Types.                                                                  *)
(***************************************************************************)
Texts == Replies \cup {Task, Reminder}
Some == {A \in SUBSET Nat : IsFiniteSet(A)}
Results == [no : Nat, end : {"succeeded", "transient", "failed", "interrupted"}, told : BOOLEAN]
Started == <<"started">>
Ends == {"ended"} \X Results
Updates == {Started} \cup ({"blocked", "unblocked"} \X Nat) \cup Ends
Acts == [act : {"publish"}, what : Some, how : {None}] \cup [act : {"send"}, what : Texts, how : {None}]
        \cup [act : {"clear"}, what : {None}, how : {None}]
Events == ({"marks"} \X Some) \cup ({"interrupted"} \X {"cut", "idle", None})
TurnStates == [inFlight : BOOLEAN, reminded : BOOLEAN, retries : Nat, prompt : Texts \cup {None},
               blocked : Some, requested : BOOLEAN]
Sessions == [run : Texts \cup {None}, told : BOOLEAN, queue : Seq(Texts), result : Results \cup {NoResult},
             asks : Some, asked : Nat, ends : Nat]
SupPlaces == {"loop", "lose", "active", "clone", "pending", "messages", "apply", "effects", "batch", "gaveUp"}
Sups == [at : SupPlaces, known : TurnStates, active : BOOLEAN, pending : Some,
         updates : Seq(Updates), effects : Seq(Acts), batch : Seq(Events), starts : Nat]
PollPlaces == {"idle", "prompt", "request", "interrupt", "drain", "batch", "keep", "post", "reply"}
PollStates == [at : PollPlaces, text : Texts \cup {None}, was : BOOLEAN, outcome : {"cut", "idle", None},
           ask : Nat, batch : Seq(Events)]

OutsideTypes ==
  /\ server \in {"alive", "dead", "none"} /\ link \in {"none", "open", "broken"}
  /\ session \in Sessions /\ feed \in Seq(Updates) /\ faultsLeft \in Nat
HostTypes ==
  /\ turnState \in TurnStates /\ sink \in Seq(Events) /\ reportedMark \in BOOLEAN /\ blockedMark \in Some
  /\ sup \in Sups /\ poll \in PollStates /\ replies \in SUBSET Replies /\ seen \in Nat
\* What is posted is a text.
Texted ==
  poll.at \in {"prompt", "request", "interrupt", "drain", "batch", "keep", "post"} => poll.text \in Texts
OcTypes == OutsideTypes /\ HostTypes /\ Texted

\* What the threads have in hand, and where; what a server that is gone has left.
Shape ==
  /\ sup.updates # <<>> => sup.at \in {"apply", "effects", "batch"}
  /\ sup.effects # <<>> => sup.at = "effects"
  /\ sup.batch # <<>> => sup.at = "batch"
  /\ sup.at = "apply" => sup.updates # <<>>
  /\ poll.batch # <<>> => poll.at = "batch"
  /\ sup.active => sup.at \in {"clone", "pending", "messages"}
  /\ sup.at \in {"pending", "messages"} => sup.known.blocked = turnState.blocked
  /\ sup.at = "messages" => sup.known.inFlight /\ ~ sup.active
  /\ sup.at = "lose" => server = "none"
Gone ==
  /\ link = "open" => server = "alive"
  /\ server = "none" => link = "none"
  /\ link = "none" => feed = <<>>
  /\ server # "alive" => session.run = None /\ session.queue = <<>> /\ session.asks = {} /\ session.result = NoResult
  /\ session.run = None => session.asks = {}
Typed == OcTypes /\ Shape /\ Gone

LEMMA NotNone == None \notin Texts
  BY DEF None, Texts, Task, Reminder

LEMMA SomeTypes ==
  /\ {} \in Some
  /\ \A A \in Some, n \in Nat : A \cup {n} \in Some /\ A \ {n} \in Some
  /\ \A A \in Some : \A B : A \ B \in Some
<1>1. {} \in Some
  BY FS_EmptySet DEF Some
<1>2. ASSUME NEW A \in Some, NEW n \in Nat PROVE A \cup {n} \in Some /\ A \ {n} \in Some
  BY FS_AddElement, FS_RemoveElement DEF Some
<1>3. ASSUME NEW A \in Some, NEW B PROVE A \ B \in Some
  <2>1. A \ B \in SUBSET A
    OBVIOUS
  <2> QED
    BY <2>1, FS_Subset DEF Some
<1> QED
  BY <1>1, <1>2, <1>3

LEMMA DefaultTypes ==
  /\ Default \in TurnStates /\ NoResult \in Results \cup {NoResult}
  /\ \A at \in SupPlaces : Resting(at) \in Sups
  /\ Idle \in PollStates
<1>1. Default \in TurnStates
  BY SomeTypes DEF Default, TurnStates
<1>2. \A at \in SupPlaces : Resting(at) \in Sups
  <2> TAKE at \in SupPlaces
  <2>1. <<>> \in Seq(Updates) /\ <<>> \in Seq(Acts) /\ <<>> \in Seq(Events)
    BY EmptySeq
  <2> QED
    BY <1>1, <2>1, SomeTypes DEF Resting, Sups
<1>3. Idle \in PollStates
  <2>1. <<>> \in Seq(Events)
    BY EmptySeq
  <2> QED
    BY <2>1 DEF Idle, PollStates, PollPlaces
<1> QED
  BY <1>1, <1>2, <1>3

\* SetToSeq lists the set.
LEMMA Listed ==
  ASSUME NEW A \in Some
  PROVE  /\ SetToSeq(A) \in Seq(A)
         /\ \A x : x \in A <=> \E i \in 1..Len(SetToSeq(A)) : SetToSeq(A)[i] = x
<1> DEFINE n == Cardinality(A)
<1>1. n \in Nat /\ ExistsBijection(1..n, A)
  BY FS_CardinalityType DEF Some
<1>2. \E f : f \in [1..n -> A] /\ IsInjective(f)
  <2>1. PICK f : f \in Bijection(1..n, A)
    BY <1>1 DEF ExistsBijection
  <2> QED
    BY <2>1 DEF Bijection, Injection
<1> DEFINE s == SetToSeq(A)
<1>3. s \in [1..n -> A] /\ IsInjective(s)
  <2>1. s = CHOOSE f \in [1..n -> A] : IsInjective(f)
    BY DEF SetToSeq
  <2> HIDE DEF n, s
  <2> QED
    BY <1>2, <2>1
<1>4. s \in Injection(1..n, A)
  BY <1>3 DEF Injection
<1>5. Cardinality(1..n) = n /\ IsFiniteSet(A)
  BY <1>1, FS_Interval DEF Some
<1>6. s \in Surjection(1..n, A)
  BY <1>4, <1>5, FS_Injection
<1>7. s \in Seq(A) /\ Len(s) = n
  BY <1>1, <1>3
<1>8. \A x \in A : \E i \in 1..n : s[i] = x
  BY <1>6 DEF Surjection
<1> HIDE DEF s, n
<1>9. \A i \in 1..n : s[i] \in A
  BY <1>3
<1> QED
  BY <1>7, <1>8, <1>9 DEF s

LEMMA ResultTypes ==
  ASSUME NEW s \in Sessions, NEW end \in {"succeeded", "transient", "failed", "interrupted"}
  PROVE  /\ EndOf(s, end) \in Results /\ EndOf(s, end).end = end /\ EndOf(s, end).no = s.ends + 1
         /\ EndOf(s, end) # NoResult
         /\ Ended(s, end).run = None /\ Ended(s, end).queue = s.queue /\ Ended(s, end).result = EndOf(s, end)
         /\ Ended(s, end).asks = {} /\ Ended(s, end).asked = s.asked /\ Ended(s, end).ends = s.ends + 1
         /\ Ended(s, end).told = s.told
         /\ Ended(s, end) \in Sessions
<1>1. EndOf(s, end) \in Results /\ EndOf(s, end).end = end /\ EndOf(s, end).no = s.ends + 1
  BY DEF EndOf, Results, Sessions
<1>2. EndOf(s, end) # NoResult
  <2>1. NoResult.no = 0 /\ s.ends + 1 # 0
    BY DEF NoResult, Sessions
  <2> QED
    BY <1>1, <2>1
<1>3. /\ Ended(s, end).run = None /\ Ended(s, end).queue = s.queue /\ Ended(s, end).result = EndOf(s, end)
      /\ Ended(s, end).asks = {} /\ Ended(s, end).asked = s.asked /\ Ended(s, end).ends = s.ends + 1
      /\ Ended(s, end).told = s.told
  BY DEF Ended, Sessions
<1>4. Ended(s, end) \in Sessions
  <2>1. s.ends + 1 \in Nat /\ {} \in Some
    BY SomeTypes DEF Sessions
  <2> HIDE DEF Some, Texts, Results
  <2> QED
    BY <1>1, <2>1 DEF Ended, Sessions
<1> QED
  BY <1>1, <1>2, <1>3, <1>4

\* The effects of an update, and what they have to do with the turn's state.
\* Few(acts): a marker to publish comes first, a text to send last.
Few(acts, t) ==
  /\ acts \in Seq(Acts)
  /\ \A i \in 1..Len(acts) : acts[i].act = "publish" => i = 1 /\ acts[i].what = t.blocked
  /\ \A i \in 1..Len(acts) : acts[i].act = "send" => i = Len(acts)
Publishes(acts) == \E i \in 1..Len(acts) : acts[i].act = "publish"
Sends(acts) == \E i \in 1..Len(acts) : acts[i].act = "send"

LEMMA ShowsMade ==
  ASSUME NEW t \in TurnStates
  PROVE  Shows(t) \in Seq(Acts) /\ Len(Shows(t)) = 1 /\ Shows(t)[1].act = "publish" /\ Shows(t)[1].what = t.blocked
<1>1. t.blocked \in Some
  BY DEF TurnStates
<1> DEFINE e == [act |-> "publish", what |-> t.blocked, how |-> None]
<1>2. e \in Acts /\ e.act = "publish" /\ e.what = t.blocked
  BY <1>1 DEF Acts
<1>3. Shows(t) = <<e>>
  BY DEF Shows, Do
<1> HIDE DEF e
<1> QED
  BY <1>2, <1>3

LEMMA SendMade ==
  ASSUME NEW x \in Texts
  PROVE  Do("send", x, None) \in Seq(Acts) /\ Len(Do("send", x, None)) = 1 /\ Do("send", x, None)[1].act = "send"
<1> DEFINE e == [act |-> "send", what |-> x, how |-> None]
<1>1. e \in Acts /\ e.act = "send"
  BY DEF Acts
<1>2. Do("send", x, None) = <<e>>
  BY DEF Do
<1> HIDE DEF e
<1>3. <<e>> \in Seq(Acts) /\ Len(<<e>>) = 1 /\ <<e>>[1].act = "send"
  BY <1>1
<1> QED
  BY <1>2, <1>3, Zenon

LEMMA ClearMade ==
  Do("clear", None, None) \in Seq(Acts) /\ Len(Do("clear", None, None)) = 1
    /\ Do("clear", None, None)[1].act = "clear"
<1> DEFINE e == [act |-> "clear", what |-> None, how |-> None]
<1>1. e \in Acts /\ e.act = "clear"
  BY DEF Acts
<1>2. Do("clear", None, None) = <<e>>
  BY DEF Do
<1> HIDE DEF e
<1>3. <<e>> \in Seq(Acts) /\ Len(<<e>>) = 1 /\ <<e>>[1].act = "clear"
  BY <1>1
<1> QED
  BY <1>2, <1>3, Zenon

LEMMA FewOne ==
  ASSUME NEW acts \in Seq(Acts), Len(acts) = 1, NEW t, acts[1].act = "publish" => acts[1].what = t.blocked
  PROVE  Few(acts, t) /\ (Sends(acts) <=> acts[1].act = "send") /\ (Publishes(acts) <=> acts[1].act = "publish")
<1>1. \A i \in 1..Len(acts) : i = 1 /\ i = Len(acts)
  OBVIOUS
<1>2. 1 \in 1..Len(acts)
  OBVIOUS
<1> QED
  BY <1>1, <1>2 DEF Few, Sends, Publishes

Settled(r, t, end) ==
  /\ r.t \in TurnStates /\ Few(r.acts, r.t)
  /\ r.t.inFlight <=> Sends(r.acts)
  /\ r.t.blocked = IF end = "interrupted" THEN {} ELSE t.blocked
  /\ ~ Publishes(r.acts) => r.t.blocked = t.blocked

LEMMA SettleMakes ==
  ASSUME NEW t \in TurnStates, NEW end \in {"succeeded", "transient", "failed", "interrupted"}, NEW reported \in BOOLEAN
  PROVE  Settled(Settle(t, end, reported), t, end)
<1> DEFINE r == Settle(t, end, reported)
           retry == end = "transient" /\ t.retries < TransientRetries /\ t.prompt # None
<1> SUFFICES /\ r.t \in TurnStates /\ Few(r.acts, r.t)
             /\ r.t.inFlight <=> Sends(r.acts)
             /\ r.t.blocked = IF end = "interrupted" THEN {} ELSE t.blocked
             /\ ~ Publishes(r.acts) => r.t.blocked = t.blocked
  BY DEF Settled
<1>1. t.blocked \in Some /\ t.retries \in Nat /\ t.prompt \in Texts \cup {None} /\ {} \in Some
  BY SomeTypes DEF TurnStates
<1>2. CASE retry
  <2> DEFINE next == [t EXCEPT !.retries = @ + 1, !.inFlight = TRUE]
  <2>1. r = With(next, Do("send", t.prompt, None))
    BY <1>2 DEF Settle
  <2>2. next \in TurnStates /\ next.inFlight /\ next.blocked = t.blocked
    <3>1. t.retries + 1 \in Nat
      BY <1>1
    <3> HIDE DEF Some, Texts
    <3> QED
      BY <3>1 DEF TurnStates
  <2>3. t.prompt \in Texts
    BY <1>1, <1>2
  <2> DEFINE acts == Do("send", t.prompt, None)
  <2>4. acts \in Seq(Acts) /\ Len(acts) = 1 /\ acts[1].act = "send"
    BY <2>3, SendMade
  <2> HIDE DEF next, acts
  <2>5. Few(acts, next) /\ Sends(acts) /\ (~ Publishes(acts))
    BY <2>4, FewOne
  <2>6. r.t = next /\ r.acts = acts
    BY <2>1 DEF With, next, acts
  <2>7. end # "interrupted"
    BY <1>2
  <2> HIDE DEF r
  <2> QED
    BY <2>2, <2>5, <2>6, <2>7 DEF r
<1>3. CASE ~ retry
  <2> DEFINE cut == end = "interrupted"
             out == TurnOutcome(IF end = "transient" THEN "failed" ELSE end, reported,
                               t.reminded, FALSE, t.requested /\ cut)
             asks == out = "remind"
             next == [t EXCEPT !.inFlight = asks, !.reminded = asks, !.retries = 0, !.requested = FALSE,
                               !.prompt = IF asks THEN Reminder ELSE @, !.blocked = IF cut THEN {} ELSE @]
             shows == IF cut /\ t.blocked # {} THEN Shows(next) ELSE <<>>
             rest == CASE asks -> Do("send", Reminder, None)
                       [] out = "reported" -> Do("clear", None, None)
                       [] OTHER -> <<>>
  <2>1. r = With(next, shows \o rest)
    BY <1>3 DEF Settle
  <2> HIDE DEF out
  <2>2. next \in TurnStates /\ next.inFlight = asks /\ next.blocked = IF cut THEN {} ELSE t.blocked
    <3>1. asks \in BOOLEAN /\ (IF asks THEN Reminder ELSE t.prompt) \in Texts \cup {None}
          /\ (IF cut THEN {} ELSE t.blocked) \in Some
      BY <1>1 DEF Texts
    <3> QED
      BY <3>1 DEF TurnStates
  <2>3. asks \in BOOLEAN
    OBVIOUS
  <2>4. /\ shows \in Seq(Acts) /\ (shows = <<>> \/ (cut /\ t.blocked # {} /\ Len(shows) = 1))
        /\ shows # <<>> => shows[1].act = "publish" /\ shows[1].what = next.blocked
        /\ shows = <<>> => ~ cut \/ t.blocked = {}
    <3> HIDE DEF next
    <3>1. Shows(next) \in Seq(Acts) /\ Len(Shows(next)) = 1
          /\ Shows(next)[1].act = "publish" /\ Shows(next)[1].what = next.blocked
      BY <2>2, ShowsMade
    <3>2. <<>> \in Seq(Acts) /\ Len(<<>>) = 0
      BY EmptySeq
    <3>3. CASE cut /\ t.blocked # {}
      <4>1. shows = Shows(next)
        BY <3>3
      <4> HIDE DEF shows
      <4>2. shows \in Seq(Acts) /\ Len(shows) = 1 /\ shows[1].act = "publish" /\ shows[1].what = next.blocked
        BY <3>1, <4>1, Zenon
      <4>3. shows # <<>>
        <5>1. Len(shows) = 1
          BY <4>2, Zenon
        <5>2. Len(<<>>) = 0
          BY <3>2, Zenon
        <5>3. 1 # 0
          OBVIOUS
        <5> QED
          BY <5>1, <5>2, <5>3, Zenon
      <4> QED
        BY <3>3, <4>2, <4>3, Zenon
    <3>4. CASE ~ (cut /\ t.blocked # {})
      BY <3>2, <3>4
    <3> QED
      BY <3>3, <3>4
  <2> HIDE DEF next
  <2>5. /\ rest \in Seq(Acts) /\ (rest = <<>> \/ Len(rest) = 1)
        /\ rest # <<>> => rest[1].act = IF asks THEN "send" ELSE "clear"
        /\ asks => rest # <<>>
    <3>1. CASE asks
      <4>1. rest = Do("send", Reminder, None)
        BY <3>1 DEF Do
      <4>2. Reminder \in Texts
        BY DEF Texts
      <4>3. rest \in Seq(Acts) /\ Len(rest) = 1 /\ rest[1].act = "send"
        <5> HIDE DEF rest
        <5> QED
          BY <4>1, <4>2, SendMade
      <4>4. rest # <<>>
        BY <4>3, EmptySeq
      <4> HIDE DEF rest
      <4> QED
        BY <3>1, <4>3, <4>4
    <3>2. CASE ~ asks
      <4>1. rest = Do("clear", None, None) \/ rest = <<>>
        BY <3>2
      <4> QED
        BY <3>2, <4>1, ClearMade, EmptySeq
    <3> QED
      BY <3>1, <3>2
  <2> HIDE DEF shows, rest, asks, cut
  <2> DEFINE acts == shows \o rest
  <2>6. acts \in Seq(Acts) /\ Len(acts) = Len(shows) + Len(rest) /\ Len(shows) \in {0, 1} /\ Len(rest) \in {0, 1}
        /\ \A i \in 1..Len(acts) : acts[i] = IF i <= Len(shows) THEN shows[i] ELSE rest[i - Len(shows)]
    BY <2>4, <2>5, ConcatProperties, LenProperties
  <2> HIDE DEF acts
  <2>7. ASSUME NEW i \in 1..Len(acts)
        PROVE  /\ acts[i].act = "publish" => i = 1 /\ acts[i].what = next.blocked
               /\ acts[i].act = "send" => i = Len(acts) /\ asks
    <3>1. CASE i <= Len(shows)
      <4>1. i = 1 /\ shows # <<>> /\ acts[i] = shows[1]
        BY <2>6, <3>1
      <4> QED
        BY <2>4, <4>1
    <3>2. CASE ~ (i <= Len(shows))
      <4>1. i = Len(acts) /\ rest # <<>> /\ acts[i] = rest[1]
        BY <2>6, <3>2
      <4> QED
        BY <2>5, <4>1
    <3> QED
      BY <3>1, <3>2
  <2>8. Few(acts, next)
    BY <2>6, <2>7 DEF Few
  <2>9. Sends(acts) <=> asks
    <3>1. ASSUME asks PROVE Sends(acts)
      <4>1. Len(rest) = 1 /\ rest[1].act = "send"
        BY <2>5, <3>1
      <4>2. Len(shows) + 1 \in 1..Len(acts) /\ acts[Len(shows) + 1] = rest[1]
        BY <2>6, <4>1
      <4> QED
        BY <4>1, <4>2 DEF Sends
    <3> QED
      BY <2>7, <3>1 DEF Sends
  <2>10. ~ Publishes(acts) => next.blocked = t.blocked
    <3>1. ASSUME shows # <<>> PROVE Publishes(acts)
      <4>1. Len(shows) = 1 /\ 1 \in 1..Len(acts) /\ acts[1] = shows[1]
        BY <2>4, <2>6, <3>1
      <4> QED
        BY <2>4, <3>1, <4>1 DEF Publishes
    <3> QED
      BY <2>2, <2>4, <3>1
  <2> QED
    BY <2>1, <2>2, <2>3, <2>8, <2>9, <2>10 DEF With, acts, cut
<1> QED
  BY <1>2, <1>3

Flights == {Started} \cup Ends
Cuts == {"ended"} \X {r \in Results : r.end = "interrupted"}
About(a) == {<<"blocked", a>>, <<"unblocked", a>>} \cup Cuts

\* What an update makes of the turn's state.
LEMMA UpdateMakes ==
  ASSUME NEW t \in TurnStates, NEW u \in Updates, NEW reported \in BOOLEAN
  PROVE  LET r == Updated(t, u, reported)
         IN  /\ r.t \in TurnStates /\ Few(r.acts, r.t)
             /\ ~ Publishes(r.acts) => r.t.blocked = t.blocked
             /\ u = Started => r.t.inFlight /\ ~ Sends(r.acts)
             /\ u \in Ends => (r.t.inFlight <=> Sends(r.acts))
             /\ u \notin Flights => r.t.inFlight = t.inFlight /\ ~ Sends(r.acts)
             /\ \A a \in Nat : a \in r.t.blocked <=> IF u \in About(a) THEN u = <<"blocked", a>> ELSE a \in t.blocked
<1> DEFINE r == Updated(t, u, reported)
<1>1. t.blocked \in Some
  BY DEF TurnStates
<1>2. ASSUME NEW x \in TurnStates PROVE Few(<<>>, x) /\ ~ Sends(<<>>) /\ ~ Publishes(<<>>)
  BY EmptySeq DEF Few, Sends, Publishes
<1>3. ASSUME NEW x \in TurnStates PROVE Few(Shows(x), x) /\ ~ Sends(Shows(x)) /\ Publishes(Shows(x))
  <2>1. Shows(x) \in Seq(Acts) /\ Len(Shows(x)) = 1 /\ Shows(x)[1].act = "publish" /\ Shows(x)[1].what = x.blocked
    BY ShowsMade
  <2> QED
    BY <2>1, FewOne
<1>4. CASE u = Started
  <2> DEFINE next == [t EXCEPT !.inFlight = TRUE]
  <2>1. r = With(next, <<>>)
    BY <1>4 DEF Updated, Started
  <2>2. next \in TurnStates /\ next.blocked = t.blocked /\ next.inFlight
    BY DEF TurnStates
  <2>3. u \notin Ends /\ \A a : u \notin About(a)
    BY <1>4 DEF Started, Ends, About, Cuts
  <2> HIDE DEF next
  <2> QED
    BY <1>2, <1>4, <2>1, <2>2, <2>3 DEF With, Flights
<1>5. ASSUME NEW b \in Nat, u = <<"blocked", b>>
      PROVE  /\ r.t \in TurnStates /\ Few(r.acts, r.t) /\ ~ Sends(r.acts)
             /\ ~ Publishes(r.acts) => r.t.blocked = t.blocked
             /\ r.t.inFlight = t.inFlight /\ r.t.blocked = t.blocked \cup {b}
  <2> DEFINE next == [t EXCEPT !.blocked = @ \cup {b}]
  <2>1. r = IF b \in t.blocked THEN With(t, <<>>) ELSE With(next, Shows(next))
    BY <1>5 DEF Updated
  <2>2. next \in TurnStates /\ next.blocked = t.blocked \cup {b} /\ next.inFlight = t.inFlight
    <3>1. t.blocked \cup {b} \in Some
      BY <1>1, SomeTypes
    <3> HIDE DEF Some, Texts
    <3> QED
      BY <3>1 DEF TurnStates
  <2> HIDE DEF next
  <2>3. CASE b \in t.blocked
    BY <1>2, <2>1, <2>3 DEF With
  <2>4. CASE b \notin t.blocked
    BY <1>3, <2>1, <2>2, <2>4 DEF With
  <2> QED
    BY <2>3, <2>4
<1>6. ASSUME NEW b \in Nat, u = <<"unblocked", b>>
      PROVE  /\ r.t \in TurnStates /\ Few(r.acts, r.t) /\ ~ Sends(r.acts)
             /\ ~ Publishes(r.acts) => r.t.blocked = t.blocked
             /\ r.t.inFlight = t.inFlight /\ r.t.blocked = t.blocked \ {b}
  <2> DEFINE next == [t EXCEPT !.blocked = @ \ {b}]
  <2>1. r = IF b \notin t.blocked THEN With(t, <<>>) ELSE With(next, Shows(next))
    BY <1>6 DEF Updated
  <2>2. next \in TurnStates /\ next.blocked = t.blocked \ {b} /\ next.inFlight = t.inFlight
    <3>1. t.blocked \ {b} \in Some
      BY <1>1, SomeTypes
    <3> HIDE DEF Some, Texts
    <3> QED
      BY <3>1 DEF TurnStates
  <2> HIDE DEF next
  <2>3. CASE b \notin t.blocked
    BY <1>2, <2>1, <2>3 DEF With
  <2>4. CASE b \in t.blocked
    BY <1>3, <2>1, <2>2, <2>4 DEF With
  <2> QED
    BY <2>3, <2>4
<1>7. ASSUME NEW res \in Results, u = <<"ended", res>>
      PROVE  /\ r.t \in TurnStates /\ Few(r.acts, r.t)
             /\ r.t.inFlight <=> Sends(r.acts)
             /\ r.t.blocked = IF res.end = "interrupted" THEN {} ELSE t.blocked
             /\ ~ Publishes(r.acts) => r.t.blocked = t.blocked
  <2>1. r = Settle(t, res.end, reported) /\ res.end \in {"succeeded", "transient", "failed", "interrupted"}
    BY <1>7 DEF Updated, Results
  <2> DEFINE q == Settle(t, res.end, reported)
  <2>2. Settled(q, t, res.end)
    <3> HIDE DEF r
    <3> QED
      BY <2>1, SettleMakes
  <2> HIDE DEF r, q
  <2> QED
    BY <2>1, <2>2 DEF q, Settled
<1> HIDE DEF r
<1>8. ASSUME NEW b \in Nat, u = <<"blocked", b>> \/ u = <<"unblocked", b>>
      PROVE  u \notin Flights /\ u # Started /\ u \notin Cuts /\ u \notin Ends
  BY <1>8 DEF Flights, Started, Ends, Cuts
<1>9. ASSUME NEW res \in Results, u = <<"ended", res>>
      PROVE  u \in Flights /\ u \in Ends /\ u # Started /\ (u \in Cuts <=> res.end = "interrupted")
             /\ \A a : u # <<"blocked", a>> /\ u # <<"unblocked", a>>
  BY <1>9 DEF Flights, Started, Ends, Cuts
<1>10. CASE \E b \in Nat : u = <<"blocked", b>>
  <2> PICK b \in Nat : u = <<"blocked", b>>
    BY <1>10
  <2>1. \A a \in Nat : u \in About(a) <=> a = b
    BY <1>8 DEF About
  <2>2. \A a \in Nat : u = <<"blocked", a>> <=> a = b
    OBVIOUS
  <2> QED
    BY <1>5, <1>8, <2>1, <2>2 DEF r
<1>11. CASE \E b \in Nat : u = <<"unblocked", b>>
  <2> PICK b \in Nat : u = <<"unblocked", b>>
    BY <1>11
  <2>1. \A a \in Nat : u \in About(a) <=> a = b
    BY <1>8 DEF About
  <2>2. \A a \in Nat : u # <<"blocked", a>>
    OBVIOUS
  <2> QED
    BY <1>6, <1>8, <2>1, <2>2 DEF r
<1>12. CASE \E res \in Results : u = <<"ended", res>>
  <2> PICK res \in Results : u = <<"ended", res>>
    BY <1>12
  <2>1. \A a \in Nat : u \in About(a) <=> res.end = "interrupted"
    BY <1>9 DEF About
  <2> QED
    BY <1>7, <1>9, <2>1 DEF r
<1> QED
  BY <1>4, <1>10, <1>11, <1>12 DEF Updates, Ends, r

\* What the host will believe of a request, or of the turn, if the last update about
\* it is of these.
Asking(a, waits) == IF waits THEN {<<"blocked", a>>} ELSE {<<"unblocked", a>>} \cup Cuts
Flying(runs) == IF runs THEN {Started} ELSE Ends

LEMMA Told ==
  ASSUME NEW kind \in {"blocked", "unblocked"}, NEW A \in Some
  PROVE  LET m == [i \in DOMAIN SetToSeq(A) |-> <<kind, SetToSeq(A)[i]>>]
         IN  /\ m \in Seq(Updates)
             /\ \A i \in 1..Len(m) : \E x \in A : m[i] = <<kind, x>>
             /\ \A x \in A : \E i \in 1..Len(m) : m[i] = <<kind, x>>
<1> DEFINE s == SetToSeq(A)
           m == [i \in DOMAIN s |-> <<kind, s[i]>>]
<1>1. s \in Seq(A) /\ \A x : x \in A <=> \E i \in 1..Len(s) : s[i] = x
  BY Listed
<1>2. A \subseteq Nat
  BY DEF Some
<1> HIDE DEF s
<1>3. Len(s) \in Nat /\ DOMAIN s = 1..Len(s) /\ \A i \in 1..Len(s) : s[i] \in A
  BY <1>1, LenProperties
<1>4. \A x \in A : <<kind, x>> \in Updates
  BY <1>2 DEF Updates
<1>5. m \in Seq(Updates) /\ Len(m) = Len(s) /\ \A i \in 1..Len(s) : m[i] = <<kind, s[i]>>
  BY <1>3, <1>4
<1> HIDE DEF m
<1>6. \A i \in 1..Len(m) : \E x \in A : m[i] = <<kind, x>>
  BY <1>3, <1>5
<1>7. \A x \in A : \E i \in 1..Len(m) : m[i] = <<kind, x>>
  BY <1>1, <1>5
<1> QED
  BY <1>5, <1>6, <1>7 DEF m, s

LEMMA Apart ==
  \A a : \A b : \A r \in Results :
    /\ <<"blocked", a>> \notin Flights /\ <<"unblocked", a>> \notin Flights
    /\ <<"ended", r>> \in Ends /\ <<"ended", r>> \in Flights /\ <<"ended", r>> # Started
    /\ Started \in Flights /\ Started \notin Ends /\ Started \notin About(a)
    /\ (<<"blocked", a>> \in About(b) <=> a = b) /\ (<<"unblocked", a>> \in About(b) <=> a = b)
    /\ (<<"ended", r>> \in About(a) <=> r.end = "interrupted")
    /\ (<<"ended", r>> \in Cuts <=> r.end = "interrupted")
    /\ <<"blocked", a>> \notin Cuts /\ <<"unblocked", a>> # <<"blocked", b>> /\ <<"ended", r>> # <<"blocked", b>>
<1> TAKE a
<1> TAKE b
<1> TAKE r \in Results
<1>1. <<"blocked", a>> \notin Flights /\ <<"unblocked", a>> \notin Flights
  BY DEF Flights, Ends, Started
<1>2. /\ <<"ended", r>> \in Ends /\ <<"ended", r>> \in Flights /\ <<"ended", r>> # Started
      /\ Started \in Flights /\ Started \notin Ends /\ Started \notin About(a)
  BY DEF Flights, Ends, Started, About, Cuts
<1>3. <<"blocked", a>> \notin Cuts /\ <<"unblocked", a>> \notin Cuts /\ (<<"ended", r>> \in Cuts <=> r.end = "interrupted")
  BY DEF Cuts
<1>4. (<<"blocked", a>> \in About(b) <=> a = b) /\ (<<"unblocked", a>> \in About(b) <=> a = b)
  BY <1>3 DEF About
<1>5. <<"ended", r>> \in About(a) <=> r.end = "interrupted"
  BY <1>3 DEF About
<1> QED
  BY <1>1, <1>2, <1>3, <1>4, <1>5

LEMMA ReconcileMakes ==
  ASSUME NEW known \in TurnStates, NEW active \in BOOLEAN, NEW pending \in Some,
         NEW result \in Results \cup {NoResult}
  PROVE  LET r == Reconcile(known, active, pending, result)
             over == known.inFlight /\ ~ active /\ result # NoResult
         IN  /\ r \in Seq(Updates)
             /\ Never(r, Flights) <=> (known.inFlight \/ ~ active) /\ ~ over
             /\ Lasts(r, Flights, Flying(active))
             /\ Only(r, Ends, {<<"ended", result>>})
             /\ \A a \in Nat : IF over /\ result.end = "interrupted"
                               THEN ~ Never(r, About(a)) /\ Lasts(r, About(a), Asking(a, FALSE))
                               ELSE /\ Lasts(r, About(a), Asking(a, a \in pending))
                                    /\ Never(r, About(a)) => (a \in known.blocked <=> a \in pending)
<1> DEFINE over == known.inFlight /\ ~ active /\ result # NoResult
           A == known.blocked \ pending
           B == pending \ known.blocked
           gone == [i \in DOMAIN SetToSeq(A) |-> <<"unblocked", SetToSeq(A)[i]>>]
           new == [i \in DOMAIN SetToSeq(B) |-> <<"blocked", SetToSeq(B)[i]>>]
           starts == ~ known.inFlight /\ active
           last == CASE starts -> <<Started>>
                     [] over -> <<<<"ended", result>>>>
                     [] OTHER -> <<>>
           r == (gone \o new) \o last
<1>1. Reconcile(known, active, pending, result) = r
  BY DEF Reconcile, Started
<1>2. known.blocked \in Some /\ known.inFlight \in BOOLEAN /\ A \in Some /\ B \in Some
  BY SomeTypes DEF TurnStates
<1>3. /\ gone \in Seq(Updates)
      /\ \A i \in 1..Len(gone) : \E x \in A : gone[i] = <<"unblocked", x>>
      /\ \A x \in A : \E i \in 1..Len(gone) : gone[i] = <<"unblocked", x>>
  <2> HIDE DEF A
  <2> QED
    BY <1>2, Told
<1>4. /\ new \in Seq(Updates)
      /\ \A i \in 1..Len(new) : \E x \in B : new[i] = <<"blocked", x>>
      /\ \A x \in B : \E i \in 1..Len(new) : new[i] = <<"blocked", x>>
  <2> HIDE DEF B
  <2> QED
    BY <1>2, Told
<1> DEFINE end == <<"ended", result>>
<1>5. /\ starts => last = <<Started>> /\ ~ over
      /\ over => last = <<end>> /\ result \in Results
      /\ ~ starts /\ ~ over => last = <<>>
      /\ (known.inFlight \/ ~ active) <=> ~ starts
      /\ over => ~ active
      /\ starts => active
  OBVIOUS
<1>51. /\ Started \in Flights /\ Started \notin Ends /\ Started \in Flying(TRUE)
       /\ \A a : Started \notin About(a)
  BY DEF Flights, Ends, Started, Flying, About, Cuts
<1>52. over => end \in Flights /\ end \in Ends /\ end \in Flying(FALSE)
  BY <1>5 DEF Flights, Ends, Flying
<1>53. \A K, L : /\ Never(<<Started>>, K) <=> Started \notin K
                 /\ Lasts(<<Started>>, K, L) <=> (Started \in K => Started \in L)
                 /\ Never(<<end>>, K) <=> end \notin K
                 /\ Lasts(<<end>>, K, L) <=> (end \in K => end \in L)
  BY SaidOne
<1> HIDE DEF last, end, starts, over
<1>6. over => end \in Updates
  BY <1>52 DEF Updates
<1>7. last \in Seq(Updates)
  <2>1. Started \in Updates /\ <<>> \in Seq(Updates)
    BY EmptySeq DEF Updates
  <2>11. \A x \in Updates : <<x>> \in Seq(Updates)
    OBVIOUS
  <2>2. CASE starts
    BY <1>5, <2>1, <2>11, <2>2, Zenon
  <2>3. CASE over
    BY <1>5, <1>6, <2>11, <2>3, Zenon
  <2>4. CASE ~ starts /\ ~ over
    BY <1>5, <2>1, <2>4
  <2> QED
    BY <2>2, <2>3, <2>4
<1> HIDE DEF gone, new
<1>8. gone \o new \in Seq(Updates) /\ r \in Seq(Updates)
  BY <1>3, <1>4, <1>7, ConcatProperties
<1>9. NoResult.end = None /\ NoResult \notin Results
  BY DEF NoResult, Results, None
<1>10. Never(gone, Flights) /\ Never(new, Flights)
  <2>1. \A x : <<"unblocked", x>> \notin Flights /\ <<"blocked", x>> \notin Flights
    BY DEF Flights, Ends, Started
  <2>2. ASSUME NEW i \in 1..Len(gone) PROVE gone[i] \notin Flights
    <3> PICK x \in A : gone[i] = <<"unblocked", x>>
      BY <1>3
    <3> QED
      BY <2>1
  <2>3. ASSUME NEW i \in 1..Len(new) PROVE new[i] \notin Flights
    <3> PICK x \in B : new[i] = <<"blocked", x>>
      BY <1>4
    <3> QED
      BY <2>1
  <2> QED
    BY <2>2, <2>3 DEF Never
<1>11. /\ Never(r, Flights) <=> Never(last, Flights)
       /\ Lasts(r, Flights, Flying(active)) <=> Lasts(last, Flights, Flying(active))
  <2>1. Never(gone \o new, Flights) /\ Lasts(gone \o new, Flights, Flying(active))
    BY <1>3, <1>4, <1>10, SaidFirst, NeverLasts
  <2> QED
    BY <1>7, <1>8, <2>1, SaidFirst
<1>12. Never(last, Flights) <=> (known.inFlight \/ ~ active) /\ ~ over
  <2>1. CASE starts
    BY <1>5, <1>51, <1>53, <2>1
  <2>2. CASE over
    BY <1>5, <1>52, <1>53, <2>2
  <2>3. CASE ~ starts /\ ~ over
    BY <1>5, <2>3, NothingSaid
  <2> QED
    BY <2>1, <2>2, <2>3
<1>13. Lasts(last, Flights, Flying(active))
  <2>1. CASE starts
    <3>1. active = TRUE
      BY <1>5, <2>1
    <3>2. Lasts(last, Flights, Flying(TRUE))
      <4>1. last = <<Started>>
        BY <1>5, <2>1
      <4>2. Lasts(<<Started>>, Flights, Flying(TRUE))
        BY <1>51, SaidOne, Zenon
      <4> QED
        BY <4>1, <4>2, Zenon
    <3> QED
      BY <3>1, <3>2, Zenon
  <2>2. CASE over
    <3>1. active = FALSE
      BY <1>5, <2>2
    <3>2. Lasts(last, Flights, Flying(FALSE))
      <4>1. last = <<end>>
        BY <1>5, <2>2
      <4>2. Lasts(<<end>>, Flights, Flying(FALSE))
        BY <1>52, <2>2, SaidOne, Zenon
      <4> QED
        BY <4>1, <4>2, Zenon
    <3> QED
      BY <3>1, <3>2, Zenon
  <2>3. CASE ~ starts /\ ~ over
    BY <1>5, <2>3, NothingSaid
  <2> QED
    BY <2>1, <2>2, <2>3
<1>14. ASSUME NEW i \in 1..Len(r), r[i] \in Ends PROVE r[i] = end
  <2>1. \A x : <<"unblocked", x>> \notin Ends /\ <<"blocked", x>> \notin Ends
    BY DEF Ends
  <2>2. Never(gone, Ends) /\ Never(new, Ends)
    BY <1>10 DEF Never, Flights
  <2>3. Never(gone \o new, Ends)
    BY <1>3, <1>4, <2>2, SaidFirst
  <2>4. Lasts(last, Ends, {end})
    <3>1. CASE starts
      BY <1>5, <1>51, <1>53, <3>1
    <3>2. CASE over
      BY <1>5, <1>53, <3>2
    <3>3. CASE ~ starts /\ ~ over
      BY <1>5, <3>3, NothingSaid
    <3> QED
      BY <3>1, <3>2, <3>3
  <2>5. Len(last) \in {0, 1}
    <3>1. Len(<<Started>>) = 1 /\ Len(<<end>>) = 1 /\ Len(<<>>) = 0
      OBVIOUS
    <3> QED
      BY <1>5, <3>1
  <2>6. Len(r) = Len(gone \o new) + Len(last) /\ Len(gone \o new) \in Nat
        /\ r[i] = IF i <= Len(gone \o new) THEN (gone \o new)[i] ELSE last[i - Len(gone \o new)]
    BY <1>7, <1>8, ConcatProperties, LenProperties
  <2>7. ~ (i <= Len(gone \o new))
    <3>1. i <= Len(gone \o new) => i \in 1..Len(gone \o new)
      BY <2>6
    <3> QED
      BY <1>14, <2>3, <2>6, <3>1 DEF Never
  <2>8. r[i] = last[1] /\ 1 \in 1..Len(last) /\ Len(last) = 1
    <3> DEFINE n == Len(gone \o new)
               k == Len(last)
    <3>1. n \in Nat /\ k \in {0, 1} /\ i \in 1..(n + k) /\ ~ (i <= n) /\ r[i] = last[i - n]
      BY <2>5, <2>6, <2>7
    <3> HIDE DEF n, k, r
    <3>2. k = 1 /\ i - n = 1
      BY <3>1
    <3> QED
      BY <3>1, <3>2 DEF k
  <2>9. \A j \in 1..Len(last) : ~ (j > 1)
    BY <2>8
  <2>10. last[1] \in Ends /\ last[1] \in {end}
    BY <1>14, <2>4, <2>8, <2>9 DEF Lasts
  <2> QED
    BY <2>8, <2>10
<1>15. Only(r, Ends, {end})
  <2> HIDE DEF r, end
  <2> QED
    BY <1>14 DEF Only
<1>16. ASSUME NEW a \in Nat
       PROVE IF over /\ result.end = "interrupted"
             THEN ~ Never(r, About(a)) /\ Lasts(r, About(a), Asking(a, FALSE))
             ELSE /\ Lasts(r, About(a), Asking(a, a \in pending))
                  /\ Never(r, About(a)) => (a \in known.blocked <=> a \in pending)
  <2> DEFINE L == Asking(a, a \in pending)
  <2>1. \A x : (<<"unblocked", x>> \in About(a) <=> x = a) /\ (<<"blocked", x>> \in About(a) <=> x = a)
    BY DEF About, Cuts
  <2>11. ASSUME NEW i \in 1..Len(gone), gone[i] \in About(a) PROVE a \in A /\ gone[i] = <<"unblocked", a>>
    <3> PICK x \in A : gone[i] = <<"unblocked", x>>
      BY <1>3
    <3> QED
      BY <2>1, <2>11
  <2>12. ASSUME NEW i \in 1..Len(new), new[i] \in About(a) PROVE a \in B /\ new[i] = <<"blocked", a>>
    <3> PICK x \in B : new[i] = <<"blocked", x>>
      BY <1>4
    <3> QED
      BY <2>1, <2>12
  <2>2. Never(gone, About(a)) <=> a \notin A
    BY <1>3, <2>1, <2>11 DEF Never
  <2>3. Never(new, About(a)) <=> a \notin B
    BY <1>4, <2>1, <2>12 DEF Never
  <2>4. Lasts(gone, About(a), {<<"unblocked", a>>}) /\ Lasts(new, About(a), {<<"blocked", a>>})
    BY <2>11, <2>12 DEF Lasts
  <2>5. Lasts(gone, About(a), L)
    <3>1. CASE a \in A
      <4>1. {<<"unblocked", a>>} \subseteq L
        BY <3>1 DEF Asking
      <4> QED
        BY <2>4, <4>1 DEF Lasts
    <3>2. CASE a \notin A
      BY <2>2, <3>2, NeverLasts
    <3> QED
      BY <3>1, <3>2
  <2>6. Lasts(new, About(a), L)
    <3>1. CASE a \in B
      <4>1. {<<"blocked", a>>} \subseteq L
        BY <3>1 DEF Asking
      <4> QED
        BY <2>4, <4>1 DEF Lasts
    <3>2. CASE a \notin B
      BY <2>3, <3>2, NeverLasts
    <3> QED
      BY <3>1, <3>2
  <2>7. Lasts(gone \o new, About(a), L) /\ (Never(gone \o new, About(a)) <=> a \notin A /\ a \notin B)
    BY <1>3, <1>4, <2>2, <2>3, <2>5, <2>6, SaidFirst
  <2>8. CASE over /\ result.end = "interrupted"
    <3>1. last = <<end>> /\ end \in Cuts
      BY <1>5, <2>8 DEF Cuts, end
    <3>2. end \in About(a) /\ end \in Asking(a, FALSE)
      BY <3>1 DEF About, Asking
    <3>3. ~ Never(last, About(a)) /\ Lasts(last, About(a), Asking(a, FALSE))
      BY <1>53, <3>1, <3>2
    <3> QED
      BY <1>7, <1>8, <2>8, <3>3, SaidFirst
  <2>9. CASE ~ (over /\ result.end = "interrupted")
    <3>1. Never(last, About(a))
      <4>1. CASE starts
        BY <1>5, <1>51, <1>53, <4>1
      <4>2. CASE over
        <5>1. end \notin About(a)
          BY <1>5, <2>9, <4>2 DEF About, Cuts, end
        <5> QED
          BY <1>5, <1>53, <4>2, <5>1
      <4>3. CASE ~ starts /\ ~ over
        BY <1>5, <4>3, NothingSaid
      <4> QED
        BY <4>1, <4>2, <4>3
    <3>2. Lasts(last, About(a), L)
      BY <3>1, NeverLasts
    <3>3. /\ Never(r, About(a)) <=> Never(gone \o new, About(a)) /\ Never(last, About(a))
          /\ Lasts(r, About(a), L) <=> Lasts(last, About(a), L) /\ (Never(last, About(a)) => Lasts(gone \o new, About(a), L))
      BY <1>7, <1>8, SaidFirst
    <3>4. Lasts(r, About(a), L) /\ (Never(r, About(a)) => (a \in known.blocked <=> a \in pending))
      BY <2>7, <3>1, <3>2, <3>3
    <3> QED
      BY <2>9, <3>4
  <2> QED
    BY <2>8, <2>9
<1> HIDE DEF r
<1> QED
  BY <1>1, <1>8, <1>11, <1>12, <1>13, <1>15, <1>16 DEF r, end, over

(***************************************************************************)
(* What each action makes of the fields the invariants read.               *)
(***************************************************************************)
LEMMA EmitTypes ==
  ASSUME link \in {"none", "open", "broken"}, feed \in Seq(Updates), link = "none" => feed = <<>>,
         NEW u \in Updates, Emits(u)
  PROVE  feed' \in Seq(Updates) /\ (link = "none" => feed' = <<>>)
  BY DEF Emits

LEMMA StartTurnMakes ==
  ASSUME Typed, StartTurn
  PROVE  /\ Typed'
         /\ server = "alive" /\ session.run = None /\ session.queue # <<>>
         /\ session'.run # None /\ session'.asks = session.asks /\ session'.result = session.result
         /\ session'.ends = session.ends /\ Emits(Started)
         /\ UNCHANGED <<server, link, reportedMark, faultsLeft>> /\ Outside
<1>1. session \in Sessions /\ session.queue \in Seq(Texts) /\ session.queue # <<>>
  BY DEF Typed, OcTypes, OutsideTypes, Sessions, StartTurn
<1>2. Head(session.queue) \in Texts /\ Tail(session.queue) \in Seq(Texts)
  BY <1>1, HeadTailProperties
<1>3. /\ session'.run = Head(session.queue) /\ session'.asks = session.asks /\ session'.result = session.result
      /\ session'.ends = session.ends /\ session' \in Sessions
  <2> HIDE DEF Some, Texts, Results
  <2> QED
    BY <1>1, <1>2 DEF StartTurn, Sessions
<1>4. session'.run # None
  BY <1>2, <1>3, NotNone
<1>5. Emits(Started) /\ Started \in Updates
  BY DEF StartTurn, Started, Updates
<1>6. feed' \in Seq(Updates) /\ (link = "none" => feed' = <<>>)
  BY <1>5, EmitTypes DEF Typed, OcTypes, OutsideTypes, Gone
<1>7. /\ server = "alive" /\ session.run = None /\ session.queue # <<>>
      /\ UNCHANGED <<server, link, reportedMark, faultsLeft>> /\ Outside
  BY DEF StartTurn
<1>8. OcTypes'
  <2> HIDE DEF Some, Texts, Results, Sessions, Updates, Sups, TurnStates, PollStates, Events
  <2> QED
    BY <1>3, <1>6, <1>7 DEF Typed, OcTypes, OutsideTypes, HostTypes, Texted, Outside
<1>9. Shape' /\ Gone'
  BY <1>3, <1>4, <1>6, <1>7 DEF Typed, Shape, Gone, Outside
<1> QED
  BY <1>3, <1>4, <1>5, <1>7, <1>8, <1>9 DEF Typed

LEMMA JoinTurnMakes ==
  ASSUME Typed, JoinTurn
  PROVE  /\ Typed'
         /\ server = "alive" /\ session.run # None
         /\ session'.run = session.run /\ session'.asks = session.asks /\ session'.result = session.result
         /\ session'.ends = session.ends
         /\ UNCHANGED <<server, link, feed, reportedMark, faultsLeft>> /\ Outside
<1>1. session \in Sessions /\ session.queue \in Seq(Texts) /\ session.queue # <<>>
  BY DEF Typed, OcTypes, OutsideTypes, Sessions, JoinTurn
<1>2. Tail(session.queue) \in Seq(Texts)
  BY <1>1, HeadTailProperties
<1>3. /\ session'.run = session.run /\ session'.asks = session.asks /\ session'.result = session.result
      /\ session'.ends = session.ends /\ session' \in Sessions
  <2> HIDE DEF Some, Texts, Results
  <2> QED
    BY <1>1, <1>2 DEF JoinTurn, Sessions
<1>7. /\ server = "alive" /\ session.run # None
      /\ UNCHANGED <<server, link, feed, reportedMark, faultsLeft>> /\ Outside
  BY DEF JoinTurn, Running
<1>8. OcTypes'
  <2> HIDE DEF Some, Texts, Results, Sessions, Updates, Sups, TurnStates, PollStates, Events
  <2> QED
    BY <1>3, <1>7 DEF Typed, OcTypes, OutsideTypes, HostTypes, Texted, Outside
<1>9. Shape' /\ Gone'
  BY <1>3, <1>7 DEF Typed, Shape, Gone, Outside
<1> QED
  BY <1>3, <1>7, <1>8, <1>9 DEF Typed

LEMMA ReportMakes ==
  ASSUME Typed, Report
  PROVE  /\ Typed'
         /\ session'.run = session.run /\ session'.asks = session.asks /\ session'.result = session.result
         /\ session'.ends = session.ends /\ session'.queue = session.queue
         /\ UNCHANGED <<server, link, feed, faultsLeft>> /\ Outside
<1>1. session \in Sessions
  BY DEF Typed, OcTypes, OutsideTypes
<1>3. /\ session'.run = session.run /\ session'.asks = session.asks /\ session'.result = session.result
      /\ session'.ends = session.ends /\ session'.queue = session.queue /\ session' \in Sessions
  <2> HIDE DEF Some, Texts, Results
  <2> QED
    BY <1>1 DEF Report, Sessions
<1>7. server = "alive" /\ reportedMark' = TRUE
      /\ UNCHANGED <<server, link, feed, faultsLeft>> /\ Outside
  BY DEF Report, Running
<1>8. OcTypes'
  <2> HIDE DEF Some, Texts, Results, Sessions, Updates, Sups, TurnStates, PollStates, Events
  <2> QED
    BY <1>3, <1>7 DEF Typed, OcTypes, OutsideTypes, HostTypes, Texted, Outside
<1>9. Shape' /\ Gone'
  BY <1>3, <1>7 DEF Typed, Shape, Gone, Outside
<1> QED
  BY <1>3, <1>7, <1>8, <1>9 DEF Typed

LEMMA AskPermissionMakes ==
  ASSUME Typed, AskPermission
  PROVE  /\ Typed'
         /\ session.run # None
         /\ session'.run = session.run /\ session'.result = session.result
         /\ session'.ends = session.ends /\ session'.queue = session.queue
         /\ \E b \in Nat : session'.asks = session.asks \cup {b} /\ Emits(<<"blocked", b>>)
         /\ UNCHANGED <<server, link, reportedMark, faultsLeft>> /\ Outside
<1> DEFINE b == session.asked + 1
<1>1. session \in Sessions /\ session.asks \in Some /\ b \in Nat
  BY DEF Typed, OcTypes, OutsideTypes, Sessions
<1>2. session.asks \cup {b} \in Some
  BY <1>1, SomeTypes
<1>3. /\ session'.run = session.run /\ session'.asks = session.asks \cup {b} /\ session'.result = session.result
      /\ session'.ends = session.ends /\ session'.queue = session.queue /\ session' \in Sessions
  <2> HIDE DEF Some, Texts, Results
  <2> QED
    BY <1>1, <1>2 DEF AskPermission, Sessions
<1>5. Emits(<<"blocked", b>>) /\ <<"blocked", b>> \in Updates
  BY <1>1 DEF AskPermission, Updates
<1>6. feed' \in Seq(Updates) /\ (link = "none" => feed' = <<>>)
  BY <1>5, EmitTypes DEF Typed, OcTypes, OutsideTypes, Gone
<1>7. server = "alive" /\ session.run # None
      /\ UNCHANGED <<server, link, reportedMark, faultsLeft>> /\ Outside
  BY DEF AskPermission, Running
<1>8. OcTypes'
  <2> HIDE DEF Some, Texts, Results, Sessions, Updates, Sups, TurnStates, PollStates, Events
  <2> QED
    BY <1>3, <1>6, <1>7 DEF Typed, OcTypes, OutsideTypes, HostTypes, Texted, Outside
<1>9. Shape' /\ Gone'
  BY <1>3, <1>6, <1>7 DEF Typed, Shape, Gone, Outside
<1> QED
  BY <1>1, <1>3, <1>5, <1>7, <1>8, <1>9 DEF Typed

\* A turn ends on the server, by itself or cut, and says so.
Finishes(end) ==
  /\ session'.run = None /\ session'.queue = session.queue /\ session'.asks = {}
  /\ session'.ends = session.ends + 1
  /\ session'.result \in Results /\ session'.result # NoResult
  /\ session'.result.no = session.ends + 1 /\ session'.result.end = end
  /\ Emits(<<"ended", session'.result>>)

LEMMA FinishMakes ==
  ASSUME Typed, NEW end \in {"succeeded", "transient", "failed", "interrupted"},
         session' = Ended(session, end), Emits(<<"ended", EndOf(session, end)>>)
  PROVE  /\ Finishes(end) /\ session' \in Sessions
         /\ feed' \in Seq(Updates) /\ (link = "none" => feed' = <<>>)
<1>1. session \in Sessions
  BY DEF Typed, OcTypes, OutsideTypes
<1>2. /\ EndOf(session, end) \in Results /\ EndOf(session, end).end = end /\ EndOf(session, end).no = session.ends + 1
      /\ EndOf(session, end) # NoResult
      /\ session'.run = None /\ session'.queue = session.queue /\ session'.result = EndOf(session, end)
      /\ session'.asks = {} /\ session'.ends = session.ends + 1 /\ session' \in Sessions
  BY <1>1, ResultTypes
<1> DEFINE e == <<"ended", EndOf(session, end)>>
<1>3. e \in Updates
  <2> HIDE DEF Results
  <2> QED
    BY <1>2 DEF Updates, Ends
<1>4. feed' \in Seq(Updates) /\ (link = "none" => feed' = <<>>)
  <2> HIDE DEF e
  <2>1. Emits(e)
    BY DEF e
  <2> QED
    BY <1>3, <2>1, EmitTypes DEF Typed, OcTypes, OutsideTypes, Gone
<1> HIDE DEF Results
<1>5. Emits(<<"ended", session'.result>>)
  BY <1>2, Zenon
<1> QED
  BY <1>2, <1>4, <1>5 DEF Finishes

LEMMA EndTurnMakes ==
  ASSUME Typed, EndTurn
  PROVE  /\ Typed' /\ server = "alive" /\ session.run # None /\ session.asks = {}
         /\ \E end \in {"succeeded", "transient", "failed", "interrupted"} : Finishes(end)
         /\ UNCHANGED <<server, link, reportedMark>> /\ Outside
<1> PICK end \in {"succeeded", "transient", "failed", "interrupted"} :
         /\ session' = Ended(session, end) /\ Emits(<<"ended", EndOf(session, end)>>)
         /\ IF end = "succeeded" THEN UNCHANGED faultsLeft ELSE Fault
  BY DEF EndTurn
<1>1. /\ Finishes(end) /\ session' \in Sessions
      /\ feed' \in Seq(Updates) /\ (link = "none" => feed' = <<>>)
  BY FinishMakes
<1>2. session'.run = None /\ session'.asks = {}
  BY <1>1 DEF Finishes
<1>3. faultsLeft' \in Nat
  BY DEF Fault, Typed, OcTypes, OutsideTypes
<1>7. server = "alive" /\ session.run # None /\ session.asks = {}
      /\ UNCHANGED <<server, link, reportedMark>> /\ Outside
  BY DEF EndTurn, Running
<1>8. OcTypes'
  <2> HIDE DEF Some, Texts, Results, Sessions, Updates, Sups, TurnStates, PollStates, Events
  <2> QED
    BY <1>1, <1>3, <1>7 DEF Typed, OcTypes, OutsideTypes, HostTypes, Texted, Outside
<1>9. Shape' /\ Gone'
  BY <1>1, <1>2, <1>7 DEF Typed, Shape, Gone, Outside
<1> QED
  BY <1>1, <1>7, <1>8, <1>9 DEF Typed

\* A server that is lost takes what its session had.
LostSession ==
  /\ session'.run = None /\ session'.queue = <<>> /\ session'.asks = {} /\ session'.result = NoResult
  /\ session'.ends \in Nat /\ session'.ends >= session.ends
  /\ ~ Busy => session'.ends = session.ends

LEMMA LostMakes ==
  ASSUME Typed,
         session' = [session EXCEPT !.run = None, !.queue = <<>>, !.asks = {}, !.result = NoResult,
                       !.ends = IF Busy THEN @ + 1 ELSE @]
  PROVE  LostSession /\ session' \in Sessions
<1>1. session \in Sessions /\ session.ends \in Nat /\ {} \in Some /\ <<>> \in Seq(Texts)
  BY EmptySeq, SomeTypes DEF Typed, OcTypes, OutsideTypes, Sessions
<1> DEFINE n == IF Busy THEN session.ends + 1 ELSE session.ends
<1>2. n \in Nat /\ n >= session.ends /\ (~ Busy => n = session.ends)
  BY <1>1
<1>3. session' = [session EXCEPT !.run = None, !.queue = <<>>, !.asks = {}, !.result = NoResult, !.ends = n]
  OBVIOUS
<1> HIDE DEF Some, Texts, Results, Busy, n
<1>4. /\ session'.run = None /\ session'.queue = <<>> /\ session'.asks = {} /\ session'.result = NoResult
      /\ session'.ends = n /\ session' \in Sessions
  BY <1>1, <1>2, <1>3 DEF Sessions
<1> QED
  BY <1>2, <1>4 DEF LostSession

LEMMA ServerDiesMakes ==
  ASSUME Typed, ServerDies
  PROVE  /\ Typed' /\ server = "alive" /\ server' = "dead" /\ link' # "open" /\ LostSession
         /\ UNCHANGED <<feed, reportedMark>> /\ Outside
<1>1. LostSession /\ session' \in Sessions
  BY LostMakes DEF ServerDies
<1>2. /\ server = "alive" /\ server' = "dead" /\ link' = IF link = "open" THEN "broken" ELSE link
      /\ UNCHANGED <<feed, reportedMark>> /\ Outside
  BY DEF ServerDies
<1>3. faultsLeft' \in Nat /\ link' \in {"none", "open", "broken"} /\ (link' = "none" => link = "none") /\ link' # "open"
  BY DEF ServerDies, Fault, Typed, OcTypes, OutsideTypes
<1>8. OcTypes'
  <2> HIDE DEF Some, Texts, Results, Sessions, Updates, Sups, TurnStates, PollStates, Events
  <2> QED
    BY <1>1, <1>2, <1>3 DEF Typed, OcTypes, OutsideTypes, HostTypes, Texted, Outside
<1>9. Shape' /\ Gone'
  BY <1>1, <1>2, <1>3 DEF Typed, Shape, Gone, Outside, LostSession
<1> QED
  BY <1>1, <1>2, <1>3, <1>8, <1>9 DEF Typed

LEMMA StreamBreaksMakes ==
  ASSUME Typed, StreamBreaks
  PROVE  /\ Typed' /\ link' # "open"
         /\ UNCHANGED <<server, session, feed, reportedMark>> /\ Outside
<1>2. link' = "broken" /\ link = "open" /\ UNCHANGED <<server, session, feed, reportedMark>> /\ Outside
  BY DEF StreamBreaks
<1>3. faultsLeft' \in Nat
  BY DEF StreamBreaks, Fault, Typed, OcTypes, OutsideTypes
<1>8. OcTypes'
  <2> HIDE DEF Some, Texts, Results, Sessions, Updates, Sups, TurnStates, PollStates, Events
  <2> QED
    BY <1>2, <1>3 DEF Typed, OcTypes, OutsideTypes, HostTypes, Texted, Outside
<1>9. Shape' /\ Gone'
  BY <1>2, <1>3 DEF Typed, Shape, Gone, Outside
<1> QED
  BY <1>2, <1>8, <1>9 DEF Typed

LEMMA FailsTypes == ASSUME faultsLeft \in Nat, Fails PROVE faultsLeft' \in Nat
  BY DEF Fails, Fault

(***************************************************************************)
(* The supervising thread.                                                 *)
(***************************************************************************)
Has(at, updates, effects, batch) ==
  sup'.at = at /\ sup'.updates = updates /\ sup'.effects = effects /\ sup'.batch = batch
Rests(at) == Has(at, <<>>, <<>>, <<>>) /\ ~ sup'.active

LEMMA RestingIs ==
  \A at \in SupPlaces :
    /\ Resting(at).at = at /\ Resting(at).updates = <<>> /\ Resting(at).effects = <<>>
    /\ Resting(at).batch = <<>> /\ ~ Resting(at).active /\ Resting(at) \in Sups
  BY DefaultTypes DEF Resting

LEMMA RestsMakes ==
  ASSUME NEW at \in SupPlaces, sup' = Resting(at)
  PROVE  Rests(at) /\ sup' \in Sups
  BY RestingIs DEF Rests, Has

LEMMA AtLoop ==
  ASSUME Typed, sup.at \in {"loop", "lose"}
  PROVE  sup.updates = <<>> /\ sup.effects = <<>> /\ sup.batch = <<>> /\ ~ sup.active
  BY DEF Typed, Shape

LEMMA TakeDeadMakes ==
  ASSUME Typed, TakeDead
  PROVE  /\ Typed' /\ sup.at = "loop" /\ server = "dead"
         /\ server' = "none" /\ link' = "none" /\ feed' = <<>> /\ Rests("lose")
         /\ UNCHANGED <<session, turnState, markVars, pastVars>> /\ SupRest
<1>1. Rests("lose") /\ sup' \in Sups
  BY RestsMakes DEF TakeDead, SupPlaces
<1>2. /\ sup.at = "loop" /\ server = "dead" /\ server' = "none" /\ link' = "none" /\ feed' = <<>>
      /\ UNCHANGED <<session, turnState, markVars, pastVars>> /\ SupRest
  BY DEF TakeDead, At
<1>3. feed' \in Seq(Updates)
  BY <1>2, EmptySeq
<1>8. OcTypes'
  <2> HIDE DEF Some, Texts, Results, Sessions, Updates, Sups, TurnStates, PollStates, Events
  <2> QED
    BY <1>1, <1>2, <1>3 DEF Typed, OcTypes, OutsideTypes, HostTypes, Texted, SupRest, markVars, pastVars
<1>9. Shape' /\ Gone'
  BY <1>1, <1>2 DEF Typed, Shape, Gone, Rests, Has, SupRest
<1> QED
  BY <1>1, <1>2, <1>8, <1>9 DEF Typed

LEMMA UnreachableMakes ==
  ASSUME Typed, Unreachable
  PROVE  /\ Typed' /\ sup.at = "loop" /\ link = "none" /\ server = "alive"
         /\ server' = "none" /\ LostSession /\ Rests("lose")
         /\ UNCHANGED <<link, feed, turnState, markVars, seen, drift>> /\ SupRest
<1>1. Rests("lose") /\ sup' \in Sups
  BY RestsMakes DEF Unreachable, SupPlaces
<1>2. /\ sup.at = "loop" /\ link = "none" /\ server = "alive" /\ server' = "none"
      /\ UNCHANGED <<link, feed, turnState, markVars, seen, drift>> /\ SupRest
  BY DEF Unreachable, At
<1>3. LostSession /\ session' \in Sessions
  BY LostMakes DEF Unreachable
<1>4. faultsLeft' \in Nat
  BY DEF Unreachable, Fault, Typed, OcTypes, OutsideTypes
<1>8. OcTypes'
  <2> HIDE DEF Some, Texts, Results, Sessions, Updates, Sups, TurnStates, PollStates, Events
  <2> QED
    BY <1>1, <1>2, <1>3, <1>4 DEF Typed, OcTypes, OutsideTypes, HostTypes, Texted, SupRest, markVars
<1>9. Shape' /\ Gone'
  BY <1>1, <1>2, <1>3 DEF Typed, Shape, Gone, Rests, Has, SupRest, LostSession
<1> QED
  BY <1>1, <1>2, <1>3, <1>8, <1>9 DEF Typed

LEMMA DefaultIs == Default.blocked = {} /\ ~ Default.inFlight
  BY DEF Default

LEMMA LoseSessionsMakes ==
  ASSUME Typed, LoseSessions
  PROVE  /\ Typed' /\ sup.at = "lose" /\ server = "none"
         /\ turnState'.blocked = {} /\ ~ turnState'.inFlight
         /\ sup'.at = "effects" /\ sup'.updates = <<>> /\ sup'.batch = <<>> /\ ~ sup'.active
         /\ Few(sup'.effects, turnState') /\ ~ Sends(sup'.effects)
         /\ ~ Publishes(sup'.effects) => turnState.blocked = {}
         /\ seen' = IF turnState.inFlight THEN session.ends ELSE seen
         /\ Drifts("crossed", poll.at = "post")
         /\ UNCHANGED <<outsideVars, markVars, faultsLeft>> /\ SupRest
<1> DEFINE acts == IF turnState.blocked # {} THEN Shows(Default) ELSE <<>>
<1>1. /\ sup.at = "lose" /\ turnState' = Default
      /\ sup' = [Resting("effects") EXCEPT !.effects = acts]
      /\ seen' = IF turnState.inFlight THEN session.ends ELSE seen
      /\ Drifts("crossed", poll.at = "post")
      /\ UNCHANGED <<outsideVars, markVars, faultsLeft>> /\ SupRest
  BY DEF LoseSessions, At
<1>2. Few(acts, Default) /\ ~ Sends(acts) /\ (~ Publishes(acts) => turnState.blocked = {})
  <2>1. Few(<<>>, Default) /\ ~ Sends(<<>>)
    BY EmptySeq DEF Few, Sends
  <2> DEFINE shows == Shows(Default)
  <2>2. shows \in Seq(Acts) /\ Len(shows) = 1 /\ shows[1].act = "publish" /\ shows[1].what = Default.blocked
    BY ShowsMade, DefaultTypes
  <2> HIDE DEF shows
  <2>3. Few(shows, Default) /\ ~ Sends(shows) /\ Publishes(shows)
    BY <2>2, FewOne
  <2>4. CASE turnState.blocked # {}
    <3>1. acts = shows
      BY <2>4 DEF shows
    <3> HIDE DEF acts
    <3> QED
      BY <2>3, <3>1
  <2>5. CASE turnState.blocked = {}
    <3>1. acts = <<>>
      BY <2>5
    <3> HIDE DEF acts
    <3> QED
      BY <2>1, <2>5, <3>1
  <2> QED
    BY <2>4, <2>5
<1>3. acts \in Seq(Acts)
  BY <1>2 DEF Few
<1> HIDE DEF acts
<1>4. Resting("effects") \in Sups /\ Resting("effects").at = "effects" /\ Resting("effects").updates = <<>>
      /\ Resting("effects").batch = <<>> /\ ~ Resting("effects").active
  BY RestingIs DEF SupPlaces
<1>5. /\ sup'.at = "effects" /\ sup'.updates = <<>> /\ sup'.batch = <<>> /\ ~ sup'.active /\ sup'.effects = acts
      /\ sup' \in Sups
  <2> HIDE DEF Some, Texts, Results, Updates, TurnStates, Events, Acts
  <2> QED
    BY <1>1, <1>3, <1>4 DEF Sups
<1>6. seen' \in Nat /\ session' = session /\ server' = server /\ link' = link /\ feed' = feed
      /\ UNCHANGED <<sink, reportedMark, blockedMark, faultsLeft, poll, replies>>
  BY <1>1 DEF Typed, OcTypes, OutsideTypes, HostTypes, Sessions, outsideVars, markVars, SupRest
<1>7. turnState' \in TurnStates /\ turnState'.blocked = {} /\ ~ turnState'.inFlight
  BY <1>1, DefaultTypes, DefaultIs, Zenon
<1>8. OcTypes'
  <2> HIDE DEF Some, Texts, Results, Sessions, Updates, Sups, TurnStates, PollStates, Events
  <2> QED
    BY <1>5, <1>6, <1>7 DEF Typed, OcTypes, OutsideTypes, HostTypes, Texted
<1>9. Shape' /\ Gone'
  BY <1>1, <1>5, <1>6 DEF Typed, Shape, Gone
<1>10. Few(sup'.effects, turnState') /\ ~ Sends(sup'.effects) /\ (~ Publishes(sup'.effects) => turnState.blocked = {})
  BY <1>1, <1>2, <1>5, Zenon
<1>11. server = "none"
  BY <1>1 DEF Typed, Shape
<1> QED
  BY <1>1, <1>5, <1>7, <1>8, <1>9, <1>10, <1>11 DEF Typed

LEMMA StartServerMakes ==
  ASSUME Typed, StartServer
  PROVE  /\ Typed' /\ sup.at = "loop" /\ server = "none"
         /\ server' \in {"alive", "none"} /\ sup'.at \in {"loop", "gaveUp"}
         /\ sup'.updates = <<>> /\ sup'.effects = <<>> /\ sup'.batch = <<>> /\ ~ sup'.active
         /\ UNCHANGED <<session, link, feed, turnState, markVars, seen, drift>> /\ SupRest
<1>1. /\ sup.at = "loop" /\ server = "none"
      /\ UNCHANGED <<session, link, feed, turnState, markVars, seen, drift>> /\ SupRest
  BY DEF StartServer, At
<1>2. sup \in Sups /\ sup.starts \in Nat /\ faultsLeft \in Nat
  BY DEF Typed, OcTypes, OutsideTypes, HostTypes, Sups
<1>3. sup.updates = <<>> /\ sup.effects = <<>> /\ sup.batch = <<>> /\ ~ sup.active
  BY <1>1, AtLoop
<1>4. \/ sup' = Resting("loop") \/ sup' = Resting("gaveUp")
      \/ sup' = [sup EXCEPT !.starts = sup.starts + 1]
  BY DEF StartServer
<1>5. /\ sup'.at \in {"loop", "gaveUp"} /\ sup'.updates = <<>> /\ sup'.effects = <<>> /\ sup'.batch = <<>>
      /\ ~ sup'.active /\ sup' \in Sups
  <2>1. CASE sup' = Resting("loop")
    BY <2>1, RestingIs DEF SupPlaces
  <2>2. CASE sup' = Resting("gaveUp")
    BY <2>2, RestingIs DEF SupPlaces
  <2>3. CASE sup' = [sup EXCEPT !.starts = sup.starts + 1]
    <3> HIDE DEF Some, Texts, Results, Updates, TurnStates, Events, Acts
    <3> QED
      BY <1>1, <1>2, <1>3, <2>3 DEF Sups
  <2> QED
    BY <1>4, <2>1, <2>2, <2>3
<1>6. server' \in {"alive", "none"} /\ faultsLeft' \in Nat
  BY <1>1, <1>2 DEF StartServer, Fault
<1>8. OcTypes'
  <2> HIDE DEF Some, Texts, Results, Sessions, Updates, Sups, TurnStates, PollStates, Events
  <2> QED
    BY <1>1, <1>5, <1>6 DEF Typed, OcTypes, OutsideTypes, HostTypes, Texted, SupRest, markVars
<1>9. Shape' /\ Gone'
  BY <1>1, <1>5, <1>6 DEF Typed, Shape, Gone, SupRest
<1> QED
  BY <1>1, <1>5, <1>6, <1>8, <1>9 DEF Typed

LEMMA ConnectMakes ==
  ASSUME Typed, Connect
  PROVE  /\ Typed' /\ sup.at = "loop" /\ link = "none" /\ server = "alive"
         /\ link' = "open" /\ feed' = <<>> /\ Rests("active")
         /\ UNCHANGED <<server, session, turnState, markVars, pastVars>> /\ SupRest
<1>1. /\ sup.at = "loop" /\ link = "none" /\ server = "alive" /\ link' = "open" /\ feed' = <<>>
      /\ sup' = [sup EXCEPT !.at = "active"]
      /\ UNCHANGED <<server, session, turnState, markVars, pastVars>> /\ SupRest
  BY DEF Connect, At, GoTo
<1>2. sup \in Sups
  BY DEF Typed, OcTypes, HostTypes
<1>3. Rests("active") /\ sup' \in Sups
  <2> HIDE DEF Some, Texts, Results, Updates, TurnStates, Events, Acts
  <2> QED
    BY <1>1, <1>2, AtLoop DEF Sups, SupPlaces, Rests, Has
<1>4. feed' \in Seq(Updates)
  BY <1>1, EmptySeq
<1>8. OcTypes'
  <2> HIDE DEF Some, Texts, Results, Sessions, Updates, Sups, TurnStates, PollStates, Events
  <2> QED
    BY <1>1, <1>3, <1>4 DEF Typed, OcTypes, OutsideTypes, HostTypes, Texted, SupRest, markVars, pastVars
<1>9. Shape' /\ Gone'
  BY <1>1, <1>3 DEF Typed, Shape, Gone, SupRest, Rests, Has
<1> QED
  BY <1>1, <1>3, <1>8, <1>9 DEF Typed

LEMMA ReadFailsMakes ==
  ASSUME Typed, ReadFails
  PROVE  /\ Typed' /\ Rests("loop") /\ Drifts("blind", server = "alive")
         /\ sup.updates = <<>> /\ sup.effects = <<>> /\ sup.batch = <<>>
         /\ UNCHANGED <<outsideVars, turnState, markVars, seen>> /\ SupRest
<1>1. Rests("loop") /\ sup' \in Sups
  BY RestsMakes DEF ReadFails, SupPlaces
<1>2. /\ Drifts("blind", server = "alive") /\ Fails /\ sup.at \in {"active", "pending", "messages"}
      /\ UNCHANGED <<outsideVars, turnState, markVars, seen>> /\ SupRest
  BY DEF ReadFails
<1>3. faultsLeft' \in Nat
  BY <1>2, FailsTypes DEF Typed, OcTypes, OutsideTypes
<1>8. OcTypes'
  <2> HIDE DEF Some, Texts, Results, Sessions, Updates, Sups, TurnStates, PollStates, Events
  <2> QED
    BY <1>1, <1>2, <1>3 DEF Typed, OcTypes, OutsideTypes, HostTypes, Texted, SupRest, markVars, outsideVars
<1>9. Shape' /\ Gone'
  BY <1>1, <1>2 DEF Typed, Shape, Gone, SupRest, Rests, Has, outsideVars
<1>10. sup.updates = <<>> /\ sup.effects = <<>> /\ sup.batch = <<>>
  BY <1>2 DEF Typed, Shape
<1> QED
  BY <1>1, <1>2, <1>8, <1>9, <1>10 DEF Typed

LEMMA ReadActiveMakes ==
  ASSUME Typed, ReadActive
  PROVE  /\ Typed' /\ sup.at = "active" /\ server = "alive"
         /\ Has("clone", <<>>, <<>>, <<>>) /\ (sup'.active <=> session.run # None)
         /\ sup.updates = <<>> /\ sup.effects = <<>> /\ sup.batch = <<>>
         /\ UNCHANGED <<outsideVars, turnState, markVars, seen, drift>> /\ SupRest
<1> DEFINE active == session.run # None
<1>1. /\ sup.at = "active" /\ server = "alive" /\ UNCHANGED faultsLeft
      /\ sup' = [sup EXCEPT !.at = "clone", !.active = active]
      /\ UNCHANGED <<outsideVars, turnState, markVars, seen, drift>> /\ SupRest
  BY DEF ReadActive, At, Answers
<1>2. sup \in Sups /\ active \in BOOLEAN
  BY DEF Typed, OcTypes, HostTypes
<1>3. sup.updates = <<>> /\ sup.effects = <<>> /\ sup.batch = <<>>
  BY <1>1 DEF Typed, Shape
<1>4. Has("clone", <<>>, <<>>, <<>>) /\ sup' \in Sups /\ sup'.active = active
  <2> HIDE DEF Some, Texts, Results, Updates, TurnStates, Events, Acts, active
  <2> QED
    BY <1>1, <1>2, <1>3 DEF Sups, SupPlaces, Has
<1>8. OcTypes'
  <2> HIDE DEF Some, Texts, Results, Sessions, Updates, Sups, TurnStates, PollStates, Events
  <2> QED
    BY <1>1, <1>4 DEF Typed, OcTypes, OutsideTypes, HostTypes, Texted, SupRest, markVars, outsideVars
<1>9. Shape' /\ Gone'
  BY <1>1, <1>4 DEF Typed, Shape, Gone, SupRest, Has, outsideVars
<1> QED
  BY <1>1, <1>3, <1>4, <1>8, <1>9 DEF Typed

LEMMA CloneTurnMakes ==
  ASSUME Typed, CloneTurn
  PROVE  /\ Typed' /\ sup.at = "clone"
         /\ Has("pending", <<>>, <<>>, <<>>) /\ sup'.known = turnState /\ (sup'.active <=> sup.active)
         /\ sup.updates = <<>> /\ sup.effects = <<>> /\ sup.batch = <<>>
         /\ UNCHANGED <<outsideVars, turnState, markVars, pastVars>> /\ SupRest
<1>1. /\ sup.at = "clone" /\ sup' = [sup EXCEPT !.at = "pending", !.known = turnState]
      /\ UNCHANGED <<outsideVars, turnState, markVars, pastVars>> /\ SupRest
  BY DEF CloneTurn, At
<1>2. sup \in Sups /\ turnState \in TurnStates
  BY DEF Typed, OcTypes, HostTypes
<1>3. sup.updates = <<>> /\ sup.effects = <<>> /\ sup.batch = <<>>
  BY <1>1 DEF Typed, Shape
<1>4. Has("pending", <<>>, <<>>, <<>>) /\ sup' \in Sups /\ sup'.active = sup.active /\ sup'.known = turnState
  <2> HIDE DEF Some, Texts, Results, Updates, TurnStates, Events, Acts
  <2> QED
    BY <1>1, <1>2, <1>3 DEF Sups, SupPlaces, Has
<1>8. OcTypes'
  <2> HIDE DEF Some, Texts, Results, Sessions, Updates, Sups, TurnStates, PollStates, Events
  <2> QED
    BY <1>1, <1>4 DEF Typed, OcTypes, OutsideTypes, HostTypes, Texted, SupRest, markVars, outsideVars, pastVars
<1>9. Shape' /\ Gone'
  BY <1>1, <1>4 DEF Typed, Shape, Gone, SupRest, Has, outsideVars
<1> QED
  BY <1>1, <1>3, <1>4, <1>8, <1>9 DEF Typed

LEMMA RepairMakes ==
  ASSUME NEW known \in TurnStates, NEW active \in BOOLEAN, NEW pending \in Some,
         NEW result \in Results \cup {NoResult}, Repair(known, active, pending, result)
  PROVE  /\ sup' \in Sups /\ sup'.updates = Reconcile(known, active, pending, result)
         /\ sup'.effects = <<>> /\ sup'.batch = <<>> /\ ~ sup'.active
         /\ sup'.at = IF sup'.updates = <<>> THEN "loop" ELSE "apply"
<1> DEFINE u == Reconcile(known, active, pending, result)
           at == IF u = <<>> THEN "loop" ELSE "apply"
<1>1. u \in Seq(Updates)
  BY ReconcileMakes
<1>2. sup' = [Resting(at) EXCEPT !.updates = u] /\ at \in SupPlaces
  BY DEF Repair, SupPlaces
<1> HIDE DEF u
<1>3. at = IF u = <<>> THEN "loop" ELSE "apply"
  OBVIOUS
<1> HIDE DEF at
<1>4. Resting(at) \in Sups /\ Resting(at).at = at /\ Resting(at).effects = <<>>
      /\ Resting(at).batch = <<>> /\ ~ Resting(at).active
  BY <1>2, RestingIs
<1>5. /\ sup'.at = at /\ sup'.updates = u /\ sup'.batch = <<>> /\ ~ sup'.active /\ sup'.effects = <<>>
      /\ sup' \in Sups
  <2> HIDE DEF Some, Texts, Results, Updates, TurnStates, Events, Acts
  <2> QED
    BY <1>1, <1>2, <1>4 DEF Sups
<1> QED
  BY <1>3, <1>5 DEF u

LEMMA ReadPendingMakes ==
  ASSUME Typed, ReadPending
  PROVE  /\ Typed' /\ sup.at = "pending" /\ server = "alive"
         /\ sup.updates = <<>> /\ sup.effects = <<>> /\ sup.batch = <<>>
         /\ UNCHANGED <<outsideVars, turnState, markVars, seen, drift>> /\ SupRest
         /\ sup'.effects = <<>> /\ sup'.batch = <<>> /\ ~ sup'.active
         /\ \/ /\ sup.known.inFlight /\ ~ sup.active
               /\ sup'.at = "messages" /\ sup'.updates = <<>> /\ sup'.pending = session.asks
               /\ sup'.known = sup.known
            \/ /\ ~ sup.known.inFlight \/ sup.active
               /\ sup'.updates = Reconcile(sup.known, sup.active, session.asks, NoResult)
               /\ sup'.at = IF sup'.updates = <<>> THEN "loop" ELSE "apply"
<1>1. /\ sup.at = "pending" /\ server = "alive" /\ UNCHANGED faultsLeft
      /\ UNCHANGED <<outsideVars, turnState, markVars, seen, drift>> /\ SupRest
  BY DEF ReadPending, At, Answers
<1>2. sup \in Sups /\ sup.known \in TurnStates /\ sup.active \in BOOLEAN /\ session.asks \in Some
  BY DEF Typed, OcTypes, HostTypes, OutsideTypes, Sessions, Sups
<1>3. sup.updates = <<>> /\ sup.effects = <<>> /\ sup.batch = <<>> /\ sup.known.blocked = turnState.blocked
  BY <1>1 DEF Typed, Shape
<1>4. CASE sup.known.inFlight /\ ~ sup.active
  <2>1. sup' = [sup EXCEPT !.at = "messages", !.pending = session.asks]
    BY <1>4 DEF ReadPending
  <2>2. /\ Has("messages", <<>>, <<>>, <<>>) /\ sup' \in Sups /\ sup'.active = sup.active
        /\ sup'.pending = session.asks /\ sup'.known = sup.known
    <3> HIDE DEF Some, Texts, Results, Updates, TurnStates, Events, Acts
    <3> QED
      BY <1>2, <1>3, <2>1 DEF Sups, SupPlaces, Has
  <2>8. OcTypes'
    <3> HIDE DEF Some, Texts, Results, Sessions, Updates, Sups, TurnStates, PollStates, Events
    <3> QED
      BY <1>1, <2>2 DEF Typed, OcTypes, OutsideTypes, HostTypes, Texted, SupRest, markVars, outsideVars
  <2>9. Shape' /\ Gone'
    BY <1>1, <1>3, <1>4, <2>2 DEF Typed, Shape, Gone, SupRest, Has, outsideVars
  <2> QED
    BY <1>1, <1>3, <1>4, <2>2, <2>8, <2>9 DEF Typed, Has
<1>5. CASE ~ sup.known.inFlight \/ sup.active
  <2>1. Repair(sup.known, sup.active, session.asks, NoResult)
    BY <1>5 DEF ReadPending
  <2>2. /\ sup' \in Sups /\ sup'.updates = Reconcile(sup.known, sup.active, session.asks, NoResult)
        /\ sup'.effects = <<>> /\ sup'.batch = <<>> /\ ~ sup'.active
        /\ sup'.at = IF sup'.updates = <<>> THEN "loop" ELSE "apply"
    BY <1>2, <2>1, RepairMakes
  <2>8. OcTypes'
    <3> HIDE DEF Some, Texts, Results, Sessions, Updates, Sups, TurnStates, PollStates, Events
    <3> QED
      BY <1>1, <2>2 DEF Typed, OcTypes, OutsideTypes, HostTypes, Texted, SupRest, markVars, outsideVars
  <2>9. Shape' /\ Gone'
    <3>1. /\ sup'.effects = <<>> /\ sup'.batch = <<>> /\ ~ sup'.active
          /\ sup'.at = IF sup'.updates = <<>> THEN "loop" ELSE "apply"
      BY <2>2
    <3> QED
      BY <1>1, <3>1 DEF Typed, Shape, Gone, SupRest, outsideVars
  <2> QED
    BY <1>1, <1>3, <1>5, <2>2, <2>8, <2>9 DEF Typed
<1> QED
  BY <1>2, <1>4, <1>5

LEMMA ReadMessagesMakes ==
  ASSUME Typed, ReadMessages
  PROVE  /\ Typed' /\ sup.at = "messages" /\ server = "alive"
         /\ sup.updates = <<>> /\ sup.effects = <<>> /\ sup.batch = <<>>
         /\ UNCHANGED <<outsideVars, turnState, markVars, seen, drift>> /\ SupRest
         /\ sup'.effects = <<>> /\ sup'.batch = <<>> /\ ~ sup'.active
         /\ sup'.updates = Reconcile(sup.known, sup.active, sup.pending, session.result)
         /\ sup'.at = IF sup'.updates = <<>> THEN "loop" ELSE "apply"
<1>1. /\ sup.at = "messages" /\ server = "alive" /\ UNCHANGED faultsLeft
      /\ UNCHANGED <<outsideVars, turnState, markVars, seen, drift>> /\ SupRest
      /\ Repair(sup.known, sup.active, sup.pending, session.result)
  BY DEF ReadMessages, At, Answers
<1>2. sup \in Sups /\ sup.known \in TurnStates /\ sup.active \in BOOLEAN /\ sup.pending \in Some
      /\ session.result \in Results \cup {NoResult}
  BY DEF Typed, OcTypes, HostTypes, OutsideTypes, Sessions, Sups
<1>3. sup.updates = <<>> /\ sup.effects = <<>> /\ sup.batch = <<>>
  BY <1>1 DEF Typed, Shape
<1>4. /\ sup' \in Sups /\ sup'.updates = Reconcile(sup.known, sup.active, sup.pending, session.result)
      /\ sup'.effects = <<>> /\ sup'.batch = <<>> /\ ~ sup'.active
      /\ sup'.at = IF sup'.updates = <<>> THEN "loop" ELSE "apply"
  BY <1>1, <1>2, RepairMakes
<1>8. OcTypes'
  <2> HIDE DEF Some, Texts, Results, Sessions, Updates, Sups, TurnStates, PollStates, Events
  <2> QED
    BY <1>1, <1>4 DEF Typed, OcTypes, OutsideTypes, HostTypes, Texted, SupRest, markVars, outsideVars
<1>9. Shape' /\ Gone'
  <2>1. /\ sup'.effects = <<>> /\ sup'.batch = <<>> /\ ~ sup'.active
        /\ sup'.at = IF sup'.updates = <<>> THEN "loop" ELSE "apply"
    BY <1>4
  <2> QED
    BY <1>1, <2>1 DEF Typed, Shape, Gone, SupRest, outsideVars
<1> QED
  BY <1>1, <1>3, <1>4, <1>8, <1>9 DEF Typed

(***************************************************************************)
(* The last marker of a list of events.                                    *)
(***************************************************************************)
LEMMA LeastOf ==
  ASSUME NEW T, T \subseteq Nat, T # {}
  PROVE  \E n \in T : \A m \in T : n <= m
<1> DEFINE R == OpToRel(<, Nat)
<1>1. IsWellFoundedOn(R, Nat)
  BY NatLessThanWellFounded
<1>2. \A x, y \in Nat : <<y, x>> \in R <=> y < x
  BY DEF OpToRel
<1> HIDE DEF R
<1>3. PICK x \in T : \A y \in T : ~ (<<y, x>> \in R)
  BY <1>1, WFMin
<1>4. ASSUME NEW y \in T PROVE x <= y
  <2>1. x \in Nat /\ y \in Nat
    OBVIOUS
  <2>2. ~ (y < x)
    BY <1>2, <1>3, <2>1, Zenon
  <2> QED
    BY <2>1, <2>2
<1> QED
  BY <1>4

LEMMA LastMark ==
  ASSUME NEW batch \in Seq(Events), NEW i \in 1..Len(batch), IsMark(batch[i]),
         \A j \in 1..Len(batch) : IsMark(batch[j]) => j <= i
  PROVE  HasMark(batch) /\ \A mark : MarkAfter(mark, batch) = batch[i][2]
<1> DEFINE marks == {j \in DOMAIN batch : IsMark(batch[j])}
           k == CHOOSE k \in marks : \A j \in marks : j <= k
<1>1. DOMAIN batch = 1..Len(batch) /\ Len(batch) \in Nat
  OBVIOUS
<1>2. i \in marks /\ \A j \in marks : j <= i
  BY <1>1
<1>3. k \in marks /\ \A j \in marks : j <= k
  <2> HIDE DEF marks
  <2> QED
    BY <1>2
<1>4. k = i
  <2>1. k <= i /\ i <= k /\ k \in 1..Len(batch)
    BY <1>1, <1>2, <1>3
  <2> HIDE DEF k, marks
  <2> QED
    BY <2>1
<1>5. HasMark(batch)
  BY <1>1 DEF HasMark
<1>6. ASSUME NEW mark PROVE MarkAfter(mark, batch) = batch[k][2]
  BY <1>5 DEF MarkAfter
<1> HIDE DEF k
<1> QED
  BY <1>4, <1>5, <1>6

LEMMA HasLast ==
  ASSUME NEW batch \in Seq(Events), HasMark(batch)
  PROVE  \E i \in 1..Len(batch) : IsMark(batch[i]) /\ \A j \in 1..Len(batch) : IsMark(batch[j]) => j <= i
<1> DEFINE n == Len(batch)
           T == {m \in Nat : \E i \in 1..n : IsMark(batch[i]) /\ m = n - i}
<1>1. n \in Nat /\ DOMAIN batch = 1..n
  OBVIOUS
<1>2. PICK i \in 1..n : IsMark(batch[i])
  BY <1>1 DEF HasMark
<1> HIDE DEF n
<1>3. n - i \in T
  BY <1>1, <1>2
<1>4. T \subseteq Nat
  OBVIOUS
<1>5. PICK m \in T : \A k \in T : m <= k
  <2> HIDE DEF T
  <2> QED
    BY <1>3, <1>4, LeastOf
<1>6. PICK l \in 1..n : IsMark(batch[l]) /\ m = n - l
  OBVIOUS
<1>7. ASSUME NEW j \in 1..n, IsMark(batch[j]) PROVE j <= l
  <2>1. n - j \in T
    BY <1>1, <1>7
  <2> HIDE DEF T
  <2>2. m <= n - j
    BY <1>5, <2>1
  <2>3. m = n - l
    BY <1>6
  <2> QED
    BY <1>1, <2>2, <2>3
<1> QED
  BY <1>6, <1>7 DEF n

LEMMA NoMark == \A batch, mark : ~ HasMark(batch) => MarkAfter(mark, batch) = mark
  BY DEF MarkAfter

LEMMA EmptyMarks == ~ HasMark(<<>>) /\ \A mark : MarkAfter(mark, <<>>) = mark
  BY DEF HasMark, MarkAfter

LEMMA MarkTypes ==
  ASSUME NEW batch \in Seq(Events), NEW mark \in Some
  PROVE  MarkAfter(mark, batch) \in Some /\ (HasMark(batch) => \A m : MarkAfter(m, batch) = MarkAfter(mark, batch))
<1>1. CASE ~ HasMark(batch)
  BY <1>1, NoMark
<1>2. CASE HasMark(batch)
  <2>1. PICK i \in 1..Len(batch) : IsMark(batch[i]) /\ \A j \in 1..Len(batch) : IsMark(batch[j]) => j <= i
    BY <1>2, HasLast
  <2>2. batch[i] \in Events /\ batch[i][1] = "marks"
    BY <2>1 DEF IsMark
  <2>3. batch[i][2] \in Some
    BY <2>2 DEF Events
  <2>4. \A m : MarkAfter(m, batch) = batch[i][2]
    BY <2>1, LastMark
  <2> QED
    BY <2>3, <2>4
<1> QED
  BY <1>1, <1>2

LEMMA MarkAppend ==
  ASSUME NEW batch \in Seq(Events), NEW e \in Events
  PROVE  /\ HasMark(Append(batch, e)) <=> HasMark(batch) \/ IsMark(e)
         /\ \A mark : MarkAfter(mark, Append(batch, e)) = IF IsMark(e) THEN e[2] ELSE MarkAfter(mark, batch)
<1> DEFINE b == Append(batch, e)
           n == Len(batch)
<1>1. /\ b \in Seq(Events) /\ Len(b) = n + 1 /\ n \in Nat /\ b[n + 1] = e /\ \A i \in 1..n : b[i] = batch[i]
      /\ DOMAIN b = 1..(n + 1) /\ DOMAIN batch = 1..n
  BY AppendProperties, LenProperties
<1> HIDE DEF b, n
<1>2. \A i \in 1..(n + 1) : i \in 1..n \/ i = n + 1
  BY <1>1
<1>21. \A i \in 1..n : i \in 1..(n + 1)
  BY <1>1
<1>22. n + 1 \in 1..(n + 1)
  BY <1>1
<1>3. HasMark(b) <=> HasMark(batch) \/ IsMark(e)
  BY <1>1, <1>2, <1>21, <1>22 DEF HasMark
<1>4. CASE IsMark(e)
  <2>1. \A j \in 1..Len(b) : IsMark(b[j]) => j <= n + 1
    BY <1>1
  <2>2. \A mark : MarkAfter(mark, b) = b[n + 1][2]
    BY <1>1, <1>22, <1>4, <2>1, LastMark
  <2> QED
    BY <1>1, <1>3, <1>4, <2>2 DEF b
<1>5. CASE ~ IsMark(e) /\ HasMark(batch)
  <2>1. PICK i \in 1..n : IsMark(batch[i]) /\ \A j \in 1..n : IsMark(batch[j]) => j <= i
    BY <1>5, HasLast DEF n
  <2>2. i \in 1..Len(b) /\ IsMark(b[i]) /\ b[i] = batch[i]
    BY <1>1, <1>21, <2>1
  <2>3. ASSUME NEW j \in 1..Len(b), IsMark(b[j]) PROVE j <= i
    BY <1>1, <1>2, <1>5, <2>1, <2>3
  <2>4. \A mark : MarkAfter(mark, b) = b[i][2]
    BY <1>1, <2>2, <2>3, LastMark
  <2>5. \A mark : MarkAfter(mark, batch) = batch[i][2]
    BY <2>1, LastMark DEF n
  <2> QED
    BY <1>3, <1>5, <2>2, <2>4, <2>5 DEF b
<1>6. CASE ~ IsMark(e) /\ ~ HasMark(batch)
  BY <1>3, <1>6, NoMark DEF b
<1> QED
  BY <1>4, <1>5, <1>6

LEMMA RouteMakes ==
  ASSUME Typed, Route
  PROVE  /\ Typed' /\ sup.at = "loop" /\ server # "dead" /\ link # "none" /\ feed # <<>>
         /\ feed' = Tail(feed) /\ sup'.updates = <<Head(feed)>> /\ Head(feed) \in Updates
         /\ sup'.at = "apply" /\ sup'.effects = <<>> /\ sup'.batch = <<>> /\ ~ sup'.active
         /\ sup.updates = <<>> /\ sup.effects = <<>> /\ sup.batch = <<>>
         /\ UNCHANGED <<server, session, link, turnState, markVars, pastVars>> /\ SupRest
<1> DEFINE u == <<Head(feed)>>
<1>1. /\ sup.at = "loop" /\ server # "dead" /\ link # "none" /\ feed # <<>> /\ feed' = Tail(feed)
      /\ sup' = [Resting("apply") EXCEPT !.updates = u]
      /\ UNCHANGED <<server, session, link, turnState, markVars, pastVars>> /\ SupRest
  BY DEF Route, At
<1>2. feed \in Seq(Updates) /\ Head(feed) \in Updates /\ Tail(feed) \in Seq(Updates)
  <2>1. feed \in Seq(Updates)
    BY DEF Typed, OcTypes, OutsideTypes
  <2> QED
    BY <1>1, <2>1, HeadTailProperties
<1>3. u \in Seq(Updates) /\ u # <<>>
  BY <1>2
<1> HIDE DEF u
<1>4. Resting("apply") \in Sups /\ Resting("apply").at = "apply" /\ Resting("apply").effects = <<>>
      /\ Resting("apply").batch = <<>> /\ ~ Resting("apply").active
  BY RestingIs DEF SupPlaces
<1>5. /\ sup'.at = "apply" /\ sup'.updates = u /\ sup'.batch = <<>> /\ ~ sup'.active /\ sup'.effects = <<>>
      /\ sup' \in Sups
  <2> HIDE DEF Some, Texts, Results, Updates, TurnStates, Events, Acts
  <2> QED
    BY <1>1, <1>3, <1>4 DEF Sups
<1>6. sup.updates = <<>> /\ sup.effects = <<>> /\ sup.batch = <<>>
  BY <1>1, AtLoop
<1>8. OcTypes'
  <2> HIDE DEF Some, Texts, Results, Sessions, Updates, Sups, TurnStates, PollStates, Events
  <2> QED
    BY <1>1, <1>2, <1>5 DEF Typed, OcTypes, OutsideTypes, HostTypes, Texted, SupRest, markVars, pastVars
<1>9. Shape' /\ Gone'
  BY <1>1, <1>3, <1>5 DEF Typed, Shape, Gone, SupRest
<1> QED
  BY <1>1, <1>2, <1>5, <1>6, <1>8, <1>9 DEF Typed, u

LEMMA DropMakes ==
  ASSUME Typed, Drop
  PROVE  /\ Typed' /\ link = "broken" /\ link' = "none"
         /\ UNCHANGED <<server, session, feed, turnState, markVars, sup, pastVars>> /\ SupRest
<1>1. /\ link = "broken" /\ link' = "none" /\ feed = <<>>
      /\ UNCHANGED <<server, session, feed, turnState, markVars, sup, pastVars>> /\ SupRest
  BY DEF Drop
<1>8. OcTypes'
  <2> HIDE DEF Some, Texts, Results, Sessions, Updates, Sups, TurnStates, PollStates, Events
  <2> QED
    BY <1>1 DEF Typed, OcTypes, OutsideTypes, HostTypes, Texted, SupRest, markVars, pastVars
<1>9. Shape' /\ Gone'
  BY <1>1 DEF Typed, Shape, Gone, SupRest
<1> QED
  BY <1>1, <1>8, <1>9 DEF Typed

LEMMA ApplyMakes ==
  ASSUME Typed, Apply
  PROVE  LET u == Head(sup.updates)
         IN  /\ Typed' /\ sup.at = "apply" /\ sup.updates # <<>> /\ u \in Updates
             /\ sup.effects = <<>> /\ sup.batch = <<>>
             /\ sup'.at = "effects" /\ sup'.updates = Tail(sup.updates) /\ sup'.batch = <<>> /\ ~ sup'.active
             /\ Few(sup'.effects, turnState')
             /\ ~ Publishes(sup'.effects) => turnState'.blocked = turnState.blocked
             /\ u = Started => turnState'.inFlight /\ ~ Sends(sup'.effects)
             /\ u \in Ends => (turnState'.inFlight <=> Sends(sup'.effects))
             /\ u \notin Flights => turnState'.inFlight = turnState.inFlight /\ ~ Sends(sup'.effects)
             /\ \A a \in Nat : a \in turnState'.blocked <=> IF u \in About(a) THEN u = <<"blocked", a>>
                                                                            ELSE a \in turnState.blocked
             /\ IF u[1] = "ended"
                THEN /\ seen' = IF u[2].no > seen THEN u[2].no ELSE seen
                     /\ Drifts("behind", u[2].no # session.ends \/ Busy \/ poll.at = "post")
                ELSE UNCHANGED <<seen, drift>>
             /\ UNCHANGED <<outsideVars, markVars, faultsLeft>> /\ SupRest
<1> DEFINE u == Head(sup.updates)
           q == Updated(turnState, u, reportedMark)
<1>1. /\ sup.at = "apply" /\ turnState' = q.t
      /\ sup' = [sup EXCEPT !.at = "effects", !.updates = Tail(sup.updates), !.effects = q.acts]
      /\ IF u[1] = "ended"
         THEN /\ seen' = IF u[2].no > seen THEN u[2].no ELSE seen
              /\ Drifts("behind", u[2].no # session.ends \/ Busy \/ poll.at = "post")
         ELSE UNCHANGED <<seen, drift>>
      /\ UNCHANGED <<outsideVars, markVars, faultsLeft>> /\ SupRest
  BY DEF Apply, At
<1>2. /\ sup \in Sups /\ sup.updates \in Seq(Updates) /\ sup.updates # <<>> /\ sup.effects = <<>> /\ sup.batch = <<>>
      /\ ~ sup.active /\ turnState \in TurnStates /\ reportedMark \in BOOLEAN /\ seen \in Nat
  BY <1>1 DEF Typed, OcTypes, HostTypes, Sups, Shape
<1>3. u \in Updates /\ Tail(sup.updates) \in Seq(Updates)
  BY <1>2, HeadTailProperties
<1>31. u[1] = "ended" => u[2].no \in Nat
  BY <1>3 DEF Updates, Ends, Started, Results
<1> HIDE DEF u
<1>4. /\ q.t \in TurnStates /\ Few(q.acts, q.t)
      /\ ~ Publishes(q.acts) => q.t.blocked = turnState.blocked
      /\ u = Started => q.t.inFlight /\ ~ Sends(q.acts)
      /\ u \in Ends => (q.t.inFlight <=> Sends(q.acts))
      /\ u \notin Flights => q.t.inFlight = turnState.inFlight /\ ~ Sends(q.acts)
      /\ \A a \in Nat : a \in q.t.blocked <=> IF u \in About(a) THEN u = <<"blocked", a>> ELSE a \in turnState.blocked
  BY <1>2, <1>3, UpdateMakes
<1> HIDE DEF q
<1>5. q.acts \in Seq(Acts)
  BY <1>4 DEF Few
<1>6. /\ sup'.at = "effects" /\ sup'.updates = Tail(sup.updates) /\ sup'.batch = <<>> /\ ~ sup'.active
      /\ sup'.effects = q.acts /\ sup' \in Sups
  <2> HIDE DEF Some, Texts, Results, Updates, TurnStates, Events, Acts
  <2> QED
    BY <1>1, <1>2, <1>3, <1>5 DEF Sups, SupPlaces
<1>7. seen' \in Nat
  BY <1>1, <1>2, <1>31
<1>8. OcTypes'
  <2> HIDE DEF Some, Texts, Results, Sessions, Updates, Sups, TurnStates, PollStates, Events
  <2> QED
    BY <1>1, <1>4, <1>6, <1>7 DEF Typed, OcTypes, OutsideTypes, HostTypes, Texted, SupRest, markVars, outsideVars
<1>9. Shape' /\ Gone'
  BY <1>1, <1>6 DEF Typed, Shape, Gone, SupRest, outsideVars
<1>10. /\ Few(sup'.effects, turnState')
       /\ ~ Publishes(sup'.effects) => turnState'.blocked = turnState.blocked
       /\ u = Started => turnState'.inFlight /\ ~ Sends(sup'.effects)
       /\ u \in Ends => (turnState'.inFlight <=> Sends(sup'.effects))
       /\ u \notin Flights => turnState'.inFlight = turnState.inFlight /\ ~ Sends(sup'.effects)
       /\ \A a \in Nat : a \in turnState'.blocked <=> IF u \in About(a) THEN u = <<"blocked", a>>
                                                                      ELSE a \in turnState.blocked
  BY <1>1, <1>4, <1>6, Zenon
<1> QED
  BY <1>1, <1>2, <1>3, <1>6, <1>8, <1>9, <1>10 DEF Typed, u

LEMMA NoActs == \A t : Few(<<>>, t) /\ ~ Sends(<<>>) /\ ~ Publishes(<<>>)
  BY EmptySeq DEF Few, Sends, Publishes

\* What is left of the effects when the first is done.
LEMMA TailOfActs ==
  ASSUME NEW acts \in Seq(Acts), acts # <<>>
  PROVE  /\ Tail(acts) \in Seq(Acts) /\ Head(acts) \in Acts
         /\ Sends(acts) <=> Head(acts).act = "send" \/ Sends(Tail(acts))
         /\ Publishes(acts) <=> Head(acts).act = "publish" \/ Publishes(Tail(acts))
         /\ \A t : Few(acts, t) => /\ Few(Tail(acts), t) /\ ~ Publishes(Tail(acts))
                                   /\ Head(acts).act = "publish" => Head(acts).what = t.blocked
                                   /\ Head(acts).act = "send" => Tail(acts) = <<>>
<1> DEFINE r == Tail(acts)
           n == Len(r)
<1>1. /\ r \in Seq(Acts) /\ Head(acts) \in Acts /\ acts[1] = Head(acts) /\ n \in Nat /\ Len(acts) = n + 1
      /\ \A i \in 1..n : r[i] = acts[i + 1]
  BY HeadTailProperties
<1>2. r = <<>> <=> n = 0
  BY <1>1, EmptySeq
<1> HIDE DEF r, n
<1>3. \A i \in 1..n : i + 1 \in 1..(n + 1) /\ i + 1 # 1
  BY <1>1
<1>4. \A i \in 1..(n + 1) : i = 1 \/ \E j \in 1..n : i = j + 1
  <2> TAKE i \in 1..(n + 1)
  <2>1. i = 1 \/ (i - 1 \in 1..n /\ i = (i - 1) + 1)
    BY <1>1
  <2> QED
    BY <2>1
<1>5. 1 \in 1..(n + 1)
  BY <1>1
<1>51. ASSUME NEW x
       PROVE (\E i \in 1..(n + 1) : acts[i].act = x) <=> Head(acts).act = x \/ \E j \in 1..n : r[j].act = x
  <2>1. ASSUME NEW i \in 1..(n + 1), acts[i].act = x PROVE Head(acts).act = x \/ \E j \in 1..n : r[j].act = x
    <3>1. CASE i = 1
      BY <1>1, <2>1, <3>1
    <3>2. ASSUME NEW j \in 1..n, i = j + 1 PROVE r[j].act = x
      BY <1>1, <2>1, <3>2
    <3> QED
      BY <1>4, <3>1, <3>2
  <2>2. ASSUME NEW j \in 1..n, r[j].act = x PROVE \E i \in 1..(n + 1) : acts[i].act = x
    BY <1>1, <1>3, <2>2
  <2>3. Head(acts).act = x => \E i \in 1..(n + 1) : acts[i].act = x
    BY <1>1, <1>5
  <2> QED
    BY <2>1, <2>2, <2>3
<1>52. Len(acts) = n + 1 /\ Len(r) = n
  BY <1>1 DEF n
<1>6. Sends(acts) <=> Head(acts).act = "send" \/ Sends(r)
  BY <1>51, <1>52 DEF Sends
<1>7. Publishes(acts) <=> Head(acts).act = "publish" \/ Publishes(r)
  BY <1>51, <1>52 DEF Publishes
<1>8. ASSUME NEW t, Few(acts, t)
      PROVE /\ Few(r, t) /\ ~ Publishes(r)
            /\ Head(acts).act = "publish" => Head(acts).what = t.blocked
            /\ Head(acts).act = "send" => r = <<>>
  <2>1. \A i \in 1..n : r[i].act # "publish"
    BY <1>1, <1>3, <1>8 DEF Few
  <2>2. ASSUME NEW i \in 1..n, r[i].act = "send" PROVE i = n
    <3>1. i + 1 = n + 1
      BY <1>1, <1>3, <1>8, <2>2 DEF Few
    <3> QED
      BY <1>1, <3>1
  <2>3. Few(r, t) /\ ~ Publishes(r)
    BY <1>1, <2>1, <2>2 DEF Few, Publishes, n
  <2>4. Head(acts).act = "publish" => Head(acts).what = t.blocked
    BY <1>1, <1>5, <1>8 DEF Few
  <2>5. Head(acts).act = "send" => n = 0
    BY <1>1, <1>5, <1>8 DEF Few
  <2> QED
    BY <1>2, <2>3, <2>4, <2>5
<1> QED
  BY <1>1, <1>6, <1>7, <1>8 DEF r

LEMMA EffectMakes ==
  ASSUME Typed, NEW act, NextEffect(act), EffectDone
  PROVE  /\ sup.at = "effects" /\ sup.effects \in Seq(Acts) /\ sup.effects # <<>> /\ Head(sup.effects) \in Acts
         /\ Head(sup.effects).act = act /\ sup'.effects = Tail(sup.effects) /\ sup' \in Sups
         /\ sup'.at = "effects" /\ sup'.updates = sup.updates /\ sup'.batch = sup.batch /\ sup'.active = sup.active
<1>1. sup.at = "effects" /\ sup.effects # <<>> /\ Head(sup.effects).act = act
      /\ sup' = [sup EXCEPT !.effects = Tail(sup.effects)]
  BY DEF NextEffect, EffectDone, At
<1>2. sup \in Sups /\ sup.effects \in Seq(Acts)
  BY DEF Typed, OcTypes, HostTypes, Sups
<1>3. Tail(sup.effects) \in Seq(Acts) /\ Head(sup.effects) \in Acts
  BY <1>1, <1>2, TailOfActs
<1> HIDE DEF Some, Texts, Results, Updates, TurnStates, Events, Acts
<1> QED
  BY <1>1, <1>2, <1>3 DEF Sups

LEMMA RunPublishMakes ==
  ASSUME Typed, RunPublish
  PROVE  /\ Typed' /\ sup.at = "effects" /\ sup.effects \in Seq(Acts) /\ sup.effects # <<>>
         /\ Head(sup.effects).act = "publish" /\ Head(sup.effects).what \in Some
         /\ sup'.effects = Tail(sup.effects)
         /\ sup'.at = "effects" /\ sup'.updates = sup.updates /\ sup'.batch = sup.batch /\ sup'.active = sup.active
         /\ sink' = Append(sink, <<"marks", Head(sup.effects).what>>)
         /\ UNCHANGED <<outsideVars, turnState, reportedMark, blockedMark, pastVars>> /\ SupRest
<1>1. /\ sink' = Append(sink, <<"marks", Head(sup.effects).what>>)
      /\ NextEffect("publish") /\ EffectDone
      /\ UNCHANGED <<outsideVars, turnState, reportedMark, blockedMark, pastVars>> /\ SupRest
  BY DEF RunPublish
<1>2. /\ sup.at = "effects" /\ sup.effects \in Seq(Acts) /\ sup.effects # <<>> /\ Head(sup.effects) \in Acts
      /\ Head(sup.effects).act = "publish" /\ sup'.effects = Tail(sup.effects) /\ sup' \in Sups
      /\ sup'.at = "effects" /\ sup'.updates = sup.updates /\ sup'.batch = sup.batch /\ sup'.active = sup.active
  BY <1>1, EffectMakes
<1>3. Head(sup.effects).what \in Some
  BY <1>2 DEF Acts
<1> DEFINE e == <<"marks", Head(sup.effects).what>>
<1>4. e \in Events /\ sink \in Seq(Events)
  BY <1>3 DEF Events, Typed, OcTypes, HostTypes
<1>5. sink' \in Seq(Events)
  <2>1. sink' = Append(sink, e)
    BY <1>1
  <2> HIDE DEF e, Events
  <2> QED
    BY <1>4, <2>1, AppendProperties
<1>8. OcTypes'
  <2> HIDE DEF Some, Texts, Results, Sessions, Updates, Sups, TurnStates, PollStates, Events
  <2> QED
    BY <1>1, <1>2, <1>5 DEF Typed, OcTypes, OutsideTypes, HostTypes, Texted, SupRest, outsideVars, pastVars
<1>9. Shape' /\ Gone'
  BY <1>1, <1>2 DEF Typed, Shape, Gone, SupRest, outsideVars
<1> QED
  BY <1>1, <1>2, <1>3, <1>8, <1>9 DEF Typed

LEMMA RunClearMakes ==
  ASSUME Typed, RunClear
  PROVE  /\ Typed' /\ sup.at = "effects" /\ sup.effects \in Seq(Acts) /\ sup.effects # <<>>
         /\ Head(sup.effects).act = "clear" /\ sup'.effects = Tail(sup.effects)
         /\ sup'.at = "effects" /\ sup'.updates = sup.updates /\ sup'.batch = sup.batch /\ sup'.active = sup.active
         /\ UNCHANGED <<outsideVars, turnState, sink, blockedMark, pastVars>> /\ SupRest
<1>1. /\ reportedMark' = FALSE /\ NextEffect("clear") /\ EffectDone
      /\ UNCHANGED <<outsideVars, turnState, sink, blockedMark, pastVars>> /\ SupRest
  BY DEF RunClear
<1>2. /\ sup.at = "effects" /\ sup.effects \in Seq(Acts) /\ sup.effects # <<>> /\ Head(sup.effects) \in Acts
      /\ Head(sup.effects).act = "clear" /\ sup'.effects = Tail(sup.effects) /\ sup' \in Sups
      /\ sup'.at = "effects" /\ sup'.updates = sup.updates /\ sup'.batch = sup.batch /\ sup'.active = sup.active
  BY <1>1, EffectMakes
<1>8. OcTypes'
  <2> HIDE DEF Some, Texts, Results, Sessions, Updates, Sups, TurnStates, PollStates, Events
  <2> QED
    BY <1>1, <1>2 DEF Typed, OcTypes, OutsideTypes, HostTypes, Texted, SupRest, outsideVars, pastVars
<1>9. Shape' /\ Gone'
  BY <1>1, <1>2 DEF Typed, Shape, Gone, SupRest, outsideVars
<1> QED
  BY <1>1, <1>2, <1>8, <1>9 DEF Typed

\* A post that was taken, or one that failed.
Posted ==
  /\ server = "alive" /\ UNCHANGED <<turnState, drift>>
  /\ session'.run = session.run /\ session'.asks = session.asks /\ session'.ends = session.ends
  /\ session'.result = NoResult /\ session'.queue # <<>>
NotPosted(others) ==
  /\ UNCHANGED session /\ turnState'.blocked = turnState.blocked /\ ~ turnState'.inFlight
  /\ Drifts("failed", others \/ Busy \/ seen # session.ends)

LEMMA PostMakes ==
  ASSUME Typed, NEW text \in Texts, NEW others, PostText(text, others)
  PROVE  /\ Posted \/ NotPosted(others)
         /\ session' \in Sessions /\ turnState' \in TurnStates /\ faultsLeft' \in Nat
<1>1. session \in Sessions /\ session.queue \in Seq(Texts) /\ turnState \in TurnStates /\ faultsLeft \in Nat
  BY DEF Typed, OcTypes, OutsideTypes, HostTypes, Sessions
<1>2. CASE /\ Answers /\ session' = [session EXCEPT !.queue = Append(@, text), !.result = NoResult]
           /\ UNCHANGED <<turnState, drift>>
  <2> DEFINE q == Append(session.queue, text)
  <2>1. q \in Seq(Texts) /\ Len(q) = Len(session.queue) + 1 /\ Len(session.queue) \in Nat
    BY <1>1, AppendProperties
  <2>2. q # <<>>
    <3>1. Len(q) # 0 /\ Len(<<>>) = 0
      BY <2>1
    <3> HIDE DEF q
    <3> QED
      BY <3>1
  <2>3. session' = [session EXCEPT !.queue = q, !.result = NoResult]
    BY <1>2
  <2> HIDE DEF q
  <2>4. /\ session'.run = session.run /\ session'.asks = session.asks /\ session'.ends = session.ends
        /\ session'.result = NoResult /\ session'.queue = q /\ session' \in Sessions
    <3> HIDE DEF Some, Texts, Results
    <3> QED
      BY <1>1, <2>1, <2>3 DEF Sessions
  <2>5. server = "alive" /\ faultsLeft' = faultsLeft
    BY <1>2 DEF Answers
  <2> QED
    BY <1>1, <1>2, <2>2, <2>4, <2>5 DEF Posted
<1>3. CASE /\ Fails /\ turnState' = [turnState EXCEPT !.inFlight = FALSE]
           /\ Drifts("failed", others \/ Busy \/ seen # session.ends)
           /\ UNCHANGED session
  <2>1. turnState' \in TurnStates /\ turnState'.blocked = turnState.blocked /\ ~ turnState'.inFlight
    <3> HIDE DEF Some, Texts
    <3> QED
      BY <1>1, <1>3 DEF TurnStates
  <2>2. faultsLeft' \in Nat
    BY <1>1, <1>3, FailsTypes
  <2> QED
    BY <1>1, <1>3, <2>1, <2>2 DEF NotPosted
<1> QED
  BY <1>2, <1>3 DEF PostText

LEMMA RunSendMakes ==
  ASSUME Typed, RunSend
  PROVE  /\ Typed' /\ sup.at = "effects" /\ sup.effects \in Seq(Acts) /\ sup.effects # <<>>
         /\ Head(sup.effects).act = "send" /\ sup'.effects = Tail(sup.effects)
         /\ sup'.at = "effects" /\ sup'.updates = sup.updates /\ sup'.batch = sup.batch /\ sup'.active = sup.active
         /\ Posted \/ NotPosted(poll.at = "post")
         /\ UNCHANGED <<server, link, feed, markVars, seen>> /\ SupRest
<1>1. /\ NextEffect("send") /\ EffectDone /\ PostText(Head(sup.effects).what, poll.at = "post")
      /\ UNCHANGED <<server, link, feed, markVars, seen>> /\ SupRest
  BY DEF RunSend
<1>2. /\ sup.at = "effects" /\ sup.effects \in Seq(Acts) /\ sup.effects # <<>> /\ Head(sup.effects) \in Acts
      /\ Head(sup.effects).act = "send" /\ sup'.effects = Tail(sup.effects) /\ sup' \in Sups
      /\ sup'.at = "effects" /\ sup'.updates = sup.updates /\ sup'.batch = sup.batch /\ sup'.active = sup.active
  BY <1>1, EffectMakes
<1>3. Head(sup.effects).what \in Texts
  BY <1>2 DEF Acts
<1> DEFINE busy == poll.at = "post"
           text == Head(sup.effects).what
<1>4. /\ Posted \/ NotPosted(busy)
      /\ session' \in Sessions /\ turnState' \in TurnStates /\ faultsLeft' \in Nat
  <2>1. PostText(text, busy) /\ text \in Texts
    BY <1>1, <1>3
  <2> HIDE DEF busy, text
  <2> QED
    BY <2>1, PostMakes
<1>5. session'.run = session.run /\ session'.asks = session.asks /\ (server # "alive" => session' = session)
  BY <1>4 DEF Posted, NotPosted
<1>8. OcTypes'
  <2> HIDE DEF Some, Texts, Results, Sessions, Updates, Sups, TurnStates, PollStates, Events
  <2> QED
    BY <1>1, <1>2, <1>4 DEF Typed, OcTypes, OutsideTypes, HostTypes, Texted, SupRest, markVars
<1>9. Shape' /\ Gone'
  BY <1>1, <1>2, <1>5 DEF Typed, Shape, Gone, SupRest
<1> QED
  BY <1>1, <1>2, <1>4, <1>8, <1>9 DEF Typed

LEMMA TakeEventsMakes ==
  ASSUME Typed, TakeEvents
  PROVE  /\ Typed' /\ sup.at = "effects" /\ sup.effects = <<>> /\ sup.batch = <<>>
         /\ sup'.at \in {"loop", "apply", "batch"} /\ sup'.effects = <<>> /\ sup'.updates = sup.updates
         /\ sup'.batch = sink /\ ~ sup'.active /\ sink' = <<>>
         /\ Drifts("overtaken", sink # <<>> /\ HasMark(poll.batch))
         /\ UNCHANGED <<outsideVars, turnState, reportedMark, blockedMark, seen, faultsLeft>> /\ SupRest
<1>1. /\ sup.at = "effects" /\ sup.effects = <<>> /\ sink' = <<>>
      /\ sup' = IF sink = <<>> THEN [sup EXCEPT !.at = AfterRun]
                               ELSE [sup EXCEPT !.at = "batch", !.batch = sink]
      /\ Drifts("overtaken", sink # <<>> /\ HasMark(poll.batch))
      /\ UNCHANGED <<outsideVars, turnState, reportedMark, blockedMark, seen, faultsLeft>> /\ SupRest
  BY DEF TakeEvents, At
<1>2. sup \in Sups /\ sup.batch = <<>> /\ ~ sup.active /\ sink \in Seq(Events)
  BY <1>1 DEF Typed, OcTypes, HostTypes, Shape
<1>3. AfterRun \in {"loop", "apply"} /\ (AfterRun = "apply" <=> sup.updates # <<>>)
  BY DEF AfterRun
<1>6. /\ sup'.at \in {"loop", "apply", "batch"} /\ sup'.effects = <<>> /\ sup'.updates = sup.updates
      /\ sup'.batch = sink /\ ~ sup'.active /\ sup' \in Sups
      /\ sup'.at = "apply" => sup'.updates # <<>>
      /\ sup'.updates # <<>> => sup'.at \in {"apply", "batch"}
      /\ sup'.batch # <<>> => sup'.at = "batch"
  <2>1. CASE sink = <<>>
    <3>1. sup' = [sup EXCEPT !.at = AfterRun]
      BY <1>1, <2>1
    <3>2. /\ sup'.at = AfterRun /\ sup'.effects = <<>> /\ sup'.updates = sup.updates /\ sup'.batch = <<>>
          /\ sup'.active = sup.active /\ sup' \in Sups
      <4> HIDE DEF Some, Texts, Results, Updates, TurnStates, Events, Acts, AfterRun
      <4> QED
        BY <1>1, <1>2, <1>3, <3>1 DEF Sups, SupPlaces
    <3> QED
      BY <1>2, <1>3, <2>1, <3>2
  <2>2. CASE sink # <<>>
    <3>1. sup' = [sup EXCEPT !.at = "batch", !.batch = sink]
      BY <1>1, <2>2
    <3>2. /\ sup'.at = "batch" /\ sup'.effects = <<>> /\ sup'.updates = sup.updates /\ sup'.batch = sink
          /\ sup'.active = sup.active /\ sup' \in Sups
      <4> HIDE DEF Some, Texts, Results, Updates, TurnStates, Events, Acts
      <4> QED
        BY <1>1, <1>2, <3>1 DEF Sups, SupPlaces
    <3> QED
      BY <1>2, <3>2
  <2> QED
    BY <2>1, <2>2
<1>7. sink' \in Seq(Events)
  BY <1>1, EmptySeq
<1>8. OcTypes'
  <2> HIDE DEF Some, Texts, Results, Sessions, Updates, Sups, TurnStates, PollStates, Events
  <2> QED
    BY <1>1, <1>6, <1>7 DEF Typed, OcTypes, OutsideTypes, HostTypes, Texted, SupRest, outsideVars
<1>9. Shape' /\ Gone'
  BY <1>1, <1>6 DEF Typed, Shape, Gone, SupRest, outsideVars
<1> QED
  BY <1>1, <1>2, <1>6, <1>8, <1>9 DEF Typed

LEMMA ApplyEventsMakes ==
  ASSUME Typed, ApplyEvents
  PROVE  /\ Typed' /\ sup.at = "batch" /\ sup.effects = <<>>
         /\ blockedMark' = MarkAfter(blockedMark, sup.batch)
         /\ sup'.at \in {"loop", "apply"} /\ sup'.effects = <<>> /\ sup'.updates = sup.updates
         /\ sup'.batch = <<>> /\ ~ sup'.active
         /\ UNCHANGED <<outsideVars, turnState, sink, reportedMark, pastVars>> /\ SupRest
<1>1. /\ sup.at = "batch" /\ blockedMark' = MarkAfter(blockedMark, sup.batch)
      /\ sup' = [sup EXCEPT !.at = AfterRun, !.batch = <<>>]
      /\ UNCHANGED <<outsideVars, turnState, sink, reportedMark, pastVars>> /\ SupRest
  BY DEF ApplyEvents, At
<1>2. sup \in Sups /\ sup.effects = <<>> /\ ~ sup.active /\ sup.batch \in Seq(Events) /\ blockedMark \in Some
  BY <1>1 DEF Typed, OcTypes, HostTypes, Shape, Sups
<1>3. AfterRun \in {"loop", "apply"} /\ (AfterRun = "apply" <=> sup.updates # <<>>) /\ <<>> \in Seq(Events)
  BY EmptySeq DEF AfterRun
<1>6. /\ sup'.at = AfterRun /\ sup'.effects = <<>> /\ sup'.updates = sup.updates
      /\ sup'.batch = <<>> /\ sup'.active = sup.active /\ sup' \in Sups
  <2> HIDE DEF Some, Texts, Results, Updates, TurnStates, Events, Acts, AfterRun
  <2> QED
    BY <1>1, <1>2, <1>3 DEF Sups, SupPlaces
<1>7. blockedMark' \in Some
  BY <1>1, <1>2, MarkTypes
<1>8. OcTypes'
  <2> HIDE DEF Some, Texts, Results, Sessions, Updates, Sups, TurnStates, PollStates, Events
  <2> QED
    BY <1>1, <1>6, <1>7 DEF Typed, OcTypes, OutsideTypes, HostTypes, Texted, SupRest, outsideVars, pastVars
<1>9. Shape' /\ Gone'
  <2> HIDE DEF AfterRun
  <2> QED
    BY <1>1, <1>2, <1>3, <1>6 DEF Typed, Shape, Gone, SupRest, outsideVars
<1> HIDE DEF AfterRun
<1> QED
  BY <1>1, <1>2, <1>3, <1>6, <1>8, <1>9 DEF Typed

(***************************************************************************)
(* The polling thread.                                                     *)
(***************************************************************************)
Same == UNCHANGED <<server, link, reportedMark, sup, seen>>

\* A step that only moves on.
LEMMA PollMoves ==
  ASSUME Typed, Same, UNCHANGED <<session, feed, faultsLeft>>,
         poll' \in PollStates, replies' \in SUBSET Replies,
         poll'.at \in {"prompt", "request", "interrupt", "drain", "batch", "keep", "post"} => poll'.text \in Texts,
         poll'.batch # <<>> => poll'.at = "batch",
         turnState' \in TurnStates, turnState'.blocked = turnState.blocked,
         sink' \in Seq(Events), blockedMark' \in Some
  PROVE  Typed'
<1>8. OcTypes'
  <2> HIDE DEF Some, Texts, Results, Sessions, Updates, Sups, TurnStates, PollStates, Events
  <2> QED
    BY DEF Typed, OcTypes, OutsideTypes, HostTypes, Texted, Same
<1>9. Shape' /\ Gone'
  BY DEF Typed, Shape, Gone, Same
<1> QED
  BY <1>8, <1>9 DEF Typed

LEMMA IdleIs == Idle.at = "idle" /\ Idle.batch = <<>> /\ Idle \in PollStates
  BY DefaultTypes DEF Idle

LEMMA PollTyped ==
  Typed => /\ poll \in PollStates /\ poll.batch \in Seq(Events) /\ replies \subseteq Replies
           /\ poll.text \in Texts \cup {None} /\ turnState \in TurnStates /\ turnState.inFlight \in BOOLEAN
           /\ turnState.blocked \in Some /\ sink \in Seq(Events) /\ blockedMark \in Some
           /\ (poll.at # "batch" => poll.batch = <<>>)
           /\ (poll.at \in {"prompt", "request", "interrupt", "drain", "batch", "keep", "post"} => poll.text \in Texts)
  BY DEF Typed, OcTypes, HostTypes, PollStates, TurnStates, Texted, Shape

LEMMA TakePromptMakes ==
  ASSUME Typed, TakePrompt
  PROVE  /\ Typed' /\ poll.at = "idle" /\ poll'.at # "post" /\ poll.batch = <<>> /\ poll'.batch = <<>>
         /\ UNCHANGED <<session, feed, turnState, sink, blockedMark, drift, faultsLeft>> /\ Same
<1>1. /\ poll.at = "idle" /\ UNCHANGED <<session, feed, turnState, sink, blockedMark, drift, faultsLeft>> /\ Same
  BY DEF TakePrompt, PollRest, Polls, Same
<1>2. PICK text \in replies :
        /\ replies' = replies \ {text}
        /\ \/ poll' = [Idle EXCEPT !.at = "prompt", !.text = text]
           \/ poll' = [Idle EXCEPT !.at = "request", !.text = text, !.was = turnState.inFlight]
  BY DEF TakePrompt
<1>3. text \in Texts /\ replies' \subseteq Replies
  BY <1>2, PollTyped DEF Texts
<1>4. poll' \in PollStates /\ poll'.text = text /\ poll'.batch = <<>> /\ poll'.at \in {"prompt", "request"}
  <2>1. text \in Texts \cup {None}
    BY <1>3
  <2> HIDE DEF Texts
  <2> QED
    BY <1>2, <2>1, IdleIs, PollTyped DEF PollStates, PollPlaces
<1>5. Typed'
  <2> HIDE DEF Texts, PollStates, TurnStates, Some, Events
  <2> QED
    BY <1>1, <1>3, <1>4, PollMoves, PollTyped
<1> QED
  BY <1>1, <1>4, <1>5, PollTyped

LEMMA RequestInterruptMakes ==
  ASSUME Typed, RequestInterrupt
  PROVE  /\ Typed' /\ poll.at = "request" /\ poll'.at # "post" /\ poll.batch = <<>> /\ poll'.batch = <<>>
         /\ turnState'.inFlight = turnState.inFlight /\ turnState'.blocked = turnState.blocked
         /\ UNCHANGED <<session, feed, sink, blockedMark, replies, drift, faultsLeft>> /\ Same
<1>1. /\ poll.at = "request" /\ turnState' = [turnState EXCEPT !.requested = TRUE]
      /\ poll' = [poll EXCEPT !.at = "interrupt"]
      /\ UNCHANGED <<session, feed, sink, blockedMark, replies, drift, faultsLeft>> /\ Same
  BY DEF RequestInterrupt, PollRest, Polls, Same
<1>2. turnState' \in TurnStates /\ turnState'.inFlight = turnState.inFlight /\ turnState'.blocked = turnState.blocked
  <2> HIDE DEF Texts, Some
  <2> QED
    BY <1>1, PollTyped DEF TurnStates
<1>3. poll' \in PollStates /\ poll'.at = "interrupt" /\ poll'.text = poll.text /\ poll'.batch = poll.batch
  <2> HIDE DEF Texts, Events
  <2> QED
    BY <1>1, PollTyped DEF PollStates, PollPlaces
<1>4. poll.batch = <<>> /\ poll.text \in Texts
  BY <1>1, PollTyped
<1>5. Typed'
  <2> HIDE DEF Texts, PollStates, TurnStates, Some, Events
  <2> QED
    BY <1>1, <1>2, <1>3, <1>4, PollMoves, PollTyped
<1> QED
  BY <1>1, <1>2, <1>3, <1>4, <1>5

LEMMA PostInterruptMakes ==
  ASSUME Typed, PostInterrupt
  PROVE  /\ Typed' /\ poll.at = "interrupt" /\ poll'.at # "post" /\ poll.batch = <<>> /\ poll'.batch = <<>>
         /\ \E e \in Events : ~ IsMark(e) /\ sink' = Append(sink, e)
         /\ \/ UNCHANGED <<session, feed>>
            \/ server = "alive" /\ session.run # None /\ Finishes("interrupted")
         /\ UNCHANGED <<turnState, blockedMark, replies, drift>> /\ Same
<1>1. /\ poll.at = "interrupt" /\ poll' = [poll EXCEPT !.at = "drain"]
      /\ UNCHANGED <<turnState, blockedMark, replies, drift>> /\ Same
  BY DEF PostInterrupt, PollRest, Polls, Same
<1>2. /\ faultsLeft' \in Nat
      /\ \E x \in {"cut", "idle", None} : sink' = Append(sink, <<"interrupted", x>>)
      /\ \/ UNCHANGED <<session, feed>>
         \/ /\ server = "alive" /\ session.run # None
            /\ session' = Ended(session, "interrupted") /\ Emits(<<"ended", EndOf(session, "interrupted")>>)
  BY FailsTypes DEF PostInterrupt, Answers, Typed, OcTypes, OutsideTypes
<1>3. poll' \in PollStates /\ poll'.at = "drain" /\ poll'.text = poll.text /\ poll'.batch = poll.batch
  <2> HIDE DEF Texts, Events
  <2> QED
    BY <1>1, PollTyped DEF PollStates, PollPlaces
<1>4. poll.batch = <<>> /\ poll.text \in Texts
  BY <1>1, PollTyped
<1>5. \E e \in Events : ~ IsMark(e) /\ sink' = Append(sink, e)
  <2> PICK x \in {"cut", "idle", None} : sink' = Append(sink, <<"interrupted", x>>)
    BY <1>2
  <2>1. <<"interrupted", x>> \in Events /\ ~ IsMark(<<"interrupted", x>>)
    BY DEF Events, IsMark
  <2> QED
    BY <2>1
<1>6. sink' \in Seq(Events)
  <2> PICK e \in Events : sink' = Append(sink, e)
    BY <1>5
  <2> HIDE DEF Events
  <2> QED
    BY PollTyped, AppendProperties
<1>7. /\ session' \in Sessions /\ feed' \in Seq(Updates) /\ (link = "none" => feed' = <<>>)
      /\ session'.run = None => session'.asks = {}
      /\ \/ UNCHANGED <<session, feed>>
         \/ server = "alive" /\ session.run # None /\ Finishes("interrupted")
  <2>1. CASE UNCHANGED <<session, feed>>
    BY <2>1 DEF Typed, OcTypes, OutsideTypes, Gone
  <2>2. CASE /\ server = "alive" /\ session.run # None
             /\ session' = Ended(session, "interrupted") /\ Emits(<<"ended", EndOf(session, "interrupted")>>)
    <3>1. /\ Finishes("interrupted") /\ session' \in Sessions
          /\ feed' \in Seq(Updates) /\ (link = "none" => feed' = <<>>)
      BY <2>2, FinishMakes
    <3>2. session'.asks = {}
      BY <3>1 DEF Finishes
    <3> QED
      BY <2>2, <3>1, <3>2
  <2> QED
    BY <1>2, <2>1, <2>2
<1>8. OcTypes'
  <2> HIDE DEF Some, Texts, Results, Sessions, Updates, Sups, TurnStates, PollStates, Events
  <2> QED
    BY <1>1, <1>2, <1>3, <1>4, <1>6, <1>7 DEF Typed, OcTypes, OutsideTypes, HostTypes, Texted, Same
<1>9. Shape' /\ Gone'
  <2>1. server # "alive" => session' = session
    BY <1>7 DEF Finishes, Typed, Gone
  <2> QED
    BY <1>1, <1>3, <1>4, <1>7, <2>1 DEF Typed, Shape, Gone, Same
<1> QED
  BY <1>1, <1>3, <1>4, <1>5, <1>7, <1>8, <1>9 DEF Typed

LEMMA DrainSinkMakes ==
  ASSUME Typed, DrainSink
  PROVE  /\ Typed' /\ poll.at = "drain" /\ poll'.at = "batch" /\ poll.batch = <<>> /\ poll'.batch = sink
         /\ sink' = <<>>
         /\ UNCHANGED <<session, feed, turnState, blockedMark, replies, drift, faultsLeft>> /\ Same
<1>1. /\ poll.at = "drain" /\ poll' = [poll EXCEPT !.at = "batch", !.batch = sink] /\ sink' = <<>>
      /\ UNCHANGED <<session, feed, turnState, blockedMark, replies, drift, faultsLeft>> /\ Same
  BY DEF DrainSink, PollRest, Polls, Same
<1>3. poll' \in PollStates /\ poll'.at = "batch" /\ poll'.text = poll.text /\ poll'.batch = sink
  <2> HIDE DEF Texts, Events
  <2> QED
    BY <1>1, PollTyped DEF PollStates, PollPlaces
<1>4. poll.batch = <<>> /\ poll.text \in Texts /\ sink' \in Seq(Events)
  BY <1>1, PollTyped, EmptySeq
<1>5. Typed'
  <2> HIDE DEF Texts, PollStates, TurnStates, Some, Events
  <2> QED
    BY <1>1, <1>3, <1>4, PollMoves, PollTyped
<1> QED
  BY <1>1, <1>3, <1>4, <1>5

LEMMA ApplyOwnMakes ==
  ASSUME Typed, ApplyOwn
  PROVE  /\ Typed' /\ poll.at = "batch" /\ poll'.at # "post" /\ poll'.batch = <<>>
         /\ blockedMark' = MarkAfter(blockedMark, poll.batch)
         /\ UNCHANGED <<session, feed, turnState, sink, replies, drift, faultsLeft>> /\ Same
<1>1. /\ poll.at = "batch" /\ blockedMark' = MarkAfter(blockedMark, poll.batch)
      /\ poll' = [poll EXCEPT !.at = "keep", !.outcome = OutcomeIn(poll.batch), !.batch = <<>>]
      /\ UNCHANGED <<session, feed, turnState, sink, replies, drift, faultsLeft>> /\ Same
  BY DEF ApplyOwn, PollRest, Polls, Same
<1>2. OutcomeIn(poll.batch) \in {"cut", "idle", None}
  <2> DEFINE batch == poll.batch
             told == {i \in DOMAIN batch : batch[i][1] = "interrupted"}
  <2>1. batch \in Seq(Events)
    BY PollTyped
  <2>2. CASE told = {}
    BY <2>2 DEF OutcomeIn
  <2>3. CASE told # {}
    <3>1. DOMAIN batch = 1..Len(batch) /\ Len(batch) \in Nat
      BY <2>1
    <3>2. told \subseteq Nat
      BY <3>1
    <3> DEFINE k == CHOOSE i \in told : \A j \in told : i <= j
    <3>3. k \in told
      <4>1. \E i \in told : \A j \in told : i <= j
        <5> HIDE DEF told
        <5> QED
          BY <2>3, <3>2, LeastOf
      <4> HIDE DEF told
      <4> QED
        BY <4>1
    <3>4. OutcomeIn(poll.batch) = batch[k][2]
      BY <2>3 DEF OutcomeIn
    <3> HIDE DEF k
    <3>5. batch[k] \in Events /\ batch[k][1] = "interrupted"
      <4> HIDE DEF Events
      <4> QED
        BY <2>1, <3>1, <3>3
    <3> HIDE DEF batch
    <3>6. batch[k][2] \in {"cut", "idle", None}
      BY <3>5 DEF Events
    <3> QED
      BY <3>4, <3>6
  <2> QED
    BY <2>2, <2>3
<1>3. poll' \in PollStates /\ poll'.at = "keep" /\ poll'.text = poll.text /\ poll'.batch = <<>>
  <2>1. <<>> \in Seq(Events)
    BY EmptySeq
  <2> HIDE DEF Texts, Events
  <2> QED
    BY <1>1, <1>2, <2>1, PollTyped DEF PollStates, PollPlaces
<1>4. poll.text \in Texts /\ blockedMark' \in Some
  BY <1>1, PollTyped, MarkTypes
<1>5. Typed'
  <2> HIDE DEF Texts, PollStates, TurnStates, Some, Events
  <2> QED
    BY <1>1, <1>3, <1>4, PollMoves, PollTyped
<1> QED
  BY <1>1, <1>3, <1>4, <1>5

LEMMA KeepRequestMakes ==
  ASSUME Typed, KeepRequest
  PROVE  /\ Typed' /\ poll.at = "keep" /\ poll'.at # "post" /\ poll.batch = <<>> /\ poll'.batch = <<>>
         /\ turnState'.inFlight = turnState.inFlight /\ turnState'.blocked = turnState.blocked
         /\ UNCHANGED <<session, feed, sink, blockedMark, replies, drift, faultsLeft>> /\ Same
<1>1. /\ poll.at = "keep" /\ poll' = [Idle EXCEPT !.at = "prompt", !.text = poll.text]
      /\ turnState' = turnState \/ turnState' = [turnState EXCEPT !.requested = FALSE]
      /\ UNCHANGED <<session, feed, sink, blockedMark, replies, drift, faultsLeft>> /\ Same
  BY DEF KeepRequest, PollRest, Polls, Same
<1>2. turnState' \in TurnStates /\ turnState'.inFlight = turnState.inFlight /\ turnState'.blocked = turnState.blocked
  <2> HIDE DEF Texts, Some
  <2> QED
    BY <1>1, PollTyped DEF TurnStates
<1>3. poll' \in PollStates /\ poll'.at = "prompt" /\ poll'.text = poll.text /\ poll'.batch = <<>>
  <2> HIDE DEF Texts, Events
  <2> QED
    BY <1>1, IdleIs, PollTyped DEF PollStates, PollPlaces
<1>4. poll.batch = <<>> /\ poll.text \in Texts
  BY <1>1, PollTyped
<1>5. Typed'
  <2> HIDE DEF Texts, PollStates, TurnStates, Some, Events
  <2> QED
    BY <1>1, <1>2, <1>3, <1>4, PollMoves, PollTyped
<1> QED
  BY <1>1, <1>2, <1>3, <1>4, <1>5

LEMMA BeginPromptMakes ==
  ASSUME Typed, BeginPrompt
  PROVE  /\ Typed' /\ poll.at = "prompt" /\ poll'.at = "post" /\ poll.batch = <<>> /\ poll'.batch = <<>>
         /\ turnState'.inFlight /\ turnState'.blocked = turnState.blocked
         /\ UNCHANGED <<session, feed, sink, blockedMark, replies, drift, faultsLeft>> /\ Same
<1>1. /\ poll.at = "prompt" /\ poll' = [poll EXCEPT !.at = "post"]
      /\ turnState' = [turnState EXCEPT !.inFlight = TRUE, !.reminded = FALSE, !.retries = 0, !.prompt = poll.text]
      /\ UNCHANGED <<session, feed, sink, blockedMark, replies, drift, faultsLeft>> /\ Same
  BY DEF BeginPrompt, PollRest, Polls, Same, Prompted
<1>2. turnState' \in TurnStates /\ turnState'.inFlight /\ turnState'.blocked = turnState.blocked
  <2> HIDE DEF Texts, Some
  <2> QED
    BY <1>1, PollTyped DEF TurnStates
<1>3. poll' \in PollStates /\ poll'.at = "post" /\ poll'.text = poll.text /\ poll'.batch = poll.batch
  <2> HIDE DEF Texts, Events
  <2> QED
    BY <1>1, PollTyped DEF PollStates, PollPlaces
<1>4. poll.batch = <<>> /\ poll.text \in Texts
  BY <1>1, PollTyped
<1>5. Typed'
  <2> HIDE DEF Texts, PollStates, TurnStates, Some, Events
  <2> QED
    BY <1>1, <1>2, <1>3, <1>4, PollMoves, PollTyped
<1> QED
  BY <1>1, <1>2, <1>3, <1>4, <1>5

LEMMA PostPromptMakes ==
  ASSUME Typed, PostPrompt
  PROVE  /\ Typed' /\ poll.at = "post" /\ poll'.at = "idle" /\ poll.batch = <<>> /\ poll'.batch = <<>>
         /\ Posted \/ NotPosted(Sends(sup.effects))
         /\ UNCHANGED <<feed, sink, blockedMark, replies>> /\ Same
<1> DEFINE others == Sends(sup.effects)
<1>1. /\ poll.at = "post" /\ poll' = Idle /\ PostText(poll.text, \E i \in DOMAIN sup.effects : sup.effects[i].act = "send")
      /\ UNCHANGED <<feed, sink, blockedMark, replies>> /\ Same
  BY DEF PostPrompt, PollRest, Polls, Same
<1>2. PostText(poll.text, others)
  <2>1. sup.effects \in Seq(Acts)
    BY DEF Typed, OcTypes, HostTypes, Sups
  <2>2. DOMAIN sup.effects = 1..Len(sup.effects)
    BY <2>1
  <2>3. others <=> \E i \in DOMAIN sup.effects : sup.effects[i].act = "send"
    BY <2>2 DEF Sends
  <2> HIDE DEF others
  <2> QED
    BY <1>1, <2>3 DEF PostText, Drifts
<1>3. poll.batch = <<>> /\ poll.text \in Texts
  BY <1>1, PollTyped
<1> HIDE DEF others
<1>4. /\ Posted \/ NotPosted(others)
      /\ session' \in Sessions /\ turnState' \in TurnStates /\ faultsLeft' \in Nat
  BY <1>2, <1>3, PostMakes
<1>5. /\ session'.run = session.run /\ session'.asks = session.asks /\ (server # "alive" => session' = session)
      /\ turnState'.blocked = turnState.blocked
  BY <1>4 DEF Posted, NotPosted
<1>6. poll' \in PollStates /\ poll'.batch = <<>> /\ poll'.at = "idle"
  BY <1>1, IdleIs
<1>8. OcTypes'
  <2> HIDE DEF Some, Texts, Results, Sessions, Updates, Sups, TurnStates, PollStates, Events
  <2> QED
    BY <1>1, <1>4, <1>6 DEF Typed, OcTypes, OutsideTypes, HostTypes, Texted, Same
<1>9. Shape' /\ Gone'
  BY <1>1, <1>5, <1>6 DEF Typed, Shape, Gone, Same
<1> QED
  BY <1>1, <1>3, <1>4, <1>6, <1>8, <1>9 DEF Typed, others

LEMMA TakeReplyMakes ==
  ASSUME Typed, TakeReply
  PROVE  /\ Typed' /\ poll.at = "idle" /\ poll'.at # "post" /\ poll.batch = <<>> /\ poll'.batch = <<>>
         /\ UNCHANGED <<session, feed, turnState, sink, blockedMark, replies, drift, faultsLeft>> /\ Same
<1>1. /\ poll.at = "idle"
      /\ UNCHANGED <<session, feed, turnState, sink, blockedMark, replies, drift, faultsLeft>> /\ Same
  BY DEF TakeReply, PollRest, Polls, Same
<1>2. PICK ask \in turnState.blocked : poll' = [Idle EXCEPT !.at = "reply", !.ask = ask]
  BY DEF TakeReply
<1>3. ask \in Nat
  BY PollTyped DEF Some
<1>4. poll' \in PollStates /\ poll'.at = "reply" /\ poll'.batch = <<>>
  <2> HIDE DEF Texts, Events
  <2> QED
    BY <1>2, <1>3, IdleIs DEF PollStates, PollPlaces
<1>5. Typed'
  <2> HIDE DEF Texts, PollStates, TurnStates, Some, Events
  <2> QED
    BY <1>1, <1>4, PollMoves, PollTyped
<1> QED
  BY <1>1, <1>4, <1>5, PollTyped

LEMMA PostReplyMakes ==
  ASSUME Typed, PostReply
  PROVE  /\ Typed' /\ poll.at = "reply" /\ poll'.at = "idle" /\ poll.batch = <<>> /\ poll'.batch = <<>>
         /\ \/ UNCHANGED <<session, feed>>
            \/ /\ session'.run = session.run /\ session'.queue = session.queue /\ session'.ends = session.ends
               /\ session'.result = session.result
               /\ \E b \in Nat : /\ session'.asks = session.asks \ {b}
                                 /\ IF b \in session.asks THEN Emits(<<"unblocked", b>>) ELSE UNCHANGED feed
         /\ UNCHANGED <<turnState, sink, blockedMark, replies, drift>> /\ Same
<1> DEFINE b == poll.ask
<1>1. /\ poll.at = "reply" /\ poll' = Idle
      /\ UNCHANGED <<turnState, sink, blockedMark, replies, drift>> /\ Same
  BY DEF PostReply, PollRest, Polls, Same
<1>2. \/ Fails /\ UNCHANGED <<session, feed>>
      \/ /\ Answers /\ session' = [session EXCEPT !.asks = session.asks \ {b}]
         /\ IF b \in session.asks THEN Emits(<<"unblocked", b>>) ELSE UNCHANGED feed
  BY DEF PostReply
<1>3. b \in Nat /\ session \in Sessions /\ session.asks \in Some /\ feed \in Seq(Updates) /\ faultsLeft \in Nat
  BY DEF Typed, OcTypes, HostTypes, OutsideTypes, PollStates, Sessions
<1>4. session.asks \ {b} \in Some
  BY <1>3, SomeTypes
<1>5. faultsLeft' \in Nat
  BY <1>2, <1>3, FailsTypes DEF Answers
<1> HIDE DEF b
<1>6. /\ session' \in Sessions /\ session'.run = session.run /\ session'.queue = session.queue
      /\ session'.ends = session.ends /\ session'.result = session.result
      /\ feed' \in Seq(Updates) /\ (link = "none" => feed' = <<>>)
      /\ session.asks = {} => session'.asks = {}
      /\ \/ UNCHANGED <<session, feed>>
         \/ /\ session'.asks = session.asks \ {b}
            /\ IF b \in session.asks THEN Emits(<<"unblocked", b>>) ELSE UNCHANGED feed
  <2>1. CASE UNCHANGED <<session, feed>>
    BY <1>3, <2>1 DEF Typed, Gone
  <2>2. CASE /\ session' = [session EXCEPT !.asks = session.asks \ {b}]
             /\ IF b \in session.asks THEN Emits(<<"unblocked", b>>) ELSE UNCHANGED feed
    <3>1. /\ session' \in Sessions /\ session'.run = session.run /\ session'.queue = session.queue
          /\ session'.ends = session.ends /\ session'.result = session.result /\ session'.asks = session.asks \ {b}
      <4> HIDE DEF Texts, Some, Results
      <4> QED
        BY <1>3, <1>4, <2>2 DEF Sessions
    <3>2. <<"unblocked", b>> \in Updates
      BY <1>3 DEF Updates
    <3>3. feed' \in Seq(Updates) /\ (link = "none" => feed' = <<>>)
      BY <1>3, <2>2, <3>2, EmitTypes DEF Typed, OcTypes, OutsideTypes, Gone
    <3> QED
      BY <2>2, <3>1, <3>3
  <2> QED
    BY <1>2, <2>1, <2>2
<1>7. poll' \in PollStates /\ poll'.batch = <<>> /\ poll'.at = "idle" /\ poll.batch = <<>>
  BY <1>1, IdleIs, PollTyped
<1>8. OcTypes'
  <2> HIDE DEF Some, Texts, Results, Sessions, Updates, Sups, TurnStates, PollStates, Events
  <2> QED
    BY <1>1, <1>5, <1>6, <1>7 DEF Typed, OcTypes, OutsideTypes, HostTypes, Texted, Same
<1>9. Shape' /\ Gone'
  BY <1>1, <1>6, <1>7 DEF Typed, Shape, Gone, Same
<1> QED
  BY <1>1, <1>3, <1>6, <1>7, <1>8, <1>9 DEF Typed

(***************************************************************************)
(* The requests: what still comes tells the host of each, if it sees.      *)
(***************************************************************************)
Coming == sup.updates \o feed
Reading == sup.at \in {"active", "clone", "pending", "messages"}
Sees == link = "open" /\ "blind" \notin drift
Waits(a) == {<<"blocked", a>>}
Freed(a) == {<<"unblocked", a>>} \cup Cuts
SaysAsks(s, a, A) ==
  /\ a \in A => Lasts(s, About(a), Waits(a))
  /\ a \notin A => Lasts(s, About(a), Freed(a))

AskTold(a) ==
  Sees =>
    /\ SaysAsks(Coming, a, session.asks)
    /\ ~ Reading /\ Never(Coming, About(a)) => (a \in turnState.blocked <=> a \in session.asks)
    /\ sup.at \in {"clone", "pending", "messages"} /\ ~ sup.active /\ Never(Coming, About(a)) => a \notin session.asks
    /\ sup.at = "messages" /\ Never(Coming, About(a)) => (a \in sup.pending <=> a \in session.asks)
AsksTold == \A a \in Nat : AskTold(a)

LEMMA ReconcileAsks ==
  ASSUME NEW known \in TurnStates, NEW active \in BOOLEAN, NEW pending \in Some,
         NEW result \in Results \cup {NoResult}, NEW a \in Nat
  PROVE  LET r == Reconcile(known, active, pending, result)
         IN  /\ r \in Seq(Updates)
             /\ \/ /\ known.inFlight /\ ~ active /\ result # NoResult
                   /\ ~ Never(r, About(a)) /\ Lasts(r, About(a), Freed(a))
                \/ /\ SaysAsks(r, a, pending)
                   /\ Never(r, About(a)) => (a \in known.blocked <=> a \in pending)
<1> DEFINE r == Reconcile(known, active, pending, result)
           over == known.inFlight /\ ~ active /\ result # NoResult
           cut == over /\ result.end = "interrupted"
<1>0. /\ r \in Seq(Updates)
      /\ \A b \in Nat : IF over /\ result.end = "interrupted"
                        THEN ~ Never(r, About(b)) /\ Lasts(r, About(b), Asking(b, FALSE))
                        ELSE /\ Lasts(r, About(b), Asking(b, b \in pending))
                             /\ Never(r, About(b)) => (b \in known.blocked <=> b \in pending)
  BY ReconcileMakes
<1>1. r \in Seq(Updates) /\ IF cut
                            THEN ~ Never(r, About(a)) /\ Lasts(r, About(a), Asking(a, FALSE))
                            ELSE /\ Lasts(r, About(a), Asking(a, a \in pending))
                                 /\ Never(r, About(a)) => (a \in known.blocked <=> a \in pending)
  BY <1>0
<1>2. cut => known.inFlight /\ ~ active /\ result # NoResult
  OBVIOUS
<1> HIDE DEF r, cut, over
<1>3. CASE cut
  <2>1. ~ Never(r, About(a)) /\ Lasts(r, About(a), Asking(a, FALSE))
    BY <1>1, <1>3
  <2>2. Lasts(r, About(a), Freed(a))
    BY <2>1 DEF Asking, Freed, Lasts
  <2> QED
    BY <1>1, <1>2, <1>3, <2>1, <2>2 DEF r
<1>4. CASE ~ cut
  <2>1. /\ Lasts(r, About(a), Asking(a, a \in pending))
        /\ Never(r, About(a)) => (a \in known.blocked <=> a \in pending)
    BY <1>1, <1>4
  <2>2. a \in pending => Lasts(r, About(a), Waits(a))
    BY <2>1 DEF Asking, Waits, Lasts
  <2>3. a \notin pending => Lasts(r, About(a), Freed(a))
    BY <2>1 DEF Asking, Freed, Lasts
  <2> QED
    BY <1>1, <2>1, <2>2, <2>3 DEF r, SaysAsks
<1> QED
  BY <1>3, <1>4

\* What comes next, when something is put on the stream, routed or read.
LEMMA ComingTypes == Typed => /\ sup.updates \in Seq(Updates) /\ feed \in Seq(Updates) /\ Coming \in Seq(Updates)
                              /\ (sup.updates = <<>> => Coming = feed)
                              /\ (Reading => sup.updates = <<>>)
<1>1. Typed => sup.updates \in Seq(Updates) /\ feed \in Seq(Updates) /\ (Reading => sup.updates = <<>>)
  BY DEF Typed, OcTypes, OutsideTypes, HostTypes, Sups, Shape, Reading
<1> SUFFICES ASSUME Typed
             PROVE  Coming \in Seq(Updates) /\ (sup.updates = <<>> => Coming = feed)
  BY <1>1
<1>2. Coming \in Seq(Updates)
  BY <1>1, ConcatProperties DEF Coming
<1>3. ASSUME sup.updates = <<>> PROVE Coming = feed
  BY <1>1, <1>3, ConcatEmptySeq DEF Coming
<1> QED
  BY <1>2, <1>3

LEMMA AskStays ==
  ASSUME NEW a, AskTold(a), Coming' = Coming, session'.asks = session.asks,
         turnState'.blocked = turnState.blocked, Sees' => Sees,
         sup' = sup \/ (~ Reading /\ ~ Reading')
  PROVE  AskTold(a)'
<1>1. CASE sup' = sup
  BY <1>1 DEF AskTold, SaysAsks, Reading
<1>2. CASE ~ Reading /\ ~ Reading'
  BY <1>2 DEF AskTold, SaysAsks, Reading
<1> QED
  BY <1>1, <1>2

LEMMA ComingEmits ==
  ASSUME Typed, NEW u \in Updates, Emits(u), link = "open", sup' = sup
  PROVE  Coming' = Append(Coming, u)
<1>1. sup.updates \in Seq(Updates) /\ feed \in Seq(Updates) /\ Coming \in Seq(Updates)
  BY ComingTypes
<1>2. feed' = Append(feed, u)
  BY DEF Emits
<1>3. Coming' = sup.updates \o Append(feed, u)
  BY <1>2 DEF Coming
<1>4. sup.updates \o Append(feed, u) = Append(sup.updates \o feed, u)
  <2> DEFINE p == sup.updates
             S == Updates
  <2>1. p \in Seq(S) /\ feed \in Seq(S) /\ u \in S
    BY <1>1
  <2> HIDE DEF p, S
  <2>2. p \o Append(feed, u) = Append(p \o feed, u)
    BY <2>1, Appended
  <2> QED
    BY <2>2 DEF p
<1> QED
  BY <1>3, <1>4, Zenon DEF Coming

LEMMA AskEmitted ==
  ASSUME Typed, NEW a \in Nat, AskTold(a), NEW u \in Updates, Emits(u), sup' = sup, link' = link, drift' = drift,
         turnState' = turnState,
         u \in About(a) => (a \in session'.asks => u \in Waits(a)) /\ (a \notin session'.asks => u \in Freed(a)),
         u \notin About(a) => (a \in session'.asks <=> a \in session.asks)
  PROVE  AskTold(a)'
<1> SUFFICES ASSUME Sees' PROVE AskTold(a)'
  BY DEF AskTold
<1>1. Sees /\ link = "open"
  BY DEF Sees
<1>2. Coming' = Append(Coming, u) /\ Coming \in Seq(Updates)
  BY <1>1, ComingEmits, ComingTypes
<1>3. \A L : /\ Never(Coming', About(a)) <=> Never(Coming, About(a)) /\ u \notin About(a)
             /\ Lasts(Coming', About(a), L) <=> IF u \in About(a) THEN u \in L ELSE Lasts(Coming, About(a), L)
  <2> TAKE L
  <2> QED
    BY <1>2, SaidNext
<1>4. SaysAsks(Coming, a, session.asks)' 
  <2>1. SaysAsks(Coming, a, session.asks)
    BY <1>1 DEF AskTold
  <2> QED
    BY <1>3, <2>1 DEF SaysAsks
<1> QED
  BY <1>1, <1>3, <1>4 DEF AskTold, Reading

LEMMA MoreApart ==
  \A a \in Nat : \A b : \A r \in Results :
    /\ Started \notin About(a)
    /\ (<<"blocked", b>> \in About(a) <=> a = b) /\ (<<"unblocked", b>> \in About(a) <=> a = b)
    /\ (<<"ended", r>> \in About(a) <=> r.end = "interrupted")
    /\ <<"blocked", a>> \in Waits(a) /\ <<"unblocked", a>> \in Freed(a)
    /\ (r.end = "interrupted" => <<"ended", r>> \in Freed(a))
<1> TAKE a \in Nat
<1> TAKE b
<1> TAKE r \in Results
<1>1. Started \notin About(a)
  BY Apart
<1>2. (<<"blocked", b>> \in About(a) <=> a = b) /\ (<<"unblocked", b>> \in About(a) <=> a = b)
  BY DEF About, Cuts
<1>3. (<<"ended", r>> \in About(a) <=> r.end = "interrupted") /\ (<<"ended", r>> \in Cuts <=> r.end = "interrupted")
  BY Apart
<1>4. <<"blocked", a>> \in Waits(a) /\ <<"unblocked", a>> \in Freed(a)
  BY DEF Waits, Freed
<1>5. r.end = "interrupted" => <<"ended", r>> \in Freed(a)
  BY <1>3 DEF Freed
<1> QED
  BY <1>1, <1>2, <1>3, <1>4, <1>5

LEMMA StartedUpdate == Started \in Updates
  BY DEF Updates

LEMMA AskFinished ==
  ASSUME Typed, NEW a \in Nat, AskTold(a), NEW end \in {"succeeded", "transient", "failed", "interrupted"}, Finishes(end),
         end = "interrupted" \/ session.asks = {},
         sup' = sup, link' = link, drift' = drift, turnState' = turnState
  PROVE  AskTold(a)'
<1> DEFINE r == session'.result
           u == <<"ended", r>>
<1>1. r \in Results /\ r.end = end /\ session'.asks = {} /\ Emits(u)
  BY DEF Finishes
<1>2. u \in Updates
  <2> HIDE DEF Results
  <2> QED
    BY <1>1 DEF Updates, Ends
<1> HIDE DEF r
<1>3. (u \in About(a) <=> end = "interrupted") /\ (end = "interrupted" => u \in Freed(a))
  BY <1>1, MoreApart
<1> HIDE DEF u
<1> QED
  BY <1>1, <1>2, <1>3, AskEmitted

\* The agent and the server.
LEMMA AskOutside ==
  ASSUME Typed, NEW a \in Nat, AskTold(a), AgentStep \/ ServerDies \/ StreamBreaks
  PROVE  AskTold(a)'
<1>1. CASE StartTurn
  <2>1. /\ session'.asks = session.asks /\ Emits(Started) /\ sup' = sup /\ link' = link /\ drift' = drift
        /\ turnState' = turnState
    BY <1>1, StartTurnMakes DEF Outside
  <2>2. Started \notin About(a)
    BY Apart, MoreApart DEF Started, About, Cuts
  <2> QED
    BY <2>1, <2>2, AskEmitted, StartedUpdate
<1>2. CASE JoinTurn
  <2>1. /\ session'.asks = session.asks /\ feed' = feed /\ sup' = sup /\ link' = link /\ drift' = drift
        /\ turnState' = turnState
    BY <1>2, JoinTurnMakes DEF Outside
  <2> QED
    BY <2>1, AskStays DEF Coming, Sees
<1>3. CASE Report
  <2>1. /\ session'.asks = session.asks /\ feed' = feed /\ sup' = sup /\ link' = link /\ drift' = drift
        /\ turnState' = turnState
    BY <1>3, ReportMakes DEF Outside
  <2> QED
    BY <2>1, AskStays DEF Coming, Sees
<1>4. CASE AskPermission
  <2>1. /\ sup' = sup /\ link' = link /\ drift' = drift /\ turnState' = turnState
        /\ \E b \in Nat : session'.asks = session.asks \cup {b} /\ Emits(<<"blocked", b>>)
    BY <1>4, AskPermissionMakes DEF Outside
  <2> PICK b \in Nat : session'.asks = session.asks \cup {b} /\ Emits(<<"blocked", b>>)
    BY <2>1
  <2> DEFINE u == <<"blocked", b>>
  <2>2. u \in Updates
    BY DEF Updates
  <2>3. (u \in About(a) <=> a = b) /\ (a = b => u \in Waits(a))
    BY DEF About, Cuts, Waits
  <2>4. Emits(u)
    OBVIOUS
  <2> HIDE DEF u
  <2> QED
    BY <2>1, <2>2, <2>3, <2>4, AskEmitted
<1>5. CASE EndTurn
  <2>1. /\ session.asks = {} /\ sup' = sup /\ link' = link /\ drift' = drift /\ turnState' = turnState
        /\ \E end \in {"succeeded", "transient", "failed", "interrupted"} : Finishes(end)
    BY <1>5, EndTurnMakes DEF Outside
  <2> QED
    BY <2>1, AskFinished
<1>6. CASE ServerDies
  <2>1. link' # "open"
    BY <1>6, ServerDiesMakes
  <2> QED
    BY <2>1 DEF AskTold, Sees
<1>7. CASE StreamBreaks
  <2>1. link' # "open"
    BY <1>7, StreamBreaksMakes
  <2> QED
    BY <2>1 DEF AskTold, Sees
<1> QED
  BY <1>1, <1>2, <1>3, <1>4, <1>5, <1>6, <1>7 DEF AgentStep

\* The polling thread.
LEMMA AskPolled ==
  ASSUME Typed, NEW a \in Nat, AskTold(a), Poll
  PROVE  AskTold(a)'
<1>1. ASSUME session'.asks = session.asks, feed' = feed, Same, turnState'.blocked = turnState.blocked,
             Sees' => Sees
      PROVE  AskTold(a)'
  BY <1>1, AskStays DEF Same, Coming
<1>2. CASE TakePrompt
  BY <1>1, <1>2, TakePromptMakes DEF Same, Sees
<1>3. CASE RequestInterrupt
  BY <1>1, <1>3, RequestInterruptMakes DEF Same, Sees
<1>4. CASE PostInterrupt
  <2>1. CASE UNCHANGED <<session, feed>>
    BY <1>1, <1>4, <2>1, PostInterruptMakes DEF Same, Sees
  <2>2. CASE Finishes("interrupted")
    BY <1>4, <2>2, PostInterruptMakes, AskFinished DEF Same
  <2> QED
    BY <1>4, <2>1, <2>2, PostInterruptMakes
<1>5. CASE DrainSink
  BY <1>1, <1>5, DrainSinkMakes DEF Same, Sees
<1>6. CASE ApplyOwn
  BY <1>1, <1>6, ApplyOwnMakes DEF Same, Sees
<1>7. CASE KeepRequest
  BY <1>1, <1>7, KeepRequestMakes DEF Same, Sees
<1>8. CASE BeginPrompt
  BY <1>1, <1>8, BeginPromptMakes DEF Same, Sees
<1>9. CASE PostPrompt
  <2>1. (Posted \/ NotPosted(Sends(sup.effects))) /\ feed' = feed /\ Same
    BY <1>9, PostPromptMakes
  <2>2. session'.asks = session.asks /\ turnState'.blocked = turnState.blocked /\ (Sees' => Sees)
    BY <1>9, PostPromptMakes DEF Posted, NotPosted, Drifts, Sees, Same
  <2> QED
    BY <1>1, <1>9, <2>2, PostPromptMakes
<1>10. CASE TakeReply
  BY <1>1, <1>10, TakeReplyMakes DEF Same, Sees
<1>11. CASE PostReply
  <2>1. (feed' = feed /\ session'.asks = session.asks) \/ \E b \in Nat :
          /\ session'.asks = session.asks \ {b}
          /\ IF b \in session.asks THEN Emits(<<"unblocked", b>>) ELSE UNCHANGED feed
    BY <1>11, PostReplyMakes
  <2>2. UNCHANGED <<turnState, drift>> /\ Same
    BY <1>11, PostReplyMakes
  <2>3. CASE feed' = feed /\ session'.asks = session.asks
    BY <1>1, <2>2, <2>3 DEF Same, Sees
  <2>4. ASSUME NEW b \in Nat, session'.asks = session.asks \ {b},
               IF b \in session.asks THEN Emits(<<"unblocked", b>>) ELSE UNCHANGED feed
        PROVE  AskTold(a)'
    <3>1. CASE b \notin session.asks
      <4>1. session'.asks = session.asks /\ feed' = feed
        BY <2>4, <3>1
      <4> QED
        BY <1>1, <2>2, <4>1 DEF Same, Sees
    <3>2. CASE b \in session.asks
      <4> DEFINE u == <<"unblocked", b>>
      <4>1. u \in Updates
        BY DEF Updates
      <4>2. (u \in About(a) <=> a = b) /\ (a = b => u \in Freed(a))
        BY DEF About, Cuts, Freed
      <4>3. Emits(u)
        BY <2>4, <3>2
      <4> HIDE DEF u
      <4> QED
        BY <2>2, <2>4, <4>1, <4>2, <4>3, AskEmitted DEF Same
    <3> QED
      BY <3>1, <3>2
  <2> QED
    BY <2>1, <2>3, <2>4
<1> QED
  BY <1>2, <1>3, <1>4, <1>5, <1>6, <1>7, <1>8, <1>9, <1>10, <1>11 DEF Poll

LEMMA RouteKeeps ==
  ASSUME Typed, sup.updates = <<>>, feed # <<>>, sup'.updates = <<Head(feed)>>, feed' = Tail(feed)
  PROVE  Coming' = Coming
<1>1. feed \in Seq(Updates) /\ Coming = feed
  BY ComingTypes
<1>2. Coming' = <<Head(feed)>> \o Tail(feed)
  BY DEF Coming
<1>3. <<Head(feed)>> \o Tail(feed) = feed
  BY <1>1, HeadTailProperties, SeqEqual, ConcatProperties
<1> QED
  BY <1>1, <1>2, <1>3

\* A snapshot is read: what it tells comes before what the stream has.
LEMMA AskRepaired ==
  ASSUME Typed, Typed', NEW a \in Nat, AskTold(a), NEW pending \in Some, NEW result \in Results \cup {NoResult},
         sup.at \in {"pending", "messages"},
         sup.updates = <<>>, sup'.updates = Reconcile(sup.known, sup.active, pending, result), ~ Reading',
         feed' = feed, session' = session, turnState' = turnState, link' = link, drift' = drift,
         sup.at = "pending" => pending = session.asks /\ result = NoResult,
         sup.at = "messages" => pending = sup.pending
  PROVE  AskTold(a)'
<1> DEFINE r == Reconcile(sup.known, sup.active, pending, result)
           over == sup.known.inFlight /\ ~ sup.active /\ result # NoResult
<1>1. sup.known \in TurnStates /\ sup.active \in BOOLEAN /\ sup.known.blocked = turnState.blocked
  BY DEF Typed, OcTypes, HostTypes, Sups, Shape
<1>2. /\ r \in Seq(Updates)
      /\ \/ over /\ ~ Never(r, About(a)) /\ Lasts(r, About(a), Freed(a))
         \/ /\ SaysAsks(r, a, pending)
            /\ Never(r, About(a)) => (a \in sup.known.blocked <=> a \in pending)
  <2> HIDE DEF Results, TurnStates, Some
  <2> QED
    BY <1>1, ReconcileAsks
<1>3. Coming = feed /\ feed \in Seq(Updates) /\ Coming' = r \o feed
  BY ComingTypes DEF Coming
<1>4. over => ~ sup.active /\ sup.at = "messages"
  OBVIOUS
<1> HIDE DEF r, over
<1> SUFFICES ASSUME Sees' PROVE AskTold(a)'
  BY DEF AskTold
<1>5. /\ Sees /\ SaysAsks(feed, a, session.asks)
      /\ ~ sup.active /\ Never(feed, About(a)) => a \notin session.asks
      /\ sup.at = "messages" /\ Never(feed, About(a)) => (a \in sup.pending <=> a \in session.asks)
  BY <1>3 DEF AskTold, Sees
<1>6. \A L : /\ Never(Coming', About(a)) <=> Never(r, About(a)) /\ Never(feed, About(a))
             /\ Lasts(Coming', About(a), L) <=> Lasts(feed, About(a), L) /\ (Never(feed, About(a)) => Lasts(r, About(a), L))
  BY <1>2, <1>3, SaidFirst
<1>7. CASE over /\ ~ Never(r, About(a)) /\ Lasts(r, About(a), Freed(a))
  <2>1. Never(feed, About(a)) => a \notin session.asks
    BY <1>4, <1>5, <1>7
  <2>2. SaysAsks(Coming, a, session.asks)'
    BY <1>5, <1>6, <1>7, <2>1 DEF SaysAsks
  <2> QED
    BY <1>6, <1>7, <2>2 DEF AskTold, Reading
<1>8. CASE /\ SaysAsks(r, a, pending)
           /\ Never(r, About(a)) => (a \in sup.known.blocked <=> a \in pending)
  <2>1. Never(feed, About(a)) => (a \in pending <=> a \in session.asks)
    BY <1>5
  <2>2. SaysAsks(Coming, a, session.asks)'
    BY <1>5, <1>6, <1>8, <2>1 DEF SaysAsks
  <2>3. Never(Coming', About(a)) => (a \in turnState'.blocked <=> a \in session'.asks)
    BY <1>1, <1>6, <1>8, <2>1
  <2> QED
    BY <2>2, <2>3 DEF AskTold, Reading
<1> QED
  BY <1>2, <1>7, <1>8

\* The supervising thread.
LEMMA AskSupervised ==
  ASSUME Typed, NEW a \in Nat, AskTold(a), Supervise
  PROVE  AskTold(a)'
<1>1. ASSUME link' # "open" PROVE AskTold(a)'
  BY <1>1 DEF AskTold, Sees
<1>2. CASE TakeDead
  BY <1>1, <1>2, TakeDeadMakes
<1>3. CASE Unreachable
  BY <1>1, <1>3, UnreachableMakes
<1>4. CASE LoseSessions
  <2>1. server = "none" /\ link' = link
    BY <1>4, LoseSessionsMakes DEF outsideVars
  <2> QED
    BY <1>1, <2>1 DEF Typed, Gone
<1>5. CASE StartServer
  <2>1. server = "none" /\ link' = link
    BY <1>5, StartServerMakes
  <2> QED
    BY <1>1, <2>1 DEF Typed, Gone
<1>6. CASE Connect
  <2>1. Typed' /\ sup'.at = "active" /\ sup'.updates = <<>> /\ feed' = <<>>
    BY <1>6, ConnectMakes DEF Rests, Has
  <2>2. Coming' = <<>>
    <3>1. <<>> \o <<>> = <<>>
      OBVIOUS
    <3> QED
      BY <2>1, <3>1 DEF Coming
  <2> QED
    BY <2>1, <2>2, NothingSaid DEF AskTold, SaysAsks, Reading
<1>7. CASE ReadFails
  <2>1. Drifts("blind", server = "alive") /\ link' = link
    BY <1>7, ReadFailsMakes DEF outsideVars
  <2>2. server = "alive" => "blind" \in drift'
    BY <2>1 DEF Drifts
  <2> QED
    BY <2>1, <2>2 DEF Typed, Gone, AskTold, Sees
<1>8. CASE ReadActive
  <2>1. /\ sup.at = "active" /\ sup'.at = "clone" /\ sup.updates = <<>> /\ sup'.updates = <<>>
        /\ (sup'.active <=> session.run # None)
        /\ UNCHANGED <<session, link, feed, turnState, drift>>
    BY <1>8, ReadActiveMakes DEF Has, outsideVars
  <2>2. session.run = None => session.asks = {}
    BY DEF Typed, Gone
  <2> QED
    BY <2>1, <2>2 DEF AskTold, Reading, Sees, Coming
<1>9. CASE CloneTurn
  <2>1. /\ sup.at = "clone" /\ sup'.at = "pending" /\ sup.updates = <<>> /\ sup'.updates = <<>>
        /\ (sup'.active <=> sup.active)
        /\ UNCHANGED <<session, link, feed, turnState, drift>>
    BY <1>9, CloneTurnMakes DEF Has, outsideVars, pastVars
  <2> QED
    BY <2>1 DEF AskTold, Reading, Sees, Coming
<1>10. CASE ReadPending
  <2>1. /\ Typed' /\ sup.at = "pending" /\ sup.updates = <<>>
        /\ UNCHANGED <<session, link, feed, turnState, drift>> /\ ~ sup'.active
        /\ \/ ~ sup.active /\ sup'.at = "messages" /\ sup'.updates = <<>> /\ sup'.pending = session.asks
           \/ /\ sup'.updates = Reconcile(sup.known, sup.active, session.asks, NoResult)
              /\ sup'.at = IF sup'.updates = <<>> THEN "loop" ELSE "apply"
    BY <1>10, ReadPendingMakes DEF outsideVars
  <2>2. CASE ~ sup.active /\ sup'.at = "messages" /\ sup'.updates = <<>> /\ sup'.pending = session.asks
    BY <2>1, <2>2 DEF AskTold, Reading, Sees, Coming
  <2>3. CASE /\ sup'.updates = Reconcile(sup.known, sup.active, session.asks, NoResult)
             /\ sup'.at = IF sup'.updates = <<>> THEN "loop" ELSE "apply"
    <3>1. session.asks \in Some /\ NoResult \in Results \cup {NoResult} /\ ~ Reading'
      BY <2>3 DEF Typed, OcTypes, OutsideTypes, Sessions, Reading
    <3> QED
      BY <2>1, <2>3, <3>1, AskRepaired
  <2> QED
    BY <2>1, <2>2, <2>3
<1>11. CASE ReadMessages
  <2>1. /\ Typed' /\ sup.at = "messages" /\ sup.updates = <<>>
        /\ UNCHANGED <<session, link, feed, turnState, drift>>
        /\ sup'.updates = Reconcile(sup.known, sup.active, sup.pending, session.result)
        /\ sup'.at = IF sup'.updates = <<>> THEN "loop" ELSE "apply"
    BY <1>11, ReadMessagesMakes DEF outsideVars
  <2>2. sup.pending \in Some /\ session.result \in Results \cup {NoResult} /\ ~ Reading'
    BY <2>1 DEF Typed, OcTypes, OutsideTypes, HostTypes, Sessions, Sups, Reading
  <2> QED
    BY <2>1, <2>2, AskRepaired
<1>12. CASE Route
  <2>1. /\ sup.at = "loop" /\ sup'.at = "apply" /\ sup.updates = <<>> /\ feed # <<>>
        /\ sup'.updates = <<Head(feed)>> /\ feed' = Tail(feed)
        /\ UNCHANGED <<session, link, turnState, drift>>
    BY <1>12, RouteMakes DEF pastVars
  <2>2. Coming' = Coming
    BY <2>1, RouteKeeps
  <2> QED
    BY <2>1, <2>2, AskStays DEF Reading, Sees
<1>13. CASE Drop
  BY <1>1, <1>13, DropMakes
<1>14. CASE Apply
  <2> DEFINE u == Head(sup.updates)
  <2>1. /\ sup.at = "apply" /\ sup'.at = "effects" /\ sup.updates # <<>> /\ sup'.updates = Tail(sup.updates)
        /\ UNCHANGED <<session, link, feed>>
        /\ a \in turnState'.blocked <=> IF u \in About(a) THEN u = <<"blocked", a>> ELSE a \in turnState.blocked
    BY <1>14, ApplyMakes DEF outsideVars
  <2>2. \A L : /\ Never(Coming, About(a)) <=> u \notin About(a) /\ Never(Coming', About(a))
               /\ Lasts(Coming, About(a), L) <=> /\ Lasts(Coming', About(a), L)
                                                 /\ Never(Coming', About(a)) /\ u \in About(a) => u \in L
    BY <2>1, ComingTypes, SaidHead DEF Coming
  <2>3. "blind" \notin drift' => "blind" \notin drift
    BY <1>14, ApplyMakes DEF Drifts
  <2>4. /\ u \in Waits(a) <=> u = <<"blocked", a>>
        /\ u \in Freed(a) => u # <<"blocked", a>>
    BY DEF Waits, Freed, Cuts
  <2> HIDE DEF u
  <2> SUFFICES ASSUME Sees' PROVE AskTold(a)'
    BY DEF AskTold
  <2>5. Sees /\ SaysAsks(Coming, a, session.asks) /\ (Never(Coming, About(a)) => (a \in turnState.blocked <=> a \in session.asks))
    BY <2>1, <2>3 DEF AskTold, Sees, Reading
  <2>6. SaysAsks(Coming, a, session.asks)'
    BY <2>1, <2>2, <2>5 DEF SaysAsks
  <2>7. Never(Coming', About(a)) => (a \in turnState'.blocked <=> a \in session.asks)
    <3>1. CASE u \in About(a)
      BY <2>1, <2>2, <2>4, <2>5, <3>1 DEF SaysAsks
    <3>2. CASE u \notin About(a)
      BY <2>1, <2>2, <2>5, <3>2
    <3> QED
      BY <3>1, <3>2
  <2> QED
    BY <2>1, <2>6, <2>7 DEF AskTold, Reading
<1>15. ASSUME sup.at \in {"effects", "batch"}, sup'.at \in {"effects", "batch", "loop", "apply"},
              sup'.updates = sup.updates, feed' = feed, link' = link, session'.asks = session.asks,
              turnState'.blocked = turnState.blocked, "blind" \notin drift' => "blind" \notin drift
       PROVE  AskTold(a)'
  BY <1>15, AskStays DEF Reading, Sees, Coming
<1>16. CASE RunPublish
  BY <1>15, <1>16, RunPublishMakes DEF outsideVars, pastVars
<1>17. CASE RunClear
  BY <1>15, <1>17, RunClearMakes DEF outsideVars, pastVars
<1>18. CASE RunSend
  <2>1. session'.asks = session.asks /\ turnState'.blocked = turnState.blocked /\ ("blind" \notin drift' => "blind" \notin drift)
    BY <1>18, RunSendMakes DEF Posted, NotPosted, Drifts
  <2> QED
    BY <1>15, <1>18, <2>1, RunSendMakes
<1>19. CASE TakeEvents
  <2>1. "blind" \notin drift' => "blind" \notin drift
    BY <1>19, TakeEventsMakes DEF Drifts
  <2> QED
    BY <1>15, <1>19, <2>1, TakeEventsMakes DEF outsideVars
<1>20. CASE ApplyEvents
  BY <1>15, <1>20, ApplyEventsMakes DEF outsideVars, pastVars
<1> QED
  BY <1>2, <1>3, <1>4, <1>5, <1>6, <1>7, <1>8, <1>9, <1>10, <1>11, <1>12, <1>13, <1>14, <1>16, <1>17, <1>18, <1>19, <1>20
  DEF Supervise

LEMMA AsksStep ==
  ASSUME Typed, AsksTold, OcNext
  PROVE  AsksTold'
<1> SUFFICES ASSUME NEW a \in Nat PROVE AskTold(a)'
  BY DEF AsksTold
<1>1. AskTold(a)
  BY DEF AsksTold
<1> QED
  BY <1>1, AskOutside, AskSupervised, AskPolled DEF OcNext

(***************************************************************************)
(* The turn: what still comes tells the host whether one runs, unless a    *)
(* prompt of the host is on its way.                                       *)
(***************************************************************************)
Runs == session.run # None
Work == session.queue # <<>> \/ poll.at = "post" \/ Sends(sup.effects)
Flown == Runs => turnState.inFlight
Waited == ~ Runs => (turnState.inFlight => Work)
Clear == Sees /\ "failed" \notin drift

RunTold ==
  Clear =>
    /\ Runs => Lasts(Coming, Flights, {Started})
    /\ ~ Runs => Lasts(Coming, Flights, Ends)
    /\ ~ Reading /\ Never(Coming, Flights) => Flown /\ Waited
    /\ sup.at \in {"clone", "pending", "messages"} /\ Never(Coming, Flights) => (sup.active <=> Runs)
    /\ sup.at \in {"pending", "messages"} /\ Never(Coming, Flights) => IF sup.known.inFlight THEN Flown ELSE Waited

\* A session that has had no turn, or has lost its turns.
Unused ==
  session.result = NoResult /\ ~ Runs /\ session.queue = <<>> /\ server # "dead" /\ sup.at # "lose"
Fresh ==
  Unused => /\ turnState.inFlight => poll.at = "post"
            /\ Never(Coming, Flights) /\ ~ Sends(sup.effects) /\ ~ sup.active
RunInv == RunTold /\ Fresh

\* Nothing is told of a turn.
NoFlight ==
  /\ Never(Coming, Flights)' <=> Never(Coming, Flights)
  /\ Lasts(Coming, Flights, {Started})' <=> Lasts(Coming, Flights, {Started})
  /\ Lasts(Coming, Flights, Ends)' <=> Lasts(Coming, Flights, Ends)

LEMMA SameFlight == Coming' = Coming => NoFlight
  BY DEF NoFlight

LEMMA SameComing == sup'.updates = sup.updates /\ feed' = feed => Coming' = Coming
  BY DEF Coming

LEMMA EmitsNoFlight ==
  ASSUME Typed, NEW u \in Updates, Emits(u), u \notin Flights, sup' = sup
  PROVE  NoFlight
<1>1. CASE link = "open"
  <2>1. Coming' = Append(Coming, u) /\ Coming \in Seq(Updates)
    BY <1>1, ComingEmits, ComingTypes
  <2>2. \A L : /\ Never(Coming', Flights) <=> Never(Coming, Flights) /\ u \notin Flights
               /\ Lasts(Coming', Flights, L) <=> IF u \in Flights THEN u \in L ELSE Lasts(Coming, Flights, L)
    BY <2>1, SaidNext
  <2> QED
    BY <2>2 DEF NoFlight
<1>2. CASE link # "open"
  <2>1. feed' = feed
    BY <1>2 DEF Emits
  <2> QED
    BY <2>1, SameComing, SameFlight
<1> QED
  BY <1>1, <1>2

LEMMA EmitsFlight ==
  ASSUME Typed, NEW u \in Flights, Emits(u), link = "open", sup' = sup
  PROVE  /\ ~ Never(Coming, Flights)'
         /\ Lasts(Coming, Flights, {Started})' <=> u = Started
         /\ Lasts(Coming, Flights, Ends)' <=> u \in Ends
<1>1. u \in Updates
  BY DEF Flights, Updates
<1>2. Coming' = Append(Coming, u) /\ Coming \in Seq(Updates)
  BY <1>1, ComingEmits, ComingTypes
<1>3. \A L : /\ Never(Coming', Flights) <=> Never(Coming, Flights) /\ u \notin Flights
             /\ Lasts(Coming', Flights, L) <=> IF u \in Flights THEN u \in L ELSE Lasts(Coming, Flights, L)
  BY <1>1, <1>2, SaidNext
<1> QED
  BY <1>3

LEMMA RunStays ==
  ASSUME RunTold, NoFlight, Clear' => Clear, Runs' <=> Runs, Flown => Flown', Waited => Waited',
         sup' = sup \/ (~ Reading /\ ~ Reading')
  PROVE  RunTold'
<1> SUFFICES ASSUME Clear' PROVE RunTold'
  BY DEF RunTold
<1>1. /\ Runs' => Lasts(Coming, Flights, {Started})'
      /\ ~ Runs' => Lasts(Coming, Flights, Ends)'
  BY DEF RunTold, NoFlight
<1>2. CASE sup' = sup
  BY <1>1, <1>2 DEF RunTold, NoFlight, Reading
<1>3. CASE ~ Reading /\ ~ Reading'
  BY <1>1, <1>3 DEF RunTold, NoFlight, Reading
<1> QED
  BY <1>2, <1>3

LEMMA FreshStays ==
  ASSUME Fresh, Unused' => Unused, NoFlight, (~ Sends(sup.effects)) => (~ Sends(sup'.effects)),
         (~ sup.active) => (~ sup'.active), (turnState.inFlight => poll.at = "post") => (turnState'.inFlight => poll'.at = "post")
  PROVE  Fresh'
  BY DEF Fresh, NoFlight

LEMMA RunFinished ==
  ASSUME Typed, NEW end \in {"succeeded", "transient", "failed", "interrupted"}, Finishes(end), sup' = sup, link' = link
  PROVE  RunInv'
<1> DEFINE u == <<"ended", session'.result>>
<1>1. Emits(u) /\ session'.run = None /\ session'.result \in Results /\ session'.result # NoResult
  BY DEF Finishes
<1>2. u \in Flights /\ u \in Ends
  BY <1>1 DEF Flights, Ends
<1> HIDE DEF u
<1>3. Clear' => link = "open"
  BY DEF Clear, Sees
<1>4. RunTold'
  <2> SUFFICES ASSUME Clear' PROVE RunTold'
    BY DEF RunTold
  <2>1. ~ Never(Coming, Flights)' /\ (Lasts(Coming, Flights, Ends)' <=> u \in Ends)
    BY <1>1, <1>2, <1>3, EmitsFlight
  <2> QED
    BY <1>1, <1>2, <2>1 DEF RunTold, Runs
<1>5. Fresh'
  BY <1>1 DEF Fresh, Unused
<1> QED
  BY <1>4, <1>5 DEF RunInv

LEMMA RunOutside ==
  ASSUME Typed, RunInv, AgentStep \/ ServerDies \/ StreamBreaks
  PROVE  RunInv'
<1>0. RunTold /\ Fresh
  BY DEF RunInv
<1>1. CASE StartTurn
  <2>1. session'.run # None /\ Emits(Started) /\ sup' = sup /\ link' = link
    BY <1>1, StartTurnMakes DEF Outside
  <2>2. Started \in Flights
    BY DEF Flights
  <2>3. RunTold'
    <3> SUFFICES ASSUME Clear' PROVE RunTold'
      BY DEF RunTold
    <3>1. link = "open"
      BY <2>1 DEF Clear, Sees
    <3>2. ~ Never(Coming, Flights)' /\ Lasts(Coming, Flights, {Started})'
      BY <2>1, <2>2, <3>1, EmitsFlight
    <3> QED
      BY <2>1, <3>2 DEF RunTold, Runs
  <2>4. Fresh'
    BY <2>1 DEF Fresh, Unused, Runs
  <2> QED
    BY <2>3, <2>4 DEF RunInv
<1>2. CASE JoinTurn
  <2>1. session.run # None /\ session'.run = session.run /\ UNCHANGED <<link, feed, sup, turnState, poll, drift>>
    BY <1>2, JoinTurnMakes DEF Outside
  <2>2. NoFlight
    BY <2>1, SameComing, SameFlight
  <2>3. RunTold'
    BY <1>0, <2>1, <2>2, RunStays DEF Clear, Sees, Runs, Flown, Waited
  <2>4. Fresh'
    BY <2>1 DEF Fresh, Unused, Runs
  <2> QED
    BY <2>3, <2>4 DEF RunInv
<1>3. ASSUME session'.run = session.run, session'.queue = session.queue, session'.result = session.result, NoFlight,
             UNCHANGED <<sup, turnState, poll, server>>, Clear' => Clear
      PROVE  RunInv'
  <2>1. RunTold'
    BY <1>0, <1>3, RunStays DEF Runs, Flown, Waited, Work
  <2>2. Fresh'
    BY <1>0, <1>3, FreshStays DEF Unused, Runs
  <2> QED
    BY <2>1, <2>2 DEF RunInv
<1>4. CASE Report
  <2>1. /\ session'.run = session.run /\ session'.queue = session.queue /\ session'.result = session.result
        /\ UNCHANGED <<link, feed, sup, turnState, poll, drift, server>>
    BY <1>4, ReportMakes DEF Outside
  <2>2. NoFlight
    BY <2>1, SameComing, SameFlight
  <2> QED
    BY <1>3, <2>1, <2>2 DEF Clear, Sees
<1>5. CASE AskPermission
  <2>1. /\ session'.run = session.run /\ session'.queue = session.queue /\ session'.result = session.result
        /\ UNCHANGED <<link, sup, turnState, poll, drift, server>>
        /\ \E b \in Nat : session'.asks = session.asks \cup {b} /\ Emits(<<"blocked", b>>)
    BY <1>5, AskPermissionMakes DEF Outside
  <2> PICK b \in Nat : Emits(<<"blocked", b>>)
    BY <2>1
  <2> DEFINE u == <<"blocked", b>>
  <2>2. u \in Updates /\ u \notin Flights
    BY DEF Updates, Flights, Ends, Started
  <2>3. Emits(u)
    OBVIOUS
  <2> HIDE DEF u
  <2>4. NoFlight
    BY <2>1, <2>2, <2>3, EmitsNoFlight
  <2> QED
    BY <1>3, <2>1, <2>4 DEF Clear, Sees
<1>6. CASE EndTurn
  <2>1. /\ sup' = sup /\ link' = link
        /\ \E end \in {"succeeded", "transient", "failed", "interrupted"} : Finishes(end)
    BY <1>6, EndTurnMakes DEF Outside
  <2> QED
    BY <2>1, RunFinished
<1>7. CASE ServerDies
  <2>1. link' # "open" /\ server' = "dead"
    BY <1>7, ServerDiesMakes
  <2> QED
    BY <2>1 DEF RunInv, RunTold, Clear, Sees, Fresh, Unused
<1>8. CASE StreamBreaks
  <2>1. link' # "open" /\ UNCHANGED <<server, session, feed, sup, turnState, poll>>
    BY <1>8, StreamBreaksMakes DEF Outside
  <2>2. NoFlight
    BY <2>1, SameComing, SameFlight
  <2> QED
    BY <1>3, <2>1, <2>2 DEF Clear, Sees
<1> QED
  BY <1>1, <1>2, <1>4, <1>5, <1>6, <1>7, <1>8 DEF AgentStep

LEMMA RunPolled ==
  ASSUME Typed, RunInv, Poll
  PROVE  RunInv'
<1>0. RunTold /\ Fresh
  BY DEF RunInv
<1>1. ASSUME session'.run = session.run, session'.queue = session.queue, session'.result = session.result, NoFlight,
             Same, poll.at # "post", turnState'.inFlight = turnState.inFlight \/ (poll'.at = "post" /\ turnState'.inFlight),
             poll'.at # "post" \/ turnState'.inFlight, drift' = drift
      PROVE  RunInv'
  <2>1. RunTold'
    <3>1. (Flown => Flown') /\ (Waited => Waited') /\ (Runs' <=> Runs) /\ (Clear' => Clear) /\ sup' = sup
      BY <1>1 DEF Runs, Flown, Waited, Work, Clear, Sees, Same
    <3> QED
      BY <1>0, <1>1, <3>1, RunStays
  <2>2. Fresh'
    <3>1. (Unused' => Unused) /\ sup' = sup
      BY <1>1 DEF Unused, Runs, Same
    <3> QED
      BY <1>0, <1>1, <3>1, FreshStays
  <2> QED
    BY <2>1, <2>2 DEF RunInv
<1>2. ASSUME UNCHANGED <<session, feed, drift>>, Same, poll.at # "post", poll'.at # "post",
             turnState'.inFlight = turnState.inFlight
      PROVE  RunInv'
  <2>1. NoFlight
    BY <1>2, SameComing, SameFlight DEF Same
  <2> QED
    BY <1>1, <1>2, <2>1
<1>3. CASE TakePrompt
  BY <1>2, <1>3, TakePromptMakes
<1>4. CASE RequestInterrupt
  BY <1>2, <1>4, RequestInterruptMakes
<1>5. CASE PostInterrupt
  <2>1. CASE UNCHANGED <<session, feed>>
    BY <1>2, <1>5, <2>1, PostInterruptMakes
  <2>2. CASE Finishes("interrupted")
    BY <1>5, <2>2, PostInterruptMakes, RunFinished DEF Same
  <2> QED
    BY <1>5, <2>1, <2>2, PostInterruptMakes
<1>6. CASE DrainSink
  BY <1>2, <1>6, DrainSinkMakes
<1>7. CASE ApplyOwn
  BY <1>2, <1>7, ApplyOwnMakes
<1>8. CASE KeepRequest
  BY <1>2, <1>8, KeepRequestMakes
<1>9. CASE BeginPrompt
  <2>1. /\ poll.at # "post" /\ poll'.at = "post" /\ turnState'.inFlight /\ Same
        /\ UNCHANGED <<session, feed, drift>>
    BY <1>9, BeginPromptMakes
  <2>2. NoFlight
    BY <2>1, SameComing, SameFlight DEF Same
  <2> QED
    BY <1>1, <2>1, <2>2
<1>10. CASE PostPrompt
  <2>1. /\ poll.at = "post" /\ poll'.at = "idle" /\ feed' = feed /\ Same
        /\ Posted \/ NotPosted(Sends(sup.effects))
    BY <1>10, PostPromptMakes
  <2>2. NoFlight
    BY <2>1, SameComing, SameFlight DEF Same
  <2>3. CASE Posted
    <3>1. /\ session'.run = session.run /\ session'.queue # <<>> /\ UNCHANGED <<turnState, drift, sup, link>>
      BY <2>1, <2>3 DEF Posted, Same
    <3>2. (Flown => Flown') /\ (Waited => Waited') /\ (Runs' <=> Runs) /\ (Clear' => Clear)
      BY <3>1 DEF Runs, Flown, Waited, Work, Clear, Sees
    <3>3. RunTold'
      BY <1>0, <2>2, <3>1, <3>2, RunStays
    <3>4. Fresh'
      BY <3>1 DEF Fresh, Unused
    <3> QED
      BY <3>3, <3>4 DEF RunInv
  <2>4. CASE NotPosted(Sends(sup.effects))
    <3>1. /\ session' = session /\ ~ turnState'.inFlight /\ sup' = sup /\ link' = link /\ server' = server
          /\ "failed" \notin drift' => ~ Busy /\ drift' = drift
      BY <2>1, <2>4 DEF NotPosted, Drifts, Same
    <3>2. RunTold'
      <4> SUFFICES ASSUME Clear' PROVE RunTold'
        BY DEF RunTold
      <4>1. ~ Busy /\ drift' = drift
        BY <3>1 DEF Clear
      <4>2. (Flown => Flown') /\ (Waited => Waited') /\ (Runs' <=> Runs) /\ (Clear' => Clear)
        BY <3>1, <4>1 DEF Runs, Flown, Waited, Work, Clear, Sees, Busy
      <4> QED
        BY <1>0, <2>2, <3>1, <4>2, RunStays
    <3>3. Fresh'
      <4>1. Unused' => Unused
        BY <3>1 DEF Unused, Runs
      <4> QED
        BY <1>0, <2>2, <3>1, <4>1, FreshStays
    <3> QED
      BY <3>2, <3>3 DEF RunInv
  <2> QED
    BY <2>1, <2>3, <2>4
<1>11. CASE TakeReply
  BY <1>2, <1>11, TakeReplyMakes
<1>12. CASE PostReply
  <2>1. /\ poll.at # "post" /\ poll'.at # "post" /\ Same /\ UNCHANGED <<turnState, drift>>
        /\ session'.run = session.run /\ session'.queue = session.queue /\ session'.result = session.result
        /\ feed' = feed \/ \E b \in Nat : Emits(<<"unblocked", b>>)
    BY <1>12, PostReplyMakes
  <2>2. NoFlight
    <3>1. CASE feed' = feed
      BY <2>1, <3>1, SameComing, SameFlight DEF Same
    <3>2. ASSUME NEW b \in Nat, Emits(<<"unblocked", b>>) PROVE NoFlight
      <4> DEFINE u == <<"unblocked", b>>
      <4>1. u \in Updates /\ u \notin Flights
        BY DEF Updates, Flights, Ends, Started
      <4>2. Emits(u)
        BY <3>2
      <4> HIDE DEF u
      <4> QED
        BY <2>1, <4>1, <4>2, EmitsNoFlight DEF Same
    <3> QED
      BY <2>1, <3>1, <3>2
  <2> QED
    BY <1>1, <2>1, <2>2
<1> QED
  BY <1>3, <1>4, <1>5, <1>6, <1>7, <1>8, <1>9, <1>10, <1>11, <1>12 DEF Poll

LEMMA ReconcileFlights ==
  ASSUME NEW known \in TurnStates, NEW active \in BOOLEAN, NEW pending \in Some,
         NEW result \in Results \cup {NoResult}
  PROVE  LET r == Reconcile(known, active, pending, result)
         IN  /\ r \in Seq(Updates)
             /\ Never(r, Flights) <=> /\ known.inFlight \/ ~ active
                                      /\ ~ (known.inFlight /\ ~ active /\ result # NoResult)
             /\ active => Lasts(r, Flights, {Started})
             /\ ~ active => Lasts(r, Flights, Ends)
<1> DEFINE r == Reconcile(known, active, pending, result)
           over == known.inFlight /\ ~ active /\ result # NoResult
<1>1. /\ r \in Seq(Updates)
      /\ Never(r, Flights) <=> (known.inFlight \/ ~ active) /\ ~ over
      /\ Lasts(r, Flights, Flying(active))
  BY ReconcileMakes
<1> HIDE DEF r
<1>2. active => Lasts(r, Flights, {Started})
  BY <1>1 DEF Flying, Lasts
<1>3. ~ active => Lasts(r, Flights, Ends)
  BY <1>1 DEF Flying, Lasts
<1> QED
  BY <1>1, <1>2, <1>3 DEF r

LEMMA RunRepaired ==
  ASSUME Typed, Typed', RunInv, NEW pending \in Some, NEW result \in Results \cup {NoResult},
         sup.at \in {"pending", "messages"}, ~ sup'.active, sup.effects = <<>>, sup'.effects = <<>>,
         server = "alive", server' = server, poll' = poll,
         sup.updates = <<>>, sup'.updates = Reconcile(sup.known, sup.active, pending, result), ~ Reading',
         feed' = feed, session' = session, turnState' = turnState, link' = link, drift' = drift,
         sup.at = "pending" => (~ sup.known.inFlight \/ sup.active) /\ result = NoResult,
         sup.at = "messages" => result = session.result
  PROVE  RunInv'
<1> DEFINE r == Reconcile(sup.known, sup.active, pending, result)
           over == sup.known.inFlight /\ ~ sup.active /\ result # NoResult
<1>0. RunTold /\ Fresh
  BY DEF RunInv
<1>1. sup.known \in TurnStates /\ sup.active \in BOOLEAN /\ (sup.at = "messages" => sup.known.inFlight /\ ~ sup.active)
  BY DEF Typed, OcTypes, HostTypes, Sups, Shape
<1>2. /\ r \in Seq(Updates)
      /\ Never(r, Flights) <=> (sup.known.inFlight \/ ~ sup.active) /\ ~ over
      /\ sup.active => Lasts(r, Flights, {Started})
      /\ ~ sup.active => Lasts(r, Flights, Ends)
  <2> HIDE DEF Results, TurnStates, Some
  <2> QED
    BY <1>1, ReconcileFlights
<1>3. Coming = feed /\ feed \in Seq(Updates) /\ Coming' = r \o feed
  BY ComingTypes DEF Coming
<1>4. over <=> sup.known.inFlight /\ ~ sup.active /\ result # NoResult
  OBVIOUS
<1> HIDE DEF r, over
<1>5. \A L : /\ Never(Coming', Flights) <=> Never(r, Flights) /\ Never(feed, Flights)
             /\ Lasts(Coming', Flights, L) <=> Lasts(feed, Flights, L) /\ (Never(feed, Flights) => Lasts(r, Flights, L))
  BY <1>2, <1>3, SaidFirst
<1>6. (Flown' <=> Flown) /\ (Waited' <=> Waited) /\ (Runs' <=> Runs) /\ (Clear' <=> Clear) /\ (Unused' <=> Unused)
  BY DEF Flown, Waited, Runs, Work, Clear, Sees, Unused, Typed, Shape
<1>7. RunTold'
  <2> SUFFICES ASSUME Clear' PROVE RunTold'
    BY DEF RunTold
  <2>1. /\ Runs => Lasts(feed, Flights, {Started})
        /\ ~ Runs => Lasts(feed, Flights, Ends)
        /\ Never(feed, Flights) => (sup.active <=> Runs)
        /\ Never(feed, Flights) => IF sup.known.inFlight THEN Flown ELSE Waited
    BY <1>0, <1>3, <1>6 DEF RunTold
  <2>2. /\ Runs' => Lasts(Coming, Flights, {Started})'
        /\ ~ Runs' => Lasts(Coming, Flights, Ends)'
    BY <1>2, <1>5, <1>6, <2>1
  <2>3. ASSUME Never(Coming', Flights) PROVE Flown /\ Waited
    <3>1. Never(r, Flights) /\ Never(feed, Flights)
      BY <1>5, <2>3
    <3>2. (sup.known.inFlight \/ ~ sup.active) /\ ~ over /\ (sup.active <=> Runs)
      BY <1>2, <2>1, <3>1
    <3>3. CASE sup.known.inFlight /\ sup.active
      BY <2>1, <3>1, <3>2, <3>3 DEF Flown, Waited
    <3>4. CASE ~ sup.known.inFlight /\ ~ sup.active
      BY <2>1, <3>1, <3>2, <3>4 DEF Flown, Waited
    <3>5. CASE sup.known.inFlight /\ ~ sup.active
      <4>1. result = NoResult /\ sup.at = "messages" /\ session.result = NoResult
        BY <1>4, <3>2, <3>5
      <4>2. ~ Runs
        BY <3>2, <3>5
      <4>3. session.queue = <<>> => Unused
        BY <4>1, <4>2 DEF Unused
      <4>4. session.queue = <<>> => (turnState.inFlight => poll.at = "post")
        BY <1>0, <4>3 DEF Fresh
      <4> QED
        BY <4>2, <4>4 DEF Flown, Waited, Work
    <3> QED
      BY <3>2, <3>3, <3>4, <3>5
  <2> QED
    BY <1>6, <2>2, <2>3 DEF RunTold, Reading
<1>8. Fresh'
  <2> SUFFICES ASSUME Unused' PROVE Fresh'
    BY DEF Fresh
  <2>1. Unused /\ session.result = NoResult
    BY <1>6 DEF Unused
  <2>2. /\ turnState.inFlight => poll.at = "post"
        /\ Never(feed, Flights) /\ ~ sup.active
    BY <1>0, <1>3, <2>1 DEF Fresh
  <2>3. result = NoResult
    BY <2>1
  <2>4. Never(r, Flights)
    BY <1>2, <1>4, <2>2, <2>3
  <2>5. ~ Sends(sup'.effects)
    BY NoActs
  <2> QED
    BY <1>5, <2>2, <2>4, <2>5 DEF Fresh
<1> QED
  BY <1>7, <1>8 DEF RunInv

\* An update is applied.
LEMMA RunApplied ==
  ASSUME Typed, RunInv, Apply
  PROVE  RunInv'
<1>0. RunTold /\ Fresh
  BY DEF RunInv
<1> DEFINE u == Head(sup.updates)
<1>1. /\ sup.at = "apply" /\ sup'.at = "effects" /\ sup.updates # <<>> /\ sup'.updates = Tail(sup.updates)
      /\ sup.effects = <<>> /\ ~ sup'.active
      /\ UNCHANGED <<server, session, link, feed>> /\ SupRest
      /\ u = Started => turnState'.inFlight
      /\ u \in Ends => (turnState'.inFlight <=> Sends(sup'.effects))
      /\ u \notin Flights => turnState'.inFlight = turnState.inFlight /\ ~ Sends(sup'.effects)
  BY <1>0, ApplyMakes DEF outsideVars
<1>2. \A L : /\ Never(Coming, Flights) <=> u \notin Flights /\ Never(Coming', Flights)
             /\ Lasts(Coming, Flights, L) <=> /\ Lasts(Coming', Flights, L)
                                              /\ Never(Coming', Flights) /\ u \in Flights => u \in L
  BY <1>1, ComingTypes, SaidHead DEF Coming
<1>3. Clear' => Clear
  BY <1>1, ApplyMakes DEF Drifts, Clear, Sees
<1>4. (u \in Flights <=> u = Started \/ u \in Ends) /\ Started \notin Ends
  BY DEF Flights, Started, Ends
<1> HIDE DEF u
<1>5. RunTold'
  <2> SUFFICES ASSUME Clear' PROVE RunTold'
    BY DEF RunTold
  <2>1. /\ Runs => Lasts(Coming, Flights, {Started})
        /\ ~ Runs => Lasts(Coming, Flights, Ends)
        /\ Never(Coming, Flights) => Flown /\ Waited
    BY <1>0, <1>1, <1>3 DEF RunTold, Reading
  <2>2. Runs' <=> Runs
    BY <1>1 DEF Runs
  <2>3. /\ Runs' => Lasts(Coming, Flights, {Started})'
        /\ ~ Runs' => Lasts(Coming, Flights, Ends)'
    BY <1>2, <2>1, <2>2
  <2>4. ASSUME Never(Coming', Flights) PROVE Flown' /\ Waited'
    <3>1. CASE u = Started
      <4>1. Runs
        BY <1>2, <1>4, <2>1, <2>4, <3>1
      <4> QED
        BY <1>1, <2>2, <3>1, <4>1 DEF Flown, Waited
    <3>2. CASE u \in Ends
      <4>1. ~ Runs
        BY <1>2, <1>4, <2>1, <2>4, <3>2
      <4> QED
        BY <1>1, <2>2, <3>2, <4>1 DEF Flown, Waited, Work
    <3>3. CASE u \notin Flights
      <4>1. Flown /\ Waited
        BY <1>2, <2>1, <2>4, <3>3
      <4>2. ~ Sends(sup.effects)
        BY <1>1, NoActs
      <4> QED
        BY <1>1, <2>2, <3>3, <4>1, <4>2 DEF Flown, Waited, Work, SupRest
    <3> QED
      BY <1>4, <3>1, <3>2, <3>3
  <2> QED
    BY <1>1, <2>3, <2>4 DEF RunTold, Reading
<1>6. Fresh'
  <2> SUFFICES ASSUME Unused' PROVE Fresh'
    BY DEF Fresh
  <2>1. Unused
    BY <1>1 DEF Unused, Runs
  <2>2. (turnState.inFlight => poll.at = "post") /\ Never(Coming, Flights)
    BY <1>0, <2>1 DEF Fresh
  <2> QED
    BY <1>1, <1>2, <2>2 DEF Fresh, SupRest
<1> QED
  BY <1>5, <1>6 DEF RunInv

LEMMA RunSupervised ==
  ASSUME Typed, RunInv, Supervise
  PROVE  RunInv'
<1>0. RunTold /\ Fresh
  BY DEF RunInv
<1>1. ASSUME link' # "open" PROVE RunTold'
  BY <1>1 DEF RunTold, Clear, Sees
\* Nothing that counts changes, outside of what is read.
<1>2. ASSUME NoFlight, session' = session, server' = server \/ (server = "none" /\ sup.at = "loop"),
             turnState' = turnState, poll' = poll, Clear' => Clear,
             ~ Reading, ~ Reading', sup.at # "lose", ~ sup'.active, Sends(sup'.effects) <=> Sends(sup.effects)
      PROVE  RunInv'
  <2>1. RunTold'
    BY <1>0, <1>2, RunStays DEF Runs, Flown, Waited, Work
  <2>2. Fresh'
    BY <1>0, <1>2, FreshStays DEF Unused, Runs
  <2> QED
    BY <2>1, <2>2 DEF RunInv
<1>3. CASE TakeDead
  <2>1. link' # "open" /\ sup'.at = "lose"
    BY <1>3, TakeDeadMakes DEF Rests, Has
  <2> QED
    BY <1>1, <2>1 DEF RunInv, Fresh, Unused
<1>4. CASE Unreachable
  <2>1. link' # "open" /\ sup'.at = "lose"
    BY <1>4, UnreachableMakes DEF Rests, Has
  <2> QED
    BY <1>1, <2>1 DEF RunInv, Fresh, Unused
<1>5. CASE LoseSessions
  <2>1. /\ server = "none" /\ link' = link /\ feed' = feed /\ ~ turnState'.inFlight /\ sup'.updates = <<>> /\ ~ sup'.active
        /\ ~ Sends(sup'.effects)
    BY <1>5, LoseSessionsMakes DEF outsideVars
  <2>2. link # "open" /\ feed = <<>>
    BY <2>1 DEF Typed, Gone
  <2>3. Coming' = <<>>
    <3>1. <<>> \o <<>> = <<>>
      OBVIOUS
    <3> QED
      BY <2>1, <2>2, <3>1 DEF Coming
  <2>4. Fresh'
    BY <2>1, <2>3, NothingSaid DEF Fresh
  <2> QED
    BY <1>1, <2>1, <2>2, <2>4 DEF RunInv
<1>6. CASE StartServer
  <2>1. /\ sup.at = "loop" /\ server = "none" /\ sup'.at \in {"loop", "gaveUp"} /\ sup'.updates = <<>>
        /\ sup'.effects = <<>> /\ ~ sup'.active
        /\ UNCHANGED <<session, link, feed, turnState, drift>> /\ SupRest
    BY <1>6, StartServerMakes
  <2>2. sup.updates = <<>> /\ sup.effects = <<>>
    BY <2>1, AtLoop
  <2>3. NoFlight
    BY <2>1, <2>2, SameComing, SameFlight
  <2> QED
    BY <1>2, <2>1, <2>2, <2>3 DEF Reading, SupRest, Clear, Sees
<1>7. CASE Connect
  <2>1. /\ sup.at = "loop" /\ sup'.at = "active" /\ sup'.updates = <<>> /\ sup'.effects = <<>> /\ ~ sup'.active
        /\ feed' = <<>> /\ UNCHANGED <<server, session, turnState>> /\ SupRest
    BY <1>7, ConnectMakes DEF Rests, Has
  <2>2. Coming' = <<>>
    <3>1. <<>> \o <<>> = <<>>
      OBVIOUS
    <3> QED
      BY <2>1, <3>1 DEF Coming
  <2>3. RunTold'
    BY <2>1, <2>2, NothingSaid DEF RunTold, Reading
  <2>4. Fresh'
    BY <1>0, <2>1, <2>2, NothingSaid, NoActs DEF Fresh, Unused, Runs, SupRest
  <2> QED
    BY <2>3, <2>4 DEF RunInv
<1>8. CASE ReadFails
  <2>1. /\ Drifts("blind", server = "alive") /\ link' = link /\ sup'.at = "loop" /\ sup'.updates = <<>> /\ sup.updates = <<>>
        /\ sup'.effects = <<>> /\ ~ sup'.active /\ UNCHANGED <<server, session, feed, turnState>> /\ SupRest
    BY <1>8, ReadFailsMakes DEF outsideVars, Rests, Has
  <2>2. server = "alive" => "blind" \in drift'
    BY <2>1 DEF Drifts
  <2>3. RunTold'
    BY <2>1, <2>2 DEF Typed, Gone, RunTold, Clear, Sees
  <2>4. Unused' => Unused
    BY <1>8, <2>1 DEF Unused, Runs, ReadFails
  <2>5. NoFlight
    BY <2>1, SameComing, SameFlight
  <2>6. Fresh'
    BY <1>0, <2>1, <2>4, <2>5, FreshStays, NoActs DEF SupRest
  <2> QED
    BY <2>3, <2>6 DEF RunInv
<1>9. CASE ReadActive
  <2>1. /\ sup.at = "active" /\ sup'.at = "clone" /\ sup.updates = <<>> /\ sup'.updates = <<>> /\ sup'.effects = <<>>
        /\ (sup'.active <=> Runs)
        /\ UNCHANGED <<server, session, link, feed, turnState, drift>> /\ SupRest
    BY <1>9, ReadActiveMakes DEF Has, outsideVars, Runs
  <2>2. Coming' = Coming
    BY <2>1, SameComing
  <2>3. RunTold'
    BY <1>0, <2>1, <2>2 DEF RunTold, Reading, Clear, Sees, Runs
  <2>4. Fresh'
    BY <1>0, <2>1, <2>2, NoActs DEF Fresh, Unused, Runs, SupRest
  <2> QED
    BY <2>3, <2>4 DEF RunInv
<1>10. CASE CloneTurn
  <2>1. /\ sup.at = "clone" /\ sup'.at = "pending" /\ sup.updates = <<>> /\ sup'.updates = <<>> /\ sup'.effects = <<>>
        /\ sup.effects = <<>> /\ sup'.known = turnState /\ (sup'.active <=> sup.active)
        /\ UNCHANGED <<server, session, link, feed, turnState, drift>> /\ SupRest
    BY <1>10, CloneTurnMakes DEF Has, outsideVars, pastVars
  <2>2. Coming' = Coming
    BY <2>1, SameComing
  <2>3. turnState.inFlight => Flown'
    BY <2>1 DEF Flown, Runs
  <2>4. ~ turnState.inFlight => Waited'
    BY <2>1 DEF Waited, Runs
  <2>5. RunTold'
    BY <1>0, <2>1, <2>2, <2>3, <2>4 DEF RunTold, Reading, Clear, Sees, Runs
  <2>6. Fresh'
    BY <1>0, <2>1, <2>2, NoActs DEF Fresh, Unused, Runs, SupRest
  <2> QED
    BY <2>5, <2>6 DEF RunInv
<1>11. CASE ReadPending
  <2>1. /\ Typed' /\ sup.at = "pending" /\ server = "alive" /\ sup.updates = <<>> /\ sup.effects = <<>>
        /\ UNCHANGED <<server, session, link, feed, turnState, drift>> /\ SupRest /\ ~ sup'.active /\ sup'.effects = <<>>
        /\ \/ /\ ~ sup.active /\ sup'.at = "messages" /\ sup'.updates = <<>> /\ sup'.known = sup.known
           \/ /\ ~ sup.known.inFlight \/ sup.active
              /\ sup'.updates = Reconcile(sup.known, sup.active, session.asks, NoResult)
              /\ sup'.at = IF sup'.updates = <<>> THEN "loop" ELSE "apply"
    BY <1>11, ReadPendingMakes DEF outsideVars
  <2>2. CASE ~ sup.active /\ sup'.at = "messages" /\ sup'.updates = <<>> /\ sup'.known = sup.known
    <3>1. Coming' = Coming
      BY <2>1, <2>2, SameComing
    <3>2. (Flown' <=> Flown) /\ (Waited' <=> Waited) /\ (Runs' <=> Runs) /\ (Clear' <=> Clear) /\ (Unused' <=> Unused)
      BY <2>1, <2>2, NoActs DEF Flown, Waited, Runs, Work, Clear, Sees, Unused, SupRest
    <3>3. RunTold'
      BY <1>0, <2>1, <2>2, <3>1, <3>2 DEF RunTold, Reading
    <3>4. Fresh'
      BY <1>0, <2>1, <2>2, <3>1, <3>2, NoActs DEF Fresh, SupRest
    <3> QED
      BY <3>3, <3>4 DEF RunInv
  <2>3. CASE /\ ~ sup.known.inFlight \/ sup.active
             /\ sup'.updates = Reconcile(sup.known, sup.active, session.asks, NoResult)
             /\ sup'.at = IF sup'.updates = <<>> THEN "loop" ELSE "apply"
    <3>1. session.asks \in Some /\ NoResult \in Results \cup {NoResult} /\ ~ Reading'
      BY <2>3 DEF Typed, OcTypes, OutsideTypes, Sessions, Reading
    <3> QED
      BY <2>1, <2>3, <3>1, RunRepaired DEF SupRest
  <2> QED
    BY <2>1, <2>2, <2>3
<1>12. CASE ReadMessages
  <2>1. /\ Typed' /\ sup.at = "messages" /\ server = "alive" /\ sup.updates = <<>> /\ sup.effects = <<>>
        /\ UNCHANGED <<server, session, link, feed, turnState, drift>> /\ SupRest /\ ~ sup'.active /\ sup'.effects = <<>>
        /\ sup'.updates = Reconcile(sup.known, sup.active, sup.pending, session.result)
        /\ sup'.at = IF sup'.updates = <<>> THEN "loop" ELSE "apply"
    BY <1>12, ReadMessagesMakes DEF outsideVars
  <2>2. sup.pending \in Some /\ session.result \in Results \cup {NoResult} /\ ~ Reading'
    BY <2>1 DEF Typed, OcTypes, OutsideTypes, HostTypes, Sessions, Sups, Reading
  <2> QED
    BY <2>1, <2>2, RunRepaired DEF SupRest
<1>13. CASE Route
  <2>1. /\ sup.at = "loop" /\ sup'.at = "apply" /\ sup.updates = <<>> /\ feed # <<>> /\ sup.effects = <<>> /\ sup'.effects = <<>>
        /\ sup'.updates = <<Head(feed)>> /\ feed' = Tail(feed) /\ ~ sup'.active
        /\ UNCHANGED <<server, session, link, turnState, drift>> /\ SupRest
    BY <1>13, RouteMakes DEF pastVars
  <2>2. NoFlight
    BY <2>1, RouteKeeps, SameFlight
  <2> QED
    BY <1>2, <2>1, <2>2 DEF Reading, Clear, Sees, SupRest
<1>14. CASE Drop
  <2>1. link' # "open" /\ UNCHANGED <<server, session, feed, turnState, sup>> /\ SupRest
    BY <1>14, DropMakes
  <2>2. NoFlight
    BY <2>1, SameComing, SameFlight
  <2>3. Fresh'
    BY <1>0, <2>1, <2>2, FreshStays DEF Unused, Runs, SupRest
  <2> QED
    BY <1>1, <2>1, <2>3 DEF RunInv
<1>15. ASSUME sup.at \in {"effects", "batch"}, sup'.at \in {"effects", "batch", "loop", "apply"}, ~ sup'.active,
              sup'.updates = sup.updates, UNCHANGED <<server, session, feed, link, turnState>>, SupRest,
              Clear' => Clear, Sends(sup'.effects) <=> Sends(sup.effects)
       PROVE  RunInv'
  <2>1. NoFlight
    BY <1>15, SameComing, SameFlight
  <2>2. ~ Reading /\ ~ Reading' /\ sup.at # "lose"
    BY <1>15 DEF Reading
  <2> QED
    BY <1>2, <1>15, <2>1, <2>2 DEF SupRest
<1>16. sup.at \in {"effects", "batch"} => ~ sup.active
  BY DEF Typed, Shape
<1>17. CASE RunPublish
  <2>1. /\ sup.at = "effects" /\ sup'.at = "effects" /\ sup.effects \in Seq(Acts) /\ sup.effects # <<>>
        /\ Head(sup.effects).act = "publish" /\ sup'.effects = Tail(sup.effects) /\ sup'.updates = sup.updates
        /\ sup'.active = sup.active /\ SupRest /\ UNCHANGED <<server, session, feed, link, turnState, drift>>
    BY <1>17, RunPublishMakes DEF outsideVars, pastVars
  <2>2. Sends(sup'.effects) <=> Sends(sup.effects)
    BY <2>1, TailOfActs
  <2> QED
    BY <1>15, <1>16, <2>1, <2>2 DEF Clear, Sees
<1>18. CASE RunClear
  <2>1. /\ sup.at = "effects" /\ sup'.at = "effects" /\ sup.effects \in Seq(Acts) /\ sup.effects # <<>>
        /\ Head(sup.effects).act = "clear" /\ sup'.effects = Tail(sup.effects) /\ sup'.updates = sup.updates
        /\ sup'.active = sup.active /\ SupRest /\ UNCHANGED <<server, session, feed, link, turnState, drift>>
    BY <1>18, RunClearMakes DEF outsideVars, pastVars
  <2>2. Sends(sup'.effects) <=> Sends(sup.effects)
    BY <2>1, TailOfActs
  <2> QED
    BY <1>15, <1>16, <2>1, <2>2 DEF Clear, Sees
<1>19. CASE RunSend
  <2>1. /\ sup.at = "effects" /\ sup'.at = "effects" /\ sup.effects \in Seq(Acts) /\ sup.effects # <<>>
        /\ Head(sup.effects).act = "send" /\ sup'.updates = sup.updates
        /\ SupRest /\ UNCHANGED <<server, feed, link>> /\ (Posted \/ NotPosted(poll.at = "post"))
    BY <1>19, RunSendMakes
  <2>2. NoFlight /\ ~ Reading /\ ~ Reading'
    BY <2>1, SameComing, SameFlight DEF Reading
  <2>3. Sends(sup.effects)
    BY <2>1, TailOfActs
  <2>4. ~ Unused
    BY <1>0, <2>3 DEF Fresh
  <2>5. CASE Posted
    <3>1. session'.run = session.run /\ session'.queue # <<>> /\ UNCHANGED <<turnState, drift>>
      BY <2>5 DEF Posted
    <3>2. (Flown => Flown') /\ (Waited => Waited') /\ (Runs' <=> Runs) /\ (Clear' => Clear)
      BY <2>1, <3>1 DEF Runs, Flown, Waited, Work, Clear, Sees
    <3>3. RunTold'
      BY <1>0, <2>2, <3>2, RunStays
    <3>4. Fresh'
      BY <3>1 DEF Fresh, Unused
    <3> QED
      BY <3>3, <3>4 DEF RunInv
  <2>6. CASE NotPosted(poll.at = "post")
    <3>1. /\ session' = session /\ ~ turnState'.inFlight
          /\ "failed" \notin drift' => ~ Busy /\ drift' = drift
      BY <2>6 DEF NotPosted, Drifts
    <3>2. RunTold'
      <4> SUFFICES ASSUME Clear' PROVE RunTold'
        BY DEF RunTold
      <4>1. ~ Busy /\ drift' = drift
        BY <3>1 DEF Clear
      <4>2. (Flown => Flown') /\ (Waited => Waited') /\ (Runs' <=> Runs) /\ (Clear' => Clear)
        BY <2>1, <3>1, <4>1 DEF Runs, Flown, Waited, Work, Clear, Sees, Busy
      <4> QED
        BY <1>0, <2>2, <4>2, RunStays
    <3>3. ~ Unused'
      BY <2>1, <2>4, <3>1 DEF Unused, Runs
    <3> QED
      BY <3>2, <3>3 DEF RunInv, Fresh
  <2> QED
    BY <2>1, <2>5, <2>6
<1>20. CASE TakeEvents
  <2>1. /\ sup.at = "effects" /\ sup.effects = <<>> /\ sup'.at \in {"loop", "apply", "batch"} /\ sup'.effects = <<>>
        /\ sup'.updates = sup.updates /\ ~ sup'.active /\ SupRest /\ UNCHANGED <<server, session, feed, link, turnState>>
        /\ Drifts("overtaken", sink # <<>> /\ HasMark(poll.batch))
    BY <1>20, TakeEventsMakes DEF outsideVars
  <2>2. Clear' => Clear
    BY <2>1 DEF Drifts, Clear, Sees
  <2> QED
    BY <1>15, <2>1, <2>2
<1>21. CASE ApplyEvents
  <2>1. /\ sup.at = "batch" /\ sup.effects = <<>> /\ sup'.at \in {"loop", "apply"} /\ sup'.effects = <<>>
        /\ sup'.updates = sup.updates /\ ~ sup'.active /\ SupRest /\ UNCHANGED <<server, session, feed, link, turnState, drift>>
    BY <1>21, ApplyEventsMakes DEF outsideVars, pastVars
  <2> QED
    BY <1>15, <2>1 DEF Clear, Sees
<1>22. CASE Apply
  BY <1>22, RunApplied
<1> QED
  BY <1>3, <1>4, <1>5, <1>6, <1>7, <1>8, <1>9, <1>10, <1>11, <1>12, <1>13, <1>14, <1>17, <1>18, <1>19, <1>20, <1>21, <1>22
  DEF Supervise

LEMMA RunStep ==
  ASSUME Typed, RunInv, OcNext
  PROVE  RunInv'
  BY RunOutside, RunSupervised, RunPolled DEF OcNext

LEMMA TypedStep ==
  ASSUME Typed, OcNext
  PROVE  Typed'
<1>1. ASSUME AgentStep \/ ServerDies \/ StreamBreaks PROVE Typed'
  BY <1>1, StartTurnMakes, JoinTurnMakes, ReportMakes, AskPermissionMakes, EndTurnMakes, ServerDiesMakes,
     StreamBreaksMakes DEF AgentStep
<1>2. ASSUME TakeDead \/ Unreachable \/ LoseSessions \/ StartServer \/ Connect PROVE Typed'
  BY <1>2, TakeDeadMakes, UnreachableMakes, LoseSessionsMakes, StartServerMakes, ConnectMakes
<1>3. ASSUME ReadFails \/ ReadActive \/ CloneTurn \/ ReadPending \/ ReadMessages PROVE Typed'
  BY <1>3, ReadFailsMakes, ReadActiveMakes, CloneTurnMakes, ReadPendingMakes, ReadMessagesMakes
<1>4. ASSUME Route \/ Drop \/ Apply \/ RunPublish \/ RunClear PROVE Typed'
  BY <1>4, RouteMakes, DropMakes, ApplyMakes, RunPublishMakes, RunClearMakes
<1>5. ASSUME RunSend \/ TakeEvents \/ ApplyEvents PROVE Typed'
  BY <1>5, RunSendMakes, TakeEventsMakes, ApplyEventsMakes
<1>6. ASSUME TakePrompt \/ RequestInterrupt \/ PostInterrupt \/ DrainSink \/ ApplyOwn PROVE Typed'
  BY <1>6, TakePromptMakes, RequestInterruptMakes, PostInterruptMakes, DrainSinkMakes, ApplyOwnMakes
<1>7. ASSUME KeepRequest \/ BeginPrompt \/ PostPrompt \/ TakeReply \/ PostReply PROVE Typed'
  BY <1>7, KeepRequestMakes, BeginPromptMakes, PostPromptMakes, TakeReplyMakes, PostReplyMakes
<1> QED
  BY <1>1, <1>2, <1>3, <1>4, <1>5, <1>6, <1>7 DEF OcNext, Supervise, Poll

(***************************************************************************)
(* The blocked marker: what the lists of events will make of it.           *)
(***************************************************************************)
Marks == MarkAfter(MarkAfter(MarkAfter(blockedMark, poll.batch), sup.batch), sink)
Marked ==
  /\ Few(sup.effects, turnState)
  /\ HasMark(sup.batch) => ~ HasMark(sink)
  /\ "overtaken" \notin drift =>
       /\ HasMark(poll.batch) => ~ HasMark(sup.batch)
       /\ ~ Publishes(sup.effects) => Marks = turnState.blocked

\* Nothing of the lists changes, and a new set of requests is published.
LEMMA MarksStay ==
  ASSUME Marked, drift \subseteq drift', sup'.batch = sup.batch, UNCHANGED <<sink, blockedMark>>,
         poll'.batch = poll.batch, Few(sup'.effects, turnState'),
         ~ Publishes(sup'.effects) => ~ Publishes(sup.effects) /\ turnState'.blocked = turnState.blocked
  PROVE  Marked'
<1>1. Marks' = Marks
  BY DEF Marks
<1>2. "overtaken" \notin drift' => "overtaken" \notin drift
  OBVIOUS
<1> QED
  BY <1>1, <1>2 DEF Marked

LEMMA FewSame ==
  ASSUME Marked, sup'.effects = sup.effects, turnState'.blocked = turnState.blocked
  PROVE  Few(sup'.effects, turnState')
  BY DEF Marked, Few

LEMMA MarksSame ==
  ASSUME Marked, drift \subseteq drift', sup'.batch = sup.batch, UNCHANGED <<sink, blockedMark>>,
         poll'.batch = poll.batch, sup'.effects = sup.effects, turnState'.blocked = turnState.blocked
  PROVE  Marked'
  BY FewSame, MarksStay

LEMMA DriftsMore == \A why, if : Drifts(why, if) => drift \subseteq drift'
  BY DEF Drifts

LEMMA MarkedOutside ==
  ASSUME Typed, Marked, AgentStep \/ ServerDies \/ StreamBreaks
  PROVE  Marked'
<1>1. Outside
  BY DEF AgentStep, StartTurn, JoinTurn, Report, AskPermission, EndTurn, ServerDies, StreamBreaks
<1> QED
  BY <1>1, MarksSame DEF Outside

LEMMA MarkedPolled ==
  ASSUME Typed, Marked, Poll
  PROVE  Marked'
<1>1. ASSUME UNCHANGED <<sink, blockedMark>>, Same, drift \subseteq drift', turnState'.blocked = turnState.blocked,
             poll'.batch = poll.batch
      PROVE  Marked'
  BY <1>1, MarksSame DEF Same
<1>2. CASE TakePrompt
  BY <1>1, <1>2, TakePromptMakes
<1>3. CASE RequestInterrupt
  BY <1>1, <1>3, RequestInterruptMakes
<1>4. CASE PostInterrupt
  <2>1. /\ \E e \in Events : ~ IsMark(e) /\ sink' = Append(sink, e)
        /\ UNCHANGED <<turnState, blockedMark, drift>> /\ Same /\ poll.batch = <<>> /\ poll'.batch = <<>>
    BY <1>4, PostInterruptMakes
  <2>2. sink \in Seq(Events)
    BY DEF Typed, OcTypes, HostTypes
  <2>3. (HasMark(sink') <=> HasMark(sink)) /\ \A mark : MarkAfter(mark, sink') = MarkAfter(mark, sink)
    BY <2>1, <2>2, MarkAppend
  <2>4. Marks' = Marks
    BY <2>1, <2>3 DEF Marks, Same
  <2> QED
    BY <2>1, <2>3, <2>4 DEF Marked, Same
<1>5. CASE DrainSink
  <2>1. /\ poll.batch = <<>> /\ poll'.batch = sink /\ sink' = <<>>
        /\ UNCHANGED <<turnState, blockedMark, drift>> /\ Same
    BY <1>5, DrainSinkMakes
  <2>2. Marks' = Marks
    <3>1. Marks = MarkAfter(MarkAfter(blockedMark, sup.batch), sink)
      BY <2>1, EmptyMarks DEF Marks
    <3>2. Marks' = MarkAfter(MarkAfter(blockedMark, sink), sup.batch)
      BY <2>1, EmptyMarks DEF Marks, Same
    <3>3. ~ HasMark(sup.batch) \/ ~ HasMark(sink)
      BY DEF Marked
    <3> QED
      BY <3>1, <3>2, <3>3, NoMark
  <2> QED
    BY <2>1, <2>2, EmptyMarks DEF Marked, Same
<1>6. CASE ApplyOwn
  <2>1. /\ poll'.batch = <<>> /\ blockedMark' = MarkAfter(blockedMark, poll.batch)
        /\ UNCHANGED <<turnState, sink, drift>> /\ Same
    BY <1>6, ApplyOwnMakes
  <2>2. Marks' = Marks
    BY <2>1, EmptyMarks DEF Marks, Same
  <2> QED
    BY <2>1, <2>2, EmptyMarks DEF Marked, Same
<1>7. CASE KeepRequest
  BY <1>1, <1>7, KeepRequestMakes
<1>8. CASE BeginPrompt
  BY <1>1, <1>8, BeginPromptMakes
<1>9. CASE PostPrompt
  <2>1. /\ Posted \/ NotPosted(Sends(sup.effects))
        /\ UNCHANGED <<sink, blockedMark>> /\ Same /\ poll.batch = <<>> /\ poll'.batch = <<>>
    BY <1>9, PostPromptMakes
  <2>2. drift \subseteq drift' /\ turnState'.blocked = turnState.blocked
    BY <2>1, DriftsMore DEF Posted, NotPosted
  <2> QED
    BY <1>1, <2>1, <2>2
<1>10. CASE TakeReply
  BY <1>1, <1>10, TakeReplyMakes
<1>11. CASE PostReply
  BY <1>1, <1>11, PostReplyMakes
<1> QED
  BY <1>2, <1>3, <1>4, <1>5, <1>6, <1>7, <1>8, <1>9, <1>10, <1>11 DEF Poll

LEMMA MarkedSupervised ==
  ASSUME Typed, Marked, Supervise
  PROVE  Marked'
<1>0. /\ sup.at # "effects" => sup.effects = <<>>
      /\ sup.at # "batch" => sup.batch = <<>>
      /\ sink \in Seq(Events)
  BY DEF Typed, Shape, OcTypes, HostTypes
\* Where no effects are in hand, before and after.
<1>1. ASSUME drift \subseteq drift', sup.effects = <<>>, sup'.effects = <<>>, sup.batch = <<>>, sup'.batch = <<>>,
             UNCHANGED <<sink, blockedMark>>, SupRest, turnState' = turnState
      PROVE  Marked'
  BY <1>1, MarksSame DEF SupRest
<1>2. CASE TakeDead
  <2>1. sup.at = "loop" /\ Has("lose", <<>>, <<>>, <<>>) /\ UNCHANGED <<turnState, markVars, pastVars>> /\ SupRest
    BY <1>2, TakeDeadMakes DEF Rests
  <2> QED
    BY <1>0, <1>1, <2>1 DEF Has, markVars, pastVars
<1>3. CASE Unreachable
  <2>1. sup.at = "loop" /\ Has("lose", <<>>, <<>>, <<>>) /\ UNCHANGED <<turnState, markVars, drift>> /\ SupRest
    BY <1>3, UnreachableMakes DEF Rests
  <2> QED
    BY <1>0, <1>1, <2>1 DEF Has, markVars
<1>4. CASE LoseSessions
  <2>1. /\ sup.at = "lose" /\ turnState'.blocked = {} /\ sup'.batch = <<>> /\ Few(sup'.effects, turnState')
        /\ ~ Publishes(sup'.effects) => turnState.blocked = {}
        /\ Drifts("crossed", poll.at = "post") /\ UNCHANGED markVars /\ SupRest
    BY <1>4, LoseSessionsMakes
  <2> QED
    BY <1>0, <2>1, DriftsMore, NoActs, MarksStay DEF markVars, SupRest
<1>5. CASE StartServer
  <2>1. /\ sup.at = "loop" /\ sup'.effects = <<>> /\ sup'.batch = <<>> /\ UNCHANGED <<turnState, markVars, drift>> /\ SupRest
    BY <1>5, StartServerMakes
  <2> QED
    BY <1>0, <1>1, <2>1 DEF markVars
<1>6. CASE Connect
  <2>1. sup.at = "loop" /\ Has("active", <<>>, <<>>, <<>>) /\ UNCHANGED <<turnState, markVars, pastVars>> /\ SupRest
    BY <1>6, ConnectMakes DEF Rests
  <2> QED
    BY <1>0, <1>1, <2>1 DEF Has, markVars, pastVars
<1>7. CASE ReadFails
  <2>1. /\ sup.effects = <<>> /\ sup.batch = <<>> /\ Has("loop", <<>>, <<>>, <<>>)
        /\ Drifts("blind", server = "alive") /\ UNCHANGED <<turnState, markVars>> /\ SupRest
    BY <1>7, ReadFailsMakes DEF Rests
  <2> QED
    BY <1>1, <2>1, DriftsMore DEF Has, markVars
<1>8. CASE ReadActive
  BY <1>1, <1>8, ReadActiveMakes DEF Has, markVars
<1>9. CASE CloneTurn
  BY <1>1, <1>9, CloneTurnMakes DEF Has, markVars, pastVars
<1>10. CASE ReadPending
  BY <1>1, <1>10, ReadPendingMakes DEF markVars
<1>11. CASE ReadMessages
  BY <1>1, <1>11, ReadMessagesMakes DEF markVars
<1>12. CASE Route
  BY <1>1, <1>12, RouteMakes DEF markVars, pastVars
<1>13. CASE Drop
  BY <1>13, DropMakes, MarksSame DEF markVars, pastVars, SupRest
<1>14. CASE Apply
  <2>1. /\ sup.effects = <<>> /\ sup.batch = <<>> /\ sup'.batch = <<>> /\ Few(sup'.effects, turnState')
        /\ ~ Publishes(sup'.effects) => turnState'.blocked = turnState.blocked
        /\ drift \subseteq drift' /\ UNCHANGED markVars /\ SupRest
    BY <1>14, ApplyMakes, DriftsMore
  <2> QED
    BY <2>1, NoActs, MarksStay DEF markVars, SupRest
<1>15. CASE RunPublish
  <2> DEFINE w == Head(sup.effects).what
  <2>1. /\ sup.at = "effects" /\ sup.effects \in Seq(Acts) /\ sup.effects # <<>> /\ Head(sup.effects).act = "publish"
        /\ w \in Some /\ sup'.effects = Tail(sup.effects) /\ sup'.batch = sup.batch
        /\ sink' = Append(sink, <<"marks", w>>) /\ UNCHANGED <<turnState, blockedMark, drift>> /\ SupRest
    BY <1>15, RunPublishMakes DEF pastVars
  <2>2. Few(sup'.effects, turnState') /\ w = turnState.blocked
    BY <2>1, TailOfActs DEF Marked
  <2> DEFINE e == <<"marks", w>>
  <2>3. e \in Events /\ IsMark(e) /\ e[2] = w /\ sink' = Append(sink, e)
    <3> HIDE DEF Some, w
    <3> QED
      BY <2>1 DEF Events, IsMark
  <2> HIDE DEF e, w
  <2>4. \A mark : MarkAfter(mark, sink') = w
    BY <1>0, <2>3, MarkAppend
  <2>5. Marks' = w
    BY <2>4 DEF Marks
  <2>6. ~ HasMark(sup'.batch)
    BY <1>0, <2>1, EmptyMarks
  <2> QED
    BY <2>1, <2>2, <2>5, <2>6 DEF Marked
<1>16. CASE RunClear
  <2>1. /\ sup.effects \in Seq(Acts) /\ sup.effects # <<>> /\ Head(sup.effects).act = "clear"
        /\ sup'.effects = Tail(sup.effects) /\ sup'.batch = sup.batch
        /\ UNCHANGED <<turnState, sink, blockedMark, drift>> /\ SupRest
    BY <1>16, RunClearMakes DEF pastVars
  <2>2. Few(sup'.effects, turnState') /\ (Publishes(sup'.effects) <=> Publishes(sup.effects))
    BY <2>1, TailOfActs DEF Marked
  <2> QED
    BY <2>1, <2>2, MarksStay DEF SupRest
<1>17. CASE RunSend
  <2>1. /\ sup.effects \in Seq(Acts) /\ sup.effects # <<>> /\ Head(sup.effects).act = "send"
        /\ sup'.effects = Tail(sup.effects) /\ sup'.batch = sup.batch
        /\ (Posted \/ NotPosted(poll.at = "post")) /\ UNCHANGED <<sink, blockedMark>> /\ SupRest
    BY <1>17, RunSendMakes DEF markVars
  <2>2. drift \subseteq drift' /\ turnState'.blocked = turnState.blocked
    BY <1>17, RunSendMakes, DriftsMore DEF Posted, NotPosted
  <2>3. Few(sup'.effects, turnState) /\ (Publishes(sup'.effects) <=> Publishes(sup.effects))
    BY <2>1, TailOfActs DEF Marked
  <2>4. Few(sup'.effects, turnState')
    BY <2>2, <2>3 DEF Few
  <2>5. sup'.batch = sup.batch /\ UNCHANGED <<sink, blockedMark>> /\ poll'.batch = poll.batch
    BY <1>17, RunSendMakes DEF markVars, SupRest
  <2> QED
    BY <2>2, <2>3, <2>4, <2>5, MarksStay
<1>18. CASE TakeEvents
  <2>1. /\ sup.effects = <<>> /\ sup'.effects = <<>> /\ sup.batch = <<>> /\ sup'.batch = sink /\ sink' = <<>>
        /\ Drifts("overtaken", sink # <<>> /\ HasMark(poll.batch))
        /\ UNCHANGED <<turnState, blockedMark>> /\ SupRest
    BY <1>18, TakeEventsMakes
  <2>2. Marks' = Marks
    BY <2>1, EmptyMarks DEF Marks, SupRest
  <2>3. "overtaken" \notin drift' => "overtaken" \notin drift /\ (HasMark(poll.batch) => sink = <<>>)
    BY <2>1 DEF Drifts
  <2> QED
    BY <2>1, <2>2, <2>3, EmptyMarks DEF Marked, SupRest
<1>19. CASE ApplyEvents
  <2>1. /\ sup.effects = <<>> /\ sup'.effects = <<>> /\ sup'.batch = <<>>
        /\ blockedMark' = MarkAfter(blockedMark, sup.batch) /\ UNCHANGED <<turnState, sink, drift>> /\ SupRest
    BY <1>19, ApplyEventsMakes DEF pastVars
  <2>2. Marks' = MarkAfter(MarkAfter(MarkAfter(blockedMark, sup.batch), poll.batch), sink)
    BY <2>1, EmptyMarks DEF Marks, SupRest
  <2>3. "overtaken" \notin drift => Marks' = Marks
    <3>1. "overtaken" \notin drift => ~ HasMark(poll.batch) \/ ~ HasMark(sup.batch)
      BY DEF Marked
    <3> QED
      BY <2>2, <3>1, NoMark DEF Marks
  <2> QED
    BY <2>1, <2>3, EmptyMarks DEF Marked, SupRest
<1> QED
  BY <1>2, <1>3, <1>4, <1>5, <1>6, <1>7, <1>8, <1>9, <1>10, <1>11, <1>12, <1>13, <1>14, <1>15, <1>16, <1>17, <1>18, <1>19
  DEF Supervise

LEMMA MarkedStep ==
  ASSUME Typed, Marked, OcNext
  PROVE  Marked'
  BY MarkedOutside, MarkedSupervised, MarkedPolled DEF OcNext

(***************************************************************************)
(* The ends: while what the server has is not settled, a turn is in        *)
(* flight, unless one of the limits was met.                               *)
(***************************************************************************)
Plain == drift \subseteq {"overtaken"}
Due == Busy \/ poll.at = "post" \/ Sends(sup.effects)
\* Ends that no turn has had.
Late == {u \in Ends : u[2].no > session.ends}
InTime ==
  /\ Plain /\ Due => turnState.inFlight
  /\ Plain /\ seen # session.ends => turnState.inFlight
  /\ seen <= session.ends /\ session.result.no <= session.ends
  /\ Never(Coming, Late)

LEMMA TimeTypes ==
  ASSUME Typed
  PROVE  /\ seen \in Nat /\ session.ends \in Nat /\ session.result.no \in Nat
         /\ turnState.inFlight \in BOOLEAN
<1>1. /\ seen \in Nat /\ session.ends \in Nat /\ session.result \in Results \cup {NoResult}
      /\ turnState.inFlight \in BOOLEAN
  <2> HIDE DEF Results
  <2> QED
    BY DEF Typed, OcTypes, OutsideTypes, HostTypes, Sessions, TurnStates
<1>2. \A r \in Results \cup {NoResult} : r.no \in Nat
  BY DEF Results, NoResult
<1> QED
  BY <1>1, <1>2

LEMMA EndIs == \A u \in Ends : u[1] = "ended" /\ u[2] \in Results /\ u[2].no \in Nat
<1> TAKE u \in Ends
<1>1. u[1] = "ended" /\ u[2] \in Results
  <2> HIDE DEF Results
  <2> QED
    BY DEF Ends
<1>2. \A r \in Results : r.no \in Nat
  BY DEF Results
<1> QED
  BY <1>1, <1>2

LEMMA LateFewer ==
  ASSUME Typed, session'.ends \in Nat, session'.ends >= session.ends, NEW s, Never(s, Late)
  PROVE  Never(s, Late')
<1>1. Late' \subseteq Late
  BY TimeTypes, EndIs DEF Late
<1> QED
  BY <1>1 DEF Never

LEMMA LateEmits ==
  ASSUME Typed, Never(Coming, Late), NEW u \in Updates, Emits(u), u \notin Late', sup' = sup,
         session'.ends \in Nat, session'.ends >= session.ends
  PROVE  Never(Coming, Late)'
<1>1. Never(Coming, Late')
  BY LateFewer
<1> DEFINE K == Late'
<1>2. Never(Coming, K) /\ u \notin K
  BY <1>1
<1> HIDE DEF K
<1>3. CASE link = "open"
  <2>1. Coming' = Append(Coming, u) /\ Coming \in Seq(Updates)
    BY <1>3, ComingEmits, ComingTypes
  <2>2. Never(Append(Coming, u), K) <=> Never(Coming, K) /\ u \notin K
    BY <2>1, SaidNext
  <2> QED
    BY <1>2, <2>1, <2>2 DEF K
<1>4. CASE link # "open"
  <2>1. Coming' = Coming
    BY <1>4, SameComing DEF Emits
  <2> QED
    BY <1>1, <2>1
<1> QED
  BY <1>3, <1>4

\* Nothing new is to be done, and no turn ends.
LEMMA TimeStays ==
  ASSUME InTime, drift \subseteq drift', Due' => Due, turnState.inFlight => turnState'.inFlight,
         session'.ends = session.ends, seen' = seen, session'.result.no <= session.ends,
         Never(Coming, Late)'
  PROVE  InTime'
<1>1. Plain' => Plain
  BY DEF Plain
<1> QED
  BY <1>1 DEF InTime

\* A turn ends, and the host has it in flight.
LEMMA TimeFinished ==
  ASSUME Typed, InTime, NEW end \in {"succeeded", "transient", "failed", "interrupted"}, Finishes(end), session.run # None,
         UNCHANGED <<sup, turnState, drift, seen>>
  PROVE  InTime'
<1> DEFINE r == session'.result
           u == <<"ended", r>>
<1>1. r \in Results /\ r.no = session.ends + 1 /\ session'.ends = session.ends + 1 /\ Emits(u)
  BY DEF Finishes
<1> HIDE DEF r
<1>2. u \in Updates
  <2> HIDE DEF Results
  <2> QED
    BY <1>1 DEF Updates, Ends
<1>3. u[2] = r
  OBVIOUS
<1> HIDE DEF u
<1>4. seen \in Nat /\ session.ends \in Nat
  BY TimeTypes
<1>5. u \notin Late'
  BY <1>1, <1>3, <1>4 DEF Late
<1>6. Never(Coming, Late)'
  BY <1>1, <1>2, <1>4, <1>5, LateEmits DEF InTime
<1>7. Plain' => turnState'.inFlight
  BY DEF InTime, Plain, Due, Busy
<1>8. seen' <= session'.ends /\ session'.result.no <= session'.ends
  BY <1>1, <1>4 DEF InTime, r
<1> QED
  BY <1>6, <1>7, <1>8 DEF InTime

\* The server loses what it had: that counts as an end if it had something.
LEMMA TimeLost ==
  ASSUME Typed, InTime, LostSession, UNCHANGED <<turnState, drift, seen, poll>>,
         ~ Sends(sup'.effects) \/ sup'.effects = sup.effects, Coming' = Coming
  PROVE  InTime'
<1>1. /\ session'.run = None /\ session'.queue = <<>> /\ session'.result = NoResult /\ session'.ends \in Nat
      /\ session'.ends >= session.ends /\ (~ Busy => session'.ends = session.ends)
  BY DEF LostSession
<1>2. seen \in Nat /\ session.ends \in Nat
  BY TimeTypes
<1>3. ~ Busy'
  BY <1>1 DEF Busy
<1>4. Never(Coming, Late)'
  BY <1>1, LateFewer DEF InTime
<1>5. Plain' /\ Due' => turnState'.inFlight
  BY <1>3 DEF InTime, Plain, Due
<1>6. Plain' /\ seen' # session'.ends => turnState'.inFlight
  BY <1>1 DEF InTime, Plain, Due
<1>7. seen' <= session'.ends /\ session'.result.no <= session'.ends
  BY <1>1, <1>2 DEF InTime, NoResult
<1> QED
  BY <1>4, <1>5, <1>6, <1>7 DEF InTime

LEMMA NotLate == Started \notin Late /\ \A a : <<"blocked", a>> \notin Late /\ <<"unblocked", a>> \notin Late
<1>1. Late \subseteq Ends
  BY DEF Late
<1>2. Started[1] = "started" /\ \A a : <<"blocked", a>>[1] = "blocked" /\ <<"unblocked", a>>[1] = "unblocked"
  BY DEF Started
<1> QED
  BY <1>1, <1>2, EndIs

\* A prompt that is posted, or could not be.
LEMMA TimePosted ==
  ASSUME Typed, InTime, Due, NEW others, Posted \/ NotPosted(others), seen' = seen, feed' = feed,
         sup'.updates = sup.updates, Due' => others \/ Busy'
  PROVE  InTime'
<1>1. Coming' = Coming
  BY SameComing
<1>2. seen \in Nat /\ session.ends \in Nat
  BY TimeTypes
<1>3. session'.ends = session.ends
  BY DEF Posted, NotPosted
<1>4. Late' = Late
  BY <1>3 DEF Late
<1>5. CASE Posted
  <2>1. session'.result.no <= session'.ends /\ seen' <= session'.ends
    BY <1>2, <1>3, <1>5 DEF Posted, InTime, NoResult
  <2>2. Plain' => turnState'.inFlight
    BY <1>5 DEF Posted, InTime, Plain
  <2> QED
    BY <1>1, <1>4, <2>1, <2>2 DEF InTime
<1>6. CASE NotPosted(others)
  <2>1. session' = session /\ (Plain' => ~ others /\ ~ Busy /\ seen = session.ends)
    BY <1>6 DEF NotPosted, Drifts, Plain
  <2>2. Busy' <=> Busy
    BY <2>1 DEF Busy
  <2> QED
    BY <1>1, <1>4, <2>1, <2>2 DEF InTime
<1> QED
  BY <1>5, <1>6

LEMMA TimeOutside ==
  ASSUME Typed, InTime, AgentStep \/ ServerDies \/ StreamBreaks
  PROVE  InTime'
<1>0. /\ UNCHANGED <<turnState, sup, poll, seen, drift>>
      /\ seen \in Nat /\ session.ends \in Nat
  BY TimeTypes DEF AgentStep, StartTurn, JoinTurn, Report, AskPermission, EndTurn, ServerDies, StreamBreaks, Outside
<1>1. ASSUME Busy' => Busy, session'.ends = session.ends, session'.result = session.result,
             feed' = feed \/ \E u \in Updates : Emits(u) /\ u \notin Late
      PROVE  InTime'
  <2>1. Late' = Late
    BY <1>1 DEF Late
  <2>2. Never(Coming, Late)'
    <3>1. CASE feed' = feed
      BY <1>0, <2>1, <3>1, SameComing DEF InTime
    <3>2. CASE \E u \in Updates : Emits(u) /\ u \notin Late
      BY <1>0, <1>1, <2>1, <3>2, LateEmits DEF InTime
    <3> QED
      BY <1>1, <3>1, <3>2
  <2>3. Due' => Due
    BY <1>0, <1>1 DEF Due
  <2>4. session'.result.no <= session.ends
    BY <1>1 DEF InTime
  <2> QED
    BY <1>0, <1>1, <2>2, <2>3, <2>4, TimeStays
<1>2. CASE StartTurn
  BY <1>1, <1>2, StartTurnMakes, StartedUpdate, NotLate DEF Busy
<1>3. CASE JoinTurn
  BY <1>1, <1>3, JoinTurnMakes DEF Busy
<1>4. CASE Report
  BY <1>1, <1>4, ReportMakes DEF Busy
<1>5. CASE AskPermission
  <2>1. \A b \in Nat : <<"blocked", b>> \in Updates
    BY DEF Updates
  <2> QED
    BY <1>1, <1>5, <2>1, AskPermissionMakes, NotLate DEF Busy
<1>6. CASE EndTurn
  BY <1>0, <1>6, EndTurnMakes, TimeFinished
<1>7. CASE ServerDies
  <2>1. LostSession /\ feed' = feed
    BY <1>7, ServerDiesMakes
  <2> QED
    BY <1>0, <2>1, TimeLost, SameComing
<1>8. CASE StreamBreaks
  BY <1>1, <1>8, StreamBreaksMakes DEF Busy
<1> QED
  BY <1>2, <1>3, <1>4, <1>5, <1>6, <1>7, <1>8 DEF AgentStep

LEMMA TimePolled ==
  ASSUME Typed, InTime, Poll
  PROVE  InTime'
<1>0. seen \in Nat /\ session.ends \in Nat /\ session.result.no <= session.ends
  BY TimeTypes DEF InTime
<1>1. ASSUME UNCHANGED <<session, feed, drift>>, Same, turnState.inFlight => turnState'.inFlight, poll'.at # "post"
      PROVE  InTime'
  <2>1. Never(Coming, Late)'
    BY <1>1, SameComing DEF InTime, Same, Late
  <2>2. Due' => Due
    BY <1>1 DEF Due, Busy, Same
  <2> QED
    BY <1>0, <1>1, <2>1, <2>2, TimeStays DEF Same
<1>2. CASE TakePrompt
  BY <1>1, <1>2, TakePromptMakes
<1>3. CASE RequestInterrupt
  BY <1>1, <1>3, RequestInterruptMakes
<1>4. CASE PostInterrupt
  <2>1. UNCHANGED <<turnState, drift>> /\ Same /\ poll'.at # "post"
    BY <1>4, PostInterruptMakes
  <2>2. CASE UNCHANGED <<session, feed>>
    BY <1>1, <2>1, <2>2
  <2>3. CASE session.run # None /\ Finishes("interrupted")
    BY <2>1, <2>3, TimeFinished DEF Same
  <2> QED
    BY <1>4, <2>2, <2>3, PostInterruptMakes
<1>5. CASE DrainSink
  BY <1>1, <1>5, DrainSinkMakes
<1>6. CASE ApplyOwn
  BY <1>1, <1>6, ApplyOwnMakes
<1>7. CASE KeepRequest
  BY <1>1, <1>7, KeepRequestMakes
<1>8. CASE BeginPrompt
  <2>1. turnState'.inFlight /\ UNCHANGED <<session, feed>> /\ Same
    BY <1>8, BeginPromptMakes
  <2>2. Never(Coming, Late)'
    BY <2>1, SameComing DEF InTime, Same, Late
  <2> QED
    BY <2>1, <2>2 DEF InTime, Same
<1>9. CASE PostPrompt
  <2> DEFINE others == Sends(sup.effects)
  <2>1. /\ poll.at = "post" /\ poll'.at = "idle" /\ feed' = feed /\ Same
        /\ Posted \/ NotPosted(others)
    BY <1>9, PostPromptMakes
  <2>2. Due /\ (Due' => others \/ Busy')
    BY <2>1 DEF Due, Same
  <2> HIDE DEF others
  <2> QED
    BY <2>1, <2>2, TimePosted DEF Same
<1>10. CASE TakeReply
  BY <1>1, <1>10, TakeReplyMakes
<1>11. CASE PostReply
  <2>1. UNCHANGED <<turnState, drift>> /\ Same /\ poll'.at # "post"
    BY <1>11, PostReplyMakes
  <2>2. CASE UNCHANGED <<session, feed>>
    BY <1>1, <2>1, <2>2
  <2>3. ASSUME session'.run = session.run, session'.queue = session.queue, session'.ends = session.ends,
               session'.result = session.result, NEW b \in Nat, Emits(<<"unblocked", b>>) \/ feed' = feed
        PROVE  InTime'
    <3>1. Late' = Late
      BY <2>3 DEF Late
    <3>2. <<"unblocked", b>> \in Updates
      BY DEF Updates
    <3>3. Never(Coming, Late)'
      <4>1. CASE feed' = feed
        BY <2>1, <3>1, <4>1, SameComing DEF InTime, Same
      <4>2. CASE Emits(<<"unblocked", b>>)
        <5> DEFINE u == <<"unblocked", b>>
        <5>1. u \in Updates /\ Emits(u) /\ u \notin Late
          BY <3>2, <4>2, NotLate
        <5>2. sup' = sup /\ Never(Coming, Late) /\ session'.ends \in Nat /\ session'.ends >= session.ends
          BY <1>0, <2>1, <2>3 DEF InTime, Same
        <5> HIDE DEF u
        <5> QED
          BY <3>1, <5>1, <5>2, LateEmits
      <4> QED
        BY <2>3, <4>1, <4>2
    <3>4. Due' => Due
      BY <2>1, <2>3 DEF Due, Busy, Same
    <3> QED
      BY <1>0, <2>1, <2>3, <3>3, <3>4, TimeStays DEF Same
  <2> QED
    BY <1>11, <2>2, <2>3, PostReplyMakes
<1> QED
  BY <1>2, <1>3, <1>4, <1>5, <1>6, <1>7, <1>8, <1>9, <1>10, <1>11 DEF Poll

LEMMA ReconcileEnds ==
  ASSUME NEW known \in TurnStates, NEW active \in BOOLEAN, NEW pending \in Some,
         NEW result \in Results \cup {NoResult}
  PROVE  LET r == Reconcile(known, active, pending, result)
         IN  r \in Seq(Updates) /\ Only(r, Ends, {<<"ended", result>>})
<1> DEFINE r == Reconcile(known, active, pending, result)
           over == known.inFlight /\ ~ active /\ result # NoResult
<1>1. /\ r \in Seq(Updates)
      /\ Never(r, Flights) <=> (known.inFlight \/ ~ active) /\ ~ over
      /\ Lasts(r, Flights, Flying(active))
      /\ Only(r, Ends, {<<"ended", result>>})
  BY ReconcileMakes
<1> QED
  BY <1>1

LEMMA TimeRepaired ==
  ASSUME Typed, InTime, NEW known \in TurnStates, NEW active \in BOOLEAN, NEW pending \in Some,
         NEW result \in Results \cup {NoResult}, result.no <= session.ends,
         sup.updates = <<>>, sup'.updates = Reconcile(known, active, pending, result), sup'.effects = <<>>,
         UNCHANGED <<session, feed, turnState, poll, drift, seen>>
  PROVE  InTime'
<1> DEFINE r == Reconcile(known, active, pending, result)
<1>1. r \in Seq(Updates) /\ \A i \in 1..Len(r) : r[i] \in Ends => r[i] = <<"ended", result>>
  <2>1. r \in Seq(Updates) /\ Only(r, Ends, {<<"ended", result>>})
    BY ReconcileEnds
  <2> HIDE DEF r
  <2> QED
    BY <2>1 DEF Only
<1> HIDE DEF r
<1>2. seen \in Nat /\ session.ends \in Nat /\ feed \in Seq(Updates) /\ Coming = feed
  BY TimeTypes, ComingTypes
<1>3. Late' = Late
  BY DEF Late
<1>4. Never(r, Late)
  <2> SUFFICES ASSUME NEW i \in 1..Len(r), r[i] \in Late PROVE FALSE
    BY DEF Never
  <2>1. r[i] \in Ends /\ r[i][2].no > session.ends
    BY DEF Late
  <2>2. r[i][2] = result /\ r[i][2].no \in Nat
    BY <1>1, <2>1, EndIs
  <2> QED
    BY <1>2, <2>1, <2>2
<1>5. Never(r \o feed, Late)
  BY <1>1, <1>2, <1>4, SaidFirst DEF InTime
<1>6. Never(Coming, Late)'
  BY <1>3, <1>5 DEF Coming, r
<1>7. Due' => Due
  BY NoActs DEF Due, Busy
<1> QED
  BY <1>6, <1>7, TimeStays DEF InTime

LEMMA TimeApplied ==
  ASSUME Typed, InTime, Apply
  PROVE  InTime'
<1> DEFINE u == Head(sup.updates)
           p == sup.updates
<1>1. /\ p # <<>> /\ u \in Updates /\ sup'.updates = Tail(p)
      /\ u = Started => turnState'.inFlight /\ ~ Sends(sup'.effects)
      /\ u \in Ends => (turnState'.inFlight <=> Sends(sup'.effects))
      /\ u \notin Flights => turnState'.inFlight = turnState.inFlight /\ ~ Sends(sup'.effects)
      /\ IF u[1] = "ended"
         THEN /\ seen' = IF u[2].no > seen THEN u[2].no ELSE seen
              /\ Drifts("behind", u[2].no # session.ends \/ Busy \/ poll.at = "post")
         ELSE UNCHANGED <<seen, drift>>
      /\ session' = session /\ feed' = feed /\ poll' = poll
  BY ApplyMakes DEF outsideVars, SupRest
<1>2. p \in Seq(Updates) /\ feed \in Seq(Updates) /\ Coming = p \o feed /\ Coming' = Tail(p) \o feed
  BY <1>1, ComingTypes DEF Coming
<1> HIDE DEF u, p
<1>3. seen \in Nat /\ session.ends \in Nat /\ seen <= session.ends
  BY TimeTypes DEF InTime
<1>4. Late' = Late
  BY <1>1 DEF Late
<1>5. u \notin Late /\ Never(Coming, Late)'
  <2>1. Never(p \o feed, Late) <=> Head(p) \notin Late /\ Never(Tail(p) \o feed, Late)
    BY <1>1, <1>2, SaidHead
  <2> QED
    BY <1>2, <1>4, <2>1 DEF InTime, u, p
<1>6. session'.result.no <= session'.ends
  BY <1>1 DEF InTime
<1>7. CASE u \in Ends
  <2>1. u[1] = "ended" /\ u[2].no \in Nat /\ u[2].no <= session.ends
    BY <1>3, <1>5, <1>7, EndIs DEF Late
  <2>2. seen' \in Nat /\ seen' <= session'.ends
    BY <1>1, <1>3, <2>1
  <2>3. Plain' => u[2].no = session.ends /\ ~ Busy /\ poll.at # "post"
    BY <1>1, <2>1 DEF Plain, Drifts
  <2>4. Plain' => seen' = session'.ends
    BY <1>1, <1>3, <2>1, <2>3
  <2>5. Plain' /\ Due' => turnState'.inFlight
    BY <1>1, <1>7, <2>3 DEF Due, Busy
  <2> QED
    BY <1>5, <1>6, <2>2, <2>4, <2>5 DEF InTime
<1>8. CASE u \notin Ends
  <2>1. u[1] # "ended"
    <3>1. u \in {Started} \cup ({"blocked", "unblocked"} \X Nat)
      <4> HIDE DEF Ends, Started
      <4> QED
        BY <1>1, <1>8 DEF Updates
    <3> QED
      BY <3>1 DEF Started
  <2>2. seen' = seen /\ drift' = drift /\ (turnState.inFlight => turnState'.inFlight) /\ ~ Sends(sup'.effects)
    BY <1>1, <1>8, <2>1 DEF Flights
  <2>3. Due' => Due
    BY <1>1, <2>2 DEF Due, Busy
  <2> QED
    BY <1>1, <1>5, <1>6, <2>2, <2>3, TimeStays
<1> QED
  BY <1>7, <1>8

LEMMA TimeSupervised ==
  ASSUME Typed, InTime, Few(sup.effects, turnState), Supervise
  PROVE  InTime'
<1>0. seen \in Nat /\ session.ends \in Nat /\ session.result.no <= session.ends /\ Never(Coming, Late)
  BY TimeTypes DEF InTime
<1>1. ASSUME Coming' = Coming, UNCHANGED <<session, turnState, seen>>, SupRest, drift \subseteq drift',
             Sends(sup'.effects) => Sends(sup.effects)
      PROVE  InTime'
  <2>1. Never(Coming, Late)'
    BY <1>0, <1>1 DEF Late
  <2>2. Due' => Due
    BY <1>1 DEF Due, Busy, SupRest
  <2> QED
    BY <1>0, <1>1, <2>1, <2>2, TimeStays
<1>2. ASSUME sup.updates = <<>>, sup'.updates = <<>>, feed' = feed, sup'.effects = <<>>,
             UNCHANGED <<session, turnState, seen>>, SupRest, drift \subseteq drift'
      PROVE  InTime'
  BY <1>1, <1>2, SameComing, NoActs
<1>3. sup.at \in {"loop", "lose"} => sup.updates = <<>> /\ sup.effects = <<>>
  BY DEF Typed, Shape
<1>4. CASE TakeDead
  <2>1. /\ sup.at = "loop" /\ Has("lose", <<>>, <<>>, <<>>) /\ feed' = <<>>
        /\ UNCHANGED <<session, turnState, pastVars>> /\ SupRest
    BY <1>4, TakeDeadMakes DEF Rests
  <2>2. Coming' = <<>>
    <3>1. <<>> \o <<>> = <<>>
      OBVIOUS
    <3> QED
      BY <2>1, <3>1 DEF Has, Coming
  <2>3. Never(Coming, Late)'
    BY <2>2, NothingSaid
  <2>4. Due' => Due
    BY <2>1, NoActs DEF Due, Busy, Has, SupRest
  <2> QED
    BY <1>0, <2>1, <2>3, <2>4, TimeStays DEF pastVars
<1>5. CASE Unreachable
  <2>1. /\ sup.at = "loop" /\ Has("lose", <<>>, <<>>, <<>>) /\ LostSession
        /\ UNCHANGED <<feed, turnState, seen, drift>> /\ SupRest
    BY <1>5, UnreachableMakes DEF Rests
  <2>2. Coming' = Coming
    BY <1>3, <2>1, SameComing DEF Has
  <2> QED
    BY <1>3, <2>1, <2>2, TimeLost DEF Has, SupRest
<1>6. CASE LoseSessions
  <2>1. /\ sup.at = "lose" /\ server = "none" /\ sup'.updates = <<>> /\ ~ Sends(sup'.effects)
        /\ seen' = (IF turnState.inFlight THEN session.ends ELSE seen)
        /\ Drifts("crossed", poll.at = "post") /\ session' = session /\ feed' = feed /\ SupRest
    BY <1>6, LoseSessionsMakes DEF outsideVars
  <2>2. ~ Busy'
    BY <2>1 DEF Typed, Gone, Busy
  <2>3. Never(Coming, Late)'
    BY <1>0, <1>3, <2>1, SameComing DEF Late
  <2>4. Plain' => Plain /\ poll.at # "post"
    BY <2>1 DEF Drifts, Plain
  <2>5. Plain' => ~ Due'
    BY <2>1, <2>2, <2>4 DEF Due, SupRest
  <2>6. Plain' => seen' = session'.ends
    BY <2>1, <2>4 DEF InTime
  <2>7. seen' <= session'.ends
    BY <1>0, <2>1 DEF InTime
  <2> QED
    BY <1>0, <2>1, <2>3, <2>5, <2>6, <2>7 DEF InTime
<1>7. CASE StartServer
  BY <1>2, <1>3, <1>7, StartServerMakes
<1>8. CASE Connect
  <2>1. /\ sup.at = "loop" /\ Has("active", <<>>, <<>>, <<>>) /\ feed' = <<>>
        /\ UNCHANGED <<session, turnState, pastVars>> /\ SupRest
    BY <1>8, ConnectMakes DEF Rests
  <2>2. Coming' = <<>>
    <3>1. <<>> \o <<>> = <<>>
      OBVIOUS
    <3> QED
      BY <2>1, <3>1 DEF Has, Coming
  <2>3. Never(Coming, Late)'
    BY <2>2, NothingSaid
  <2>4. Due' => Due
    BY <2>1, NoActs DEF Due, Busy, Has, SupRest
  <2> QED
    BY <1>0, <2>1, <2>3, <2>4, TimeStays DEF pastVars
<1>9. CASE ReadFails
  BY <1>2, <1>9, ReadFailsMakes, DriftsMore DEF Rests, Has, outsideVars
<1>10. CASE ReadActive
  BY <1>2, <1>10, ReadActiveMakes DEF Has, outsideVars
<1>11. CASE CloneTurn
  BY <1>2, <1>11, CloneTurnMakes DEF Has, outsideVars, pastVars
<1>12. /\ sup.known \in TurnStates /\ sup.active \in BOOLEAN /\ sup.pending \in Some /\ session.asks \in Some
       /\ session.result \in Results \cup {NoResult} /\ NoResult.no <= session.ends
  <2>1. NoResult.no <= session.ends
    BY <1>0 DEF NoResult
  <2> HIDE DEF Some, TurnStates, Results, NoResult
  <2> QED
    BY <2>1 DEF Typed, OcTypes, OutsideTypes, HostTypes, Sups, Sessions
<1>13. CASE ReadPending
  <2>1. /\ UNCHANGED <<session, feed, turnState, drift, seen>> /\ SupRest /\ sup.updates = <<>> /\ sup'.effects = <<>>
        /\ \/ sup'.updates = <<>>
           \/ sup'.updates = Reconcile(sup.known, sup.active, session.asks, NoResult)
    BY <1>13, ReadPendingMakes DEF outsideVars, markVars
  <2>2. CASE sup'.updates = <<>>
    BY <1>2, <2>1, <2>2
  <2>3. CASE sup'.updates = Reconcile(sup.known, sup.active, session.asks, NoResult)
    <3>1. NoResult \in Results \cup {NoResult}
      OBVIOUS
    <3> QED
      BY <1>12, <2>1, <2>3, <3>1, TimeRepaired DEF SupRest
  <2> QED
    BY <2>1, <2>2, <2>3
<1>14. CASE ReadMessages
  <2>1. /\ UNCHANGED <<session, feed, turnState, drift, seen>> /\ SupRest /\ sup.updates = <<>> /\ sup'.effects = <<>>
        /\ sup'.updates = Reconcile(sup.known, sup.active, sup.pending, session.result)
    BY <1>14, ReadMessagesMakes DEF outsideVars, markVars
  <2> QED
    BY <1>0, <1>12, <2>1, TimeRepaired DEF SupRest
<1>15. CASE Route
  <2>1. /\ sup.updates = <<>> /\ feed # <<>> /\ sup'.updates = <<Head(feed)>> /\ feed' = Tail(feed)
        /\ sup'.effects = <<>> /\ UNCHANGED <<session, turnState, pastVars>> /\ SupRest
    BY <1>15, RouteMakes
  <2> QED
    BY <1>1, <2>1, RouteKeeps, NoActs DEF pastVars
<1>16. CASE Drop
  BY <1>1, <1>16, DropMakes, SameComing DEF pastVars
<1>17. CASE Apply
  BY <1>17, TimeApplied
<1>18. ASSUME sup.effects \in Seq(Acts), sup.effects # <<>>, sup'.effects = Tail(sup.effects)
       PROVE  Sends(sup'.effects) => Sends(sup.effects)
  BY <1>18, TailOfActs
<1>19. CASE RunPublish
  <2>1. /\ sup.effects \in Seq(Acts) /\ sup.effects # <<>> /\ sup'.effects = Tail(sup.effects)
        /\ sup'.updates = sup.updates /\ UNCHANGED <<session, feed, turnState, drift, seen>> /\ SupRest
    BY <1>19, RunPublishMakes DEF outsideVars, pastVars
  <2> QED
    BY <1>1, <1>18, <2>1, SameComing
<1>20. CASE RunClear
  <2>1. /\ sup.effects \in Seq(Acts) /\ sup.effects # <<>> /\ sup'.effects = Tail(sup.effects)
        /\ sup'.updates = sup.updates /\ UNCHANGED <<session, feed, turnState, drift, seen>> /\ SupRest
    BY <1>20, RunClearMakes DEF outsideVars, pastVars
  <2> QED
    BY <1>1, <1>18, <2>1, SameComing
<1>21. CASE RunSend
  <2> DEFINE others == poll.at = "post"
  <2>1. /\ sup.effects \in Seq(Acts) /\ sup.effects # <<>> /\ Head(sup.effects).act = "send"
        /\ sup'.effects = Tail(sup.effects) /\ sup'.updates = sup.updates /\ (Posted \/ NotPosted(others))
        /\ feed' = feed /\ seen' = seen /\ SupRest
    BY <1>21, RunSendMakes
  <2>2. Sends(sup.effects) /\ sup'.effects = <<>>
    BY <2>1, TailOfActs
  <2>3. Due /\ (Due' => others \/ Busy')
    BY <2>1, <2>2, NoActs DEF Due, SupRest
  <2> HIDE DEF others
  <2> QED
    BY <2>1, <2>3, TimePosted
<1>22. CASE TakeEvents
  <2>1. /\ sup.effects = <<>> /\ sup'.effects = <<>> /\ sup'.updates = sup.updates
        /\ drift \subseteq drift' /\ UNCHANGED <<session, feed, turnState, seen>> /\ SupRest
    BY <1>22, TakeEventsMakes, DriftsMore DEF outsideVars
  <2> QED
    BY <1>1, <2>1, SameComing, NoActs
<1>23. CASE ApplyEvents
  <2>1. /\ sup.effects = <<>> /\ sup'.effects = <<>> /\ sup'.updates = sup.updates
        /\ UNCHANGED <<session, feed, turnState, drift, seen>> /\ SupRest
    BY <1>23, ApplyEventsMakes DEF outsideVars, pastVars
  <2> QED
    BY <1>1, <2>1, SameComing, NoActs
<1> QED
  BY <1>4, <1>5, <1>6, <1>7, <1>8, <1>9, <1>10, <1>11, <1>13, <1>14, <1>15, <1>16, <1>17, <1>19, <1>20, <1>21, <1>22, <1>23
  DEF Supervise

LEMMA TimeStep ==
  ASSUME Typed, InTime, Marked, OcNext
  PROVE  InTime'
  BY TimeOutside, TimeSupervised, TimePolled DEF OcNext, Marked

(***************************************************************************)
(* The whole invariant.                                                    *)
(***************************************************************************)
OcInvariant == Typed /\ AsksTold /\ RunInv /\ Marked /\ InTime

LEMMA TypedInit == ASSUME OcInit PROVE Typed
<1>1. Task \in Texts
  BY DEF Texts
<1>2. {} \in Some
  BY SomeTypes
<1>3. <<Task>> \in Seq(Texts)
  BY <1>1
<1>4. NoResult \in Results \cup {NoResult}
  OBVIOUS
<1>5. Default \in TurnStates /\ Default.blocked = {}
  BY DefaultTypes, DefaultIs
<1>6. turnState \in TurnStates /\ turnState.inFlight /\ turnState.blocked = {}
  <2>1. turnState = [Default EXCEPT !.inFlight = TRUE, !.reminded = FALSE, !.retries = 0, !.prompt = Task]
    BY DEF OcInit, Prompted
  <2> HIDE DEF Some, Texts, Default
  <2> QED
    BY <1>1, <1>5, <2>1 DEF TurnStates
<1>7. session \in Sessions
  <2>1. session = [run |-> None, told |-> FALSE, queue |-> <<Task>>, result |-> NoResult,
                   asks |-> {}, asked |-> 0, ends |-> 0]
    BY DEF OcInit
  <2> HIDE DEF Some, Texts, Results, NoResult
  <2> QED
    BY <1>2, <1>3, <1>4, <2>1 DEF Sessions
<1>8. /\ sup \in Sups /\ sup.at = "loop" /\ sup.updates = <<>> /\ sup.effects = <<>> /\ sup.batch = <<>> /\ ~ sup.active
  <2>1. sup = Resting("loop") /\ "loop" \in SupPlaces
    BY DEF OcInit, SupPlaces
  <2>2. Default \in TurnStates /\ {} \in Some /\ <<>> \in Seq(Updates) /\ <<>> \in Seq(Acts) /\ <<>> \in Seq(Events)
    BY <1>2, <1>5, EmptySeq
  <2>3. sup.updates = <<>> /\ sup.effects = <<>> /\ sup.batch = <<>> /\ ~ sup.active /\ sup.at = "loop"
    BY <2>1 DEF Resting
  <2> HIDE DEF Default, Some, SupPlaces
  <2>4. sup \in Sups
    BY <2>1, <2>2 DEF Resting, Sups
  <2> QED
    BY <2>3, <2>4
<1>9. poll \in PollStates /\ poll.at = "idle" /\ poll.batch = <<>>
  BY IdleIs DEF OcInit
<1>10. feed = <<>> /\ sink = <<>> /\ <<>> \in Seq(Updates) /\ <<>> \in Seq(Events)
  BY EmptySeq DEF OcInit
<1>11. OutsideTypes
  BY <1>7, <1>10 DEF OcInit, OutsideTypes
<1>12. HostTypes
  BY <1>2, <1>6, <1>8, <1>9, <1>10 DEF OcInit, HostTypes
<1>13. Texted /\ Shape
  BY <1>8, <1>9 DEF Texted, Shape
<1>14. Gone
  <2>1. server = "alive" /\ session.run = None /\ session.asks = {}
    BY DEF OcInit
  <2> QED
    BY <1>10, <2>1 DEF Gone
<1> QED
  BY <1>11, <1>12, <1>13, <1>14 DEF Typed, OcTypes

LEMMA InvariantInit == ASSUME OcInit PROVE OcInvariant
<1>1. Typed
  BY TypedInit
<1>2. /\ sup.at = "loop" /\ sup.updates = <<>> /\ sup.effects = <<>> /\ sup.batch = <<>> /\ ~ sup.active
  <2>1. sup = Resting("loop") /\ "loop" \in SupPlaces
    BY DEF OcInit, SupPlaces
  <2> QED
    BY <2>1, RestingIs
<1>3. poll.at = "idle" /\ poll.batch = <<>>
  BY IdleIs DEF OcInit
<1>4. feed = <<>> /\ sink = <<>> /\ blockedMark = {} /\ drift = {} /\ seen = 0
  BY DEF OcInit
<1>5. /\ session.run = None /\ session.queue = <<Task>> /\ session.asks = {} /\ session.ends = 0
      /\ session.result = NoResult
  <2>1. session = [run |-> None, told |-> FALSE, queue |-> <<Task>>, result |-> NoResult,
                   asks |-> {}, asked |-> 0, ends |-> 0]
    BY DEF OcInit
  <2> HIDE DEF NoResult
  <2> QED
    BY <2>1
<1>6. turnState.inFlight /\ turnState.blocked = {}
  <2>1. turnState = [Default EXCEPT !.inFlight = TRUE, !.reminded = FALSE, !.retries = 0, !.prompt = Task]
    BY DEF OcInit, Prompted
  <2> QED
    BY <2>1 DEF Default
<1>7. Coming = <<>>
  <2>1. <<>> \o <<>> = <<>>
    OBVIOUS
  <2> QED
    BY <1>2, <1>4, <2>1 DEF Coming
<1>8. \A K, L : Never(Coming, K) /\ Lasts(Coming, K, L)
  BY <1>7, NothingSaid
<1>9. session.queue # <<>>
  BY <1>5
<1>10. AsksTold
  BY <1>2, <1>5, <1>6, <1>8 DEF AsksTold, AskTold, SaysAsks, Reading
<1>11. RunInv
  <2>1. Work /\ ~ Runs
    BY <1>5, <1>9 DEF Work, Runs
  <2>2. RunTold
    BY <1>2, <1>8, <2>1 DEF RunTold, Flown, Waited
  <2>3. ~ Unused
    BY <1>9 DEF Unused
  <2> QED
    BY <2>2, <2>3 DEF RunInv, Fresh
<1>12. Marked
  <2>1. Marks = {}
    BY <1>2, <1>3, <1>4, EmptyMarks DEF Marks
  <2> QED
    BY <1>2, <1>4, <1>6, <2>1, NoActs, EmptyMarks DEF Marked
<1>13. InTime
  <2>1. NoResult.no = 0
    BY DEF NoResult
  <2> QED
    BY <1>4, <1>5, <1>6, <1>8, <2>1 DEF InTime
<1> QED
  BY <1>1, <1>10, <1>11, <1>12, <1>13 DEF OcInvariant

LEMMA InvariantStep == ASSUME OcInvariant, [OcNext]_ocVars PROVE OcInvariant'
<1>1. CASE OcNext
  BY <1>1, TypedStep, AsksStep, RunStep, MarkedStep, TimeStep DEF OcInvariant
<1>2. CASE UNCHANGED ocVars
  <2>1. UNCHANGED <<server, session, link, feed, turnState, sink, reportedMark, blockedMark>>
    BY <1>2 DEF ocVars, outsideVars, markVars
  <2>2. UNCHANGED <<sup, poll, replies, seen, drift, faultsLeft>>
    BY <1>2 DEF ocVars, pastVars
  <2>3. Typed'
    BY <2>1, <2>2 DEF OcInvariant, Typed, OcTypes, OutsideTypes, HostTypes, Texted, Shape, Gone
  <2>4. Coming' = Coming /\ (Sees' <=> Sees) /\ (Reading' <=> Reading) /\ (Runs' <=> Runs) /\ (Busy' <=> Busy)
    BY <2>1, <2>2 DEF Coming, Sees, Reading, Runs, Busy
  <2>5. AsksTold'
    <3> SUFFICES ASSUME NEW a \in Nat PROVE AskTold(a)'
      BY DEF AsksTold
    <3>1. AskTold(a)
      BY DEF OcInvariant, AsksTold
    <3> QED
      BY <2>1, <2>2, <2>4, <3>1 DEF AskTold, SaysAsks
  <2>6. RunInv'
    BY <2>1, <2>2, <2>4 DEF OcInvariant, RunInv, RunTold, Fresh, Unused, Clear, Flown, Waited, Work
  <2>7. Marked'
    BY <2>1, <2>2 DEF OcInvariant, Marked, Marks, Few
  <2>8. InTime'
    BY <2>1, <2>2, <2>4 DEF OcInvariant, InTime, Plain, Due, Late
  <2> QED
    BY <2>3, <2>5, <2>6, <2>7, <2>8 DEF OcInvariant
<1> QED
  BY <1>1, <1>2

LEMMA Follows == OcInvariant => FollowsServer
<1> SUFFICES ASSUME OcInvariant, Quiet
             PROVE  /\ drift \cap {"blind", "failed"} = {} => (turnState.inFlight <=> session.run # None)
                    /\ "blind" \notin drift => turnState.blocked = session.asks
                    /\ drift \cap {"blind", "overtaken"} = {} => blockedMark = session.asks
                    /\ session.run = None /\ drift \subseteq {"overtaken"} => seen = session.ends
  BY DEF FollowsServer
<1>1. /\ sup.at = "loop" /\ server = "alive" /\ link = "open" /\ feed = <<>> /\ sink = <<>>
      /\ poll.at = "idle" /\ session.queue = <<>>
  BY DEF Quiet, At, Polls
<1>2. /\ sup.updates = <<>> /\ sup.effects = <<>> /\ sup.batch = <<>> /\ poll.batch = <<>>
      /\ turnState.blocked \in Some /\ session.asks \in Some /\ turnState.inFlight \in BOOLEAN
  <2>1. Typed
    BY DEF OcInvariant
  <2>2. sup.updates = <<>> /\ sup.effects = <<>> /\ sup.batch = <<>> /\ poll.batch = <<>>
    BY <1>1, <2>1 DEF Typed, Shape
  <2> HIDE DEF Some
  <2> QED
    BY <2>1, <2>2 DEF Typed, OcTypes, OutsideTypes, HostTypes, TurnStates, Sessions
<1>3. \A K : Never(Coming, K)
  <2>1. <<>> \o <<>> = <<>>
    OBVIOUS
  <2> QED
    BY <1>1, <1>2, <2>1, NothingSaid DEF Coming
<1>4. ASSUME drift \cap {"blind", "failed"} = {} PROVE turnState.inFlight <=> session.run # None
  <2>1. Clear /\ ~ Reading
    BY <1>1, <1>4 DEF Clear, Sees, Reading
  <2>2. ~ Work
    BY <1>1, <1>2, NoActs DEF Work
  <2> QED
    BY <1>2, <1>3, <2>1, <2>2 DEF OcInvariant, RunInv, RunTold, Flown, Waited, Runs
<1>5. ASSUME "blind" \notin drift PROVE turnState.blocked = session.asks
  <2>1. \A a \in Nat : a \in turnState.blocked <=> a \in session.asks
    BY <1>1, <1>3, <1>5 DEF OcInvariant, AsksTold, AskTold, Sees, Reading
  <2>2. turnState.blocked \subseteq Nat /\ session.asks \subseteq Nat
    BY <1>2 DEF Some
  <2> QED
    BY <2>1, <2>2
<1>6. ASSUME drift \cap {"blind", "overtaken"} = {} PROVE blockedMark = session.asks
  <2>1. Marks = turnState.blocked
    BY <1>2, <1>6, NoActs DEF OcInvariant, Marked
  <2>2. Marks = blockedMark
    BY <1>1, <1>2, EmptyMarks DEF Marks
  <2> QED
    BY <1>5, <1>6, <2>1, <2>2
<1>7. ASSUME session.run = None, drift \subseteq {"overtaken"} PROVE seen = session.ends
  <2>1. ~ turnState.inFlight
    BY <1>4, <1>7
  <2> QED
    BY <1>7, <2>1 DEF OcInvariant, InTime, Plain
<1> QED
  BY <1>4, <1>5, <1>6, <1>7

\* The host of an opencode worker (supervise and poll) ends up with what its
\* server has, for any messages, requests, faults and retries: a stream that
\* broke, a snapshot that was read in parts while turns and requests came and
\* went, a server that died and a prompt posted meanwhile leave no turn, no
\* request and no end unaccounted for, unless one of its known limits was met.
THEOREM HostFollowsServer == OcSpec => []FollowsServer
<1>1. OcInit => OcInvariant
  BY InvariantInit
<1>2. OcInvariant /\ [OcNext]_ocVars => OcInvariant'
  BY InvariantStep
<1>3. OcInvariant => FollowsServer
  BY Follows
<1> QED
  BY <1>1, <1>2, <1>3, PTL DEF OcSpec
=============================================================================
