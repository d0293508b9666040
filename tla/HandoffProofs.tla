---------------------------- MODULE HandoffProofs ----------------------------
(***************************************************************************)
(* Proofs about Handoff, for any number of replies, crashes and kills.     *)
(***************************************************************************)
EXTENDS Handoff, TLAPS

\* A reply between its lock and its return.
Locked == {"claim", "clear", "place"} \cup Placed
\* A reply that has not placed its answer.
Before == {"idle", "lock", "claim", "clear", "place"}

\* The lock is that of the one reply that is between its lock and its return.
LockIsHeld == \A r \in Replies : pc[r] \in Locked <=> lock = r

\* What the poller of the host does with a claim follows from where it stands.
HostClaims ==
  /\ host = "handling" => claim \in Replies /\ handled[claim] = "no"
  /\ host = "handled" => claim \in Replies /\ handled[claim] # "no"

\* An answer is of a reply that placed it, and it is in one place at a time.
AnswerIsOnce ==
  \A r \in Replies :
    /\ answer = r => handled[r] = "no" /\ claim # r /\ pc[r] \notin Before
    /\ claim = r => pc[r] \notin Before
    /\ handled[r] # "no" => pc[r] \notin Before

\* While a reply waits, the answer in place is its own.
OwnAnswer == \A r \in Replies : pc[r] \in Placed /\ answer # None => answer = r

\* A reply that withdrew its answer: it is nowhere any more.
Withdrawn ==
  \A r \in Replies :
    told[r].is = "notPickedUp" =>
      pc[r] = "done" /\ handled[r] = "no" /\ claim # r /\ answer # r

ReplyDone == \A r \in Replies : told[r].is # "none" => pc[r] = "done"

IInv ==
  TypeOK /\ LockIsHeld /\ HostClaims /\ AnswerIsOnce /\ OwnAnswer /\ Withdrawn /\ ReplyDone

\* Without kills, the files are those of the reply that holds the lock.
OwnFiles ==
  \A r \in Replies :
    /\ answer = r => pc[r] \in {"lookAnswer", "withdraw"}
    /\ pc[r] \in {"clear", "place"} => claim = None
    /\ pc[r] \in Placed => claim \in {None, r}
    /\ pc[r] \in {"place"} \cup Placed /\ error # None =>
         error = r /\ handled[r] = "refused"

\* Without kills, the answer of a reply that waits is somewhere, unless the
\* worker was closed or its host died.
AnswerIsSomewhere ==
  \A r \in Replies :
    pc[r] \in Placed /\ r \notin ended =>
      /\ answer = r \/ claim = r \/ handled[r] # "no"
      /\ pc[r] = "read" => claim # r
      /\ handled[r] = "refused" => error = r

\* Without kills: what the replies that returned were told.
ToldRight ==
  \A r \in Replies :
    /\ told[r].is = "refused" => told[r].of = r /\ handled[r] = "refused"
    /\ told[r].is = "answered" /\ r \notin ended => handled[r] = "answered"

NoKill == kills = 0 => OwnFiles /\ AnswerIsSomewhere /\ ToldRight

-----------------------------------------------------------------------------
LEMMA InvInit == Init => IInv /\ NoKill
  BY HandoffAssumption DEF Init, IInv, TypeOK, Told, Plain, Steps, LockIsHeld, HostClaims,
    AnswerIsOnce, OwnAnswer, Withdrawn, ReplyDone, NoKill, OwnFiles, AnswerIsSomewhere,
    ToldRight, Locked, Placed, Before

LEMMA TypeNext == TypeOK /\ HostClaims /\ [Next]_vars => TypeOK'
<1> SUFFICES ASSUME TypeOK, HostClaims, [Next]_vars PROVE TypeOK'
  OBVIOUS
<1> USE HandoffAssumption DEF TypeOK, Told, Plain, Steps, files, reply, HostClaims
<1>1. CASE UNCHANGED vars
  BY <1>1 DEF vars
<1>2. ASSUME NEW r \in Replies, Start(r) PROVE TypeOK'
  BY <1>2 DEF Start, Goto, Return
<1>3. ASSUME NEW r \in Replies, LockReply(r) PROVE TypeOK'
  BY <1>3 DEF LockReply, Goto, Return
<1>4. ASSUME NEW r \in Replies, AwaitEarlier(r) PROVE TypeOK'
  BY <1>4 DEF AwaitEarlier, Goto, Return
<1>5. ASSUME NEW r \in Replies, ClearError(r) PROVE TypeOK'
  BY <1>5 DEF ClearError, Goto, Return
<1>6. ASSUME NEW r \in Replies, Place(r) PROVE TypeOK'
  BY <1>6 DEF Place, Goto, Return
<1>7. ASSUME NEW r \in Replies, LookAnswer(r) PROVE TypeOK'
  BY <1>7 DEF LookAnswer, Goto, Return
<1>8. ASSUME NEW r \in Replies, LookClaim(r) PROVE TypeOK'
  BY <1>8 DEF LookClaim, Goto, Return
<1>9. ASSUME NEW r \in Replies, Withdraw(r) PROVE TypeOK'
  BY <1>9 DEF Withdraw, Goto, Return
<1>10. ASSUME NEW r \in Replies, TimeoutOutcome(r) PROVE TypeOK'
  BY <1>10 DEF TimeoutOutcome, Goto, Return
<1>11. ASSUME NEW r \in Replies, ReadError(r) PROVE TypeOK'
  BY <1>11 DEF ReadError, Goto, Return
<1>12. ASSUME NEW r \in Replies, Kill(r) PROVE TypeOK'
  BY <1>12 DEF Kill, Return
<1>13. CASE HostTake
  BY <1>13 DEF HostTake
<1>14. CASE HostHandle
  BY <1>14 DEF HostHandle
<1>15. CASE HostDone
  BY <1>15 DEF HostDone
<1>16. CASE HostClose
  BY <1>16 DEF HostClose, Begun
<1>17. CASE HostCrash
  <2>1. crashes' \in 0..MaxCrashes /\ kills' \in 0..MaxKills
    BY <1>17 DEF HostCrash
  <2>2. ended' \subseteq Replies /\ host' = "down" /\ running' = FALSE
    BY <1>17 DEF HostCrash, Begun
  <2> QED
    BY <1>17, <2>1, <2>2 DEF HostCrash
<1>18. CASE HostStart
  BY <1>18 DEF HostStart, Begun
<1> HIDE DEF TypeOK, Told, Plain, Steps, files, reply, HostClaims
<1> QED
  BY <1>1, <1>2, <1>3, <1>4, <1>5, <1>6, <1>7, <1>8, <1>9, <1>10, <1>11, <1>12, <1>13,
    <1>14, <1>15, <1>16, <1>17, <1>18 DEF Next, ReplyStep, HostStep, vars, files, reply

LEMMA LockNext == IInv /\ [Next]_vars => LockIsHeld'
<1> SUFFICES ASSUME IInv, [Next]_vars PROVE LockIsHeld'
  OBVIOUS
<1> USE HandoffAssumption DEF IInv, TypeOK, Told, Plain, Steps, files, reply, LockIsHeld,
      Locked, Placed
<1>1. CASE UNCHANGED <<pc, lock>>
  BY <1>1
<1>2. ASSUME NEW r \in Replies, Start(r) PROVE LockIsHeld'
  BY <1>2 DEF Start, Goto, Return
<1>3. ASSUME NEW r \in Replies, LockReply(r) PROVE LockIsHeld'
  BY <1>3 DEF LockReply, Goto, Return
<1>4. ASSUME NEW r \in Replies, AwaitEarlier(r) PROVE LockIsHeld'
  BY <1>4 DEF AwaitEarlier, Goto, Return
<1>5. ASSUME NEW r \in Replies, ClearError(r) PROVE LockIsHeld'
  BY <1>5 DEF ClearError, Goto, Return
<1>6. ASSUME NEW r \in Replies, Place(r) PROVE LockIsHeld'
  BY <1>6 DEF Place, Goto, Return
<1>7. ASSUME NEW r \in Replies, LookAnswer(r) PROVE LockIsHeld'
  BY <1>7 DEF LookAnswer, Goto, Return
<1>8. ASSUME NEW r \in Replies, LookClaim(r) PROVE LockIsHeld'
  BY <1>8 DEF LookClaim, Goto, Return
<1>9. ASSUME NEW r \in Replies, Withdraw(r) PROVE LockIsHeld'
  BY <1>9 DEF Withdraw, Goto, Return
<1>10. ASSUME NEW r \in Replies, TimeoutOutcome(r) PROVE LockIsHeld'
  BY <1>10 DEF TimeoutOutcome, Goto, Return
<1>11. ASSUME NEW r \in Replies, ReadError(r) PROVE LockIsHeld'
  BY <1>11 DEF ReadError, Goto, Return
<1>12. ASSUME NEW r \in Replies, Kill(r) PROVE LockIsHeld'
  BY <1>12 DEF Kill, Return
<1> HIDE DEF IInv, TypeOK, Told, Plain, Steps, files, reply, LockIsHeld, Locked, Placed
<1> QED
  BY <1>1, <1>2, <1>3, <1>4, <1>5, <1>6, <1>7, <1>8, <1>9, <1>10, <1>11, <1>12 DEF Next,
    ReplyStep, HostStep, vars, files, reply, HostTake, HostHandle, HostDone, HostClose,
    HostCrash, HostStart

LEMMA ClaimsNext == IInv /\ [Next]_vars => HostClaims'
<1> SUFFICES ASSUME IInv, [Next]_vars PROVE HostClaims'
  OBVIOUS
<1> USE HandoffAssumption DEF IInv, TypeOK, Told, Plain, Steps, files, reply, HostClaims,
      AnswerIsOnce
<1>1. CASE UNCHANGED <<host, claim, handled>>
  BY <1>1
<1>2. CASE HostTake
  BY <1>2 DEF HostTake
<1>3. CASE HostHandle
  BY <1>3 DEF HostHandle
<1>4. CASE HostDone
  BY <1>4 DEF HostDone
<1>5. CASE HostClose
  BY <1>5 DEF HostClose, Begun
<1>6. CASE HostCrash
  BY <1>6 DEF HostCrash, Begun
<1>7. CASE HostStart
  BY <1>7 DEF HostStart, Begun
<1> HIDE DEF IInv, TypeOK, Told, Plain, Steps, files, reply, HostClaims, AnswerIsOnce
<1> QED
  BY <1>1, <1>2, <1>3, <1>4, <1>5, <1>6, <1>7 DEF Next, ReplyStep, HostStep, vars, files,
    reply, Start, LockReply, AwaitEarlier, ClearError, Place, LookAnswer, LookClaim,
    Withdraw, TimeoutOutcome, ReadError, Kill, Goto, Return

LEMMA OnceNext == IInv /\ [Next]_vars => AnswerIsOnce'
<1> SUFFICES ASSUME IInv, [Next]_vars PROVE AnswerIsOnce'
  OBVIOUS
<1> USE HandoffAssumption DEF IInv, TypeOK, Told, Plain, Steps, files, reply, HostClaims,
      AnswerIsOnce, LockIsHeld, Before, Locked, Placed
<1>1. CASE UNCHANGED <<pc, answer, claim, handled>>
  BY <1>1
<1>2. ASSUME NEW r \in Replies, Start(r) PROVE AnswerIsOnce'
  BY <1>2 DEF Start, Goto, Return
<1>3. ASSUME NEW r \in Replies, LockReply(r) PROVE AnswerIsOnce'
  BY <1>3 DEF LockReply, Goto, Return
<1>4. ASSUME NEW r \in Replies, AwaitEarlier(r) PROVE AnswerIsOnce'
  BY <1>4 DEF AwaitEarlier, Goto, Return
<1>5. ASSUME NEW r \in Replies, ClearError(r) PROVE AnswerIsOnce'
  BY <1>5 DEF ClearError, Goto, Return
<1>6. ASSUME NEW r \in Replies, Place(r) PROVE AnswerIsOnce'
  BY <1>6 DEF Place, Goto, Return
<1>7. ASSUME NEW r \in Replies, LookAnswer(r) PROVE AnswerIsOnce'
  BY <1>7 DEF LookAnswer, Goto, Return
<1>8. ASSUME NEW r \in Replies, LookClaim(r) PROVE AnswerIsOnce'
  BY <1>8 DEF LookClaim, Goto, Return
<1>9. ASSUME NEW r \in Replies, Withdraw(r) PROVE AnswerIsOnce'
  BY <1>9 DEF Withdraw, Goto, Return
<1>10. ASSUME NEW r \in Replies, TimeoutOutcome(r) PROVE AnswerIsOnce'
  BY <1>10 DEF TimeoutOutcome, Goto, Return
<1>11. ASSUME NEW r \in Replies, ReadError(r) PROVE AnswerIsOnce'
  BY <1>11 DEF ReadError, Goto, Return
<1>12. ASSUME NEW r \in Replies, Kill(r) PROVE AnswerIsOnce'
  BY <1>12 DEF Kill, Return
<1>13. CASE HostTake
  BY <1>13 DEF HostTake
<1>14. CASE HostHandle
  BY <1>14 DEF HostHandle
<1>15. CASE HostDone
  BY <1>15 DEF HostDone
<1>16. CASE HostClose
  BY <1>16 DEF HostClose, Begun
<1>17. CASE HostStart
  BY <1>17 DEF HostStart, Begun
<1> HIDE DEF IInv, TypeOK, Told, Plain, Steps, files, reply, HostClaims, AnswerIsOnce,
      LockIsHeld, Before, Locked, Placed
<1> QED
  BY <1>1, <1>2, <1>3, <1>4, <1>5, <1>6, <1>7, <1>8, <1>9, <1>10, <1>11, <1>12, <1>13,
    <1>14, <1>15, <1>16, <1>17 DEF Next, ReplyStep, HostStep, vars, files, reply, HostCrash

LEMMA OwnAnswerNext == IInv /\ [Next]_vars => OwnAnswer'
<1> SUFFICES ASSUME IInv, [Next]_vars PROVE OwnAnswer'
  OBVIOUS
<1> USE HandoffAssumption DEF IInv, TypeOK, Told, Plain, Steps, files, reply, OwnAnswer,
      LockIsHeld, Locked, Placed
<1>1. CASE UNCHANGED <<pc, answer>>
  BY <1>1
<1>2. ASSUME NEW r \in Replies, Start(r) PROVE OwnAnswer'
  BY <1>2 DEF Start, Goto, Return
<1>3. ASSUME NEW r \in Replies, LockReply(r) PROVE OwnAnswer'
  BY <1>3 DEF LockReply, Goto, Return
<1>4. ASSUME NEW r \in Replies, AwaitEarlier(r) PROVE OwnAnswer'
  BY <1>4 DEF AwaitEarlier, Goto, Return
<1>5. ASSUME NEW r \in Replies, ClearError(r) PROVE OwnAnswer'
  BY <1>5 DEF ClearError, Goto, Return
<1>6. ASSUME NEW r \in Replies, Place(r) PROVE OwnAnswer'
  BY <1>6 DEF Place, Goto, Return
<1>7. ASSUME NEW r \in Replies, LookAnswer(r) PROVE OwnAnswer'
  BY <1>7 DEF LookAnswer, Goto, Return
<1>8. ASSUME NEW r \in Replies, LookClaim(r) PROVE OwnAnswer'
  BY <1>8 DEF LookClaim, Goto, Return
<1>9. ASSUME NEW r \in Replies, Withdraw(r) PROVE OwnAnswer'
  BY <1>9 DEF Withdraw, Goto, Return
<1>10. ASSUME NEW r \in Replies, TimeoutOutcome(r) PROVE OwnAnswer'
  BY <1>10 DEF TimeoutOutcome, Goto, Return
<1>11. ASSUME NEW r \in Replies, ReadError(r) PROVE OwnAnswer'
  BY <1>11 DEF ReadError, Goto, Return
<1>12. ASSUME NEW r \in Replies, Kill(r) PROVE OwnAnswer'
  BY <1>12 DEF Kill, Return
<1>13. CASE HostTake
  BY <1>13 DEF HostTake
<1>14. CASE HostClose
  BY <1>14 DEF HostClose, Begun
<1>15. CASE HostStart
  BY <1>15 DEF HostStart, Begun
<1> HIDE DEF IInv, TypeOK, Told, Plain, Steps, files, reply, OwnAnswer, LockIsHeld, Locked,
      Placed
<1> QED
  BY <1>1, <1>2, <1>3, <1>4, <1>5, <1>6, <1>7, <1>8, <1>9, <1>10, <1>11, <1>12, <1>13,
    <1>14, <1>15 DEF Next, ReplyStep, HostStep, vars, files, reply, HostHandle, HostDone,
    HostCrash

LEMMA WithdrawnNext == IInv /\ [Next]_vars => Withdrawn'
<1> SUFFICES ASSUME IInv, [Next]_vars PROVE Withdrawn'
  OBVIOUS
<1> USE HandoffAssumption DEF IInv, TypeOK, Told, Plain, Steps, files, reply, HostClaims,
      AnswerIsOnce, Before, OwnAnswer, Withdrawn, ReplyDone, Placed
<1>1. CASE UNCHANGED <<pc, told, answer, claim, handled>>
  BY <1>1
<1>2. ASSUME NEW r \in Replies, Start(r) PROVE Withdrawn'
  BY <1>2 DEF Start, Goto, Return
<1>3. ASSUME NEW r \in Replies, LockReply(r) PROVE Withdrawn'
  BY <1>3 DEF LockReply, Goto, Return
<1>4. ASSUME NEW r \in Replies, AwaitEarlier(r) PROVE Withdrawn'
  BY <1>4 DEF AwaitEarlier, Goto, Return
<1>5. ASSUME NEW r \in Replies, ClearError(r) PROVE Withdrawn'
  BY <1>5 DEF ClearError, Goto, Return
<1>6. ASSUME NEW r \in Replies, Place(r) PROVE Withdrawn'
  BY <1>6 DEF Place, Goto, Return
<1>7. ASSUME NEW r \in Replies, LookAnswer(r) PROVE Withdrawn'
  BY <1>7 DEF LookAnswer, Goto, Return
<1>8. ASSUME NEW r \in Replies, LookClaim(r) PROVE Withdrawn'
  BY <1>8 DEF LookClaim, Goto, Return
<1>9. ASSUME NEW r \in Replies, Withdraw(r) PROVE Withdrawn'
  BY <1>9 DEF Withdraw, Goto, Return
<1>10. ASSUME NEW r \in Replies, TimeoutOutcome(r) PROVE Withdrawn'
  BY <1>10 DEF TimeoutOutcome, Goto, Return
<1>11. ASSUME NEW r \in Replies, ReadError(r) PROVE Withdrawn'
  BY <1>11 DEF ReadError, Goto, Return
<1>12. ASSUME NEW r \in Replies, Kill(r) PROVE Withdrawn'
  BY <1>12 DEF Kill, Return
<1>13. CASE HostTake
  BY <1>13 DEF HostTake
<1>14. CASE HostHandle
  BY <1>14 DEF HostHandle
<1>15. CASE HostDone
  BY <1>15 DEF HostDone
<1>16. CASE HostClose
  BY <1>16 DEF HostClose, Begun
<1>17. CASE HostStart
  BY <1>17 DEF HostStart, Begun
<1> HIDE DEF IInv, TypeOK, Told, Plain, Steps, files, reply, HostClaims, AnswerIsOnce,
      Before, OwnAnswer, Withdrawn, ReplyDone, Placed
<1> QED
  BY <1>1, <1>2, <1>3, <1>4, <1>5, <1>6, <1>7, <1>8, <1>9, <1>10, <1>11, <1>12, <1>13,
    <1>14, <1>15, <1>16, <1>17 DEF Next, ReplyStep, HostStep, vars, files, reply, HostCrash

LEMMA DoneNext == IInv /\ [Next]_vars => ReplyDone'
<1> SUFFICES ASSUME IInv, [Next]_vars PROVE ReplyDone'
  OBVIOUS
<1> USE HandoffAssumption DEF IInv, TypeOK, Told, Plain, Steps, files, reply, ReplyDone
<1>1. CASE UNCHANGED <<pc, told>>
  BY <1>1
<1>2. ASSUME NEW r \in Replies, Start(r) PROVE ReplyDone'
  BY <1>2 DEF Start, Goto, Return
<1>3. ASSUME NEW r \in Replies, LockReply(r) PROVE ReplyDone'
  BY <1>3 DEF LockReply, Goto, Return
<1>4. ASSUME NEW r \in Replies, AwaitEarlier(r) PROVE ReplyDone'
  BY <1>4 DEF AwaitEarlier, Goto, Return
<1>5. ASSUME NEW r \in Replies, ClearError(r) PROVE ReplyDone'
  BY <1>5 DEF ClearError, Goto, Return
<1>6. ASSUME NEW r \in Replies, Place(r) PROVE ReplyDone'
  BY <1>6 DEF Place, Goto, Return
<1>7. ASSUME NEW r \in Replies, LookAnswer(r) PROVE ReplyDone'
  BY <1>7 DEF LookAnswer, Goto, Return
<1>8. ASSUME NEW r \in Replies, LookClaim(r) PROVE ReplyDone'
  BY <1>8 DEF LookClaim, Goto, Return
<1>9. ASSUME NEW r \in Replies, Withdraw(r) PROVE ReplyDone'
  BY <1>9 DEF Withdraw, Goto, Return
<1>10. ASSUME NEW r \in Replies, TimeoutOutcome(r) PROVE ReplyDone'
  BY <1>10 DEF TimeoutOutcome, Goto, Return
<1>11. ASSUME NEW r \in Replies, ReadError(r) PROVE ReplyDone'
  BY <1>11 DEF ReadError, Goto, Return
<1>12. ASSUME NEW r \in Replies, Kill(r) PROVE ReplyDone'
  BY <1>12 DEF Kill, Return
<1> HIDE DEF IInv, TypeOK, Told, Plain, Steps, files, reply, ReplyDone
<1> QED
  BY <1>1, <1>2, <1>3, <1>4, <1>5, <1>6, <1>7, <1>8, <1>9, <1>10, <1>11, <1>12 DEF Next,
    ReplyStep, HostStep, vars, files, reply, HostTake, HostHandle, HostDone, HostClose,
    HostCrash, HostStart

LEMMA InvNext == IInv /\ [Next]_vars => IInv'
  BY TypeNext, LockNext, ClaimsNext, OnceNext, OwnAnswerNext, WithdrawnNext, DoneNext DEF IInv

\* A step that kills no reply.
Living ==
  \/ \E r \in Replies : Start(r) \/ ReplyStep(r)
  \/ HostStep \/ HostClose \/ HostCrash \/ HostStart

Alone == OwnFiles /\ AnswerIsSomewhere /\ ToldRight

LEMMA OwnFilesNext == IInv /\ Alone /\ [Living]_vars => OwnFiles'
<1> SUFFICES ASSUME IInv, Alone, [Living]_vars PROVE OwnFiles'
  OBVIOUS
<1> USE HandoffAssumption DEF IInv, TypeOK, Told, Plain, Steps, files, reply, LockIsHeld,
      HostClaims, AnswerIsOnce, OwnAnswer, ReplyDone, Before, Locked, Placed, Alone,
      OwnFiles, AnswerIsSomewhere, ToldRight
<1>1. CASE UNCHANGED <<pc, answer, claim, error, handled>>
  BY <1>1
<1>2. ASSUME NEW r \in Replies, Start(r) PROVE OwnFiles'
  BY <1>2 DEF Start, Goto, Return
<1>3. ASSUME NEW r \in Replies, LockReply(r) PROVE OwnFiles'
  BY <1>3 DEF LockReply, Goto, Return
<1>4. ASSUME NEW r \in Replies, AwaitEarlier(r) PROVE OwnFiles'
  BY <1>4 DEF AwaitEarlier, Goto, Return
<1>5. ASSUME NEW r \in Replies, ClearError(r) PROVE OwnFiles'
  BY <1>5 DEF ClearError, Goto, Return
<1>6. ASSUME NEW r \in Replies, Place(r) PROVE OwnFiles'
  BY <1>6 DEF Place, Goto, Return
<1>7. ASSUME NEW r \in Replies, LookAnswer(r) PROVE OwnFiles'
  BY <1>7 DEF LookAnswer, Goto, Return
<1>8. ASSUME NEW r \in Replies, LookClaim(r) PROVE OwnFiles'
  BY <1>8 DEF LookClaim, Goto, Return
<1>9. ASSUME NEW r \in Replies, Withdraw(r) PROVE OwnFiles'
  BY <1>9 DEF Withdraw, Goto, Return
<1>10. ASSUME NEW r \in Replies, TimeoutOutcome(r) PROVE OwnFiles'
  BY <1>10 DEF TimeoutOutcome, Goto, Return
<1>11. ASSUME NEW r \in Replies, ReadError(r) PROVE OwnFiles'
  BY <1>11 DEF ReadError, Goto, Return
<1>12. CASE HostTake
  BY <1>12 DEF HostTake
<1>13. CASE HostHandle
  BY <1>13 DEF HostHandle
<1>14. CASE HostDone
  BY <1>14 DEF HostDone
<1>15. CASE HostClose
  BY <1>15 DEF HostClose, Begun
<1>16. CASE HostCrash
  BY <1>16 DEF HostCrash, Begun
<1>17. CASE HostStart
  BY <1>17 DEF HostStart, Begun
<1> HIDE DEF IInv, TypeOK, Told, Plain, Steps, files, reply, LockIsHeld, HostClaims,
      AnswerIsOnce, OwnAnswer, ReplyDone, Before, Locked, Placed, Alone, OwnFiles,
      AnswerIsSomewhere, ToldRight
<1> QED
  BY <1>1, <1>2, <1>3, <1>4, <1>5, <1>6, <1>7, <1>8, <1>9, <1>10, <1>11, <1>12, <1>13,
    <1>14, <1>15, <1>16, <1>17 DEF Living, ReplyStep, HostStep, vars, files, reply

LEMMA SomewhereNext == IInv /\ Alone /\ [Living]_vars => AnswerIsSomewhere'
<1> SUFFICES ASSUME IInv, Alone, [Living]_vars PROVE AnswerIsSomewhere'
  OBVIOUS
<1> USE HandoffAssumption DEF IInv, TypeOK, Told, Plain, Steps, files, reply, LockIsHeld,
      HostClaims, AnswerIsOnce, OwnAnswer, ReplyDone, Before, Locked, Placed, Alone,
      OwnFiles, AnswerIsSomewhere, ToldRight
<1>1. CASE UNCHANGED <<pc, answer, claim, error, handled, ended>>
  BY <1>1
<1>2. ASSUME NEW r \in Replies, Start(r) PROVE AnswerIsSomewhere'
  BY <1>2 DEF Start, Goto, Return
<1>3. ASSUME NEW r \in Replies, LockReply(r) PROVE AnswerIsSomewhere'
  BY <1>3 DEF LockReply, Goto, Return
<1>4. ASSUME NEW r \in Replies, AwaitEarlier(r) PROVE AnswerIsSomewhere'
  BY <1>4 DEF AwaitEarlier, Goto, Return
<1>5. ASSUME NEW r \in Replies, ClearError(r) PROVE AnswerIsSomewhere'
  BY <1>5 DEF ClearError, Goto, Return
<1>6. ASSUME NEW r \in Replies, Place(r) PROVE AnswerIsSomewhere'
  BY <1>6 DEF Place, Goto, Return
<1>7. ASSUME NEW r \in Replies, LookAnswer(r) PROVE AnswerIsSomewhere'
  BY <1>7 DEF LookAnswer, Goto, Return
<1>8. ASSUME NEW r \in Replies, LookClaim(r) PROVE AnswerIsSomewhere'
  BY <1>8 DEF LookClaim, Goto, Return
<1>9. ASSUME NEW r \in Replies, Withdraw(r) PROVE AnswerIsSomewhere'
  BY <1>9 DEF Withdraw, Goto, Return
<1>10. ASSUME NEW r \in Replies, TimeoutOutcome(r) PROVE AnswerIsSomewhere'
  BY <1>10 DEF TimeoutOutcome, Goto, Return
<1>11. ASSUME NEW r \in Replies, ReadError(r) PROVE AnswerIsSomewhere'
  BY <1>11 DEF ReadError, Goto, Return
<1>12. CASE HostTake
  BY <1>12 DEF HostTake
<1>13. CASE HostHandle
  BY <1>13 DEF HostHandle
<1>14. CASE HostDone
  BY <1>14 DEF HostDone
<1>15. CASE HostClose
  BY <1>15 DEF HostClose, Begun
<1>16. CASE HostCrash
  BY <1>16 DEF HostCrash, Begun
<1>17. CASE HostStart
  BY <1>17 DEF HostStart, Begun
<1> HIDE DEF IInv, TypeOK, Told, Plain, Steps, files, reply, LockIsHeld, HostClaims,
      AnswerIsOnce, OwnAnswer, ReplyDone, Before, Locked, Placed, Alone, OwnFiles,
      AnswerIsSomewhere, ToldRight
<1> QED
  BY <1>1, <1>2, <1>3, <1>4, <1>5, <1>6, <1>7, <1>8, <1>9, <1>10, <1>11, <1>12, <1>13,
    <1>14, <1>15, <1>16, <1>17 DEF Living, ReplyStep, HostStep, vars, files, reply

LEMMA ToldNext == IInv /\ Alone /\ [Living]_vars => ToldRight'
<1> SUFFICES ASSUME IInv, Alone, [Living]_vars PROVE ToldRight'
  OBVIOUS
<1> USE HandoffAssumption DEF IInv, TypeOK, Told, Plain, Steps, files, reply, LockIsHeld,
      HostClaims, AnswerIsOnce, OwnAnswer, ReplyDone, Before, Locked, Placed, Alone,
      OwnFiles, AnswerIsSomewhere, ToldRight
<1>1. CASE UNCHANGED <<told, handled, ended>>
  BY <1>1
<1>2. ASSUME NEW r \in Replies, Start(r) PROVE ToldRight'
  BY <1>2 DEF Start, Goto, Return
<1>3. ASSUME NEW r \in Replies, LockReply(r) PROVE ToldRight'
  BY <1>3 DEF LockReply, Goto, Return
<1>4. ASSUME NEW r \in Replies, AwaitEarlier(r) PROVE ToldRight'
  BY <1>4 DEF AwaitEarlier, Goto, Return
<1>5. ASSUME NEW r \in Replies, ClearError(r) PROVE ToldRight'
  BY <1>5 DEF ClearError, Goto, Return
<1>6. ASSUME NEW r \in Replies, Place(r) PROVE ToldRight'
  BY <1>6 DEF Place, Goto, Return
<1>7. ASSUME NEW r \in Replies, LookAnswer(r) PROVE ToldRight'
  BY <1>7 DEF LookAnswer, Goto, Return
<1>8. ASSUME NEW r \in Replies, LookClaim(r) PROVE ToldRight'
  BY <1>8 DEF LookClaim, Goto, Return
<1>9. ASSUME NEW r \in Replies, Withdraw(r) PROVE ToldRight'
  BY <1>9 DEF Withdraw, Goto, Return
<1>10. ASSUME NEW r \in Replies, TimeoutOutcome(r) PROVE ToldRight'
  BY <1>10 DEF TimeoutOutcome, Goto, Return
<1>11. ASSUME NEW r \in Replies, ReadError(r) PROVE ToldRight'
  BY <1>11 DEF ReadError, Goto, Return
<1>12. CASE HostTake
  BY <1>12 DEF HostTake
<1>13. CASE HostHandle
  BY <1>13 DEF HostHandle
<1>14. CASE HostDone
  BY <1>14 DEF HostDone
<1>15. CASE HostClose
  BY <1>15 DEF HostClose, Begun
<1>16. CASE HostCrash
  BY <1>16 DEF HostCrash, Begun
<1>17. CASE HostStart
  BY <1>17 DEF HostStart, Begun
<1> HIDE DEF IInv, TypeOK, Told, Plain, Steps, files, reply, LockIsHeld, HostClaims,
      AnswerIsOnce, OwnAnswer, ReplyDone, Before, Locked, Placed, Alone, OwnFiles,
      AnswerIsSomewhere, ToldRight
<1> QED
  BY <1>1, <1>2, <1>3, <1>4, <1>5, <1>6, <1>7, <1>8, <1>9, <1>10, <1>11, <1>12, <1>13,
    <1>14, <1>15, <1>16, <1>17 DEF Living, ReplyStep, HostStep, vars, files, reply

LEMMA NoKillNext == IInv /\ NoKill /\ [Next]_vars => NoKill'
<1> SUFFICES ASSUME IInv, NoKill, [Next]_vars, kills' = 0 PROVE Alone'
  BY DEF NoKill, Alone
<1>1. kills \in Nat
  BY HandoffAssumption DEF IInv, TypeOK
<1>2. ASSUME NEW r \in Replies, Kill(r) PROVE FALSE
  BY <1>1, <1>2 DEF Kill
<1>3. [Living]_vars
  BY <1>2 DEF Next, Living
<1>4. kills = 0
  BY <1>3 DEF Living, ReplyStep, HostStep, vars, files, reply, Start, LockReply, AwaitEarlier,
    ClearError, Place, LookAnswer, LookClaim, Withdraw, TimeoutOutcome, ReadError, HostTake,
    HostHandle, HostDone, HostClose, HostCrash, HostStart
<1> QED
  BY <1>3, <1>4, OwnFilesNext, SomewhereNext, ToldNext DEF NoKill, Alone

\* The answer of a reply is a file, a claim, or handled, and the steps of
\* workers/reply.rs and take_answer keep their types.
THEOREM Types == Spec => []TypeOK
<1>1. IInv => TypeOK
  BY DEF IInv
<1> QED
  BY InvInit, InvNext, <1>1, PTL DEF Spec

\* workers/reply.rs, "did not pick up ... in time": an answer that its reply
\* withdrew is never acted on.
THEOREM NeverHandled == Spec => []WithdrawnIsNeverHandled
<1>1. IInv => WithdrawnIsNeverHandled
  BY DEF IInv, Withdrawn, WithdrawnIsNeverHandled
<1> QED
  BY InvInit, InvNext, <1>1, PTL DEF Spec

\* AwaitEarlier, ClearError: without a killed reply in between, the refusal a
\* reply reads is that of its own answer.
THEOREM OwnResult == Spec => []OwnRefusal
<1>1. NoKill => OwnRefusal
  BY DEF NoKill, ToldRight, OwnRefusal
<1> QED
  BY InvInit, InvNext, NoKillNext, <1>1, PTL DEF Spec

\* LookAnswer, LookClaim, TimeoutOutcome: the order of the looks and of the
\* renames makes "answered" mean that the host acted.
THEOREM Answered == Spec => []AnsweredWasHandled
<1>1. NoKill => AnsweredWasHandled
  BY DEF NoKill, ToldRight, AnsweredWasHandled
<1> QED
  BY InvInit, InvNext, NoKillNext, <1>1, PTL DEF Spec

\* take_answer: the rename is the only way from the answer to the claim, so the
\* host acts on an answer once at most.
THEOREM Once == Spec => HandledOnce
<1>1. IInv /\ [Next]_vars =>
        [\A r \in Replies : handled[r] # "no" => handled'[r] = handled[r] /\ answer' # r]_vars
  <2> SUFFICES ASSUME IInv, [Next]_vars, NEW r \in Replies, handled[r] # "no"
               PROVE  handled'[r] = handled[r] /\ answer' # r
    OBVIOUS
  <2>1. handled'[r] = handled[r]
    <3>1. CASE HostHandle
      BY <3>1 DEF HostHandle, IInv, TypeOK, HostClaims
    <3> QED
      BY <3>1 DEF Next, ReplyStep, HostStep, vars, files, reply, Start, LockReply,
        AwaitEarlier, ClearError, Place, LookAnswer, LookClaim, Withdraw, TimeoutOutcome,
        ReadError, Kill, HostTake, HostDone, HostClose, HostCrash, HostStart
  <2> QED
    BY <2>1, OnceNext DEF AnswerIsOnce
<1> QED
  BY InvInit, InvNext, <1>1, PTL DEF Spec, HandledOnce
=============================================================================
