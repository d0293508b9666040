------------------------------- MODULE MCStore -------------------------------
(***************************************************************************)
(* Four components that share no state in this project: three that live on *)
(* the chat's memory, the naps, the compressed view of the log and the     *)
(* index files; and the host of an opencode worker.  A behaviour runs one  *)
(* of them, chosen in its first state, and leaves the others there.        *)
(***************************************************************************)
EXTENDS Memory, View, Index, Opencode

CONSTANT StoreParts

VARIABLE part

OneReply == {"more"}
LongPair == {<<"long", "long">>}
Mixed == {<<"long", "short">>, <<"corrupt">>}

storeVars == <<part, vars, shownVars, indexVars, ocVars>>

StoreInit ==
  /\ part \in StoreParts /\ Init /\ ViewInit /\ IndexInit /\ OcInit
  /\ part # "opencode" => link = "none"

\* The host waits for its session, or its supervisor has ended.
OcRests == (Quiet \/ At("gaveUp")) /\ UNCHANGED ocVars

StoreNext ==
  /\ UNCHANGED part
  /\ \/ part = "naps" /\ Next /\ UNCHANGED <<shownVars, indexVars, ocVars>>
     \/ part = "view" /\ ViewNext /\ UNCHANGED <<vars, indexVars, ocVars>>
     \/ part = "index" /\ IndexNext /\ UNCHANGED <<vars, shownVars, ocVars>>
     \/ part = "opencode" /\ (OcNext \/ OcRests) /\ UNCHANGED <<vars, shownVars, indexVars>>

StoreSpec == StoreInit /\ [][StoreNext]_storeVars

\* The fairness of the naps, for behaviours of that part.
FairStoreSpec == StoreSpec /\ Fairness
=============================================================================
