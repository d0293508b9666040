------------------------------- MODULE MCChat --------------------------------
(***************************************************************************)
(* Six components of the chat that share no state in this project: the     *)
(* claude host of a worker, the main turn with its session, /send-it, the  *)
(* scheduled tasks, the auto-continue of a worker and the life of a        *)
(* worker.  A behaviour runs one of them, chosen in its first state, and   *)
(* leaves the others there.                                                *)
(***************************************************************************)
EXTENDS ClaudeHost, ChatTurn, SendIt, Schedules, Stall, Workers

CONSTANT Parts

VARIABLE part

OnePrompt == {"p1"}
OneInterrupt == {"i1"}
TheLines == {"m1", "m2"}
OneReport == {"r1"}
ThePlans == {"A", "B"}
TheSteps == [p \in ThePlans |-> IF p = "A" THEN <<"worker", "judge">> ELSE <<"check", "check">>]

partVars == <<part, claudeVars, chatTurnVars, sendItVars, schedVars, stallVars, workerVars>>

PartInit ==
  /\ part \in Parts /\ Init /\ ChatTurnInit /\ SendItInit /\ SchedInit /\ StallInit
  /\ WorkersInit

PartNext ==
  /\ UNCHANGED part
  /\ \/ /\ part = "claude" /\ Next
        /\ UNCHANGED <<chatTurnVars, sendItVars, schedVars, stallVars, workerVars>>
     \/ /\ part = "turn" /\ ChatTurnNext
        /\ UNCHANGED <<claudeVars, sendItVars, schedVars, stallVars, workerVars>>
     \/ /\ part = "send-it" /\ SendItNext
        /\ UNCHANGED <<claudeVars, chatTurnVars, schedVars, stallVars, workerVars>>
     \/ /\ part = "schedule" /\ SchedNext
        /\ UNCHANGED <<claudeVars, chatTurnVars, sendItVars, stallVars, workerVars>>
     \/ /\ part = "stall" /\ StallNext
        /\ UNCHANGED <<claudeVars, chatTurnVars, sendItVars, schedVars, workerVars>>
     \/ /\ part = "workers" /\ WorkersNext
        /\ UNCHANGED <<claudeVars, chatTurnVars, sendItVars, schedVars, stallVars>>

PartSpec == PartInit /\ [][PartNext]_partVars
=============================================================================
