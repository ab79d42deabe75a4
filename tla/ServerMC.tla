------------------------------- MODULE ServerMC -------------------------------
(***************************************************************************)
(* Small instances of two parts of the server that share no state: the     *)
(* wait queue and the dynamic modules.  A behaviour shows one of them, the *)
(* other rests.                                                            *)
(***************************************************************************)
EXTENDS WaitQueue, DmApp, TLC

VARIABLE part

serverVars == <<waitVars, dmVars, part>>

ServerInit == part \in {"wait", "dm"} /\ WaitInit /\ DmInit

ServerNext ==
  /\ UNCHANGED part
  /\ \/ part = "wait" /\ WaitNext /\ UNCHANGED dmVars
     \/ part = "dm" /\ DmNext /\ UNCHANGED waitVars

ServerSpec == ServerInit /\ [][ServerNext]_serverVars /\ WaitFairness /\ DmFairness
=============================================================================
