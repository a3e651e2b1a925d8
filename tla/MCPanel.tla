------------------------------- MODULE MCPanel -------------------------------
(* The parts around a change that do not share state: who may ask, what the  *)
(* screens show, and what the owner is told.  A behaviour takes the steps of *)
(* one of them.                                                              *)
EXTENDS Access, Status, Notices

CONSTANT home

MCOps == <<"udp_proxy", "vpn">>

VARIABLE part
panelVars == <<part, accessVars, statusVars, noticesVars>>

TypeOK ==
  /\ part \in {"access", "status", "notices"}
  /\ AccessTypeOK /\ StatusTypeOK /\ NoticesTypeOK

\* The parts that rest start in one state.
Init ==
  /\ part \in {"access", "status", "notices"}
  /\ IF part = "access" THEN AccessInit
     ELSE AccessInit /\ entry = [c \in Clients |-> Nobody] /\ address = [c \in Clients |-> home]
  /\ StatusInit /\ (part # "status" => real = [op \in OpSet |-> TRUE])
  /\ NoticesInit

Next ==
  \/ /\ part = "access" /\ AccessNext
     /\ UNCHANGED <<part, statusVars, noticesVars>>
  \/ /\ part = "status" /\ StatusNext
     /\ UNCHANGED <<part, accessVars, noticesVars>>
  \/ /\ part = "notices" /\ NoticesNext
     /\ UNCHANGED <<part, accessVars, statusVars>>

\* What the fairness of a part asks for is never enabled while the part rests.
Spec ==
  /\ Init /\ [][Next]_panelVars
  /\ WF_accessVars(Tick)
  /\ StatusFairness
  /\ NoticesFairness
=============================================================================
