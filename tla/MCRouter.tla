------------------------------ MODULE MCRouter ------------------------------
(* What holds for the routers beside the changes of their files: who may     *)
(* work on one, which node it uses, and what probes say of its nodes.  The   *)
(* three share no state; a behaviour takes the steps of one of them.  One    *)
(* host is called like the renaming of the other.                            *)
EXTENDS RouterLocks, NodeSelect, Probes

MCTags == {"fi", "fi-2", "fi-3", "fi-2-2", "fi-2-3"}
MCLabels == {"fi", "fi-2"}
MCSuffixed ==
  [l \in MCLabels \X (2..3) |->
     IF l[1] = "fi" THEN IF l[2] = 2 THEN "fi-2" ELSE "fi-3"
     ELSE IF l[2] = 2 THEN "fi-2-2" ELSE "fi-2-3"]

VARIABLE part
routerVars == <<part, vars, selectVars, probesVars>>

RouterTypeOK ==
  /\ part \in {"locks", "select", "probes"}
  /\ TypeOK /\ SelectTypeOK /\ ProbesTypeOK

\* The parts that rest start in one state.
RouterInit ==
  /\ part \in {"locks", "select", "probes"}
  /\ Init /\ (part # "locks" => cur = [h \in Handlers |-> CHOOSE r \in Routers : TRUE])
  /\ SelectInit /\ (part # "select" => list = <<"fi">> /\ preferred = NoTag)
  /\ ProbesInit /\ (part # "probes" => have = ProbeNodes)

RouterNext ==
  \/ /\ part = "locks" /\ Next
     /\ UNCHANGED <<part, selectVars, probesVars>>
  \/ /\ part = "select" /\ SelectNext
     /\ UNCHANGED <<part, vars, probesVars>>
  \/ /\ part = "probes" /\ ProbesNext
     /\ UNCHANGED <<part, vars, selectVars>>

\* What the fairness of the locks asks for is never enabled while they rest.
RouterSpec == RouterInit /\ [][RouterNext]_routerVars /\ Fairness
=============================================================================
