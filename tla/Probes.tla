------------------------------- MODULE Probes -------------------------------
(***************************************************************************)
(* Probes of the nodes of a router: CheckHealth (internal/router/          *)
(* service.go) and measureNodes (cmd/rt-server/sync.go) run the script of  *)
(* probe.go once for each node.                                            *)
(*                                                                         *)
(* handleCheck takes no lock, so that scripts overlap on the router.  They *)
(* share one port and one file, and each first ends the others' xray.  A   *)
(* kill is a signal: an xray that listens goes on doing so for a while.  A *)
(* step here is a line of the script.  The steps of a script whose         *)
(* connection was lost go on without anybody to hear the answer.           *)
(***************************************************************************)
EXTENDS Naturals, FiniteSets

CONSTANTS
  Probers,  \* scripts that run at the same time
  ProbeNodes,
  Works,    \* those that work
  NoNode    \* no file; what an xray answers whose node is not configured

ASSUME ProbesAssumption == Works \subseteq ProbeNodes /\ NoNode \notin ProbeNodes

VARIABLES
  have,     \* nodes configured on the router
  file,     \* the node that probeFile names
  xray,     \* probe processes
  dying,    \* those that were told to end and still listen
  probe,    \* the script of each prober
  killed    \* history: a script was ended before its cleaning up

probesVars == <<have, file, xray, dying, probe, killed>>

Xrays == [by : Probers, node : ProbeNodes \cup {NoNode}, bound : BOOLEAN]

\* todo: tags still to probe.  History: alone, nobody else has probed and the
\* configuration has not changed since this script began; clear, besides no xray
\* of an earlier script still listened when it started its own.
IdleProbe == [at |-> "idle", node |-> NoNode, todo |-> {}, said |-> FALSE,
              alone |-> FALSE, clear |-> FALSE]

ProbesTypeOK ==
  /\ have \in SUBSET ProbeNodes \ {{}}
  /\ file \in ProbeNodes \cup {NoNode}
  /\ xray \subseteq Xrays
  /\ dying \subseteq Xrays
  /\ probe \in [Probers -> [at : {"idle", "kill", "write", "run", "wait", "ask", "clean"},
                            node : ProbeNodes \cup {NoNode}, todo : SUBSET ProbeNodes,
                            said : BOOLEAN, alone : BOOLEAN, clear : BOOLEAN]]
  /\ killed \in BOOLEAN
  /\ Cardinality({x \in xray \cup dying : x.bound}) <= 1

ProbesInit ==
  /\ have \in SUBSET ProbeNodes \ {{}}
  /\ file = NoNode
  /\ xray = {}
  /\ dying = {}
  /\ probe = [p \in Probers |-> IdleProbe]
  /\ killed = FALSE

Others(p) == Probers \ {p}
Met(p) == [probe[p] EXCEPT !.alone = FALSE, !.clear = FALSE]
AllIdle(P) == \A p \in P : probe[p].at = "idle"

-----------------------------------------------------------------------------
\* NodeTags: the nodes to go through.
Begin(p) ==
  /\ probe[p].at = "idle"
  /\ probe' = [probe EXCEPT ![p] = [IdleProbe EXCEPT !.at = "kill", !.todo = have]]
  /\ UNCHANGED <<have, file, xray, dying, killed>>

\* Mutant of KillOthers: what runs is left alone.
KillNobody(p) ==
  /\ probe[p].at = "kill"
  /\ \E n \in probe[p].todo :
       probe' = [q \in Probers |->
         IF q = p THEN [probe[p] EXCEPT !.at = "write", !.node = n, !.todo = @ \ {n},
                                        !.alone = AllIdle(Others(p))]
         ELSE Met(q)]
  /\ UNCHANGED <<have, file, xray, dying, killed>>

\* The first line of the script, for the next node: a signal to whatever runs.
KillOthers(p) ==
  /\ probe[p].at = "kill"
  /\ \E n \in probe[p].todo :
       probe' = [q \in Probers |->
         IF q = p THEN [probe[p] EXCEPT !.at = "write", !.node = n, !.todo = @ \ {n},
                                        !.alone = AllIdle(Others(p))]
         ELSE Met(q)]
  /\ dying' = dying \cup {x \in xray : x.bound}
  /\ xray' = {}
  /\ UNCHANGED <<have, file, killed>>

Steps(p, at) == probe' = [probe EXCEPT ![p].at = at]

WriteFile(p) ==
  /\ probe[p].at = "write"
  /\ file' = probe[p].node
  /\ Steps(p, "run")
  /\ UNCHANGED <<have, xray, dying, killed>>

\* xray reads the file and the outbounds; without the file it does not start.
RunXray(p) ==
  /\ probe[p].at = "run"
  /\ LET node == IF file \in have THEN file ELSE NoNode
     IN  xray' = IF file = NoNode THEN xray
                 ELSE xray \cup {[by |-> p, node |-> node, bound |-> FALSE]}
  /\ probe' = [probe EXCEPT ![p].at = "wait", ![p].clear = (probe[p].alone /\ dying = {})]
  /\ UNCHANGED <<have, file, dying, killed>>

\* It listens, or ends because another one does.
BindPort(p) ==
  /\ \E x \in xray :
       /\ x.by = p /\ ~x.bound
       /\ xray' = (xray \ {x}) \cup
            (IF \E y \in xray \cup dying : y.bound THEN {} ELSE {[x EXCEPT !.bound = TRUE]})
  /\ UNCHANGED <<have, file, dying, probe, killed>>

\* The signal has done its work.
XrayEnds ==
  /\ \E x \in dying : dying' = dying \ {x}
  /\ UNCHANGED <<have, file, xray, probe, killed>>

\* The script waits until somebody listens, and no longer than six seconds.
WaitForPort(p) ==
  /\ probe[p].at = "wait"
  /\ Steps(p, "ask")
  /\ UNCHANGED <<have, file, xray, dying, killed>>

\* Whoever listens answers, an xray that is about to end included.
AskNode(p) ==
  /\ probe[p].at = "ask"
  /\ probe' = [probe EXCEPT ![p].at = "clean",
                            ![p].said = \E x \in xray \cup dying : x.bound /\ x.node \in Works]
  /\ UNCHANGED <<have, file, xray, dying, killed>>

\* The next node, or the end of the check.
Remaining(p) ==
  IF probe[p].todo = {} THEN IdleProbe
  ELSE [IdleProbe EXCEPT !.at = "kill", !.todo = probe[p].todo]

\* Mutant of CleanUp: only the files are removed.
CleanUpFiles(p) ==
  /\ probe[p].at = "clean"
  /\ file' = NoNode
  /\ probe' = [probe EXCEPT ![p] = Remaining(p)]
  /\ killed' = (killed /\ ~probe[p].alone)
  /\ UNCHANGED <<have, xray, dying>>

CleanUp(p) ==
  /\ probe[p].at = "clean"
  /\ dying' = dying \cup {x \in xray : x.by = p /\ x.bound}
  /\ xray' = {x \in xray : x.by # p}
  /\ file' = NoNode
  /\ probe' = [probe EXCEPT ![p] = Remaining(p)]
  /\ killed' = (killed /\ ~probe[p].alone)
  /\ UNCHANGED have

\* The router ends a script for want of memory; its xray and its file stay.
ScriptKilled(p) ==
  /\ probe[p].at \in {"write", "run", "wait", "ask", "clean"}
  /\ probe' = [probe EXCEPT ![p] = IdleProbe]
  /\ killed' = TRUE
  /\ UNCHANGED <<have, file, xray, dying>>

-----------------------------------------------------------------------------
\* A synchronisation replaces the nodes in the meantime.
NodesReplaced ==
  /\ have' \in SUBSET ProbeNodes \ {{}, have}
  /\ probe' = [p \in Probers |-> Met(p)]
  /\ UNCHANGED <<file, xray, dying, killed>>

ProbesNext ==
  \/ \E p \in Probers :
       \/ Begin(p) \/ KillOthers(p) \/ WriteFile(p) \/ RunXray(p) \/ BindPort(p)
       \/ WaitForPort(p) \/ AskNode(p) \/ CleanUp(p) \/ ScriptKilled(p)
  \/ XrayEnds \/ NodesReplaced

ProbesSpec == ProbesInit /\ [][ProbesNext]_probesVars

-----------------------------------------------------------------------------
(* Properties.                                                             *)

Asked(p) == probe[p].at = "ask" /\ probe'[p].at = "clean"

\* A probe that no other one meets, and that starts its xray after those of earlier
\* scripts have let go of the port, tells whether its own node works, whatever else these have
\* left on the router; it may only miss an xray that was slow to start
\* (probe.go:33-60, main.go:491).
LoneProbesAreTrue ==
  [][\A p \in Probers : Asked(p) /\ probe[p].clear =>
       probe'[p].said = (probe[p].node \in Works \cap have /\ \E x \in xray : x.bound)]_probesVars

\* However scripts overlap, the last one has told every xray to end and removed the
\* file, unless one was ended early (probe.go:42).
NothingIsLeft == AllIdle(Probers) /\ ~killed => xray = {} /\ file = NoNode
=============================================================================
