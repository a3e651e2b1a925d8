---------------------------- MODULE RouterProofs ----------------------------
(***************************************************************************)
(* Probes, for any nodes and scripts, and the three parts of MCRouter      *)
(* together: each behaviour of it is one of every part.                    *)
(***************************************************************************)
EXTENDS MCRouter, RouterLocksProofs, NodeSelectProofs, FiniteSetTheorems

-----------------------------------------------------------------------------
(***************************************************************************)
(* Probes: what a probe that meets no other one answers, and what scripts  *)
(* that overlap leave on the router.                                       *)
(***************************************************************************)

Ats == {"idle", "kill", "write", "run", "wait", "ask", "clean"}
Scripts == [at : Ats, node : ProbeNodes \cup {NoNode}, todo : SUBSET ProbeNodes,
            said : BOOLEAN, alone : BOOLEAN, clear : BOOLEAN]

\* A script that is alone has the file to itself, and every xray but those that were
\* told to end.
Lone(p) ==
  probe[p].alone =>
    /\ \A q \in Others(p) : probe[q].at \in {"idle", "kill"}
    /\ probe[p].at \in {"write", "run", "wait", "ask", "clean"}
    /\ probe[p].node \in ProbeNodes
    /\ probe[p].at \in {"write", "run"} => xray = {}
    /\ probe[p].at # "write" => file = probe[p].node
    /\ \A x \in xray :
         x.by = p /\ x.node = IF probe[p].node \in have THEN probe[p].node ELSE NoNode

\* Once a script is clear, no xray that was told to end listens any more.
Clear(p) ==
  probe[p].clear =>
    probe[p].alone /\ dying = {} /\ probe[p].at \in {"wait", "ask", "clean"}

\* What is on the router belongs to a script that will clean up.
Owned ==
  ~killed =>
    /\ \A x \in xray : probe[x.by].at \in {"wait", "ask", "clean"}
    /\ file # NoNode => \E p \in Probers : probe[p].at \in {"run", "wait", "ask", "clean"}

Probing ==
  /\ have \in SUBSET ProbeNodes \ {{}}
  /\ file \in ProbeNodes \cup {NoNode}
  /\ xray \subseteq Xrays
  /\ dying \subseteq Xrays
  /\ probe \in [Probers -> Scripts]
  /\ killed \in BOOLEAN
  /\ \A p \in Probers : Lone(p) /\ Clear(p)
  /\ Owned

LEMMA IdleFacts ==
  /\ IdleProbe \in Scripts
  /\ IdleProbe.at = "idle" /\ ~IdleProbe.alone /\ ~IdleProbe.clear
BY DEF IdleProbe, Scripts, Ats

LEMMA InitProbing == ProbesInit => Probing
BY IdleFacts DEF ProbesInit, Probing, Lone, Clear, Owned

\* The script of p becomes r, where nothing else changes, and r is not alone.
LEMMA Shut ==
  ASSUME Probing, NEW p \in Probers, NEW r \in Scripts, ~r.alone, ~r.clear,
         probe' = [probe EXCEPT ![p] = r], UNCHANGED have,
         r.at \in {"idle", "kill"},
         \/ UNCHANGED <<xray, dying, file>>
         \/ /\ xray' = {x \in xray : x.by # p} /\ file' = NoNode
            /\ probe[p].at = "clean"
  PROVE  \A q \in Probers : Lone(q)' /\ Clear(q)'
<1>0. \A q \in Probers : probe'[q] = IF q = p THEN r ELSE probe[q]
  BY DEF Probing
<1>a. \A q \in Probers : probe'[q].clear => probe'[q].alone
  BY <1>0 DEF Probing, Clear
<1> SUFFICES ASSUME NEW q \in Probers, probe'[q].alone PROVE Lone(q)' /\ Clear(q)'
  BY <1>a DEF Lone, Clear
<1>1. q # p /\ probe'[q] = probe[q] /\ Lone(q) /\ Clear(q)
  BY <1>0 DEF Probing
<1>2. probe[p].at \in {"idle", "kill"}
  BY <1>1 DEF Lone, Others
<1>3. UNCHANGED <<xray, dying, file>>
  BY <1>2
<1>4. \A s \in Others(q) : probe'[s].at \in {"idle", "kill"}
  BY <1>1 DEF Lone, Others, Probing
<1> QED
  BY <1>1, <1>3, <1>4 DEF Lone, Clear

\* A step of script p that stays in a probe: nobody else is alone then.
LEMMA NobodyElse ==
  ASSUME Probing, NEW p \in Probers, probe[p].at \notin {"idle", "kill"}
  PROVE  \A q \in Others(p) : ~probe[q].alone /\ ~probe[q].clear
BY DEF Probing, Lone, Clear, Others

LEMMA StepProbing == Probing /\ [ProbesNext]_probesVars => Probing'
<1> SUFFICES ASSUME Probing, [ProbesNext]_probesVars PROVE Probing'
  OBVIOUS
<1>1. ASSUME NEW p \in Probers, Begin(p)
      PROVE  Probing'
  <2> DEFINE r == [IdleProbe EXCEPT !.at = "kill", !.todo = have]
  <2>1. r \in Scripts /\ ~r.alone /\ ~r.clear /\ r.at = "kill"
    BY DEF IdleProbe, Scripts, Ats, Probing
  <2>2. probe' = [probe EXCEPT ![p] = r] /\ UNCHANGED <<have, file, xray, dying, killed>>
    BY <1>1 DEF Begin
  <2> HIDE DEF r
  <2>3. \A q \in Probers : Lone(q)' /\ Clear(q)'
    BY <2>1, <2>2, Shut
  <2>4. \A q \in Probers : probe'[q] = probe[q] \/ probe[q].at = "idle"
    BY <1>1, <2>2 DEF Begin, Probing
  <2>5. Owned'
    BY <2>2, <2>4 DEF Owned, Probing, Xrays
  <2> QED
    BY <2>1, <2>2, <2>3, <2>5 DEF Probing
<1>2. ASSUME NEW p \in Probers, KillOthers(p)
      PROVE  Probing'
  <2>1. PICK n \in probe[p].todo :
          probe' = [q \in Probers |->
            IF q = p THEN [probe[p] EXCEPT !.at = "write", !.node = n, !.todo = @ \ {n},
                                           !.alone = AllIdle(Others(p))]
            ELSE [probe[q] EXCEPT !.alone = FALSE, !.clear = FALSE]]
    BY <1>2 DEF KillOthers, Met
  <2>2. n \in ProbeNodes
    BY DEF Probing, Scripts
  <2>3. AllIdle(Others(p)) \in BOOLEAN
    BY DEF AllIdle
  <2>4. probe' \in [Probers -> Scripts]
    <3>1. probe \in [Probers -> Scripts]
      BY DEF Probing
    <3>2. [probe[p] EXCEPT !.at = "write", !.node = n, !.todo = @ \ {n},
                           !.alone = AllIdle(Others(p))] \in Scripts
      BY <2>2, <2>3, <3>1 DEF Scripts, Ats
    <3>3. ASSUME NEW q \in Probers
          PROVE  [probe[q] EXCEPT !.alone = FALSE, !.clear = FALSE] \in Scripts
      BY <3>1 DEF Scripts
    <3> QED
      BY <2>1, <3>2, <3>3
  <2>5. /\ probe'[p].at = "write" /\ probe'[p].node = n
        /\ probe'[p].alone = AllIdle(Others(p)) /\ ~probe'[p].clear
        /\ \A q \in Others(p) :
             ~probe'[q].alone /\ ~probe'[q].clear /\ probe'[q].at = probe[q].at
    <3>1. ~probe[p].clear
      BY <1>2 DEF KillOthers, Probing, Clear
    <3> QED
      BY <2>1, <3>1 DEF Probing, Scripts, Others
  <2>6. /\ xray' = {} /\ UNCHANGED <<have, file, killed>>
        /\ dying' \subseteq Xrays
    BY <1>2 DEF KillOthers, Probing
  <2>7. \A q \in Probers : Lone(q)' /\ Clear(q)'
    <3>1. Lone(p)' /\ Clear(p)'
      BY <2>2, <2>5, <2>6 DEF Lone, Clear, AllIdle, Others
    <3>2. ASSUME NEW q \in Others(p) PROVE Lone(q)' /\ Clear(q)'
      BY <2>5 DEF Lone, Clear
    <3> QED
      BY <3>1, <3>2 DEF Others
  <2>8. Owned'
    <3>1. ASSUME ~killed, file # NoNode
          PROVE  \E q \in Probers : probe'[q].at \in {"run", "wait", "ask", "clean"}
      <4>1. PICK q \in Probers : probe[q].at \in {"run", "wait", "ask", "clean"}
        BY <3>1 DEF Owned, Probing
      <4>2. q \in Others(p)
        BY <1>2, <4>1 DEF KillOthers, Others
      <4> QED
        BY <4>1, <4>2, <2>5
    <3> QED
      BY <3>1, <2>6 DEF Owned
  <2> QED
    BY <2>2, <2>4, <2>6, <2>7, <2>8 DEF Probing, Xrays
\* The lines of the script between the first and the last: p goes on, the others stay.
<1>3. ASSUME NEW p \in Probers, NEW a \in {"run", "wait", "ask", "clean"},
             NEW said \in BOOLEAN, NEW clear \in BOOLEAN,
             probe[p].at \notin {"idle", "kill"},
             probe' = [probe EXCEPT ![p] = [at |-> a, node |-> @.node, todo |-> @.todo,
                                            said |-> said, alone |-> @.alone, clear |-> clear]],
             UNCHANGED <<have, dying, killed>>,
             file' \in ProbeNodes \cup {NoNode}, xray' \subseteq Xrays,
             probe[p].alone => Lone(p)',
             clear => probe[p].alone /\ dying = {} /\ a \in {"wait", "ask", "clean"},
             ~killed => \A x \in xray' : \/ x \in xray /\ x.by # p
                                         \/ x.by = p /\ a \in {"wait", "ask", "clean"}
      PROVE  Probing'
  <2>1. probe' \in [Probers -> Scripts]
    BY <1>3 DEF Probing, Scripts, Ats
  <2>2. /\ probe'[p].at = a /\ probe'[p].alone = probe[p].alone /\ probe'[p].clear = clear
        /\ \A q \in Others(p) : probe'[q] = probe[q]
    BY <1>3 DEF Probing, Others
  <2>3. \A q \in Probers : Lone(q)' /\ Clear(q)'
    <3>1. Lone(p)' /\ Clear(p)'
      BY <1>3, <2>2 DEF Lone, Clear
    <3>2. ASSUME NEW q \in Others(p) PROVE Lone(q)' /\ Clear(q)'
      BY <1>3, <2>2, NobodyElse DEF Lone, Clear
    <3> QED
      BY <3>1, <3>2 DEF Others
  <2>4. Owned'
    <3>1. ASSUME ~killed, NEW x \in xray' PROVE probe'[x.by].at \in {"wait", "ask", "clean"}
      <4>1. CASE x \in xray /\ x.by # p
        <5>1. x.by \in Others(p)
          BY <4>1 DEF Probing, Xrays, Others
        <5>2. probe[x.by].at \in {"wait", "ask", "clean"}
          BY <3>1, <4>1 DEF Owned, Probing
        <5> QED
          BY <5>1, <5>2, <2>2
      <4>2. CASE x.by = p /\ a \in {"wait", "ask", "clean"}
        BY <4>2, <2>2
      <4> QED
        BY <1>3, <3>1, <4>1, <4>2
    <3>2. \E q \in Probers : probe'[q].at \in {"run", "wait", "ask", "clean"}
      BY <1>3, <2>2
    <3> QED
      BY <1>3, <3>1, <3>2 DEF Owned
  <2> QED
    BY <1>3, <2>1, <2>3, <2>4 DEF Probing
<1>4. ASSUME NEW p \in Probers, NEW a \in Ats, Steps(p, a)
      PROVE  probe' = [probe EXCEPT ![p] = [at |-> a, node |-> @.node, todo |-> @.todo,
                                            said |-> probe[p].said, alone |-> @.alone,
                                            clear |-> probe[p].clear]]
  <2>1. probe' = [probe EXCEPT ![p] = [probe[p] EXCEPT !.at = a]]
    BY <1>4 DEF Steps
  <2>2. probe[p] \in Scripts
    BY DEF Probing
  <2>3. [probe[p] EXCEPT !.at = a] = [at |-> a, node |-> probe[p].node, todo |-> probe[p].todo,
                                      said |-> probe[p].said, alone |-> probe[p].alone,
                                      clear |-> probe[p].clear]
    BY <2>2 DEF Scripts
  <2> QED
    BY <2>1, <2>3
<1>5. ASSUME NEW p \in Probers, probe[p].at \notin {"idle", "kill"}
      PROVE  /\ probe[p].said \in BOOLEAN /\ probe[p].clear \in BOOLEAN
             /\ probe[p].clear => /\ probe[p].alone /\ dying = {}
                                  /\ probe[p].at \in {"wait", "ask", "clean"}
             /\ probe[p].at \in {"write", "run"} /\ ~killed => \A x \in xray : x.by # p
  BY <1>5 DEF Probing, Scripts, Clear, Owned, Xrays
<1>6. ASSUME NEW p \in Probers, WriteFile(p)
      PROVE  Probing'
  <2>1. /\ probe[p].at = "write" /\ file' = probe[p].node /\ Steps(p, "run")
        /\ UNCHANGED <<have, xray, dying, killed>>
    BY <1>6 DEF WriteFile
  <2>2. probe' = [probe EXCEPT ![p] = [at |-> "run", node |-> @.node, todo |-> @.todo,
                                       said |-> probe[p].said, alone |-> @.alone,
                                       clear |-> probe[p].clear]]
    BY <1>4, <2>1 DEF Ats
  <2>3. probe[p].node \in ProbeNodes \cup {NoNode} /\ xray \subseteq Xrays
    BY DEF Probing, Scripts
  <2>4. probe[p].alone => Lone(p)'
    BY <2>1, <2>2 DEF Lone, Probing, Others
  <2>5. /\ file' \in ProbeNodes \cup {NoNode} /\ xray' \subseteq Xrays
        /\ UNCHANGED <<have, dying, killed>>
        /\ ~killed => \A x \in xray' : x \in xray /\ x.by # p
    BY <1>5, <2>1, <2>3
  <2>6. probe[p].said \in BOOLEAN /\ probe[p].clear \in BOOLEAN /\ ~probe[p].clear
    BY <1>5, <2>1
  <2> QED
    BY <1>3, <2>1, <2>2, <2>4, <2>5, <2>6
<1>7. ASSUME NEW p \in Probers, RunXray(p)
      PROVE  Probing'
  <2> DEFINE node == IF file \in have THEN file ELSE NoNode
             x == [by |-> p, node |-> node, bound |-> FALSE]
  <2>1. /\ probe[p].at = "run" /\ UNCHANGED <<have, file, dying, killed>>
        /\ xray' = IF file = NoNode THEN xray ELSE xray \cup {x}
    BY <1>7 DEF RunXray
  <2> DEFINE clear == probe[p].alone /\ dying = {}
  <2>c. clear \in BOOLEAN /\ probe[p] \in Scripts
    BY DEF Probing, Scripts
  <2>d. probe' = [probe EXCEPT ![p].at = "wait", ![p].clear = clear]
    BY <1>7 DEF RunXray
  <2>e. clear => probe[p].alone /\ dying = {}
    OBVIOUS
  <2> HIDE DEF clear
  <2>2. probe' = [probe EXCEPT ![p] = [at |-> "wait", node |-> @.node, todo |-> @.todo,
                                       said |-> probe[p].said, alone |-> @.alone,
                                       clear |-> clear]]
    <3>1. probe'[p] = [at |-> "wait", node |-> probe[p].node, todo |-> probe[p].todo,
                       said |-> probe[p].said, alone |-> probe[p].alone, clear |-> clear]
      BY <2>c, <2>d DEF Scripts, Probing
    <3>2. \A q \in Probers \ {p} : probe'[q] = probe[q]
      BY <2>d DEF Probing
    <3>3. probe' = [q \in Probers |-> probe'[q]]
      BY <2>d DEF Probing
    <3> QED
      BY <3>1, <3>2, <3>3 DEF Probing
  <2>3. x \in Xrays /\ x.by = p /\ x.node = node
    BY DEF Probing, Xrays
  <2>4. probe[p].alone => Lone(p)'
    BY <2>1, <2>2, <2>3 DEF Lone, Probing, Others
  <2>5. file \in ProbeNodes \cup {NoNode} /\ xray' \subseteq Xrays
    BY <2>1, <2>3 DEF Probing
  <2>6. ~killed => \A y \in xray' : (y \in xray /\ y.by # p) \/ y.by = p
    BY <1>5, <2>1, <2>3
  <2>7. probe[p].said \in BOOLEAN
    BY <2>c DEF Scripts
  <2> HIDE DEF x, node
  <2> QED
    BY <1>3, <2>1, <2>2, <2>4, <2>5, <2>6, <2>7, <2>c, <2>e
<1>8. ASSUME NEW p \in Probers, WaitForPort(p)
      PROVE  Probing'
  <2>1. /\ probe[p].at = "wait" /\ Steps(p, "ask")
        /\ UNCHANGED <<have, file, xray, dying, killed>>
    BY <1>8 DEF WaitForPort
  <2>2. probe' = [probe EXCEPT ![p] = [at |-> "ask", node |-> @.node, todo |-> @.todo,
                                       said |-> probe[p].said, alone |-> @.alone,
                                       clear |-> probe[p].clear]]
    BY <1>4, <2>1 DEF Ats
  <2>3. probe[p].alone => Lone(p)'
    BY <2>1, <2>2 DEF Lone, Probing, Others
  <2> QED
    BY <1>3, <1>5, <2>1, <2>2, <2>3 DEF Probing
<1>9. ASSUME NEW p \in Probers, AskNode(p)
      PROVE  Probing'
  <2> DEFINE said == \E x \in xray \cup dying : x.bound /\ x.node \in Works
  <2>1. /\ probe[p].at = "ask" /\ UNCHANGED <<have, file, xray, dying, killed>>
        /\ probe' = [probe EXCEPT ![p].at = "clean", ![p].said = said]
    BY <1>9 DEF AskNode
  <2>2. said \in BOOLEAN /\ probe[p] \in Scripts
    BY DEF Probing
  <2> HIDE DEF said
  <2>3. probe' = [probe EXCEPT ![p] = [at |-> "clean", node |-> @.node, todo |-> @.todo,
                                       said |-> said, alone |-> @.alone,
                                       clear |-> probe[p].clear]]
    <3>1. probe'[p] = [at |-> "clean", node |-> probe[p].node, todo |-> probe[p].todo,
                       said |-> said, alone |-> probe[p].alone, clear |-> probe[p].clear]
      BY <2>1, <2>2 DEF Scripts, Probing
    <3>2. \A q \in Probers \ {p} : probe'[q] = probe[q]
      BY <2>1 DEF Probing
    <3>3. probe' = [q \in Probers |-> probe'[q]]
      BY <2>1 DEF Probing
    <3> QED
      BY <3>1, <3>2, <3>3 DEF Probing
  <2>4. probe[p].alone => Lone(p)'
    <3>1. /\ probe'[p].at = "clean" /\ probe'[p].node = probe[p].node
          /\ probe'[p].alone = probe[p].alone
          /\ \A q \in Others(p) : probe'[q] = probe[q]
      BY <2>3 DEF Probing, Others
    <3>2. probe[p].at = "ask" /\ have' = have /\ file' = file /\ xray' = xray
      BY <2>1
    <3>3. Lone(p)
      BY DEF Probing
    <3>4. (\A q \in Others(p) : probe[q].at \in {"idle", "kill"}) =>
             \A q \in Others(p) : probe'[q].at \in {"idle", "kill"}
      BY <3>1
    <3> QED
      BY <3>1, <3>2, <3>3, <3>4 DEF Lone
  <2> QED
    BY <1>3, <1>5, <2>1, <2>2, <2>3, <2>4 DEF Probing
<1>10. ASSUME NEW p \in Probers, BindPort(p)
       PROVE  Probing'
  <2>1. PICK x \in xray :
          /\ x.by = p
          /\ xray' = (xray \ {x}) \cup
               (IF \E y \in xray \cup dying : y.bound THEN {} ELSE {[x EXCEPT !.bound = TRUE]})
    BY <1>10 DEF BindPort
  <2>2. UNCHANGED <<have, file, dying, probe, killed>>
    BY <1>10 DEF BindPort
  <2>3. /\ [x EXCEPT !.bound = TRUE] \in Xrays
        /\ [x EXCEPT !.bound = TRUE].by = x.by
        /\ [x EXCEPT !.bound = TRUE].node = x.node
    BY DEF Probing, Xrays
  <2>4. xray' \subseteq Xrays /\ \A y \in xray' : \E z \in xray : y.by = z.by /\ y.node = z.node
    BY <2>1, <2>3 DEF Probing
  <2>c. \A q \in Probers : Clear(q)'
    BY <2>2 DEF Probing, Clear
  <2>5. \A q \in Probers : Lone(q)'
    <3> SUFFICES ASSUME NEW q \in Probers, probe[q].alone PROVE Lone(q)'
      BY <2>2 DEF Lone
    <3>1. Lone(q)
      BY DEF Probing
    <3>2. x \in xray
      OBVIOUS
    <3>3. xray # {} => probe[q].at \notin {"write", "run"}
      BY <3>1 DEF Lone
    <3> QED
      BY <2>2, <2>4, <3>1, <3>2, <3>3 DEF Lone, Others
  <2>6. Owned'
    BY <2>2, <2>4 DEF Owned, Probing
  <2> QED
    BY <2>2, <2>4, <2>5, <2>6, <2>c DEF Probing
<1>11. ASSUME NEW p \in Probers, CleanUp(p)
       PROVE  Probing'
  <2> DEFINE r == Remaining(p)
  <2>1. r \in Scripts /\ ~r.alone /\ ~r.clear /\ r.at \in {"idle", "kill"}
    BY IdleFacts DEF Remaining, Probing, IdleProbe, Scripts, Ats
  <2>2. /\ probe[p].at = "clean" /\ probe' = [probe EXCEPT ![p] = r]
        /\ xray' = {x \in xray : x.by # p} /\ file' = NoNode
        /\ killed' = (killed /\ ~probe[p].alone) /\ have' = have
        /\ dying' \subseteq Xrays
    BY <1>11 DEF CleanUp, Probing
  <2> HIDE DEF r
  <2>3. \A q \in Probers : Lone(q)' /\ Clear(q)'
    BY <2>1, <2>2, Shut
  <2>4. Owned'
    <3>1. ASSUME ~killed', NEW x \in xray' PROVE probe'[x.by].at \in {"wait", "ask", "clean"}
      <4>1. x \in xray /\ x.by # p
        BY <2>2
      <4>2. ~probe[p].alone
        BY <4>1 DEF Probing, Lone
      <4>3. probe[x.by].at \in {"wait", "ask", "clean"}
        BY <2>2, <3>1, <4>1, <4>2 DEF Owned, Probing
      <4> QED
        BY <2>2, <4>1, <4>3 DEF Probing, Xrays
    <3> QED
      BY <2>2, <3>1 DEF Owned
  <2>5. killed' \in BOOLEAN
    BY <2>2 DEF Probing, Scripts
  <2> QED
    BY <2>1, <2>2, <2>3, <2>4, <2>5 DEF Probing
<1>12. ASSUME NEW p \in Probers, ScriptKilled(p)
       PROVE  Probing'
  <2>1. /\ probe' = [probe EXCEPT ![p] = IdleProbe] /\ killed' = TRUE
        /\ UNCHANGED <<have, file, xray, dying>>
    BY <1>12 DEF ScriptKilled
  <2>2. \A q \in Probers : Lone(q)' /\ Clear(q)'
    BY <2>1, IdleFacts, Shut
  <2> QED
    BY <2>1, <2>2, IdleFacts DEF Probing, Owned
<1>13. CASE NodesReplaced
  <2>1. /\ probe' = [p \in Probers |-> [probe[p] EXCEPT !.alone = FALSE, !.clear = FALSE]]
        /\ have' \in SUBSET ProbeNodes \ {{}}
        /\ UNCHANGED <<file, xray, dying, killed>>
    BY <1>13 DEF NodesReplaced, Met
  <2>3. \A p \in Probers : /\ probe'[p] \in Scripts /\ probe'[p].at = probe[p].at
                           /\ ~probe'[p].alone /\ ~probe'[p].clear
    BY <2>1 DEF Probing, Scripts
  <2>4. probe' \in [Probers -> Scripts]
    BY <2>1, <2>3
  <2>5. \A p \in Probers : Lone(p)' /\ Clear(p)'
    BY <2>3 DEF Lone, Clear
  <2>6. Owned'
    BY <2>1, <2>3 DEF Owned, Probing, Xrays
  <2> QED
    BY <2>1, <2>4, <2>5, <2>6 DEF Probing
<1>14. CASE UNCHANGED probesVars
  BY <1>14 DEF probesVars, Probing, Lone, Clear, Owned
<1>15. CASE XrayEnds
  <2>1. PICK x \in dying : dying' = dying \ {x}
    BY <1>15 DEF XrayEnds
  <2>2. UNCHANGED <<have, file, xray, probe, killed>>
    BY <1>15 DEF XrayEnds
  <2>3. \A p \in Probers : Lone(p)' /\ Clear(p)'
    BY <2>1, <2>2 DEF Probing, Lone, Clear
  <2> QED
    BY <2>1, <2>2, <2>3 DEF Probing, Owned
<1> QED
  BY <1>1, <1>2, <1>6, <1>7, <1>8, <1>9, <1>10, <1>11, <1>12, <1>13, <1>14, <1>15 DEF ProbesNext

\* A script that is alone has the file to itself and every xray that nobody has told to
\* end; one that is clear shares the port with none of those either; and what is on the
\* router belongs to a script that will clean up (probe.go:33-60).
THEOREM ProbingInvariance == ProbesSpec => []Probing
BY InitProbing, StepProbing, PTL DEF ProbesSpec

\* However many scripts overlap, the last one has told every xray to end and removed the
\* file, unless one was ended early (probe.go:42).
THEOREM NothingStays == ProbesSpec => []NothingIsLeft
<1>1. Probing => NothingIsLeft
  <2> SUFFICES ASSUME Probing, AllIdle(Probers), ~killed PROVE xray = {} /\ file = NoNode
    BY DEF NothingIsLeft
  <2> QED
    BY DEF Probing, Owned, AllIdle, Xrays
<1> QED
  BY <1>1, ProbingInvariance, PTL

LEMMA AskedAlone ==
  ASSUME Probing, [ProbesNext]_probesVars, NEW p \in Probers, Asked(p), probe[p].clear
  PROVE  probe'[p].said = (probe[p].node \in Works \cap have /\ \E x \in xray : x.bound)
<1>1. AskNode(p)
  <2>1. probe' # probe
    BY DEF Asked
  <2>2. CASE NodesReplaced
    <3>1. probe'[p].at = probe[p].at
      BY <2>2 DEF NodesReplaced, Met, Probing, Scripts
    <3> QED
      BY <3>1 DEF Asked
  <2>3. ASSUME NEW q \in Probers, KillOthers(q) PROVE FALSE
    <3>1. probe'[p].at \in {"write", probe[p].at}
      <4>1. \E n \in probe[q].todo :
              probe' = [s \in Probers |->
                IF s = q THEN [probe[q] EXCEPT !.at = "write", !.node = n, !.todo = @ \ {n},
                                               !.alone = AllIdle(Others(q))]
                ELSE [probe[s] EXCEPT !.alone = FALSE, !.clear = FALSE]]
        BY <2>3 DEF KillOthers, Met
      <4>2. probe[p] \in Scripts /\ probe[q] \in Scripts
        BY DEF Probing
      <4>3. CASE p = q
        <5>1. PICK n \in probe[q].todo :
                probe'[p] = [probe[q] EXCEPT !.at = "write", !.node = n, !.todo = @ \ {n},
                                             !.alone = AllIdle(Others(q))]
          BY <4>1, <4>3
        <5> QED
          BY <5>1, <4>2 DEF Scripts
      <4>4. CASE p # q
        <5>1. probe'[p] = [probe[p] EXCEPT !.alone = FALSE, !.clear = FALSE]
          BY <4>1, <4>4
        <5> QED
          BY <5>1, <4>2 DEF Scripts
      <4> QED
        BY <4>3, <4>4
    <3> QED
      BY <3>1 DEF Asked
  <2>4. ASSUME NEW q \in Probers, q # p,
               \/ Begin(q) \/ WriteFile(q) \/ RunXray(q) \/ WaitForPort(q)
               \/ CleanUp(q) \/ ScriptKilled(q)
        PROVE  FALSE
    <3>1. probe'[p] = probe[p]
      BY <2>4 DEF Begin, WriteFile, RunXray, WaitForPort, CleanUp, ScriptKilled, Steps, Probing
    <3> QED
      BY <3>1 DEF Asked
  <2>5. ASSUME NEW q \in Probers, q # p, AskNode(q) PROVE FALSE
    <3>1. probe'[p] = probe[p]
      BY <2>5 DEF AskNode, Probing
    <3> QED
      BY <3>1 DEF Asked
  <2>6. ASSUME NEW q \in Probers, BindPort(q) PROVE FALSE
    BY <2>1, <2>6 DEF BindPort
  <2>c. CASE XrayEnds
    BY <2>1, <2>c DEF XrayEnds
  <2>7. \/ NodesReplaced \/ XrayEnds
        \/ \E q \in Probers :
             \/ Begin(q) \/ KillOthers(q) \/ WriteFile(q) \/ RunXray(q) \/ BindPort(q)
             \/ WaitForPort(q) \/ AskNode(q) \/ CleanUp(q) \/ ScriptKilled(q)
    BY <2>1 DEF ProbesNext, probesVars
  <2>8. \/ Begin(p) \/ WriteFile(p) \/ RunXray(p) \/ WaitForPort(p) \/ AskNode(p)
        \/ CleanUp(p) \/ ScriptKilled(p)
    BY <2>2, <2>3, <2>4, <2>5, <2>6, <2>7, <2>c
  <2>9. ScriptKilled(p) => probe'[p].at = "idle"
    BY IdleFacts DEF ScriptKilled, Probing
  <2> QED
    BY <2>8, <2>9 DEF Asked, Begin, WriteFile, RunXray, WaitForPort, CleanUp
<1>c. probe[p].alone /\ dying = {}
  BY DEF Probing, Clear
<1>2. probe'[p].said = \E x \in xray \cup dying : x.bound /\ x.node \in Works
  <2> DEFINE said == \E x \in xray \cup dying : x.bound /\ x.node \in Works
  <2>1. probe' = [probe EXCEPT ![p].at = "clean", ![p].said = said]
    BY <1>1 DEF AskNode
  <2>2. probe[p] \in Scripts
    BY DEF Probing
  <2> HIDE DEF said
  <2>3. probe'[p].said = said
    BY <2>1, <2>2 DEF Probing, Scripts
  <2> QED
    BY <2>3 DEF said
<1>3. \A x \in xray : x.node = IF probe[p].node \in have THEN probe[p].node ELSE NoNode
  BY <1>c DEF Probing, Lone
<1>4. NoNode \notin Works
  BY ProbesAssumption
<1> QED
  BY <1>2, <1>3, <1>4, <1>c

\* A probe that no other one meets, and that starts its xray when those it told to end
\* have let go of the port, tells whether its own node works, whatever else an earlier
\* script has left on the router (probe.go:33-60, main.go:491).
THEOREM LoneProbes == ProbesSpec => LoneProbesAreTrue
<1>1. Probing /\ [ProbesNext]_probesVars =>
        [\A p \in Probers : Asked(p) /\ probe[p].clear =>
           probe'[p].said = (probe[p].node \in Works \cap have
                               /\ \E x \in xray : x.bound)]_probesVars
  BY AskedAlone
<1> QED
  BY <1>1, InitProbing, StepProbing, PTL DEF ProbesSpec, LoneProbesAreTrue

-----------------------------------------------------------------------------
(* The types of Probes.                                                    *)

\* One xray at most has the port.
Listeners == xray \cup dying
OneListens == \A x, y \in Listeners : x.bound /\ y.bound => x = y

LEMMA StepOneListens ==
  ASSUME OneListens, [ProbesNext]_probesVars
  PROVE  OneListens'
<1>1. ASSUME Listeners' \subseteq Listeners PROVE OneListens'
  BY <1>1 DEF OneListens
<1>2. ASSUME NEW p \in Probers, RunXray(p) PROVE OneListens'
  <2>1. \A x \in Listeners' : x \in Listeners \/ ~x.bound
    BY <1>2 DEF RunXray, Listeners
  <2> QED
    BY <2>1 DEF OneListens
<1>3. ASSUME NEW p \in Probers, BindPort(p) PROVE OneListens'
  <2>1. PICK x \in xray : xray' = (xray \ {x}) \cup
            (IF \E y \in xray \cup dying : y.bound THEN {} ELSE {[x EXCEPT !.bound = TRUE]})
    BY <1>3 DEF BindPort
  <2>2. dying' = dying
    BY <1>3 DEF BindPort
  <2>3. CASE \E y \in Listeners : y.bound
    <3>1. Listeners' \subseteq Listeners
      BY <2>1, <2>2, <2>3 DEF Listeners
    <3> QED
      BY <1>1, <3>1
  <2>4. CASE ~\E y \in Listeners : y.bound
    <3>1. \A z \in Listeners' : z.bound => z = [x EXCEPT !.bound = TRUE]
      BY <2>1, <2>2, <2>4 DEF Listeners
    <3> QED
      BY <3>1 DEF OneListens
  <2> QED
    BY <2>3, <2>4
<1>4. ASSUME NEW p \in Probers,
             \/ Begin(p) \/ KillOthers(p) \/ WriteFile(p) \/ WaitForPort(p) \/ AskNode(p)
             \/ CleanUp(p) \/ ScriptKilled(p)
      PROVE  Listeners' \subseteq Listeners
  BY <1>4 DEF Begin, KillOthers, WriteFile, WaitForPort, AskNode, CleanUp, ScriptKilled, Listeners
<1>5. ASSUME XrayEnds \/ NodesReplaced \/ UNCHANGED probesVars
      PROVE  Listeners' \subseteq Listeners
  BY <1>5 DEF XrayEnds, NodesReplaced, probesVars, Listeners
<1> QED
  BY <1>1, <1>2, <1>3, <1>4, <1>5 DEF ProbesNext

\* However many scripts overlap, one xray at most has the port they share
\* (probe.go:33-60).
THEOREM ProbesTypes == ProbesSpec => []ProbesTypeOK
<1>1. ProbesInit => OneListens
  BY DEF ProbesInit, OneListens, Listeners
<1>2. OneListens /\ [ProbesNext]_probesVars => OneListens'
  BY StepOneListens
<1>3. Probing /\ OneListens => ProbesTypeOK
  <2> SUFFICES ASSUME Probing, OneListens PROVE ProbesTypeOK
    OBVIOUS
  <2> DEFINE Bound == {x \in xray \cup dying : x.bound}
  <2>1. Cardinality(Bound) <= 1
    <3>1. Bound = {} => Cardinality(Bound) = 0
      <4> HIDE DEF Bound
      <4> QED
        BY FS_EmptySet
    <3>2. Bound # {} => Cardinality(Bound) = 1
      <4>1. ASSUME NEW x \in Bound PROVE Bound = {x}
        BY DEF OneListens, Listeners
      <4> HIDE DEF Bound
      <4> QED
        BY <4>1, FS_Singleton
    <3> HIDE DEF Bound
    <3> QED
      BY <3>1, <3>2
  <2> QED
    BY <2>1 DEF Probing, Scripts, Ats, ProbesTypeOK
<1> QED
  BY <1>1, <1>2, <1>3, ProbingInvariance, PTL DEF ProbesSpec

-----------------------------------------------------------------------------
(***************************************************************************)
(* The parts together.                                                     *)
(***************************************************************************)

\* A behaviour of the run is one of each part, the fairness of the locks (config.go:86-91)
\* included: what is proved of the parts alone holds in it.
THEOREM RouterPartsRun ==
  RouterSpec => Spec /\ SelectSpec /\ ProbesSpec
<1>1. RouterInit => Init /\ SelectInit /\ ProbesInit
  BY DEF RouterInit
<1>2. [RouterNext]_routerVars =>
        [Next]_vars /\ [SelectNext]_selectVars /\ [ProbesNext]_probesVars
  BY DEF RouterNext, routerVars
<1> QED
  BY <1>1, <1>2, PTL DEF RouterSpec, Spec, SelectSpec, ProbesSpec

\* Every value of the three parts stays in its type: the tags of a list differ unless a host
\* is called like a renaming, and one xray at most has the port of the probes
\* (nodes.go:163-185, probe.go:33-60).
THEOREM RouterTypes == RouterSpec => []RouterTypeOK
<1>1. RouterInit => part \in {"locks", "select", "probes"}
  BY DEF RouterInit
<1>2. part \in {"locks", "select", "probes"} /\ [RouterNext]_routerVars =>
        (part \in {"locks", "select", "probes"})'
  BY DEF RouterNext, routerVars
<1>3. part \in {"locks", "select", "probes"} /\ TypeOK /\ SelectTypeOK /\ ProbesTypeOK
      => RouterTypeOK
  BY DEF RouterTypeOK
<1> QED
  BY <1>1, <1>2, <1>3, RouterPartsRun, LocksTypes, SelectTypes, ProbesTypes, PTL DEF RouterSpec
=============================================================================
