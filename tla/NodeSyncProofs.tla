--------------------------- MODULE NodeSyncProofs ---------------------------
(***************************************************************************)
(* For any subscriptions, speeds and number of requests: the types of      *)
(* NodeSync, and what nodes_hash says of the router as long as nobody      *)
(* synchronises without its lock, no rollback fails and the server runs.   *)
(***************************************************************************)
EXTENDS NodeSync, NodesProofs, TLAPS

States == {"idle", "setsub", "setpreferred", "fetch", "acquire",
           "connect", "measure", "setprimary", "apply", "sethash"}

\* The panel has answered.
Later == {"acquire", "connect", "measure", "setprimary", "apply", "sethash"}

\* What a subscription has, with the primary node of the row or of a measurement.
Sets == [nodes : NodeLists, primary : OptTag]

\* A handler works on what the panel returned once it has asked it.
Typing ==
  /\ TypeOK
  /\ \A h \in Workers : pc[h] \in Later => job[h].set \in Sets

-----------------------------------------------------------------------------
(* What the actions are built from.                                        *)

LEMMA ConfFacts ==
  ASSUME NEW s \in Sets
  PROVE  Conf(s) \in Confs
<1>1. s.nodes \in NodeLists /\ s.primary \in OptTag
  BY DEF Sets
<1>2. Conf(s) = Conf([nodes |-> s.nodes, primary |-> s.primary])
  BY DEF Conf
<1> QED
  BY <1>1, <1>2 DEF Confs

LEMMA ListsFacts ==
  ASSUME NEW list \in NodeLists
  PROVE  list \in Lists /\ TagSet(list) \subseteq Tags
<1>1. list \in Lists
  BY DEF NodeLists, Lists
<1> QED
  BY <1>1, MainFacts

\* A measurement chooses one of the nodes.
LEMMA ChoiceFacts ==
  ASSUME NEW list \in NodeLists, NEW have \in SUBSET TagSet(list),
         NEW speeds \in [have -> Speeds], NEW old \in OptTag, NEW pref \in OptTag
  PROVE  /\ PickPrimary(list, old, speeds, pref) \in OptTag
         /\ PickPrimary(list, old, speeds, pref) \in TagSet(list)
<1>1. list \in Lists /\ TagSet(list) \subseteq Tags
  BY ListsFacts
<1>2. ASSUME NEW t \in Tags PROVE Speed(speeds, t) \in Nat
  BY SyncAssumption DEF Speed
<1>3. PickPrimary(list, old, speeds, pref) \in TagSet(list)
  BY <1>1, <1>2, PickTwice DEF OptTag
<1> QED
  BY <1>1, <1>3 DEF OptTag

LEMMA JobFacts ==
  /\ Row0 \in [sub : {NoSub}, hash : {NoHash}, primary : {NoTag}, preferred : {NoTag},
               due : {TRUE}]
  /\ NoSet = [nodes |-> <<>>, primary |-> NoTag]
  /\ NoJob \in Jobs
  /\ Row0 \in Rows
BY DEF Row0, NoSet, NoJob, Jobs, Rows, OptTag

LEMMA RowFacts ==
  ASSUME NEW r \in Rows
  PROVE  /\ r.sub \in Subs \cup {NoSub} /\ r.hash \in Confs \cup {NoHash}
         /\ r.primary \in OptTag /\ r.preferred \in OptTag /\ r.due \in BOOLEAN
         /\ \A link \in Subs \cup {NoSub} : [r EXCEPT !.sub = link] \in Rows
         /\ \A conf \in Confs \cup {NoHash} : [r EXCEPT !.hash = conf] \in Rows
         /\ \A link \in Subs \cup {NoSub} : [r EXCEPT !.sub = link, !.hash = NoHash] \in Rows
         /\ \A tag \in OptTag : [r EXCEPT !.primary = tag] \in Rows
         /\ \A tag \in OptTag : [r EXCEPT !.preferred = tag] \in Rows
         /\ \A tag, pref \in OptTag : [r EXCEPT !.primary = tag, !.preferred = pref] \in Rows
         /\ \A due \in BOOLEAN : [r EXCEPT !.due = due] \in Rows
BY DEF Rows

LEMMA SpendFacts ==
  ASSUME Typing, Spend
  PROVE  budget' \in 0..Budget
BY SyncAssumption DEF Typing, TypeOK, Spend

\* A handler goes to another state with a job that fits it.
LEMMA MoveFacts ==
  ASSUME Typing, NEW h \in Workers, NEW at \in States, NEW j \in Jobs,
         pc' = [pc EXCEPT ![h] = at], job' = [job EXCEPT ![h] = j],
         at \in Later => j.set \in Sets
  PROVE  /\ pc' \in [Workers -> States]
         /\ job' \in [Workers -> Jobs]
         /\ \A g \in Workers : pc'[g] \in Later => job'[g].set \in Sets
BY DEF Typing, TypeOK, States

\* It goes on with the job it has.
LEMMA GoFacts ==
  ASSUME Typing, NEW h \in Workers, NEW at \in States,
         pc' = [pc EXCEPT ![h] = at], job' = job,
         at \in Later => pc[h] \in Later
  PROVE  /\ pc' \in [Workers -> States]
         /\ job' \in [Workers -> Jobs]
         /\ \A g \in Workers : pc'[g] \in Later => job'[g].set \in Sets
BY DEF Typing, TypeOK, States

LEMMA ReturnFacts ==
  ASSUME Typing, NEW h \in Workers, Return(h)
  PROVE  /\ pc' \in [Workers -> States]
         /\ job' \in [Workers -> Jobs]
         /\ \A g \in Workers : pc'[g] \in Later => job'[g].set \in Sets
         /\ lock' \in Workers \cup {NoOne}
<1>1. pc' = [pc EXCEPT ![h] = "idle"] /\ job' = [job EXCEPT ![h] = NoJob]
  BY DEF Return
<1>2. lock' \in Workers \cup {NoOne}
  BY DEF Return, Typing, TypeOK
<1>3. "idle" \in States /\ "idle" \notin Later
  BY DEF States, Later
<1> QED
  BY <1>1, <1>2, <1>3, JobFacts, MoveFacts

\* The last part of a step: its parts put together again.
LEMMA Together ==
  ASSUME row' \in Rows, panel' \in [Subs -> Answers], inst' \in Confs \cup {NoNodes, Mixed},
         lock' \in Workers \cup {NoOne}, pc' \in [Workers -> States],
         job' \in [Workers -> Jobs], budget' \in 0..Budget, beaten' \in BOOLEAN,
         \A g \in Workers : pc'[g] \in Later => job'[g].set \in Sets
  PROVE  Typing'
BY DEF Typing, TypeOK, States

-----------------------------------------------------------------------------
(* The types hold at first and after each step.                            *)

LEMMA InitTyping == Init => Typing
<1> SUFFICES ASSUME Init PROVE Typing
  OBVIOUS
<1>1. row \in Rows
  BY JobFacts, RowFacts DEF Init
<1>2. pc \in [Workers -> States] /\ job \in [Workers -> Jobs]
  BY JobFacts DEF Init, States
<1>3. \A h \in Workers : pc[h] \in Later => job[h].set \in Sets
  BY DEF Init, Later
<1>4. panel \in [Subs -> Answers] /\ inst \in Confs \cup {NoNodes, Mixed}
      /\ lock \in Workers \cup {NoOne} /\ beaten \in BOOLEAN
  BY DEF Init
<1>5. budget \in 0..Budget
  BY SyncAssumption DEF Init
<1> QED
  BY <1>1, <1>2, <1>3, <1>4, <1>5 DEF Typing, TypeOK, States

LEMMA StartTyping ==
  ASSUME Typing, NEW h \in Workers, NEW at \in {"setsub", "setpreferred", "fetch"}, NEW rc \in Rows,
         NEW dry \in BOOLEAN, NEW force \in BOOLEAN, NEW measure \in BOOLEAN,
         Start(h, at, rc, dry, force, measure), budget' \in 0..Budget
  PROVE  Typing'
<1> DEFINE new == [rc |-> rc, dry |-> dry, force |-> force, measure |-> measure, set |-> NoSet]
<1>1. new \in Jobs
  BY DEF Jobs
<1>2. pc' = [pc EXCEPT ![h] = at] /\ job' = [job EXCEPT ![h] = new]
  BY DEF Start
<1>3. at \in States /\ at \notin Later
  BY DEF States, Later
<1> HIDE DEF new
<1>4. /\ pc' \in [Workers -> States]
      /\ job' \in [Workers -> Jobs]
      /\ \A g \in Workers : pc'[g] \in Later => job'[g].set \in Sets
  BY <1>1, <1>2, <1>3, MoveFacts
<1>5. UNCHANGED <<row, panel, inst, lock, beaten>>
  BY DEF Start
<1>6. /\ row' \in Rows /\ panel' \in [Subs -> Answers] /\ inst' \in Confs \cup {NoNodes, Mixed}
      /\ lock' \in Workers \cup {NoOne} /\ beaten' \in BOOLEAN
  BY <1>5 DEF Typing, TypeOK
<1> QED
  BY <1>4, <1>6, Together

\* The callers of syncRouter.
LEMMA CallersTyping ==
  ASSUME Typing,
         Night \/ \E h \in Handlers : Sync(h) \/ RouterSub(h) \/ RouterPrimary(h) \/ RouterAuto(h)
  PROVE  Typing'
<1>1. row \in Rows /\ budget \in 0..Budget
  BY DEF Typing, TypeOK
<1>2. \A h \in Handlers : h \in Workers
  BY DEF Workers
<1>3. CASE Night
  <2>1. Start(Loop, "fetch", row, FALSE, FALSE, FALSE) /\ budget' \in 0..Budget
    BY <1>1, <1>3 DEF Night
  <2> QED
    BY <1>1, <2>1, StartTyping DEF Workers
<1>4. ASSUME NEW h \in Handlers, Sync(h) PROVE Typing'
  <2>1. PICK k \in Kinds : Start(h, "fetch", row, k \in {"dry", "drymeasure"}, TRUE,
                                 k \in {"measure", "drymeasure"})
    BY <1>4 DEF Sync
  <2>2. budget' \in 0..Budget
    BY <1>4, SpendFacts DEF Sync
  <2>3. (k \in {"dry", "drymeasure"}) \in BOOLEAN /\ (k \in {"measure", "drymeasure"}) \in BOOLEAN
    OBVIOUS
  <2> QED
    BY <1>1, <1>2, <2>1, <2>2, <2>3, StartTyping
<1>5. ASSUME NEW h \in Handlers, RouterSub(h) PROVE Typing'
  <2>1. PICK link \in Subs :
          Start(h, "setsub", [row EXCEPT !.sub = link, !.hash = NoHash], TRUE, TRUE, FALSE)
    BY <1>5 DEF RouterSub
  <2>2. budget' \in 0..Budget
    BY <1>5, SpendFacts DEF RouterSub
  <2>3. [row EXCEPT !.sub = link, !.hash = NoHash] \in Rows
    BY <1>1, RowFacts
  <2> QED
    BY <1>2, <2>1, <2>2, <2>3, StartTyping
<1>6. ASSUME NEW h \in Handlers, RouterPrimary(h) PROVE Typing'
  <2>1. PICK tag \in TagSet(panel[row.sub]) :
          Start(h, "setpreferred", [row EXCEPT !.primary = tag, !.preferred = tag],
                FALSE, TRUE, FALSE)
    BY <1>6 DEF RouterPrimary
  <2>2. budget' \in 0..Budget
    BY <1>6, SpendFacts DEF RouterPrimary
  <2>3. panel[row.sub] \in NodeLists
    <3>1. row.sub \in Subs
      BY <1>1, <1>6, RowFacts DEF RouterPrimary
    <3> QED
      BY <3>1, SyncAssumption DEF Typing, TypeOK
  <2>4. tag \in OptTag
    BY <2>1, <2>3, ListsFacts DEF OptTag
  <2>5. [row EXCEPT !.primary = tag, !.preferred = tag] \in Rows
    BY <1>1, <2>4, RowFacts
  <2> QED
    BY <1>2, <2>1, <2>2, <2>5, StartTyping
<1>7. ASSUME NEW h \in Handlers, RouterAuto(h) PROVE Typing'
  <2>1. Start(h, "setpreferred", [row EXCEPT !.preferred = NoTag], TRUE, TRUE, FALSE)
    BY <1>7 DEF RouterAuto
  <2>2. budget' \in 0..Budget
    BY <1>7, SpendFacts DEF RouterAuto
  <2>3. [row EXCEPT !.preferred = NoTag] \in Rows
    BY <1>1, RowFacts DEF OptTag
  <2> QED
    BY <1>2, <2>1, <2>2, <2>3, StartTyping
<1> QED
  BY <1>3, <1>4, <1>5, <1>6, <1>7

\* The two callers that write to the row first, and the fetch.
LEMMA FetchTyping ==
  ASSUME Typing, NEW h \in Workers,
         SetSubURL(h) \/ SetPreferred(h) \/ Fetch(h) \/ NoSubscription(h)
  PROVE  Typing'
<1>1. /\ row \in Rows /\ panel \in [Subs -> Answers] /\ inst \in Confs \cup {NoNodes, Mixed}
      /\ lock \in Workers \cup {NoOne} /\ budget \in 0..Budget /\ beaten \in BOOLEAN
      /\ job[h] \in Jobs
  BY DEF Typing, TypeOK
<1>2. /\ job[h].rc \in Rows /\ job[h].dry \in BOOLEAN /\ job[h].measure \in BOOLEAN
      /\ job[h].force \in BOOLEAN
  BY <1>1 DEF Jobs
<1>3. /\ job[h].rc.sub \in Subs \cup {NoSub} /\ job[h].rc.primary \in OptTag
      /\ job[h].rc.preferred \in OptTag /\ job[h].rc.due \in BOOLEAN
  BY <1>2, RowFacts
<1>4. "fetch" \in States /\ "fetch" \notin Later
  BY DEF States, Later
<1>5. CASE SetSubURL(h)
  <2>1. row' \in Rows
    BY <1>1, <1>3, <1>5, RowFacts DEF SetSubURL
  <2>2. /\ pc' \in [Workers -> States]
        /\ job' \in [Workers -> Jobs]
        /\ \A g \in Workers : pc'[g] \in Later => job'[g].set \in Sets
    BY <1>4, <1>5, GoFacts DEF SetSubURL
  <2> QED
    BY <1>1, <1>5, <2>1, <2>2, Together DEF SetSubURL
<1>6. CASE SetPreferred(h)
  <2>1. row' \in Rows
    BY <1>1, <1>3, <1>6, RowFacts DEF SetPreferred
  <2>2. /\ pc' \in [Workers -> States]
        /\ job' \in [Workers -> Jobs]
        /\ \A g \in Workers : pc'[g] \in Later => job'[g].set \in Sets
    BY <1>4, <1>6, GoFacts DEF SetPreferred
  <2> QED
    BY <1>1, <1>6, <2>1, <2>2, Together DEF SetPreferred
<1>7. CASE NoSubscription(h)
  <2>1. Return(h) /\ UNCHANGED <<row, panel, inst, budget, beaten>>
    BY <1>7 DEF NoSubscription
  <2> QED
    BY <1>1, <2>1, ReturnFacts, Together
<1>8. CASE Fetch(h)
  <2> DEFINE rc == job[h].rc
             set == [nodes |-> panel[rc.sub], primary |-> rc.primary]
             measure == job[h].measure \/ (~job[h].dry /\ rc.due)
             same == ~job[h].force /\ ~measure /\ Conf(set) = rc.hash
             at == IF ~job[h].dry \/ measure THEN "acquire" ELSE "connect"
             new == [job[h] EXCEPT !.set = set, !.measure = measure]
  <2>1. UNCHANGED <<row, panel, inst, budget, beaten>>
    BY <1>8 DEF Fetch
  <2>2. CASE same
    <3>1. Return(h)
      BY <1>8, <2>2 DEF Fetch
    <3> QED
      BY <1>1, <2>1, <3>1, ReturnFacts, Together
  <2>3. CASE ~same
    <3>1. pc' = [pc EXCEPT ![h] = at] /\ UNCHANGED lock
      BY <1>8, <2>3 DEF Fetch
    <3>2. job' = [job EXCEPT ![h] = new]
      <4>1. job' = [job EXCEPT ![h].set = set, ![h].measure = measure]
        BY <1>8, <2>3 DEF Fetch
      <4>2. job \in [Workers -> Jobs]
        BY DEF Typing, TypeOK
      <4> HIDE DEF set, measure
      <4> QED
        BY <1>1, <4>1, <4>2
    <3>3. set \in Sets
      <4>1. rc.sub \in Subs
        BY <1>3, <1>8 DEF Fetch
      <4>2. panel[rc.sub] \in NodeLists
        BY <1>1, <4>1, SyncAssumption
      <4> QED
        BY <1>3, <4>2 DEF Sets
    <3>4. measure \in BOOLEAN
      OBVIOUS
    <3>5. new \in Jobs /\ new.set \in Sets
      <4> HIDE DEF set, measure
      <4> QED
        BY <1>1, <3>3, <3>4 DEF Jobs, Sets
    <3>6. at \in States
      BY DEF States
    <3> HIDE DEF at, new
    <3>7. /\ pc' \in [Workers -> States]
          /\ job' \in [Workers -> Jobs]
          /\ \A g \in Workers : pc'[g] \in Later => job'[g].set \in Sets
      BY <3>1, <3>2, <3>5, <3>6, MoveFacts
    <3> QED
      BY <1>1, <2>1, <3>1, <3>7, Together
  <2> QED
    BY <2>2, <2>3
<1> QED
  BY <1>5, <1>6, <1>7, <1>8

\* syncRouter between its fetch and the measurement.
LEMMA ConnectTyping ==
  ASSUME Typing, NEW h \in Workers,
         \/ Acquire(h) \/ Busy(h) \/ Connect(h) \/ Unreachable(h)
  PROVE  Typing'
<1>1. /\ row \in Rows /\ panel \in [Subs -> Answers] /\ inst \in Confs \cup {NoNodes, Mixed}
      /\ lock \in Workers \cup {NoOne} /\ budget \in 0..Budget /\ beaten \in BOOLEAN
  BY DEF Typing, TypeOK
<1>2. CASE Acquire(h)
  <2>1. "connect" \in States /\ pc[h] \in Later
    BY <1>2 DEF Acquire, States, Later
  <2>2. /\ pc' \in [Workers -> States]
        /\ job' \in [Workers -> Jobs]
        /\ \A g \in Workers : pc'[g] \in Later => job'[g].set \in Sets
    BY <1>2, <2>1, GoFacts DEF Acquire
  <2> QED
    BY <1>1, <1>2, <2>2, Together DEF Acquire
<1>3. CASE Busy(h)
  <2>1. Return(h) /\ UNCHANGED <<row, panel, inst, budget, beaten>>
    BY <1>3 DEF Busy
  <2> QED
    BY <1>1, <2>1, ReturnFacts, Together
<1>4. CASE Connect(h)
  <2> DEFINE at == IF job[h].measure THEN "measure" ELSE "apply"
  <2>1. at \in States /\ pc[h] \in Later
    BY <1>4 DEF Connect, States, Later
  <2>2. pc' = [pc EXCEPT ![h] = at] /\ UNCHANGED <<row, panel, inst, lock, job, budget, beaten>>
    BY <1>4 DEF Connect
  <2> HIDE DEF at
  <2>3. /\ pc' \in [Workers -> States]
        /\ job' \in [Workers -> Jobs]
        /\ \A g \in Workers : pc'[g] \in Later => job'[g].set \in Sets
    BY <2>1, <2>2, GoFacts
  <2> QED
    BY <1>1, <2>2, <2>3, Together
<1>5. CASE Unreachable(h)
  <2>1. Return(h) /\ Spend /\ UNCHANGED <<row, panel, inst, beaten>>
    BY <1>5 DEF Unreachable
  <2>2. budget' \in 0..Budget
    BY <2>1, SpendFacts
  <2> QED
    BY <1>1, <2>1, <2>2, ReturnFacts, Together
<1> QED
  BY <1>2, <1>3, <1>4, <1>5

LEMMA MeasureTyping ==
  ASSUME Typing, NEW h \in Workers,
         \/ Measure(h) \/ SetPrimary(h) \/ LowMemory(h) \/ NoMeasurement(h)
  PROVE  Typing'
<1>1. /\ row \in Rows /\ panel \in [Subs -> Answers] /\ inst \in Confs \cup {NoNodes, Mixed}
      /\ lock \in Workers \cup {NoOne} /\ budget \in 0..Budget /\ beaten \in BOOLEAN
      /\ job[h] \in Jobs
  BY DEF Typing, TypeOK
<1>2. job[h].set \in Sets /\ job[h].rc \in Rows
  <2>1. pc[h] \in Later
    BY DEF Measure, SetPrimary, LowMemory, NoMeasurement, Later
  <2> QED
    BY <1>1, <2>1 DEF Typing, Jobs
<1>3. /\ job[h].set.nodes \in NodeLists /\ job[h].set.primary \in OptTag
      /\ job[h].rc.preferred \in OptTag
  BY <1>2, RowFacts DEF Sets
<1>4. "setprimary" \in States /\ "apply" \in States
  BY DEF States
<1>5. CASE Measure(h)
  <2> DEFINE list == job[h].set.nodes
             have == OnRouter(list)
             best(speeds) == PickPrimary(list, job[h].set.primary, speeds, job[h].rc.preferred)
  <2>1. PICK speeds \in [have -> Speeds] :
             /\ job' = [job EXCEPT ![h].set.primary = best(speeds)]
             /\ beaten' = (beaten \/ Beats(speeds, row.preferred))
    BY <1>5 DEF Measure
  <2>2. have \in SUBSET TagSet(list)
    BY DEF OnRouter
  <2>3. best(speeds) \in OptTag
    <3> HIDE DEF have
    <3> QED
      BY <1>3, <2>2, ChoiceFacts
  <2> DEFINE new == [job[h] EXCEPT !.set = [job[h].set EXCEPT !.primary = best(speeds)]]
  <2>4. job' = [job EXCEPT ![h] = new]
    <3>1. job \in [Workers -> Jobs]
      BY DEF Typing, TypeOK
    <3> HIDE DEF best, have
    <3> QED
      BY <2>1, <3>1
  <2>5. new \in Jobs /\ new.set \in Sets
    <3> HIDE DEF best, have
    <3> QED
      BY <1>1, <1>2, <2>3 DEF Jobs, Sets
  <2>6. beaten' \in BOOLEAN
    <3>1. (beaten \/ Beats(speeds, row.preferred)) \in BOOLEAN
      OBVIOUS
    <3> QED
      BY <2>1, <3>1
  <2>7. pc' = [pc EXCEPT ![h] = "setprimary"] /\ UNCHANGED <<panel, inst, lock, budget>>
    BY <1>5 DEF Measure
  <2>8. row' = [row EXCEPT !.due = FALSE]
    BY <1>5 DEF Measure
  <2>9. row' \in Rows
    BY <1>1, <2>8, RowFacts
  <2> HIDE DEF new
  <2>10. /\ pc' \in [Workers -> States]
         /\ job' \in [Workers -> Jobs]
         /\ \A g \in Workers : pc'[g] \in Later => job'[g].set \in Sets
    BY <1>4, <2>4, <2>5, <2>7, MoveFacts
  <2> QED
    BY <1>1, <2>6, <2>7, <2>9, <2>10, Together
<1>6. CASE SetPrimary(h)
  <2>1. row' \in Rows
    BY <1>1, <1>3, <1>6, RowFacts DEF SetPrimary
  <2>2. pc[h] \in Later
    BY <1>6 DEF SetPrimary, Later
  <2>3. /\ pc' \in [Workers -> States]
        /\ job' \in [Workers -> Jobs]
        /\ \A g \in Workers : pc'[g] \in Later => job'[g].set \in Sets
    BY <1>4, <1>6, <2>2, GoFacts DEF SetPrimary
  <2> QED
    BY <1>1, <1>6, <2>1, <2>3, Together DEF SetPrimary
<1>7. CASE LowMemory(h)
  <2>1. row' \in Rows
    BY <1>1, <1>7, RowFacts DEF LowMemory
  <2>2. pc[h] \in Later
    BY <1>7 DEF LowMemory, Later
  <2>3. /\ pc' \in [Workers -> States]
        /\ job' \in [Workers -> Jobs]
        /\ \A g \in Workers : pc'[g] \in Later => job'[g].set \in Sets
    BY <1>4, <1>7, <2>2, GoFacts DEF LowMemory
  <2> QED
    BY <1>1, <1>7, <2>1, <2>3, Together DEF LowMemory
<1>8. CASE NoMeasurement(h)
  <2>1. pc[h] \in Later
    BY <1>8 DEF NoMeasurement, Later
  <2>2. /\ pc' \in [Workers -> States]
        /\ job' \in [Workers -> Jobs]
        /\ \A g \in Workers : pc'[g] \in Later => job'[g].set \in Sets
    BY <1>4, <1>8, <2>1, GoFacts DEF NoMeasurement
  <2> QED
    BY <1>1, <1>8, <2>2, Together DEF NoMeasurement
<1> QED
  BY <1>5, <1>6, <1>7, <1>8

LEMMA ApplyTyping ==
  ASSUME Typing, NEW h \in Workers,
         \/ Unchanged(h) \/ WouldChange(h) \/ Apply(h) \/ ApplyFails(h) \/ SetNodesHash(h)
  PROVE  Typing'
<1>1. /\ row \in Rows /\ panel \in [Subs -> Answers] /\ inst \in Confs \cup {NoNodes, Mixed}
      /\ lock \in Workers \cup {NoOne} /\ budget \in 0..Budget /\ beaten \in BOOLEAN
      /\ pc[h] \in Later
  BY DEF Typing, TypeOK, Unchanged, WouldChange, Apply, ApplyFails, SetNodesHash, Later
<1>2. Conf(job[h].set) \in Confs
  BY <1>1, ConfFacts DEF Typing
<1>3. "sethash" \in States
  BY DEF States
<1>4. CASE Unchanged(h) \/ Apply(h)
  <2>1. /\ pc' = [pc EXCEPT ![h] = "sethash"]
        /\ inst' \in {inst, Conf(job[h].set)}
        /\ UNCHANGED <<row, panel, lock, job, budget, beaten>>
    BY <1>4 DEF Unchanged, Apply
  <2>2. /\ pc' \in [Workers -> States]
        /\ job' \in [Workers -> Jobs]
        /\ \A g \in Workers : pc'[g] \in Later => job'[g].set \in Sets
    BY <1>1, <1>3, <2>1, GoFacts
  <2> QED
    BY <1>1, <1>2, <2>1, <2>2, Together
<1>5. CASE WouldChange(h)
  <2>1. Return(h) /\ UNCHANGED <<row, panel, inst, budget, beaten>>
    BY <1>5 DEF WouldChange
  <2> QED
    BY <1>1, <2>1, ReturnFacts, Together
<1>6. CASE ApplyFails(h)
  <2>1. Return(h) /\ Spend /\ UNCHANGED <<row, panel, beaten>>
    BY <1>6 DEF ApplyFails
  <2>2. inst' \in {inst, Conf(job[h].set), Mixed}
    BY <1>6 DEF ApplyFails
  <2>3. budget' \in 0..Budget
    BY <2>1, SpendFacts
  <2> QED
    BY <1>1, <1>2, <2>1, <2>2, <2>3, ReturnFacts, Together
<1>7. CASE SetNodesHash(h)
  <2>1. Return(h) /\ UNCHANGED <<panel, inst, budget, beaten>>
    BY <1>7 DEF SetNodesHash
  <2>2. row' \in Rows
    BY <1>1, <1>2, <1>7, RowFacts DEF SetNodesHash
  <2> QED
    BY <1>1, <2>1, <2>2, ReturnFacts, Together
<1> QED
  BY <1>4, <1>5, <1>6, <1>7

LEMMA SurroundingsTyping ==
  ASSUME Typing, PanelChanges \/ WeekPasses \/ ServerRestart
  PROVE  Typing'
<1>1. /\ row \in Rows /\ panel \in [Subs -> Answers] /\ inst \in Confs \cup {NoNodes, Mixed}
      /\ lock \in Workers \cup {NoOne} /\ budget \in 0..Budget /\ beaten \in BOOLEAN
      /\ pc \in [Workers -> States] /\ job \in [Workers -> Jobs]
  BY DEF Typing, TypeOK, States
<1>2. CASE PanelChanges
  <2>1. panel' \in [Subs -> Answers]
    BY <1>1, <1>2 DEF PanelChanges
  <2>2. budget' \in 0..Budget
    BY <1>2, SpendFacts DEF PanelChanges
  <2>3. UNCHANGED <<row, inst, lock, pc, job, beaten>>
    BY <1>2 DEF PanelChanges
  <2>4. \A g \in Workers : pc'[g] \in Later => job'[g].set \in Sets
    BY <2>3 DEF Typing
  <2> QED
    BY <1>1, <2>1, <2>2, <2>3, <2>4, Together
<1>3. CASE WeekPasses
  <2>1. row' \in Rows
    BY <1>1, <1>3, RowFacts DEF WeekPasses
  <2>2. UNCHANGED <<panel, inst, lock, pc, job, budget, beaten>>
    BY <1>3 DEF WeekPasses
  <2>3. \A g \in Workers : pc'[g] \in Later => job'[g].set \in Sets
    BY <2>2 DEF Typing
  <2> QED
    BY <1>1, <2>1, <2>2, <2>3, Together
<1>4. CASE ServerRestart
  <2>1. budget' \in 0..Budget
    BY <1>4, SpendFacts DEF ServerRestart
  <2>2. /\ pc' = [h \in Workers |-> "idle"] /\ job' = [h \in Workers |-> NoJob]
        /\ lock' = NoOne /\ UNCHANGED <<row, panel, inst, beaten>>
    BY <1>4 DEF ServerRestart
  <2>3. pc' \in [Workers -> States] /\ job' \in [Workers -> Jobs]
    BY <2>2, JobFacts DEF States
  <2>4. \A g \in Workers : pc'[g] \in Later => job'[g].set \in Sets
    BY <2>2 DEF Later
  <2> QED
    BY <1>1, <2>1, <2>2, <2>3, <2>4, Together
<1> QED
  BY <1>2, <1>3, <1>4

LEMMA StepTyping == Typing /\ [Next]_vars => Typing'
<1> SUFFICES ASSUME Typing, [Next]_vars PROVE Typing'
  OBVIOUS
<1>1. CASE Next
  <2>1. CASE \/ Night
              \/ \E h \in Handlers : Sync(h) \/ RouterSub(h) \/ RouterPrimary(h) \/ RouterAuto(h)
    BY <2>1, CallersTyping
  <2>2. ASSUME NEW h \in Workers, Step(h) \/ Unreachable(h) \/ ApplyFails(h)
        PROVE  Typing'
    BY <2>2, FetchTyping, ConnectTyping, MeasureTyping, ApplyTyping DEF Step
  <2>3. CASE PanelChanges \/ WeekPasses \/ ServerRestart
    BY <2>3, SurroundingsTyping
  <2> QED
    BY <1>1, <2>1, <2>2, <2>3 DEF Next
<1>2. CASE UNCHANGED vars
  <2>1. UNCHANGED <<row, panel, inst, lock, pc, job, budget, beaten>>
    BY <1>2 DEF vars
  <2> QED
    BY <2>1 DEF Typing, TypeOK
<1> QED
  BY <1>1, <1>2

\* What a handler works on came from the panel (sync.go:288).
THEOREM TypingInvariance == Spec => []Typing
<1> QED
  BY InitTyping, StepTyping, PTL DEF Spec

\* Every value stays in its type: nodes_hash is empty or the hash of a list the
\* panel may return, and the primary node of the row is a tag or the empty string
\* (store.go:18-37).
THEOREM TypeCorrect == Spec => []TypeOK
<1>1. Typing => TypeOK
  BY DEF Typing
<1> QED
  BY <1>1, TypingInvariance, PTL

-----------------------------------------------------------------------------
(* What a measurement writes.                                              *)

MeasuredIsNode ==
  \A h \in Workers : pc[h] = "setprimary" => job[h].set.primary \in TagSet(job[h].set.nodes)

\* A step of one handler that does not lead to SetPrimary.
LEMMA OthersMeasure ==
  ASSUME Typing, MeasuredIsNode, NEW h \in Workers, NEW at, at # "setprimary", NEW j,
         pc' = [pc EXCEPT ![h] = at], job' = [job EXCEPT ![h] = j]
  PROVE  MeasuredIsNode'
<1>1. pc \in [Workers -> States] /\ job \in [Workers -> Jobs]
  BY DEF Typing, TypeOK, States
<1>2. ASSUME NEW g \in Workers, pc'[g] = "setprimary"
      PROVE  pc[g] = "setprimary" /\ job'[g] = job[g]
  BY <1>1, <1>2
<1> QED
  BY <1>2 DEF MeasuredIsNode

LEMMA MeasureChooses ==
  ASSUME Typing, MeasuredIsNode, NEW h \in Workers, Measure(h)
  PROVE  MeasuredIsNode'
<1> DEFINE list == job[h].set.nodes
           have == OnRouter(list)
           best(speeds) == PickPrimary(list, job[h].set.primary, speeds, job[h].rc.preferred)
<1>1. pc \in [Workers -> States] /\ job \in [Workers -> Jobs]
  BY DEF Typing, TypeOK, States
<1>2. job[h].set \in Sets /\ job[h].rc \in Rows
  <2>1. pc[h] \in Later
    BY DEF Measure, Later
  <2> QED
    BY <1>1, <2>1 DEF Typing, Jobs
<1>3. /\ list \in NodeLists /\ job[h].set.primary \in OptTag /\ job[h].rc.preferred \in OptTag
  BY <1>2, RowFacts DEF Sets
<1>4. PICK speeds \in [have -> Speeds] : job' = [job EXCEPT ![h].set.primary = best(speeds)]
  BY DEF Measure
<1>5. have \in SUBSET TagSet(list)
  BY DEF OnRouter
<1>6. best(speeds) \in TagSet(list)
  <2> HIDE DEF have
  <2> QED
    BY <1>3, <1>5, ChoiceFacts
<1>7. /\ job'[h].set.primary = best(speeds) /\ job'[h].set.nodes = list
      /\ \A g \in Workers \ {h} : job'[g] = job[g]
  <2> HIDE DEF best
  <2> QED
    BY <1>1, <1>2, <1>4 DEF Sets, Jobs
<1>8. pc' = [pc EXCEPT ![h] = "setprimary"]
  BY DEF Measure
<1>9. ASSUME NEW g \in Workers \ {h}, pc'[g] = "setprimary"
      PROVE  pc[g] = "setprimary" /\ job'[g] = job[g]
  BY <1>1, <1>7, <1>8, <1>9
<1> HIDE DEF best, have
<1> QED
  BY <1>6, <1>7, <1>9 DEF MeasuredIsNode, TagSet

LEMMA StepMeasures ==
  ASSUME Typing, MeasuredIsNode, [Next]_vars
  PROVE  MeasuredIsNode'
<1>1. pc \in [Workers -> States] /\ job \in [Workers -> Jobs]
  BY DEF Typing, TypeOK, States
<1>2. \A h \in Workers : job = [job EXCEPT ![h] = job[h]]
  BY <1>1
<1>3. CASE UNCHANGED <<pc, job>>
  BY <1>3 DEF MeasuredIsNode
<1>4. ASSUME NEW h \in Workers, NEW at \in {"setpreferred", "fetch", "setsub"},
             \E rc, dry, force, measure : Start(h, at, rc, dry, force, measure)
      PROVE  MeasuredIsNode'
  <2>1. PICK rc, dry, force, measure : Start(h, at, rc, dry, force, measure)
    BY <1>4
  <2> DEFINE new == [rc |-> rc, dry |-> dry, force |-> force, measure |-> measure, set |-> NoSet]
  <2>2. pc' = [pc EXCEPT ![h] = at] /\ job' = [job EXCEPT ![h] = new]
    BY <2>1 DEF Start
  <2> HIDE DEF new
  <2> QED
    BY <2>2, OthersMeasure
<1>5. CASE Night \/ \E h \in Handlers : Sync(h) \/ RouterSub(h) \/ RouterPrimary(h) \/ RouterAuto(h)
  BY <1>4, <1>5 DEF Night, Sync, RouterSub, RouterPrimary, RouterAuto, Workers
<1>6. ASSUME NEW h \in Workers, Return(h) PROVE MeasuredIsNode'
  BY <1>6, OthersMeasure DEF Return
<1>7. ASSUME NEW h \in Workers, Fetch(h) PROVE MeasuredIsNode'
  <2> DEFINE set == [nodes |-> panel[job[h].rc.sub], primary |-> job[h].rc.primary]
             measure == job[h].measure \/ (~job[h].dry /\ job[h].rc.due)
             new == [job[h] EXCEPT !.set = set, !.measure = measure]
  <2>1. \/ Return(h)
        \/ /\ pc' = [pc EXCEPT ![h] = IF ~job[h].dry \/ measure THEN "acquire" ELSE "connect"]
           /\ job' = [job EXCEPT ![h].set = set, ![h].measure = measure]
    BY <1>7 DEF Fetch
  <2>2. CASE Return(h)
    BY <1>6, <2>2
  <2>3. CASE ~Return(h)
    <3>1. job' = [job EXCEPT ![h] = new]
      <4> HIDE DEF set, measure
      <4> QED
        BY <1>1, <2>1, <2>3
    <3>2. PICK at \in {"acquire", "connect"} : pc' = [pc EXCEPT ![h] = at]
      BY <2>1, <2>3
    <3> HIDE DEF new
    <3> QED
      BY <3>1, <3>2, OthersMeasure
  <2> QED
    BY <2>2, <2>3
<1>8. ASSUME NEW h \in Workers, NEW at \in {"fetch", "connect", "measure", "apply", "sethash"},
             pc' = [pc EXCEPT ![h] = at], job' = job
      PROVE  MeasuredIsNode'
  <2>1. job' = [job EXCEPT ![h] = job[h]]
    BY <1>2, <1>8
  <2> QED
    BY <1>8, <2>1, OthersMeasure
<1>9. ASSUME NEW h \in Workers, Step(h) \/ Unreachable(h) \/ ApplyFails(h)
      PROVE  MeasuredIsNode'
  <2>1. CASE Measure(h)
    BY <2>1, MeasureChooses
  <2>2. CASE Fetch(h)
    BY <1>7, <2>2
  <2>3. CASE \/ NoSubscription(h) \/ Busy(h) \/ WouldChange(h) \/ SetNodesHash(h)
             \/ Unreachable(h) \/ ApplyFails(h)
    BY <1>6, <2>3 DEF NoSubscription, Busy, WouldChange, SetNodesHash, Unreachable, ApplyFails
  <2>4. CASE \/ SetSubURL(h) \/ SetPreferred(h) \/ Acquire(h) \/ SetPrimary(h) \/ LowMemory(h)
             \/ NoMeasurement(h) \/ Unchanged(h) \/ Apply(h)
    BY <1>8, <2>4 DEF SetSubURL, SetPreferred, Acquire, SetPrimary, LowMemory, NoMeasurement,
         Unchanged, Apply
  <2>5. CASE Connect(h)
    BY <1>8, <2>5 DEF Connect
  <2> QED
    BY <1>9, <2>1, <2>2, <2>3, <2>4, <2>5 DEF Step
<1>10. CASE PanelChanges \/ WeekPasses
  BY <1>3, <1>10 DEF PanelChanges, WeekPasses
<1>11. CASE ServerRestart
  BY <1>11 DEF ServerRestart, MeasuredIsNode
<1>12. CASE UNCHANGED vars
  BY <1>3, <1>12 DEF vars
<1> QED
  BY <1>5, <1>9, <1>10, <1>11, <1>12 DEF Next

\* The node a measurement writes to the store as the primary one is a node of the list
\* that was measured, whatever the copy of the row named and whatever has been asked of
\* the store since (sync.go:188-205, sync.go:347).
THEOREM MeasuredNodes == Spec => []MeasuredIsNode
<1>1. Init => MeasuredIsNode
  BY DEF Init, MeasuredIsNode
<1>2. Typing /\ MeasuredIsNode /\ [Next]_vars => MeasuredIsNode'
  BY StepMeasures
<1> QED
  BY <1>1, <1>2, TypingInvariance, PTL DEF Spec

-----------------------------------------------------------------------------
(* What nodes_hash says of the router.                                     *)

\* syncRouter holds the lock of the router here, unless it only compares.
Holding == {"connect", "measure", "setprimary", "apply", "sethash"}

Honest(h) ==
  /\ pc[h] \in Holding => lock = h
  /\ pc[h] # "idle" => pc[h] # "setsub" /\ (job[h].dry => job[h].measure)
  /\ pc[h] = "sethash" => inst = Conf(job[h].set)

\* Nodes that were applied are not in the store only while their handler has still
\* to write it.
Described ==
  /\ Typing
  /\ \A h \in Workers : Honest(h)
  /\ (\A h \in Workers : pc[h] # "sethash") => row.hash \in {NoHash, inst}

LEMMA WorkerFacts == ASSUME NEW h \in Workers PROVE h # NoOne
BY SyncAssumption DEF Workers

\* A step of one handler that leaves the router and nodes_hash alone.
LEMMA OneMoves ==
  ASSUME Described, Typing', NEW h \in Workers, NEW at, NEW j,
         pc' = [pc EXCEPT ![h] = at], job' = [job EXCEPT ![h] = j],
         inst' = inst, row'.hash = row.hash,
         pc[h] # "sethash", at # "sethash", at # "setsub",
         at # "idle" => (j.dry => j.measure),
         lock' = lock \/ (lock = h /\ lock' = NoOne) \/ (lock = NoOne /\ lock' = h),
         at \in Holding => lock' = h
  PROVE  Described'
<1>1. pc \in [Workers -> States] /\ job \in [Workers -> Jobs]
  BY DEF Described, Typing, TypeOK, States
<1>2. pc'[h] = at /\ job'[h] = j
  BY <1>1
<1>3. Honest(h)'
  BY <1>2 DEF Honest
<1>4. ASSUME NEW g \in Workers, g # h PROVE Honest(g)' /\ pc'[g] = pc[g]
  <2>1. pc'[g] = pc[g] /\ job'[g] = job[g]
    BY <1>1, <1>4
  <2>2. Honest(g)
    BY DEF Described
  <2>3. g # NoOne
    BY WorkerFacts
  <2>4. pc[g] \in Holding => lock' = g
    BY <1>4, <2>2, <2>3 DEF Honest
  <2>5. Conf(job[g].set)' = Conf(job[g].set)
    BY <2>1 DEF Conf
  <2> QED
    BY <2>1, <2>2, <2>4, <2>5 DEF Honest
<1>5. (\A g \in Workers : pc'[g] # "sethash") => \A g \in Workers : pc[g] # "sethash"
  BY <1>4
<1> QED
  BY <1>3, <1>4, <1>5 DEF Described

LEMMA OneReturns ==
  ASSUME Described, Typing', NEW h \in Workers, Return(h),
         inst' = inst, row'.hash = row.hash, pc[h] # "sethash"
  PROVE  Described'
<1>1. /\ pc' = [pc EXCEPT ![h] = "idle"] /\ job' = [job EXCEPT ![h] = NoJob]
      /\ lock' = lock \/ (lock = h /\ lock' = NoOne)
  BY DEF Return
<1>2. "idle" \notin Holding
  BY DEF Holding
<1> QED
  BY <1>1, <1>2, OneMoves

\* It goes on with its job.
LEMMA OneGoes ==
  ASSUME Described, Typing', NEW h \in Workers, NEW at,
         pc' = [pc EXCEPT ![h] = at], job' = job,
         inst' = inst, row'.hash = row.hash,
         pc[h] # "sethash", pc[h] # "idle", at # "sethash", at # "setsub", at # "idle",
         lock' = lock \/ (lock = NoOne /\ lock' = h),
         at \in Holding => lock' = h
  PROVE  Described'
<1>1. job' = [job EXCEPT ![h] = job[h]]
  BY DEF Described, Typing, TypeOK
<1>2. job[h].dry => job[h].measure
  BY DEF Described, Honest
<1> QED
  BY <1>1, <1>2, OneMoves

LEMMA InitDescribed == Init => Described
<1> SUFFICES ASSUME Init PROVE Described
  OBVIOUS
<1>1. Typing
  BY InitTyping
<1>2. ASSUME NEW h \in Workers PROVE Honest(h)
  BY DEF Init, Honest, Holding
<1>3. row.hash = NoHash
  BY DEF Init, Row0
<1> QED
  BY <1>1, <1>2, <1>3 DEF Described

LEMMA StartDescribed ==
  ASSUME Described, Typing', NEW h \in Workers, NEW at \in {"setpreferred", "fetch"}, NEW rc,
         NEW dry \in BOOLEAN, NEW force, NEW measure \in BOOLEAN, dry => measure,
         Start(h, at, rc, dry, force, measure)
  PROVE  Described'
<1> DEFINE new == [rc |-> rc, dry |-> dry, force |-> force, measure |-> measure, set |-> NoSet]
<1>1. /\ pc' = [pc EXCEPT ![h] = at] /\ job' = [job EXCEPT ![h] = new]
      /\ UNCHANGED <<row, panel, inst, lock, beaten>> /\ pc[h] = "idle"
  BY DEF Start
<1>2. at \notin Holding /\ at # "sethash" /\ at # "setsub"
  BY DEF Holding
<1>3. new.dry => new.measure
  OBVIOUS
<1> HIDE DEF new
<1> QED
  BY <1>1, <1>2, <1>3, OneMoves

\* The three assumptions rule out what parts nodes_hash from the router: a
\* synchronisation that takes no lock, a rollback that fails, and the end of the
\* server before the hash is written.
LEMMA StepDescribed ==
  ASSUME Kinds \cap {"dry", "sub", "auto"} = {}, ~Failures, ~Crashes, Described, [Next]_vars
  PROVE  Described'
<1>1. Typing' /\ Typing
  BY StepTyping DEF Described
<1>2. pc \in [Workers -> States] /\ job \in [Workers -> Jobs] /\ row \in Rows
  BY <1>1 DEF Typing, TypeOK, States
<1>3. \A h \in Handlers : h \in Workers
  BY DEF Workers
<1>4. CASE Night
  <2>1. Start(Loop, "fetch", row, FALSE, FALSE, FALSE)
    BY <1>4 DEF Night
  <2> QED
    BY <1>1, <2>1, StartDescribed DEF Workers
<1>5. ASSUME NEW h \in Handlers, Sync(h) PROVE Described'
  <2>1. PICK k \in Kinds \cap {"manual", "measure", "dry", "drymeasure"} :
          Start(h, "fetch", row, k \in {"dry", "drymeasure"}, TRUE, k \in {"measure", "drymeasure"})
    BY <1>5 DEF Sync
  <2> DEFINE dry == k \in {"dry", "drymeasure"}
             measure == k \in {"measure", "drymeasure"}
  <2>2. dry \in BOOLEAN /\ measure \in BOOLEAN /\ (dry => measure)
    BY <2>1
  <2>3. Start(h, "fetch", row, dry, TRUE, measure)
    BY <2>1
  <2> HIDE DEF dry, measure
  <2> QED
    BY <1>1, <1>3, <2>2, <2>3, StartDescribed
<1>6. ASSUME NEW h \in Handlers, RouterPrimary(h) PROVE Described'
  <2>1. PICK tag : Start(h, "setpreferred", [row EXCEPT !.primary = tag, !.preferred = tag],
                         FALSE, TRUE, FALSE)
    BY <1>6 DEF RouterPrimary
  <2> QED
    BY <1>1, <1>3, <2>1, StartDescribed
<1>7. ASSUME NEW h \in Handlers, RouterSub(h) \/ RouterAuto(h) PROVE FALSE
  BY <1>7 DEF RouterSub, RouterAuto
<1>8. ASSUME NEW h \in Workers, SetSubURL(h) PROVE FALSE
  BY <1>8 DEF SetSubURL, Described, Honest
<1>9. ASSUME NEW h \in Workers, SetPreferred(h) PROVE Described'
  <2>1. row'.hash = row.hash
    BY <1>2, <1>9 DEF SetPreferred, Rows
  <2>2. "fetch" \notin Holding
    BY DEF Holding
  <2> QED
    BY <1>1, <1>9, <2>1, <2>2, OneGoes DEF SetPreferred
<1>10. ASSUME NEW h \in Workers, NoSubscription(h) \/ Busy(h) \/ Unreachable(h) \/ WouldChange(h)
       PROVE  Described'
  <2>1. Return(h) /\ inst' = inst /\ row' = row /\ pc[h] # "sethash"
    BY <1>10 DEF NoSubscription, Busy, Unreachable, WouldChange
  <2> QED
    BY <1>1, <2>1, OneReturns
<1>11. ASSUME NEW h \in Workers, Fetch(h) PROVE Described'
  <2> DEFINE rc == job[h].rc
             set == [nodes |-> panel[rc.sub], primary |-> rc.primary]
             measure == job[h].measure \/ (~job[h].dry /\ rc.due)
             same == ~job[h].force /\ ~measure /\ Conf(set) = rc.hash
             new == [job[h] EXCEPT !.set = set, !.measure = measure]
  <2>1. UNCHANGED <<row, panel, inst, budget, beaten>> /\ pc[h] = "fetch"
    BY <1>11 DEF Fetch
  <2>2. job[h].dry => job[h].measure
    BY <2>1 DEF Described, Honest
  <2>3. CASE same
    <3>1. Return(h)
      BY <1>11, <2>3 DEF Fetch
    <3> QED
      BY <1>1, <2>1, <3>1, OneReturns
  <2>4. CASE ~same
    <3>1. pc' = [pc EXCEPT ![h] = "acquire"] /\ UNCHANGED lock
      BY <1>11, <2>2, <2>4 DEF Fetch
    <3>2. job' = [job EXCEPT ![h] = new]
      <4>1. job' = [job EXCEPT ![h].set = set, ![h].measure = measure]
        BY <1>11, <2>4 DEF Fetch
      <4> HIDE DEF set, measure
      <4> QED
        BY <1>2, <4>1
    <3>3. new.dry => new.measure
      <4>1. job[h] \in Jobs
        BY <1>2
      <4>2. new.dry = job[h].dry /\ new.measure = measure
        <5> HIDE DEF set, measure
        <5> QED
          BY <4>1 DEF Jobs
      <4> QED
        BY <2>2, <4>2
    <3>4. "acquire" \notin Holding
      BY DEF Holding
    <3> HIDE DEF new
    <3> QED
      BY <1>1, <2>1, <3>1, <3>2, <3>3, <3>4, OneMoves
  <2> QED
    BY <2>3, <2>4
<1>12. ASSUME NEW h \in Workers, Acquire(h) PROVE Described'
  BY <1>1, <1>12, OneGoes DEF Acquire
<1>13. ASSUME NEW h \in Workers, Connect(h) \/ LowMemory(h) \/ NoMeasurement(h) \/ SetPrimary(h)
       PROVE  Described'
  <2>1. lock = h
    BY <1>13 DEF Described, Honest, Holding, Connect, LowMemory, NoMeasurement, SetPrimary
  <2>2. row'.hash = row.hash
    BY <1>2, <1>13 DEF Connect, LowMemory, NoMeasurement, SetPrimary, Rows
  <2>3. PICK at \in {"measure", "apply"} : pc' = [pc EXCEPT ![h] = at]
    <3>1. CASE Connect(h)
      BY <3>1 DEF Connect
    <3>2. CASE LowMemory(h) \/ NoMeasurement(h) \/ SetPrimary(h)
      BY <3>2 DEF LowMemory, NoMeasurement, SetPrimary
    <3> QED
      BY <1>13, <3>1, <3>2
  <2>4. UNCHANGED <<inst, lock, job>> /\ pc[h] # "sethash" /\ pc[h] # "idle"
    BY <1>13 DEF Connect, LowMemory, NoMeasurement, SetPrimary
  <2> QED
    BY <1>1, <2>1, <2>2, <2>3, <2>4, OneGoes
<1>14. ASSUME NEW h \in Workers, Measure(h) PROVE Described'
  <2>1. lock = h /\ (job[h].dry => job[h].measure)
    BY <1>14 DEF Described, Honest, Holding, Measure
  <2>2. row'.hash = row.hash
    BY <1>2, <1>14 DEF Measure, Rows
  <2>3. PICK best : job' = [job EXCEPT ![h].set.primary = best]
    BY <1>14 DEF Measure
  <2> DEFINE new == [job[h] EXCEPT !.set = [job[h].set EXCEPT !.primary = best]]
  <2>4. job' = [job EXCEPT ![h] = new]
    BY <1>2, <2>3
  <2>5. new.dry = job[h].dry /\ new.measure = job[h].measure
    <3>1. job[h] \in Jobs
      BY <1>2
    <3> QED
      BY <3>1 DEF Jobs
  <2>6. pc' = [pc EXCEPT ![h] = "setprimary"] /\ pc[h] = "measure" /\ UNCHANGED <<inst, lock>>
    BY <1>14 DEF Measure
  <2> HIDE DEF new
  <2> QED
    BY <1>1, <2>1, <2>2, <2>4, <2>5, <2>6, OneMoves
<1>15. ASSUME NEW h \in Workers, ApplyFails(h) PROVE Described'
  <2>1. Return(h) /\ inst' = inst /\ row' = row /\ pc[h] # "sethash"
    BY <1>15 DEF ApplyFails
  <2> QED
    BY <1>1, <2>1, OneReturns
<1>16. ASSUME NEW h \in Workers, NEW g \in Workers, pc[h] \in Holding, g # h
       PROVE  pc[g] \notin Holding
  BY <1>16 DEF Described, Honest
<1>17. ASSUME NEW h \in Workers, Unchanged(h) \/ Apply(h) PROVE Described'
  <2>1. /\ pc' = [pc EXCEPT ![h] = "sethash"] /\ pc[h] = "apply"
        /\ inst' = Conf(job[h].set)
        /\ UNCHANGED <<row, panel, lock, job, budget, beaten>>
    BY <1>17 DEF Unchanged, Apply
  <2>2. pc[h] \in Holding /\ "sethash" \in Holding
    BY <2>1 DEF Holding
  <2>3. Honest(h)'
    <3>1. lock = h /\ (job[h].dry => job[h].measure)
      BY <2>1, <2>2 DEF Described, Honest
    <3>2. pc'[h] = "sethash" /\ job'[h] = job[h] /\ lock' = lock
      BY <1>2, <2>1
    <3>3. Conf(job[h].set)' = Conf(job[h].set)
      BY <3>2 DEF Conf
    <3> QED
      BY <2>1, <3>1, <3>2, <3>3 DEF Honest
  <2>4. ASSUME NEW g \in Workers, g # h PROVE Honest(g)'
    <3>1. pc[g] \notin Holding /\ pc'[g] = pc[g] /\ job'[g] = job[g]
      BY <1>2, <1>16, <2>1, <2>2, <2>4
    <3>2. Honest(g)
      BY DEF Described
    <3> QED
      BY <2>2, <3>1, <3>2 DEF Honest
  <2>5. pc'[h] = "sethash"
    BY <1>2, <2>1
  <2> QED
    BY <1>1, <2>3, <2>4, <2>5 DEF Described
<1>18. ASSUME NEW h \in Workers, SetNodesHash(h) PROVE Described'
  <2>1. /\ pc[h] = "sethash" /\ pc' = [pc EXCEPT ![h] = "idle"] /\ job' = [job EXCEPT ![h] = NoJob]
        /\ row' = [row EXCEPT !.hash = Conf(job[h].set)] /\ inst' = inst
    BY <1>18 DEF SetNodesHash, Return
  <2>2. pc[h] \in Holding /\ "sethash" \in Holding /\ "idle" \notin Holding
    BY <2>1 DEF Holding
  <2>3. row'.hash = inst'
    BY <1>2, <2>1 DEF Described, Honest, Rows
  <2>4. ASSUME NEW g \in Workers PROVE Honest(g)'
    <3>1. CASE g = h
      <4>1. pc'[g] = "idle"
        BY <1>2, <2>1, <3>1
      <4> QED
        BY <2>2, <4>1 DEF Honest
    <3>2. CASE g # h
      <4>1. pc[g] \notin Holding /\ pc'[g] = pc[g] /\ job'[g] = job[g]
        BY <1>2, <1>16, <2>1, <2>2, <3>2
      <4>2. Honest(g)
        BY DEF Described
      <4> QED
        BY <2>2, <4>1, <4>2 DEF Honest
    <3> QED
      BY <3>1, <3>2
  <2> QED
    BY <1>1, <2>3, <2>4 DEF Described
<1>19. CASE PanelChanges \/ WeekPasses \/ UNCHANGED vars
  <2>1. UNCHANGED <<inst, lock, pc, job>>
    BY <1>19 DEF PanelChanges, WeekPasses, vars
  <2>2. row'.hash = row.hash
    BY <1>2, <1>19 DEF PanelChanges, WeekPasses, vars, Rows
  <2>3. ASSUME NEW g \in Workers PROVE Honest(g)'
    <3>1. Honest(g)
      BY DEF Described
    <3> QED
      BY <2>1, <3>1 DEF Honest, Conf
  <2> QED
    BY <1>1, <2>1, <2>2, <2>3 DEF Described
<1>20. ~ServerRestart
  BY DEF ServerRestart
<1>21. ASSUME NEW h \in Workers, Step(h) PROVE Described'
  BY <1>8, <1>9, <1>10, <1>11, <1>12, <1>13, <1>14, <1>17, <1>18, <1>21 DEF Step
<1>22. CASE Next
  BY <1>4, <1>5, <1>6, <1>7, <1>10, <1>15, <1>19, <1>20, <1>21, <1>22 DEF Next
<1> QED
  BY <1>19, <1>22

\* "The nodes on the router" (store.go:28): whenever nobody works on the router,
\* nodes_hash is empty or that of the nodes in its files, as long as every
\* synchronisation takes the lock (sync.go:306), failed ones put the nodes back and
\* the server runs.  The run SyncDryRace shows that the first is needed: a dry run
\* reads the router without the lock and writes the hash later (sync.go:371).
THEOREM HashDescribes ==
  ASSUME Kinds \cap {"dry", "sub", "auto"} = {}, ~Failures, ~Crashes
  PROVE  Spec => []HashDescribesRouter
<1>1. Described => HashDescribesRouter
  <2> SUFFICES ASSUME Described, lock = NoOne
               PROVE  row.hash \in {NoHash, inst}
    BY DEF HashDescribesRouter
  <2>1. ASSUME NEW h \in Workers PROVE pc[h] # "sethash"
    BY <2>1, WorkerFacts DEF Described, Honest, Holding
  <2> QED
    BY <2>1 DEF Described
<1>2. Described /\ [Next]_vars => Described'
  BY StepDescribed
<1> QED
  BY <1>1, <1>2, InitDescribed, PTL DEF Spec
=============================================================================
