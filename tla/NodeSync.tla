------------------------------ MODULE NodeSync ------------------------------
(***************************************************************************)
(* How the nodes of a subscription get onto a router (syncRouter and its   *)
(* callers, cmd/rt-server/sync.go): one router, its row in the store       *)
(* (internal/store/store.go), its subscription in the panel, and handlers  *)
(* that work on a copy of the row taken before they wait for the router.   *)
(*                                                                         *)
(* Applying the nodes is one step here; ApplyPlan shows what happens       *)
(* inside it and how it can end in between (AtomicChange).                 *)
(***************************************************************************)
EXTENDS Nodes

CONSTANTS
  Subs,      \* the links a subscription can have
  NoSub,     \* the empty string
  Answers,   \* the node lists the panel may return
  Speeds,    \* the speeds a measurement can find
  Handlers,  \* requests that can be in progress at a time
  Loop,      \* the goroutine of syncLoop
  NoOne,     \* the lock is free
  NoHash,    \* nodes_hash is empty
  NoNodes,   \* the router has not been moved to nodes yet
  Mixed,     \* what a failed rollback may leave on the router
  Kinds,     \* the requests that occur: "manual", "measure", "dry",
             \* "drymeasure", "sub", "prefer", "auto"
  Failures,  \* applying the nodes can end with the files in between
  Crashes,   \* the server can be restarted
  Budget     \* how many things other than nightly synchronisations happen

ASSUME SyncAssumption ==
  /\ NoSub \notin Subs
  /\ Loop \notin Handlers
  /\ NoOne \notin Handlers \cup {Loop}
  /\ Answers \subseteq NodeLists
  /\ Speeds \subseteq Nat
  /\ Failures \in BOOLEAN
  /\ Crashes \in BOOLEAN
  /\ Budget \in Nat

VARIABLES
  row,     \* the row of the router: its link, nodes_hash, primary and preferred
           \* node, and whether it is due for a measurement (measureEvery)
  panel,   \* the nodes the panel returns for each link
  inst,    \* the nodes and the main one in the files of the router
  lock,    \* who holds the router's lock
  pc,      \* what each handler does next
  job,     \* its copy rc of the row, the flags of syncRouter and the set it fetched
  budget,  \* what is left of Budget
  beaten   \* history: a measurement of the node now preferred has found another
           \* one twice as fast, or the only one to answer

vars == <<row, panel, inst, lock, pc, job, budget, beaten>>

Workers == Handlers \cup {Loop}

\* set.Hash(): equal exactly for equal nodes and an equal main node.
Conf(s) == [nodes |-> s.nodes, main |-> Main(s.nodes, s.primary)]

OptTag == Tags \cup {NoTag}
Confs == {Conf([nodes |-> l, primary |-> p]) : l \in NodeLists, p \in OptTag}
Rows == [sub : Subs \cup {NoSub}, hash : Confs \cup {NoHash},
         primary : OptTag, preferred : OptTag, due : BOOLEAN]
NoSet == [nodes |-> <<>>, primary |-> NoTag]
Row0 == [sub |-> NoSub, hash |-> NoHash, primary |-> NoTag, preferred |-> NoTag, due |-> TRUE]
NoJob == [rc |-> Row0, dry |-> FALSE, force |-> FALSE, measure |-> FALSE, set |-> NoSet]
Jobs == [rc : Rows, dry : BOOLEAN, force : BOOLEAN, measure : BOOLEAN,
         set : [nodes : NodeLists, primary : OptTag] \cup {NoSet}]

TypeOK ==
  /\ row \in Rows
  /\ panel \in [Subs -> Answers]
  /\ inst \in Confs \cup {NoNodes, Mixed}
  /\ lock \in Workers \cup {NoOne}
  /\ pc \in [Workers -> {"idle", "setsub", "setpreferred", "fetch", "acquire",
                         "connect", "measure", "setprimary", "apply", "sethash"}]
  /\ job \in [Workers -> Jobs]
  /\ budget \in 0..Budget
  /\ beaten \in BOOLEAN

Init ==
  /\ \E link \in Subs \cup {NoSub} : row = [Row0 EXCEPT !.sub = link]
  /\ panel \in [Subs -> Answers]
  /\ inst = NoNodes
  /\ lock = NoOne
  /\ pc = [h \in Workers |-> "idle"]
  /\ job = [h \in Workers |-> NoJob]
  /\ budget = Budget
  /\ beaten = FALSE

Spend == budget > 0 /\ budget' = budget - 1

-----------------------------------------------------------------------------
(* The callers of syncRouter take their copy of the row.                   *)

Start(h, at, rc, dry, force, measure) ==
  /\ pc[h] = "idle"
  /\ pc' = [pc EXCEPT ![h] = at]
  /\ job' = [job EXCEPT ![h] = [rc |-> rc, dry |-> dry, force |-> force,
                                measure |-> measure, set |-> NoSet]]
  /\ UNCHANGED <<row, panel, inst, lock, beaten>>

\* syncAll has read all rows before the first router.
Night ==
  /\ row.sub # NoSub
  /\ Start(Loop, "fetch", row, FALSE, FALSE, FALSE)
  /\ UNCHANGED budget

\* handleSync: force is always set.
Sync(h) ==
  /\ row.sub # NoSub
  /\ \E k \in Kinds \cap {"manual", "measure", "dry", "drymeasure"} :
       Start(h, "fetch", row, k \in {"dry", "drymeasure"}, TRUE, k \in {"measure", "drymeasure"})
  /\ Spend

\* handleRouterSub, once the new link was found to work.
RouterSub(h) ==
  /\ "sub" \in Kinds
  /\ \E link \in Subs :
       Start(h, "setsub", [row EXCEPT !.sub = link, !.hash = NoHash], TRUE, TRUE, FALSE)
  /\ Spend

\* handleRouterPrimary: a node of the subscription becomes the preferred one.
RouterPrimary(h) ==
  /\ "prefer" \in Kinds
  /\ row.sub # NoSub
  /\ \E tag \in TagSet(panel[row.sub]) :
       Start(h, "setpreferred", [row EXCEPT !.primary = tag, !.preferred = tag],
             FALSE, TRUE, FALSE)
  /\ Spend

\* handleRouterPrimary with an empty name: back to the choice by measurement.
RouterAuto(h) ==
  /\ "auto" \in Kinds
  /\ Start(h, "setpreferred", [row EXCEPT !.preferred = NoTag], TRUE, TRUE, FALSE)
  /\ Spend

SetSubURL(h) ==
  /\ pc[h] = "setsub"
  /\ row' = [row EXCEPT !.sub = job[h].rc.sub, !.hash = NoHash]
  /\ pc' = [pc EXCEPT ![h] = "fetch"]
  /\ UNCHANGED <<panel, inst, lock, job, budget, beaten>>

\* Writes both columns from the copy.
SetPreferred(h) ==
  /\ pc[h] = "setpreferred"
  /\ row' = [row EXCEPT !.primary = job[h].rc.primary, !.preferred = job[h].rc.preferred]
  /\ beaten' = FALSE
  /\ pc' = [pc EXCEPT ![h] = "fetch"]
  /\ UNCHANGED <<panel, inst, lock, job, budget>>

-----------------------------------------------------------------------------
(* syncRouter.                                                             *)

\* It returns, and its deferred release runs if it had the lock.
Return(h) ==
  /\ pc' = [pc EXCEPT ![h] = "idle"]
  /\ job' = [job EXCEPT ![h] = NoJob]
  /\ lock' = IF lock = h THEN NoOne ELSE lock

\* Mutant of Fetch: the weekly measurement does not count.
FetchUnmeasured(h) ==
  LET rc == job[h].rc
      set == [nodes |-> panel[rc.sub], primary |-> rc.primary]
  IN  /\ pc[h] = "fetch"
      /\ rc.sub # NoSub
      /\ IF ~job[h].force /\ ~job[h].measure /\ Conf(set) = rc.hash
         THEN Return(h)
         ELSE /\ pc' = [pc EXCEPT ![h] = IF ~job[h].dry \/ job[h].measure
                                         THEN "acquire" ELSE "connect"]
              /\ job' = [job EXCEPT ![h].set = set]
              /\ UNCHANGED lock
      /\ UNCHANGED <<row, panel, inst, budget, beaten>>

Fetch(h) ==
  LET rc == job[h].rc
      set == [nodes |-> panel[rc.sub], primary |-> rc.primary]
      measure == job[h].measure \/ (~job[h].dry /\ rc.due)
  IN  /\ pc[h] = "fetch"
      /\ rc.sub # NoSub
      /\ IF ~job[h].force /\ ~measure /\ Conf(set) = rc.hash
         THEN Return(h)
         ELSE /\ pc' = [pc EXCEPT ![h] = IF ~job[h].dry \/ measure THEN "acquire" ELSE "connect"]
              /\ job' = [job EXCEPT ![h].set = set, ![h].measure = measure]
              /\ UNCHANGED lock
      /\ UNCHANGED <<row, panel, inst, budget, beaten>>

NoSubscription(h) ==
  /\ pc[h] = "fetch"
  /\ job[h].rc.sub = NoSub
  /\ Return(h)
  /\ UNCHANGED <<row, panel, inst, budget, beaten>>

Acquire(h) ==
  /\ pc[h] = "acquire"
  /\ lock = NoOne
  /\ lock' = h
  /\ pc' = [pc EXCEPT ![h] = "connect"]
  /\ UNCHANGED <<row, panel, inst, job, budget, beaten>>

Busy(h) ==
  /\ pc[h] = "acquire"
  /\ lock # NoOne
  /\ Return(h)
  /\ UNCHANGED <<row, panel, inst, budget, beaten>>

Connect(h) ==
  /\ pc[h] = "connect"
  /\ pc' = [pc EXCEPT ![h] = IF job[h].measure THEN "measure" ELSE "apply"]
  /\ UNCHANGED <<row, panel, inst, lock, job, budget, beaten>>

\* The panel or the router does not answer.
Unreachable(h) ==
  /\ pc[h] \in {"fetch", "connect"}
  /\ Return(h)
  /\ Spend
  /\ UNCHANGED <<row, panel, inst, beaten>>

-----------------------------------------------------------------------------
(* The measurement.                                                        *)

\* Only nodes that are on the router already are measured.
OnRouter(list) ==
  CASE inst = NoNodes -> {}
    [] inst = Mixed -> {}
    [] OTHER -> TagSet(list) \cap TagSet(inst.nodes)

\* Another node is worth leaving the preferred one for.
Beats(speeds, pref) ==
  /\ pref \in DOMAIN speeds
  /\ \E tag \in DOMAIN speeds :
       speeds[tag] > 0 /\ (speeds[pref] = 0 \/ TwiceAsFast(speeds[tag], speeds[pref]))

Measure(h) ==
  LET list == job[h].set.nodes
      have == OnRouter(list)
  IN  /\ pc[h] = "measure"
      /\ \E a, b \in have : a # b
      /\ \E speeds \in [have -> Speeds] :
           LET best == PickPrimary(list, job[h].set.primary, speeds, job[h].rc.preferred)
           IN  /\ job' = [job EXCEPT ![h].set.primary = best]
               /\ beaten' = (beaten \/ Beats(speeds, row.preferred))
      /\ row' = [row EXCEPT !.due = FALSE]
      /\ pc' = [pc EXCEPT ![h] = "setprimary"]
      /\ UNCHANGED <<panel, inst, lock, budget>>

SetPrimary(h) ==
  /\ pc[h] = "setprimary"
  /\ row' = [row EXCEPT !.primary = job[h].set.primary]
  /\ pc' = [pc EXCEPT ![h] = "apply"]
  /\ UNCHANGED <<panel, inst, lock, job, budget, beaten>>

\* Too little memory: the next attempt is a week away.
LowMemory(h) ==
  /\ pc[h] = "measure"
  /\ row' = [row EXCEPT !.due = FALSE]
  /\ pc' = [pc EXCEPT ![h] = "apply"]
  /\ UNCHANGED <<panel, inst, lock, job, budget, beaten>>

\* It failed, or there were not two nodes to compare.
NoMeasurement(h) ==
  /\ pc[h] = "measure"
  /\ pc' = [pc EXCEPT ![h] = "apply"]
  /\ UNCHANGED <<row, panel, inst, lock, job, budget, beaten>>

-----------------------------------------------------------------------------
(* router.ApplyNodes and what syncRouter makes of its result.              *)

Unchanged(h) ==
  /\ pc[h] = "apply"
  /\ inst = Conf(job[h].set)
  /\ pc' = [pc EXCEPT ![h] = "sethash"]
  /\ UNCHANGED <<row, panel, inst, lock, job, budget, beaten>>

WouldChange(h) ==
  /\ pc[h] = "apply"
  /\ inst # Conf(job[h].set)
  /\ job[h].dry
  /\ Return(h)
  /\ UNCHANGED <<row, panel, inst, budget, beaten>>

Apply(h) ==
  /\ pc[h] = "apply"
  /\ inst # Conf(job[h].set)
  /\ ~job[h].dry
  /\ inst' = Conf(job[h].set)
  /\ pc' = [pc EXCEPT ![h] = "sethash"]
  /\ UNCHANGED <<row, panel, lock, job, budget, beaten>>

ApplyFails(h) ==
  /\ pc[h] = "apply"
  /\ inst # Conf(job[h].set)
  /\ ~job[h].dry
  /\ inst' \in IF Failures THEN {inst, Conf(job[h].set), Mixed} ELSE {inst}
  /\ Return(h)
  /\ Spend
  /\ UNCHANGED <<row, panel, beaten>>

\* Mutant of SetNodesHash: the hash of the set with the primary node of the
\* store, which the subscription may no longer have.
SetRawHash(h) ==
  /\ pc[h] = "sethash"
  /\ row' = [row EXCEPT !.hash = [nodes |-> job[h].set.nodes, main |-> job[h].set.primary]]
  /\ Return(h)
  /\ UNCHANGED <<panel, inst, budget, beaten>>

SetNodesHash(h) ==
  /\ pc[h] = "sethash"
  /\ row' = [row EXCEPT !.hash = Conf(job[h].set)]
  /\ Return(h)
  /\ UNCHANGED <<panel, inst, budget, beaten>>

Step(h) == \/ SetSubURL(h) \/ SetPreferred(h)
           \/ Fetch(h) \/ NoSubscription(h) \/ Acquire(h) \/ Busy(h) \/ Connect(h)
           \/ Measure(h) \/ SetPrimary(h) \/ LowMemory(h) \/ NoMeasurement(h)
           \/ Unchanged(h) \/ WouldChange(h) \/ Apply(h) \/ SetNodesHash(h)

-----------------------------------------------------------------------------
(* The surroundings.                                                       *)

\* The owner of the panel changes the hosts.
PanelChanges ==
  /\ \E link \in Subs, list \in Answers : panel' = [panel EXCEPT ![link] = list]
  /\ Spend
  /\ UNCHANGED <<row, inst, lock, pc, job, beaten>>

\* More than measureEvery has passed since MeasuredAt.
WeekPasses ==
  /\ ~row.due
  /\ row' = [row EXCEPT !.due = TRUE]
  /\ UNCHANGED <<panel, inst, lock, pc, job, budget, beaten>>

ServerRestart ==
  /\ Crashes
  /\ pc' = [h \in Workers |-> "idle"]
  /\ job' = [h \in Workers |-> NoJob]
  /\ lock' = NoOne
  /\ Spend
  /\ UNCHANGED <<row, panel, inst, beaten>>

Next ==
  \/ \E h \in Handlers : Sync(h) \/ RouterSub(h) \/ RouterPrimary(h) \/ RouterAuto(h)
  \/ \E h \in Workers : Step(h) \/ Unreachable(h) \/ ApplyFails(h)
  \/ Night \/ PanelChanges \/ WeekPasses \/ ServerRestart

\* syncLoop goes on for ever, handlers run, weeks pass.
Fairness ==
  /\ \A h \in Workers : WF_vars(Step(h))
  /\ WF_vars(Night)
  /\ WF_vars(WeekPasses)

Spec == Init /\ [][Next]_vars /\ Fairness

-----------------------------------------------------------------------------
(* Properties.                                                             *)

InSync == row.sub # NoSub =>
            inst = Conf([nodes |-> panel[row.sub], primary |-> row.primary])

\* Once nobody interferes any more, the nightly synchronisation brings every
\* router to the nodes of its subscription and the main node of the store, even
\* if nodes_hash lies about the router after a failed rollback, a restart or a
\* race: the weekly measurement does not ask it (sync.go:299-300).
Converges == []<>InSync

\* "The nodes on the router" (store.go:28): whenever nobody works on the router,
\* nodes_hash is empty or that of the nodes in its files.
HashDescribesRouter == lock = NoOne => row.hash \in {NoHash, inst}

\* The preferred node is left only for one twice as fast (sync.go:150): while
\* the subscription has it, it is the main one unless a measurement of it said so.
PreferenceHolds ==
  /\ row.sub # NoSub
  /\ row.preferred \in TagSet(panel[row.sub])
  /\ row.primary # row.preferred
  => beaten
=============================================================================
