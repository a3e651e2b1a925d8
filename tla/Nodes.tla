------------------------------- MODULE Nodes -------------------------------
(***************************************************************************)
(* The nodes of a subscription: which is the main one, which one backs it  *)
(* up (internal/nodes/nodes.go), and when a measurement changes the main   *)
(* one (pickPrimary, cmd/rt-server/sync.go:188).                           *)
(***************************************************************************)
EXTENDS Naturals, Sequences

CONSTANTS
  Tags,      \* the tags a node can have
  NoTag,     \* the empty string
  MaxNodes   \* a subscription has at most so many nodes

ASSUME TagsAssumption == NoTag \notin Tags
ASSUME MaxNodesAssumption == MaxNodes \in Nat \ {0}

\* nodes.Set: the tags of its nodes, in the order of the subscription.
NodeLists == {s \in UNION {[1..n -> Tags] : n \in 1..MaxNodes} :
                \A i, j \in DOMAIN s : s[i] = s[j] => i = j}

Has(list, tag) == \E i \in DOMAIN list : list[i] = tag

TagSet(list) == {list[i] : i \in DOMAIN list}

Main(list, primary) == IF Has(list, primary) THEN primary ELSE list[1]

\* Mutant of Backup: the first node, whichever is the main one.
BackupFirst(list, primary) == list[1]

\* The first node that is not the main one; the main one itself if it is alone.
Backup(list, primary) ==
  LET others == {i \in DOMAIN list : list[i] # Main(list, primary)}
  IN  IF others = {} THEN Main(list, primary)
      ELSE list[CHOOSE i \in others : \A j \in others : i <= j]

\* speeds[tag] of a Go map: 0 for a node that was not measured.
Speed(speeds, tag) == IF tag \in DOMAIN speeds THEN speeds[tag] ELSE 0

\* The loop of pickPrimary: the main node, unless others are strictly faster;
\* then the first of the fastest.
Best(list, primary, speeds) ==
  LET fastest == {i \in DOMAIN list : \A j \in DOMAIN list :
                     Speed(speeds, list[j]) <= Speed(speeds, list[i])}
      main == Main(list, primary)
  IN  IF \E i \in fastest : list[i] = main THEN main
      ELSE list[CHOOSE i \in fastest : \A j \in fastest : i <= j]

\* At least 1.3 times (switchMargin) or twice (preferMargin) as fast.
MuchFaster(a, b) == a * 10 >= b * 13
TwiceAsFast(a, b) == a >= b * 2

\* Mutants of PickPrimary: a dead preferred node is kept, the backup instead of
\* the best node, and no margin.
PickPrimaryDead(list, primary, speeds, preferred) ==
  LET main == Main(list, primary)
      best == Best(list, primary, speeds)
      vmain == Speed(speeds, main)
      vbest == Speed(speeds, best)
      vpref == Speed(speeds, preferred)
  IN  IF Has(list, preferred)
      THEN IF vpref > 0 /\ TwiceAsFast(vbest, vpref) THEN best ELSE preferred
      ELSE IF (vmain = 0 /\ vbest > 0) \/ MuchFaster(vbest, vmain)
           THEN best ELSE main
PickPrimaryBackup(list, primary, speeds, preferred) ==
  IF Has(list, preferred) /\ Speed(speeds, preferred) > 0
  THEN preferred ELSE Backup(list, primary)
PickPrimaryFastest(list, primary, speeds, preferred) ==
  IF Has(list, preferred) THEN preferred ELSE Best(list, primary, speeds)

PickPrimary(list, primary, speeds, preferred) ==
  LET main == Main(list, primary)
      best == Best(list, primary, speeds)
      vmain == Speed(speeds, main)
      vbest == Speed(speeds, best)
      vpref == Speed(speeds, preferred)
  IN  IF Has(list, preferred)
      THEN IF (vpref = 0 /\ vbest > 0) \/ (vpref > 0 /\ TwiceAsFast(vbest, vpref))
           THEN best ELSE preferred
      ELSE IF (vmain = 0 /\ vbest > 0) \/ MuchFaster(vbest, vmain)
           THEN best ELSE main
=============================================================================
