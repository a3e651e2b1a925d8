----------------------------- MODULE NodesProofs -----------------------------
(***************************************************************************)
(* For any list of nodes and any speeds: the main node, its backup, and    *)
(* the node a measurement chooses.  NodeSelect and NodeSync build on them. *)
(***************************************************************************)
EXTENDS Nodes, WellFoundedInduction, TLAPS

\* Every set of naturals that has an element has a least one.
LEMMA LeastElement ==
  ASSUME NEW S \in SUBSET Nat, S # {}
  PROVE  \E i \in S : \A j \in S : i <= j
<1>1. IsWellFoundedOn(OpToRel(<, Nat), Nat)
  BY NatLessThanWellFounded
<1>2. PICK i \in S : \A j \in S : ~ (<<j, i>> \in OpToRel(<, Nat))
  BY <1>1, WFMin
<1>3. \A j \in S : ~(j < i)
  BY <1>2 DEF OpToRel
<1> QED
  BY <1>3

\* Among the first m numbers f gives there is a greatest one.
LEMMA GreatestValue ==
  ASSUME NEW n \in Nat \ {0}, NEW f \in [1..n -> Nat]
  PROVE  \E i \in 1..n : \A j \in 1..n : f[j] <= f[i]
<1> DEFINE Top(m) == \E i \in 1..m : \A j \in 1..m : f[j] <= f[i]
           Bad == {m \in 1..n : ~Top(m)}
<1>1. SUFFICES ASSUME Bad # {} PROVE FALSE
  <2>1. n \in 1..n
    OBVIOUS
  <2> QED
    BY <2>1
<1>2. PICK m \in Bad : \A k \in Bad : m <= k
  <2>1. Bad \in SUBSET Nat
    OBVIOUS
  <2> HIDE DEF Bad
  <2> QED
    BY <1>1, <2>1, LeastElement
<1>3. m # 1
  BY <1>2
<1>4. m - 1 \in 1..n /\ m - 1 \notin Bad
  <2>1. m \in 1..n
    BY <1>2
  <2>2. m - 1 \in 1..n /\ ~(m <= m - 1)
    BY <1>3, <2>1
  <2> HIDE DEF Bad
  <2> QED
    BY <1>2, <2>2
<1>5. PICK i \in 1..(m - 1) : \A j \in 1..(m - 1) : f[j] <= f[i]
  BY <1>4
<1>6. CASE f[m] <= f[i]
  <2>1. \A j \in 1..m : f[j] <= f[i]
    BY <1>2, <1>5, <1>6
  <2> QED
    BY <1>2, <1>5, <2>1
<1>7. CASE f[i] <= f[m]
  <2>1. \A j \in 1..m : f[j] <= f[m]
    BY <1>2, <1>5, <1>7
  <2> QED
    BY <1>2, <2>1
<1> QED
  BY <1>2, <1>5, <1>6, <1>7

-----------------------------------------------------------------------------
(* Main, Backup, Best and PickPrimary.                                     *)

Lists == UNION {[1..n -> Tags] : n \in 1..MaxNodes}

LEMMA ListFacts ==
  ASSUME NEW links \in Lists
  PROVE  \E n \in 1..MaxNodes : n \in Nat \ {0} /\ links \in [1..n -> Tags] /\ DOMAIN links = 1..n
BY MaxNodesAssumption DEF Lists

LEMMA MainFacts ==
  ASSUME NEW nodes \in Lists, NEW tag
  PROVE  /\ Main(nodes, tag) \in TagSet(nodes)
         /\ tag \in TagSet(nodes) => Main(nodes, tag) = tag
         /\ Has(nodes, tag) <=> tag \in TagSet(nodes)
         /\ TagSet(nodes) \subseteq Tags
<1>1. 1 \in DOMAIN nodes
  BY ListFacts
<1> QED
  BY <1>1, ListFacts DEF Main, Has, TagSet

\* The chosen element of a set of positions is one of them.
LEMMA FirstPosition ==
  ASSUME NEW n \in Nat, NEW S \in SUBSET (1..n), S # {}
  PROVE  (CHOOSE i \in S : \A j \in S : i <= j) \in S
<1>1. \E i \in S : \A j \in S : i <= j
  <2>1. S \in SUBSET Nat
    OBVIOUS
  <2> QED
    BY <2>1, LeastElement
<1> QED
  BY <1>1

LEMMA BackupFacts ==
  ASSUME NEW nodes \in Lists, NEW tag
  PROVE  /\ Backup(nodes, tag) \in TagSet(nodes)
         /\ (\E other \in TagSet(nodes) : other # Main(nodes, tag)) =>
              Backup(nodes, tag) # Main(nodes, tag)
<1> DEFINE others == {i \in DOMAIN nodes : nodes[i] # Main(nodes, tag)}
<1>1. PICK n \in Nat \ {0} : nodes \in [1..n -> Tags]
  BY ListFacts
<1>2. CASE others = {}
  <2>1. Backup(nodes, tag) = Main(nodes, tag)
    BY <1>2 DEF Backup
  <2> QED
    BY <1>2, <2>1, MainFacts DEF TagSet
<1>3. CASE others # {}
  <2>1. others \in SUBSET (1..n)
    BY <1>1
  <2>2. PICK i \in others : i = CHOOSE k \in others : \A j \in others : k <= j
    <3> HIDE DEF others
    <3> QED
      BY <1>1, <1>3, <2>1, FirstPosition
  <2>3. Backup(nodes, tag) = nodes[i]
    BY <1>3, <2>2 DEF Backup
  <2> QED
    BY <2>2, <2>3 DEF TagSet
<1> QED
  BY <1>2, <1>3

\* The best node is the fastest, and the main one if no other is faster.
LEMMA BestFacts ==
  ASSUME NEW nodes \in Lists, NEW tag, NEW measured,
         \A t \in Tags : Speed(measured, t) \in Nat
  PROVE  /\ Best(nodes, tag, measured) \in TagSet(nodes)
         /\ \A t \in TagSet(nodes) :
              Speed(measured, t) <= Speed(measured, Best(nodes, tag, measured))
         /\ Speed(measured, Main(nodes, tag)) = Speed(measured, Best(nodes, tag, measured))
              => Best(nodes, tag, measured) = Main(nodes, tag)
<1> DEFINE fastest == {i \in DOMAIN nodes : \A j \in DOMAIN nodes :
                         Speed(measured, nodes[j]) <= Speed(measured, nodes[i])}
           main == Main(nodes, tag)
           best == Best(nodes, tag, measured)
<1>1. PICK n \in Nat \ {0} : nodes \in [1..n -> Tags] /\ DOMAIN nodes = 1..n
  BY ListFacts
<1>2. fastest # {}
  <2> DEFINE f == [i \in 1..n |-> Speed(measured, nodes[i])]
  <2>1. f \in [1..n -> Nat]
    BY <1>1
  <2>2. PICK i \in 1..n : \A j \in 1..n : f[j] <= f[i]
    <3> HIDE DEF f
    <3> QED
      BY <2>1, GreatestValue
  <2>3. i \in fastest
    BY <1>1, <2>2
  <2> QED
    BY <2>3
<1>3. PICK i \in fastest : best = nodes[i]
  <2>1. CASE \E i \in fastest : nodes[i] = main
    BY <2>1 DEF Best
  <2>2. CASE ~\E i \in fastest : nodes[i] = main
    <3>1. best = nodes[CHOOSE k \in fastest : \A j \in fastest : k <= j]
      BY <2>2 DEF Best
    <3>2. fastest \in SUBSET (1..n)
      BY <1>1
    <3>3. (CHOOSE k \in fastest : \A j \in fastest : k <= j) \in fastest
      <4> HIDE DEF fastest
      <4> QED
        BY <1>1, <1>2, <3>2, FirstPosition
    <3> QED
      BY <3>1, <3>3
  <2> QED
    BY <2>1, <2>2
<1>4. \A t \in TagSet(nodes) : Speed(measured, t) <= Speed(measured, best)
  BY <1>3 DEF TagSet
<1>5. ASSUME Speed(measured, main) = Speed(measured, best)
      PROVE  best = main
  <2>1. PICK k \in DOMAIN nodes : nodes[k] = main
    BY MainFacts DEF TagSet
  <2>2. k \in fastest
    BY <1>3, <1>5, <2>1
  <2> QED
    BY <2>1, <2>2 DEF Best
<1> QED
  BY <1>3, <1>4, <1>5 DEF TagSet

\* Measured once more with the same speeds, the choice is the same.
LEMMA PickTwice ==
  ASSUME NEW nodes \in Lists, NEW old \in Tags \cup {NoTag}, NEW measured,
         \A t \in Tags : Speed(measured, t) \in Nat,
         NEW pref \in Tags \cup {NoTag}
  PROVE  LET new == PickPrimary(nodes, old, measured, pref)
         IN  /\ new \in TagSet(nodes)
             /\ PickPrimary(nodes, new, measured, pref) = new
<1> DEFINE new == PickPrimary(nodes, old, measured, pref)
           best == Best(nodes, old, measured)
           main == Main(nodes, old)
           Keep(v, w) == ~((v = 0 /\ w > 0) \/ (v > 0 /\ TwiceAsFast(w, v)))
           Stay(v, w) == ~((v = 0 /\ w > 0) \/ MuchFaster(w, v))
<1>1. best \in TagSet(nodes) /\ main \in TagSet(nodes) /\ TagSet(nodes) \subseteq Tags
  BY BestFacts, MainFacts
<1>2. \A t \in TagSet(nodes) : Main(nodes, t) = t
  BY MainFacts
<1>3. \A t \in TagSet(nodes) : Speed(measured, Best(nodes, t, measured)) = Speed(measured, best)
  <2>1. ASSUME NEW t \in TagSet(nodes)
        PROVE  /\ Best(nodes, t, measured) \in TagSet(nodes)
               /\ Speed(measured, best) <= Speed(measured, Best(nodes, t, measured))
               /\ Speed(measured, Best(nodes, t, measured)) <= Speed(measured, best)
    BY <1>1, BestFacts
  <2>2. \A t \in TagSet(nodes) : Speed(measured, t) \in Nat
    BY <1>1
  <2>3. \A v, w \in Nat : v <= w /\ w <= v => v = w
    OBVIOUS
  <2> HIDE DEF best
  <2> QED
    BY <1>1, <2>1, <2>2, <2>3
<1>4. Best(nodes, best, measured) = best
  <2>1. Main(nodes, best) = best
    BY <1>1, <1>2
  <2> QED
    BY <1>1, <1>3, <2>1, BestFacts
<1>5. CASE Has(nodes, pref)
  <2>1. pref \in TagSet(nodes)
    BY <1>5, MainFacts
  <2>2. \A t : PickPrimary(nodes, t, measured, pref) =
                 IF Keep(Speed(measured, pref), Speed(measured, Best(nodes, t, measured)))
                 THEN pref ELSE Best(nodes, t, measured)
    BY <1>5 DEF PickPrimary
  <2> HIDE DEF Keep
  <2>3. CASE Keep(Speed(measured, pref), Speed(measured, best))
    BY <1>3, <2>1, <2>2, <2>3
  <2>4. CASE ~Keep(Speed(measured, pref), Speed(measured, best))
    BY <1>1, <1>4, <2>2, <2>4
  <2> QED
    BY <2>3, <2>4
<1>6. CASE ~Has(nodes, pref)
  <2>1. \A t : PickPrimary(nodes, t, measured, pref) =
                 IF Stay(Speed(measured, Main(nodes, t)), Speed(measured, Best(nodes, t, measured)))
                 THEN Main(nodes, t) ELSE Best(nodes, t, measured)
    BY <1>6 DEF PickPrimary
  <2> HIDE DEF Stay
  <2>2. CASE Stay(Speed(measured, main), Speed(measured, best))
    <3>1. new = main
      BY <2>1, <2>2
    <3>2. /\ Main(nodes, main) = main
          /\ Speed(measured, Best(nodes, main, measured)) = Speed(measured, best)
      BY <1>1, <1>2, <1>3
    <3> QED
      BY <1>1, <2>1, <2>2, <3>1, <3>2
  <2>3. CASE ~Stay(Speed(measured, main), Speed(measured, best))
    <3>1. new = best
      BY <2>1, <2>3
    <3>2. PickPrimary(nodes, best, measured, pref) = best
      BY <1>1, <1>2, <1>4, <2>1
    <3> QED
      BY <1>1, <3>1, <3>2
  <2> QED
    BY <2>2, <2>3
<1> QED
  BY <1>5, <1>6

\* No node without an answer is chosen over one that answers, and none is left twice
\* as fast as the choice.
LEMMA PickIsGood ==
  ASSUME NEW nodes \in Lists, NEW old \in Tags \cup {NoTag}, NEW measured,
         \A t \in Tags : Speed(measured, t) \in Nat,
         NEW pref \in Tags \cup {NoTag},
         NEW tag \in TagSet(nodes), Speed(measured, tag) > 0
  PROVE  LET new == PickPrimary(nodes, old, measured, pref)
         IN  Speed(measured, new) > 0 /\ ~TwiceAsFast(Speed(measured, tag), Speed(measured, new))
<1> DEFINE best == Best(nodes, old, measured)
           main == Main(nodes, old)
<1>1. /\ best \in TagSet(nodes) /\ main \in TagSet(nodes) /\ TagSet(nodes) \subseteq Tags
      /\ Speed(measured, tag) <= Speed(measured, best)
  BY BestFacts, MainFacts
<1>2. /\ Speed(measured, best) \in Nat /\ Speed(measured, main) \in Nat
      /\ Speed(measured, tag) \in Nat
  BY <1>1
<1>3. CASE PickPrimary(nodes, old, measured, pref) = best
  BY <1>1, <1>2, <1>3 DEF TwiceAsFast
<1>4. CASE Has(nodes, pref) /\ PickPrimary(nodes, old, measured, pref) # best
  <2>1. pref \in TagSet(nodes)
    BY <1>4, MainFacts
  <2>2. Speed(measured, pref) \in Nat
    BY <1>1, <2>1
  <2>3. PickPrimary(nodes, old, measured, pref) = pref
    BY <1>4 DEF PickPrimary
  <2>4. ~(Speed(measured, pref) = 0 /\ Speed(measured, best) > 0)
        /\ ~(Speed(measured, pref) > 0 /\ TwiceAsFast(Speed(measured, best), Speed(measured, pref)))
    BY <1>4 DEF PickPrimary
  <2> QED
    BY <1>1, <1>2, <2>2, <2>3, <2>4 DEF TwiceAsFast
<1>5. CASE ~Has(nodes, pref) /\ PickPrimary(nodes, old, measured, pref) # best
  <2>1. PickPrimary(nodes, old, measured, pref) = main
    BY <1>5 DEF PickPrimary
  <2>2. ~(Speed(measured, main) = 0 /\ Speed(measured, best) > 0)
        /\ ~MuchFaster(Speed(measured, best), Speed(measured, main))
    BY <1>5 DEF PickPrimary
  <2> QED
    BY <1>1, <1>2, <2>1, <2>2 DEF TwiceAsFast, MuchFaster
<1> QED
  BY <1>3, <1>4, <1>5
==============================================================================
