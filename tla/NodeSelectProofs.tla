-------------------------- MODULE NodeSelectProofs --------------------------
(***************************************************************************)
(* For any subscription and any speeds: the tags of the nodes, and how     *)
(* measurements and the administrator change the main node over time.      *)
(***************************************************************************)
EXTENDS NodeSelect, NodesProofs, FiniteSetTheorems, TLAPS

-----------------------------------------------------------------------------
(* Parse and Only.                                                         *)

\* The first links with the same label, up to a position.
Same(links, i) == {j \in 1..i : links[j].label = links[i].label}

LEMMA UsedFacts ==
  ASSUME NEW links, NEW i \in Nat \ {0}
  PROVE  /\ IsFiniteSet(Same(links, i))
         /\ Used(links, i) = Cardinality(Same(links, i))
         /\ Used(links, i) \in 1..i
<1>1. IsFiniteSet(1..i) /\ Cardinality(1..i) = i
  BY FS_Interval
<1>2. Same(links, i) \in SUBSET (1..i) /\ Same(links, i) # {}
  <2>1. i \in Same(links, i)
    BY DEF Same
  <2> QED
    BY <2>1 DEF Same
<1>3. IsFiniteSet(Same(links, i)) /\ Cardinality(Same(links, i)) <= i
  BY <1>1, <1>2, FS_Subset
<1>4. Cardinality(Same(links, i)) \in Nat /\ Cardinality(Same(links, i)) # 0
  BY <1>2, <1>3, FS_CardinalityType, FS_EmptySet
<1>5. Used(links, i) = Cardinality(Same(links, i))
  BY DEF Used, Same
<1> QED
  BY <1>3, <1>4, <1>5

LEMMA UsedGrows ==
  ASSUME NEW links, NEW i \in Nat \ {0}, NEW j \in Nat \ {0}, i < j,
         links[i].label = links[j].label
  PROVE  Used(links, i) < Used(links, j)
<1>1. Same(links, i) \in SUBSET Same(links, j)
  BY DEF Same
<1>2. j \in Same(links, j) /\ j \notin Same(links, i)
  BY DEF Same
<1>3. /\ Cardinality(Same(links, i)) <= Cardinality(Same(links, j))
      /\ Cardinality(Same(links, i)) # Cardinality(Same(links, j))
  BY <1>1, <1>2, UsedFacts, FS_Subset
<1>4. Used(links, i) \in Nat /\ Used(links, j) \in Nat
  BY UsedFacts
<1> QED
  BY <1>3, <1>4, UsedFacts

\* Two positions with one tag: one is a label, the other the renaming of another.
Clash(tag) == tag \in Labels /\ \E label \in Labels, k \in 2..MaxNodes : Suffixed[<<label, k>>] = tag

LEMMA ParseFacts ==
  ASSUME NEW n \in 1..MaxNodes, NEW links \in [1..n -> [label : Labels, marked : BOOLEAN]]
  PROVE  /\ Parse(links) \in [1..n -> Tags]
         /\ \A i, j \in 1..n : i # j /\ Parse(links)[i] = Parse(links)[j] =>
              Clash(Parse(links)[i])
<1>1. DOMAIN links = 1..n /\ \A i \in 1..n : i \in Nat \ {0} /\ links[i].label \in Labels
  BY MaxNodesAssumption
<1>2. \A i \in 1..n : Used(links, i) \in 1..i
  BY <1>1, UsedFacts
<1>3. \A i \in 1..n : Parse(links)[i] =
        IF Used(links, i) > 1 THEN Suffixed[<<links[i].label, Used(links, i)>>] ELSE links[i].label
  BY <1>1 DEF Parse
<1>4. \A i \in 1..n : Used(links, i) > 1 => Used(links, i) \in 2..MaxNodes
  BY <1>2, MaxNodesAssumption
<1>5. \A i \in 1..n : Parse(links)[i] \in Tags
  BY <1>1, <1>3, <1>4, SuffixedAssumption
<1>6. Parse(links) \in [1..n -> Tags]
  BY <1>1, <1>5 DEF Parse
<1>7. ASSUME NEW i \in 1..n, NEW j \in 1..n, i < j, Parse(links)[i] = Parse(links)[j]
      PROVE  Clash(Parse(links)[i])
  <2>1. ASSUME links[i].label = links[j].label
        PROVE  Used(links, i) < Used(links, j)
    BY <1>1, <1>7, <2>1, UsedGrows
  <2>2. CASE Used(links, i) > 1 /\ Used(links, j) > 1
    <3>1. /\ <<links[i].label, Used(links, i)>> \in Labels \X (2..MaxNodes)
          /\ <<links[j].label, Used(links, j)>> \in Labels \X (2..MaxNodes)
      BY <1>1, <1>4, <2>2
    <3>2. Suffixed[<<links[i].label, Used(links, i)>>] = Suffixed[<<links[j].label, Used(links, j)>>]
      BY <1>3, <1>7, <2>2
    <3>3. <<links[i].label, Used(links, i)>> = <<links[j].label, Used(links, j)>>
      BY <3>1, <3>2, SuffixedAssumption
    <3> QED
      BY <1>2, <2>1, <3>3
  <2>3. CASE ~(Used(links, i) > 1) /\ ~(Used(links, j) > 1)
    <3>1. Used(links, i) = 1 /\ Used(links, j) = 1
      BY <1>1, <1>2, <2>3
    <3>2. links[i].label = links[j].label
      BY <1>3, <1>7, <2>3
    <3> QED
      BY <2>1, <3>1, <3>2
  <2>4. CASE Used(links, i) > 1 /\ ~(Used(links, j) > 1)
    BY <1>1, <1>3, <1>4, <1>7, <2>4 DEF Clash
  <2>5. CASE ~(Used(links, i) > 1) /\ Used(links, j) > 1
    BY <1>1, <1>3, <1>4, <1>7, <2>5 DEF Clash
  <2> QED
    BY <2>2, <2>3, <2>4, <2>5
<1>8. \A i, j \in 1..n : i # j => i < j \/ j < i
  BY MaxNodesAssumption
<1> QED
  BY <1>6, <1>7, <1>8

\* Counting the elements of a set of positions from the left meets every number.
LEMMA Ranks ==
  ASSUME NEW n \in Nat, NEW kept \in SUBSET (1..n), NEW m \in 1..Cardinality(kept)
  PROVE  \E i \in kept : Cardinality({j \in kept : j <= i}) = m
<1> DEFINE Upto(i) == {j \in kept : j <= i}
           S == {i \in 0..n : Cardinality(Upto(i)) >= m}
<1>0. \A j \in kept : j \in Nat /\ 1 <= j /\ j <= n
  OBVIOUS
<1>1. IsFiniteSet(kept)
  <2>1. IsFiniteSet(1..n)
    BY FS_Interval
  <2> QED
    BY <2>1, FS_Subset
<1>2. \A i : Upto(i) \in SUBSET kept
  OBVIOUS
<1>3. \A i : IsFiniteSet(Upto(i)) /\ Cardinality(Upto(i)) \in Nat
  <2> HIDE DEF Upto
  <2> QED
    BY <1>1, <1>2, FS_Subset, FS_CardinalityType
<1>4. Cardinality(kept) \in Nat /\ m \in Nat \ {0} /\ m <= Cardinality(kept)
  BY <1>1, FS_CardinalityType
<1>5. n \in S
  <2>1. Upto(n) = kept
    BY <1>0
  <2> QED
    BY <1>4, <2>1
<1>6. PICK i \in S : \A k \in S : i <= k
  <2>1. S \in SUBSET Nat
    OBVIOUS
  <2> HIDE DEF S
  <2> QED
    BY <1>5, <2>1, LeastElement
<1>7. i # 0
  <2>1. \A j \in kept : ~(j <= 0)
    BY <1>0
  <2>3. Upto(0) = {}
    BY <2>1
  <2>2. Cardinality(Upto(0)) = 0
    BY <2>3, FS_EmptySet
  <2> QED
    BY <1>4, <1>6, <2>2
<1>8. i \in 1..n /\ i - 1 \in 0..n /\ i - 1 \notin S
  <2>1. i \in 0..n
    BY <1>6
  <2>2. i \in 1..n /\ i - 1 \in 0..n /\ ~(i <= i - 1)
    BY <1>7, <2>1
  <2> HIDE DEF S
  <2> QED
    BY <1>6, <2>2
<1>9. Cardinality(Upto(i - 1)) < m /\ Cardinality(Upto(i)) >= m
  <2>1. i \in S
    BY <1>6
  <2>2. /\ Cardinality(Upto(i)) >= m
        /\ ~(Cardinality(Upto(i - 1)) >= m)
    BY <1>8, <2>1
  <2> HIDE DEF Upto
  <2> QED
    BY <1>3, <1>4, <2>2
<1>10. i \in kept /\ Cardinality(Upto(i)) = Cardinality(Upto(i - 1)) + 1
  <2>0. /\ \A j \in kept : j <= i <=> j <= i - 1 \/ j = i
        /\ ~(i <= i - 1) /\ i <= i
    BY <1>0, <1>8
  <2>1. CASE i \notin kept
    <3>1. Upto(i) = Upto(i - 1)
      BY <2>0, <2>1
    <3> QED
      BY <1>3, <1>4, <1>9, <3>1
  <2>2. CASE i \in kept
    <3>1. Upto(i) = Upto(i - 1) \cup {i} /\ i \notin Upto(i - 1)
      BY <2>0, <2>2
    <3> HIDE DEF Upto
    <3> QED
      BY <1>3, <2>2, <3>1, FS_AddElement
  <2> QED
    BY <2>1, <2>2
<1>11. Cardinality(Upto(i)) = m
  <2> HIDE DEF Upto
  <2> QED
    BY <1>3, <1>4, <1>9, <1>10
<1> QED
  BY <1>10, <1>11

\* Whatever the hosts of a subscription are called and whichever links have the mark,
\* two nodes share a tag only if a host is called like the renaming of another
\* (nodes.go:138-143).
THEOREM RenamedTagsDiffer ==
  \A links \in Links : Only(links) \in Lists /\ TagsDiffer(Only(links))
<1> SUFFICES ASSUME NEW links \in Links
             PROVE  Only(links) \in Lists /\ TagsDiffer(Only(links))
  OBVIOUS
<1> DEFINE tags == Parse(links)
           kept == {i \in DOMAIN links : links[i].marked}
           Nth(m) == CHOOSE i \in kept : Cardinality({j \in kept : j <= i}) = m
<1>1. PICK n \in 1..MaxNodes : links \in [1..n -> [label : Labels, marked : BOOLEAN]]
  BY DEF Links
<1>2. /\ tags \in [1..n -> Tags]
      /\ \A i, j \in 1..n : i # j /\ tags[i] = tags[j] => Clash(tags[i])
  BY <1>1, ParseFacts
<1>3. CASE kept = {}
  <2>1. Only(links) = tags
    BY <1>3 DEF Only
  <2> QED
    BY <1>2, <2>1 DEF Lists, TagsDiffer, Clash
<1>4. CASE kept # {}
  <2> DEFINE size == Cardinality(kept)
  <2>1. n \in Nat /\ kept \in SUBSET (1..n)
    BY <1>1, MaxNodesAssumption
  <2>2. size \in 1..MaxNodes
    <3>1. IsFiniteSet(1..n) /\ Cardinality(1..n) = n
      BY <2>1, FS_Interval
    <3> HIDE DEF kept
    <3>2. IsFiniteSet(kept) /\ size <= n
      BY <2>1, <3>1, FS_Subset
    <3>3. size \in Nat /\ size # 0
      BY <1>4, <3>2, FS_CardinalityType, FS_EmptySet
    <3> QED
      BY <2>1, <3>2, <3>3, MaxNodesAssumption
  <2>3. \A m \in 1..size : Nth(m) \in kept /\ Cardinality({j \in kept : j <= Nth(m)}) = m
    <3> HIDE DEF kept
    <3>1. \A m \in 1..size : \E i \in kept : Cardinality({j \in kept : j <= i}) = m
      BY <2>1, Ranks
    <3> QED
      BY <3>1
  <2>4. Only(links) = [m \in 1..size |-> tags[Nth(m)]]
    BY <1>4 DEF Only
  <2> HIDE DEF Nth, kept, tags
  <2>5. \A m \in 1..size : Nth(m) \in 1..n
    BY <2>1, <2>3
  <2>6. \A l, m \in 1..size : l # m => Nth(l) # Nth(m)
    BY <2>3
  <2>7. Only(links) \in [1..size -> Tags]
    BY <1>2, <2>4, <2>5
  <2>8. \A l, m \in 1..size : l # m /\ Only(links)[l] = Only(links)[m] => Clash(Only(links)[l])
    BY <1>2, <2>4, <2>5, <2>6
  <2> QED
    BY <2>2, <2>7, <2>8 DEF Lists, TagsDiffer, Clash
<1> QED
  BY <1>3, <1>4

-----------------------------------------------------------------------------
(* The specification.                                                      *)

\* The types, and where the main node comes from after a measurement.
Choosing ==
  /\ SelectTypeOK
  /\ Measured => \E old \in Tags \cup {NoTag} : primary = PickPrimary(list, old, speeds, preferred)

LEMMA TypedSpeeds == ASSUME SelectTypeOK PROVE \A t \in Tags : Speed(speeds, t) \in Nat
BY SpeedsAssumption DEF SelectTypeOK, Speed

LEMMA InitChoosing == SelectInit => Choosing
<1> SUFFICES ASSUME SelectInit PROVE Choosing
  OBVIOUS
<1>1. PICK links \in Links : list = Only(links)
  BY DEF SelectInit, Subscriptions
<1>2. list \in Lists /\ TagsDiffer(list)
  BY <1>1, RenamedTagsDiffer
<1>3. TagSet(list) \subseteq Tags
  BY <1>2, MainFacts
<1>4. DOMAIN speeds = {} /\ ~Measured
  BY DEF SelectInit, Measured
<1> QED
  BY <1>2, <1>3, <1>4 DEF SelectInit, Choosing, SelectTypeOK, Lists

LEMMA StepChoosing == Choosing /\ [SelectNext]_selectVars => Choosing'
<1> SUFFICES ASSUME Choosing, [SelectNext]_selectVars PROVE Choosing'
  OBVIOUS
<1>0. list \in Lists /\ TagsDiffer(list) /\ TagSet(list) \subseteq Tags
  BY MainFacts DEF Choosing, SelectTypeOK, Lists
<1>1. CASE Measure
  <2>1. PICK have \in SUBSET TagSet(list) : \E new \in [have -> Speeds] :
          /\ speeds' = new
          /\ primary' = PickPrimary(list, primary, new, preferred)
          /\ UNCHANGED <<list, preferred>>
    BY <1>1 DEF Measure
  <2>2. /\ DOMAIN speeds' = have
        /\ \A t \in have : speeds'[t] \in Speeds
        /\ primary' = PickPrimary(list, primary, speeds', preferred)
        /\ list' = list /\ preferred' = preferred
    BY <2>1
  <2>3. \A t \in Tags : Speed(speeds', t) \in Nat
    BY <2>2, SpeedsAssumption DEF Speed
  <2>4. primary' \in TagSet(list)
    BY <1>0, <2>2, <2>3, PickTwice DEF Choosing, SelectTypeOK
  <2> QED
    BY <1>0, <2>1, <2>2, <2>4 DEF Choosing, SelectTypeOK
<1>2. CASE Resubscribe
  <2>1. PICK links \in Links : list' = Only(links)
    BY <1>2 DEF Resubscribe, Subscriptions
  <2>2. list' \in Lists /\ TagsDiffer(list)'
    <3>1. Only(links) \in Lists /\ TagsDiffer(Only(links))
      BY RenamedTagsDiffer
    <3> QED
      BY <2>1, <3>1 DEF TagsDiffer
  <2>3. DOMAIN speeds' = {} /\ ~Measured'
    BY <1>2 DEF Resubscribe, Measured
  <2> QED
    BY <1>2, <2>2, <2>3 DEF Resubscribe, Choosing, SelectTypeOK, Lists
<1>3. CASE Prefer \/ PreferNone
  <2>1. DOMAIN speeds' = {} /\ ~Measured'
    BY <1>3 DEF Prefer, PreferNone, Measured
  <2> QED
    BY <1>0, <1>3, <2>1 DEF Prefer, PreferNone, Choosing, SelectTypeOK, TagsDiffer
<1>4. CASE UNCHANGED selectVars
  BY <1>4 DEF selectVars, Choosing, SelectTypeOK, TagsDiffer, Measured
<1> QED
  BY <1>1, <1>2, <1>3, <1>4 DEF SelectNext

\* The nodes have tags of their own, the main one is a tag and the speeds of the last
\* measurement are those it was chosen by (sync.go:188-205).
THEOREM ChoosingInvariance == SelectSpec => []Choosing
<1> QED
  BY InitChoosing, StepChoosing, PTL DEF SelectSpec

\* The nodes have tags of their own, unless a host is called like the renaming of
\* another, and the main one is a tag, after any subscriptions, measurements and
\* preferences (nodes.go:138-143, sync.go:188-205).
THEOREM SelectTypes == SelectSpec => []SelectTypeOK
<1>1. Choosing => SelectTypeOK
  BY DEF Choosing
<1> QED
  BY <1>1, ChoosingInvariance, PTL

\* The main node and its backup are nodes of the subscription, and differ where there
\* are two (nodes.go:259, nodes.go:406).
THEOREM BackupDiffers == SelectSpec => []BackupIsAnother
<1>1. ASSUME SelectTypeOK PROVE BackupIsAnother
  <2>1. list \in Lists
    BY <1>1 DEF SelectTypeOK, Lists
  <2>2. CASE \A other \in TagSet(list) : other = Main(list, primary)
    <3>1. TagSet(list) = {Main(list, primary)}
      BY <2>1, <2>2, MainFacts
    <3>2. Cardinality(TagSet(list)) = 1
      BY <3>1, FS_Singleton
    <3> QED
      BY <2>1, <3>2, MainFacts, BackupFacts DEF BackupIsAnother
  <2>3. CASE \E other \in TagSet(list) : other # Main(list, primary)
    BY <2>1, <2>3, MainFacts, BackupFacts DEF BackupIsAnother
  <2> QED
    BY <2>2, <2>3
<1> QED
  BY <1>1, SelectTypes, PTL

\* A measurement leaves no choice that is clearly better (sync.go:195-204).
THEOREM ChoiceIsGood == SelectSpec => []NoBetterChoice
<1>1. ASSUME Choosing PROVE NoBetterChoice
  <2>1. SUFFICES ASSUME Measured, NEW tag \in TagSet(list), Speed(speeds, tag) > 0
                 PROVE  /\ Speed(speeds, Main(list, primary)) > 0
                        /\ ~TwiceAsFast(Speed(speeds, tag), Speed(speeds, Main(list, primary)))
    BY DEF NoBetterChoice
  <2>2. PICK old \in Tags \cup {NoTag} : primary = PickPrimary(list, old, speeds, preferred)
    BY <1>1, <2>1 DEF Choosing
  <2>3. list \in Lists /\ preferred \in Tags \cup {NoTag}
    BY <1>1 DEF Choosing, SelectTypeOK, Lists
  <2>4. \A t \in Tags : Speed(speeds, t) \in Nat
    BY <1>1, TypedSpeeds DEF Choosing
  <2>5. Main(list, primary) = primary
    BY <2>2, <2>3, <2>4, PickTwice, MainFacts
  <2> QED
    BY <2>1, <2>2, <2>3, <2>4, <2>5, PickIsGood
<1> QED
  BY <1>1, ChoosingInvariance, PTL

\* The same speeds measured once more change nothing (sync.go:188-205).
THEOREM ChoiceIsStable == SelectSpec => []NoFlapping
<1>1. ASSUME Choosing PROVE NoFlapping
  <2>1. SUFFICES ASSUME Measured PROVE PickPrimary(list, primary, speeds, preferred) = primary
    BY DEF NoFlapping
  <2>2. PICK old \in Tags \cup {NoTag} : primary = PickPrimary(list, old, speeds, preferred)
    BY <1>1, <2>1 DEF Choosing
  <2>3. list \in Lists /\ preferred \in Tags \cup {NoTag}
    BY <1>1 DEF Choosing, SelectTypeOK, Lists
  <2>4. \A t \in Tags : Speed(speeds, t) \in Nat
    BY <1>1, TypedSpeeds DEF Choosing
  <2> QED
    BY <2>2, <2>3, <2>4, PickTwice
<1> QED
  BY <1>1, ChoosingInvariance, PTL

\* Without a preference the main node changes only for one that answers and is at
\* least 30% faster (README.md:140, sync.go:188-205).
THEOREM SwitchesHaveMargin == SelectSpec => SwitchNeedsMargin
<1> DEFINE Margin ==
      LET old == Main(list, primary)
          new == Main(list', primary')
      IN  Measured' /\ ~Has(list, preferred) /\ new # old =>
            /\ Speed(speeds', new) > 0
            /\ MuchFaster(Speed(speeds', new), Speed(speeds', old))
<1>1. ASSUME Choosing, SelectNext, Measured', ~Has(list, preferred),
             Main(list', primary') # Main(list, primary)
      PROVE  /\ Speed(speeds', Main(list', primary')) > 0
             /\ MuchFaster(Speed(speeds', Main(list', primary')), Speed(speeds', Main(list, primary)))
  <2>1. Measure
    BY <1>1 DEF SelectNext, Resubscribe, Prefer, PreferNone, Measured
  <2>2. PICK have \in SUBSET TagSet(list) :
          /\ DOMAIN speeds' = have
          /\ \A t \in have : speeds'[t] \in Speeds
          /\ primary' = PickPrimary(list, primary, speeds', preferred)
          /\ list' = list
    BY <2>1 DEF Measure
  <2>3. list \in Lists
    BY <1>1 DEF Choosing, SelectTypeOK, Lists
  <2>4. \A t \in Tags : Speed(speeds', t) \in Nat
    BY <2>2, SpeedsAssumption DEF Speed
  <2> DEFINE main == Main(list, primary)
             best == Best(list, primary, speeds')
  <2>5. /\ main \in TagSet(list) /\ best \in TagSet(list) /\ TagSet(list) \subseteq Tags
        /\ Main(list, main) = main /\ Main(list, best) = best
        /\ Speed(speeds', main) <= Speed(speeds', best)
        /\ Speed(speeds', main) = Speed(speeds', best) => best = main
    BY <2>3, <2>4, MainFacts, BestFacts
  <2>6. primary' \in {main, best}
    BY <1>1, <2>2 DEF PickPrimary
  <2>7. primary' = best /\ best # main
    BY <1>1, <2>2, <2>5, <2>6
  <2>8. (Speed(speeds', main) = 0 /\ Speed(speeds', best) > 0)
        \/ MuchFaster(Speed(speeds', best), Speed(speeds', main))
    BY <1>1, <2>2, <2>7 DEF PickPrimary
  <2>9. Speed(speeds', main) \in Nat /\ Speed(speeds', best) \in Nat
    BY <2>4, <2>5
  <2>10. Main(list', primary') = best
    BY <2>2, <2>5, <2>7
  <2> HIDE DEF main, best
  <2>11. Speed(speeds', best) > 0 /\ MuchFaster(Speed(speeds', best), Speed(speeds', main))
    BY <2>5, <2>7, <2>8, <2>9 DEF MuchFaster
  <2> QED
    BY <2>10, <2>11 DEF main
<1>2. Choosing /\ [SelectNext]_selectVars => [Margin]_selectVars
  BY <1>1
<1> QED
  BY <1>2, ChoosingInvariance, PTL DEF SelectSpec, SwitchNeedsMargin
=============================================================================
