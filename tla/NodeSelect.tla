---------------------------- MODULE NodeSelect ----------------------------
(***************************************************************************)
(* The choice of the main node over time: one router whose nodes are       *)
(* measured again and again, while the subscription and the preference     *)
(* of the administrator change.                                            *)
(***************************************************************************)
EXTENDS Subscription

CONSTANT Speeds  \* the speeds a measurement can find; 0: no answer

ASSUME SpeedsAssumption == Speeds \subseteq Nat /\ 0 \in Speeds

-----------------------------------------------------------------------------
VARIABLES
  list,       \* the nodes of the subscription
  primary,    \* Router.Primary of the store
  preferred,  \* Router.Preferred
  speeds      \* the measurement just made, a function on the measured nodes;
              \* empty after any other step

selectVars == <<list, primary, preferred, speeds>>

SelectTypeOK ==
  /\ list \in UNION {[1..n -> Tags] : n \in 1..MaxNodes}
  /\ TagsDiffer(list)
  /\ primary \in Tags \cup {NoTag}
  /\ preferred \in Tags \cup {NoTag}
  /\ DOMAIN speeds \subseteq Tags
  /\ \A tag \in DOMAIN speeds : speeds[tag] \in Speeds

SelectInit ==
  /\ list \in Subscriptions
  /\ primary = NoTag
  /\ preferred \in TagSet(list) \cup {NoTag}
  /\ speeds = <<>>

\* measureNodes measures the nodes that are on the router already; with one
\* speed or none the choice stays.
Measure ==
  \E have \in SUBSET TagSet(list) : \E new \in [have -> Speeds] :
    /\ \E a, b \in have : a # b
    /\ speeds' = new
    /\ primary' = PickPrimary(list, primary, new, preferred)
    /\ UNCHANGED <<list, preferred>>

\* The subscription changes, or the administrator changes his mind.
Resubscribe ==
  /\ list' \in Subscriptions
  /\ speeds' = <<>>
  /\ UNCHANGED <<primary, preferred>>

Prefer ==
  \E tag \in TagSet(list) :
    /\ preferred' = tag
    /\ primary' = tag
    /\ speeds' = <<>>
    /\ UNCHANGED list

PreferNone ==
  /\ preferred' = NoTag
  /\ speeds' = <<>>
  /\ UNCHANGED <<list, primary>>

SelectNext == Measure \/ Resubscribe \/ Prefer \/ PreferNone

SelectSpec == SelectInit /\ [][SelectNext]_selectVars

-----------------------------------------------------------------------------
(* Properties.                                                             *)

Measured == speeds # <<>>

\* Without a preference a measurement replaces the main node only by one that is
\* at least 30% faster (README.md:140), or when the main one gave no answer.
SwitchNeedsMargin ==
  [][LET old == Main(list, primary)
         new == Main(list', primary')
     IN  Measured' /\ ~Has(list, preferred) /\ new # old =>
           /\ Speed(speeds', new) > 0
           /\ MuchFaster(Speed(speeds', new), Speed(speeds', old))]_selectVars

\* A measurement leaves no choice that is clearly better: the main node is not
\* one without an answer while another one answers, and no other node is twice
\* as fast, whatever is preferred (sync.go:195-204).
NoBetterChoice ==
  Measured => \A tag \in TagSet(list) :
    Speed(speeds, tag) > 0 /\ tag # Main(list, primary) =>
      /\ Speed(speeds, Main(list, primary)) > 0
      /\ ~TwiceAsFast(Speed(speeds, tag), Speed(speeds, Main(list, primary)))

\* The same speeds measured once more change nothing: the main node does not
\* flap between two nodes (sync.go:188-205).
NoFlapping == Measured => PickPrimary(list, primary, speeds, preferred) = primary

\* A fallback of the balancer that is the main node itself is no fallback: with
\* two tags or more they differ (nodes.go:259, nodes.go:406).
BackupIsAnother ==
  /\ Main(list, primary) \in TagSet(list)
  /\ Backup(list, primary) \in TagSet(list)
  /\ Cardinality(TagSet(list)) > 1 => Backup(list, primary) # Main(list, primary)
=============================================================================
