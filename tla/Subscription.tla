---------------------------- MODULE Subscription ----------------------------
(***************************************************************************)
(* From the links of a subscription to tagged nodes: Parse and Only        *)
(* (internal/nodes/nodes.go).  A link is the label of its host and whether *)
(* its name has the mark; links that are not understood are left out.      *)
(***************************************************************************)
EXTENDS Nodes, FiniteSets

CONSTANTS
  Labels,   \* first labels of hosts
  Suffixed  \* Suffixed[<<label, k>>]: the label with "-k"

ASSUME SuffixedAssumption ==
  /\ Labels \subseteq Tags
  /\ Suffixed \in [Labels \X (2..MaxNodes) -> Tags]
  /\ \A x, y \in Labels \X (2..MaxNodes) : Suffixed[x] = Suffixed[y] => x = y

Links == UNION {[1..n -> [label : Labels, marked : BOOLEAN]] : n \in 1..MaxNodes}

\* used[base] when the node is reached.
Used(links, i) == Cardinality({j \in 1..i : links[j].label = links[i].label})

\* Mutant of Parse: the count goes up after the tag is chosen.
ParseLate(links) ==
  [i \in DOMAIN links |->
     IF Used(links, i) > 2 THEN Suffixed[<<links[i].label, Used(links, i) - 1>>]
     ELSE links[i].label]

\* The tags of the nodes, in order.
Parse(links) ==
  [i \in DOMAIN links |->
     IF Used(links, i) > 1 THEN Suffixed[<<links[i].label, Used(links, i)>>] ELSE links[i].label]

\* The nodes with the mark, if there are any: renamed before, not after.
Only(links) ==
  LET kept == {i \in DOMAIN links : links[i].marked}
      Nth(n) == CHOOSE i \in kept : Cardinality({j \in kept : j <= i}) = n
  IN  IF kept = {} THEN Parse(links)
      ELSE [n \in 1..Cardinality(kept) |-> Parse(links)[Nth(n)]]

Subscriptions == {Only(links) : links \in Links}

\* Tags are told apart unless a host is called like the renaming of another
\* (nodes.go:138-143).
TagsDiffer(list) ==
  \A i, j \in DOMAIN list : i # j /\ list[i] = list[j] =>
    list[i] \in Labels /\ \E label \in Labels, k \in 2..MaxNodes : Suffixed[<<label, k>>] = list[i]
=============================================================================
