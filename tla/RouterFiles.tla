----------------------------- MODULE RouterFiles -----------------------------
(***************************************************************************)
(* What the changes write: the configuration files of a router, and how    *)
(* each plan derives their new contents from the ones it has read          *)
(* (internal/router/keenetic.go, openwrt.go, domains.go, template.go,      *)
(* nodes.go).                                                              *)
(*                                                                         *)
(* The files are a function from path to content.  Of a content only what  *)
(* the changes tell apart is kept:                                         *)
(*   Keenetic  "list"       port_proxying.lst: whether it has the range    *)
(*             "routing"    05_routing.json: the template it came from,    *)
(*                          whether the udp rule has the range, the user's *)
(*                          rule, the rules that name the balancer instead *)
(*                          of the outbound, and routing.balancers         *)
(*             "outbounds"  04_outbounds.json: the tags of the outbounds   *)
(*   OpenWrt   "rc"         rc.local: whether the rule has the range, and  *)
(*                          whether it has other ports                     *)
(*             "servers"    dnsmasq.servers: the template it came from and *)
(*                          the user's section with its server= lines      *)
(*             "yaml"       config.yaml: outbounds and balancer            *)
(***************************************************************************)

CONSTANTS
  Domains,     \* sites a user can name
  Categories,  \* categories of the geosite list
  Hosts,       \* the domains a server= line can have; sites are hosts
  Invalid,     \* hosts that ValidDomain refuses
  Keywords,    \* keyword and regexp rules of a category: no line for dnsmasq
  Templates,   \* the contents of a template that ValidateTemplate accepts
  Torn,        \* what an interrupted write of a template leaves
  Inside,      \* Inside[t]: the entries a template already has of its own
  Nodes,       \* tags of nodes
  Confs,       \* the sets of nodes that a synchronisation can bring
  Main,        \* tag of the one outbound of a router without nodes
  Direct,      \* an outbound of the router's own
  NoBalancer

Entries == Domains \cup Categories
Outbounds == Nodes \cup {Main, Direct}

ASSUME EntriesAssumption ==
  /\ Domains \subseteq Hosts
  /\ Domains \cap Categories = {}
  /\ Domains \cap Invalid = {}
  /\ Keywords \cap Hosts = {}
ASSUME TemplatesAssumption ==
  /\ Torn \notin Templates
  /\ Inside \in [Templates \cup {Torn} -> SUBSET Entries]
ASSUME NodesAssumption ==
  /\ Confs \subseteq (SUBSET Nodes) \ {{}}
  /\ NoBalancer \notin Confs
  /\ Main \notin Nodes /\ Direct \notin Nodes /\ Main # Direct

\* An index: the categories of a dlc.dat with their rules.
Indexes == UNION {[C -> SUBSET (Hosts \cup Keywords)] : C \in SUBSET Categories}

\* Index.Expand: a category that is not in the index has no hosts.
Expand(index, c) == IF c \in DOMAIN index THEN index[c] \ Keywords ELSE {}

Bases == Templates \cup {Torn}
Rules == {"main", "user"}
Balancers == Confs \cup {NoBalancer}
Routings == [base : Bases, games : BOOLEAN, user : SUBSET Entries,
             over : SUBSET Rules, balancers : Balancers]
KeeneticFiles == [list : BOOLEAN, routing : Routings, outbounds : SUBSET Outbounds]

\* The section below the mark: an entry per comment, and the lines under it.
Sections == UNION {[S -> SUBSET Hosts] : S \in SUBSET Entries}
Servers == [base : Bases, section : Sections]
OpenWrtFiles == [rc : [games : BOOLEAN, others : BOOLEAN], servers : Servers,
                 yaml : [outbounds : SUBSET Outbounds, balancers : Balancers]]

\* The changes of a plan: the files whose content differs.
Changed(files, new) == [f \in {g \in DOMAIN files : new[g] # files[g]} |-> new[f]]

IsKeenetic(files) == "routing" \in DOMAIN files

-----------------------------------------------------------------------------
(* Game ports: both files of a Keenetic, rc.local of an OpenWrt.           *)

KeeneticSetPort(routing, value) == [routing EXCEPT !.games = value]

KeeneticPlan(files, value) ==
  [files EXCEPT !.list = value, !.routing = KeeneticSetPort(@, value)]

OpenWrtPlan(files, value) == [files EXCEPT !.rc.games = value]

PlanGames(files, value) ==
  IF IsKeenetic(files) THEN KeeneticPlan(files, value) ELSE OpenWrtPlan(files, value)

\* openwrtSetPort: the rule must keep a port.
OpenWrtSetPort(rc, value) == value \/ rc.others

GamesFit(files, value) == IsKeenetic(files) \/ OpenWrtSetPort(files.rc, value)

\* What ReadState can answer; the two files may disagree (ErrInconsistent).
KeeneticReadState(files) == IF files.list = files.routing.games THEN {files.list} ELSE {}
OpenWrtReadState(files) == {files.rc.games}

ReadGames(files) ==
  IF IsKeenetic(files) THEN KeeneticReadState(files) ELSE OpenWrtReadState(files)

-----------------------------------------------------------------------------
(* The user's entries.                                                     *)

KeeneticDomains(routing) == routing.user
OpenWrtDomains(servers) == DOMAIN servers.section

ListDomains(files) ==
  IF IsKeenetic(files) THEN KeeneticDomains(files.routing) ELSE OpenWrtDomains(files.servers)

\* The entry is in the file outside of the user's part.
KeeneticHasElsewhere(routing, e) == e \in Inside[routing.base]
OpenWrtHasElsewhere(servers, e) == e \in Inside[servers.base]

HasElsewhere(files, e) ==
  IF IsKeenetic(files) THEN KeeneticHasElsewhere(files.routing, e)
  ELSE OpenWrtHasElsewhere(files.servers, e)

\* Mutant of KeeneticWithUser: the rule always names the outbound.
KeeneticWithUserSingle(routing, entries) ==
  [routing EXCEPT !.user = entries, !.over = @ \ {"user"}]

\* The user's rule names what the main rule names; without entries there is none.
KeeneticWithUser(routing, entries) ==
  [routing EXCEPT
     !.user = entries,
     !.over = IF entries # {} /\ "main" \in @ THEN @ \cup {"user"} ELSE @ \ {"user"}]

\* server= lines of an entry.
Lines(index, e) == IF e \in Domains THEN {e} ELSE Expand(index, e)

OpenWrtWithUser(base, entries, index) ==
  [base |-> base, section |-> [e \in entries |-> Lines(index, e)]]

\* Mutant of OpenWrtCheckUser: only the entries are compared.
OpenWrtCheckUserEntries(servers) == DOMAIN servers.section \subseteq Entries

OpenWrtCheckUser(servers) == \A e \in DOMAIN servers.section : servers.section[e] \cap Invalid = {}

KeeneticPlanDomains(files, entries) ==
  [files EXCEPT !.routing = KeeneticWithUser(@, entries)]

\* Mutant of OpenWrtPlanDomains: only the lines of new entries are written.
OpenWrtPlanDomainsNew(files, entries, index) ==
  [files EXCEPT !.servers.section =
     [e \in entries |-> IF e \in DOMAIN @ THEN @[e] ELSE Lines(index, e)]]

OpenWrtPlanDomains(files, entries, index) ==
  [files EXCEPT !.servers = OpenWrtWithUser(@.base, entries, index)]

PlanDomains(files, entries, index) ==
  IF IsKeenetic(files) THEN KeeneticPlanDomains(files, entries)
  ELSE OpenWrtPlanDomains(files, entries, index)

-----------------------------------------------------------------------------
(* Nodes.                                                                  *)

\* The nodes take the place of the main outbound and of earlier nodes.
KeeneticWithNodes(outbounds, conf) == conf \cup (outbounds \ (Nodes \cup {Main}))

\* Every rule that named the outbound names the balancer.
KeeneticUseBalancer(routing, conf) ==
  [routing EXCEPT
     !.over = {"main"} \cup (IF routing.user = {} THEN {} ELSE {"user"}),
     !.balancers = conf]

KeeneticPlanNodes(files, conf) ==
  [files EXCEPT !.outbounds = KeeneticWithNodes(@, conf),
                !.routing = KeeneticUseBalancer(@, conf)]

\* Outbounds, rules and balancer are in one file.
OpenWrtWithNodes(yaml, conf) ==
  [outbounds |-> conf \cup (yaml.outbounds \ (Nodes \cup {Main})), balancers |-> conf]

OpenWrtPlanNodes(files, conf) == [files EXCEPT !.yaml = OpenWrtWithNodes(@, conf)]

PlanNodes(files, conf) ==
  IF IsKeenetic(files) THEN KeeneticPlanNodes(files, conf) ELSE OpenWrtPlanNodes(files, conf)

-----------------------------------------------------------------------------
(* Templates.                                                              *)

\* The routing of a template: no user's rule, no balancer.
Fresh(t, games) ==
  [base |-> t, games |-> games, user |-> {}, over |-> {}, balancers |-> NoBalancer]

\* The balancer of the router, if it has one.
KeepBalancer(new, balancers) ==
  IF balancers = NoBalancer THEN new ELSE KeeneticUseBalancer(new, balancers)

\* Mutant of KeeneticPlanTemplate: the user's rule is forgotten.
KeeneticPlanTemplateBare(files, t) ==
  LET old == files.routing
  IN  [files EXCEPT !.routing = KeepBalancer(Fresh(t, old.games), old.balancers)]

\* The template with the range, the user's rule and the balancer of the router.
KeeneticPlanTemplate(files, t) ==
  LET old == files.routing
      new == KeeneticWithUser(KeeneticSetPort(Fresh(t, FALSE), old.games), KeeneticDomains(old))
  IN  [files EXCEPT !.routing = KeepBalancer(new, old.balancers)]

\* The template with the user's section built anew.
OpenWrtPlanTemplate(files, t, index) ==
  [files EXCEPT !.servers = OpenWrtWithUser(t, OpenWrtDomains(@), index)]

PlanTemplate(files, t, index) ==
  IF IsKeenetic(files) THEN KeeneticPlanTemplate(files, t)
  ELSE OpenWrtPlanTemplate(files, t, index)

\* What may be stored: the shape of the file, no nodes in it, the udp rule.
ValidateTemplate(t) == t \in Templates

\* A template cut short is no JSON any more, and still a list of servers.
TemplateFits(files, t) == IsKeenetic(files) => t # Torn

-----------------------------------------------------------------------------
\* Of the main outbound and the nodes, those the balancer names are there.
Selects(outbounds, balancers) ==
  outbounds \ {Direct} = IF balancers = NoBalancer THEN {Main} ELSE balancers

\* A router with nodes has the balancer of exactly these nodes, and on a Keenetic all
\* of the rules name it; without nodes no rule does.
Consistent(files) ==
  IF IsKeenetic(files)
  THEN /\ Selects(files.outbounds, files.routing.balancers)
       /\ files.routing.over =
            IF files.routing.balancers = NoBalancer THEN {}
            ELSE {"main"} \cup (IF files.routing.user = {} THEN {} ELSE {"user"})
  ELSE Selects(files.yaml.outbounds, files.yaml.balancers)
=============================================================================
