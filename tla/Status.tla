------------------------------- MODULE Status -------------------------------
(***************************************************************************)
(* What users see of a router: readStates and handleApply of               *)
(* cmd/rt-server/main.go, the state cache of the store, and the menu of    *)
(* cmd/router-toggle/main.go, which shows a status and sends changes.      *)
(*                                                                         *)
(* readStates holds no lock: it reads and caches one value after the other *)
(* while changes, other requests and people on the router go on.           *)
(* The database is assumed to work; ApplyPlan has the steps of a change.   *)
(***************************************************************************)
EXTENDS Naturals, Sequences

CONSTANTS
  Screens,  \* clients that show the router
  Ops,      \* statusOps, in order
  Vpn,      \* the one a reboot turns on
  Nothing   \* nothing cached, nothing shown, the free lock

VARIABLES
  real,     \* the router
  cache,    \* table state_cache
  holder,   \* who holds the lock of the router
  req,      \* the request of each screen
  shown,    \* what each screen shows
  seen      \* history: what the router was during the request of each screen

statusVars == <<real, cache, holder, req, shown, seen>>

OpSet == {Ops[i] : i \in DOMAIN Ops}
States == [OpSet -> BOOLEAN]

ASSUME OpsAssumption == Ops \in Seq(OpSet) /\ Vpn \in OpSet
ASSUME ScreensAssumption == Nothing \notin Screens

Unseen == [op \in OpSet |-> {}]
Quiet == [at |-> "none", got |-> <<>>, op |-> Vpn, value |-> FALSE]

StatusTypeOK ==
  /\ real \in States
  /\ cache \in [OpSet -> BOOLEAN \cup {Nothing}]
  /\ holder \in Screens \cup {Nothing}
  /\ req \in [Screens -> [at : {"none", "read", "put", "lock", "connect", "keep"},
                          got : {<<>>} \cup UNION {[1..n -> BOOLEAN] : n \in DOMAIN Ops},
                          op : OpSet, value : BOOLEAN]]
  /\ shown \in [Screens -> States \cup {Nothing}]
  /\ seen \in [Screens -> [OpSet -> SUBSET BOOLEAN]]
  /\ \A s \in Screens : (req[s].at \in {"connect", "keep"}) = (holder = s)

StatusInit ==
  /\ real \in States
  /\ cache = [op \in OpSet |-> Nothing]
  /\ holder = Nothing
  /\ req = [s \in Screens |-> Quiet]
  /\ shown = [s \in Screens |-> Nothing]
  /\ seen = [s \in Screens |-> Unseen]

\* The router becomes r while statuses look at it.
Becomes(r) ==
  /\ real' = r
  /\ seen' = [s \in Screens |->
       IF req[s].at \in {"read", "put"} THEN [op \in OpSet |-> seen[s][op] \cup {r[op]}]
       ELSE Unseen]

Goes(s, at) == req' = [req EXCEPT ![s].at = at]

Answer(s, answer) ==
  /\ req' = [req EXCEPT ![s] = Quiet]
  /\ shown' = [shown EXCEPT ![s] = answer]
  /\ seen' = [seen EXCEPT ![s] = Unseen]

-----------------------------------------------------------------------------
(* A status: the first one, after each change, and when the user reloads.  *)

AskStatus(s) ==
  /\ req[s].at = "none"
  /\ Goes(s, "read")
  /\ shown' = [shown EXCEPT ![s] = Nothing]
  /\ seen' = [seen EXCEPT ![s] = [op \in OpSet |-> {real[op]}]]
  /\ UNCHANGED <<real, cache, holder>>

ReadOp(s) ==
  /\ req[s].at = "read"
  /\ LET op == Ops[Len(req[s].got) + 1]
     IN  req' = [req EXCEPT ![s].at = "put", ![s].got = Append(@, real[op])]
  /\ UNCHANGED <<real, cache, holder, shown, seen>>

\* Mutant of CachePut: a value that is there stays.
CachePutNew(op, value) == cache' = [cache EXCEPT ![op] = IF @ = Nothing THEN value ELSE @]

CachePut(op, value) == cache' = [cache EXCEPT ![op] = value]

\* CachePut of the value just read; after the last one the answer.
PutRead(s) ==
  /\ req[s].at = "put"
  /\ LET got == req[s].got
     IN  /\ CachePut(Ops[Len(got)], got[Len(got)])
         /\ IF Len(got) < Len(Ops)
            THEN Goes(s, "read") /\ UNCHANGED <<shown, seen>>
            ELSE Answer(s, [op \in OpSet |-> got[CHOOSE i \in DOMAIN Ops : Ops[i] = op]])
  /\ UNCHANGED <<real, holder>>

Cached == \A op \in OpSet : cache[op] # Nothing

\* Mutant of Offline: what was read before the connection broke is filled up from
\* the cache.  The answer counts as fresh, as the last value put does.
OfflineFilledUp(s) ==
  /\ req[s].at = "read"
  /\ req[s].got # <<>>
  /\ Cached
  /\ req' = [req EXCEPT ![s].at = "put",
                        ![s].got = [i \in DOMAIN Ops |-> IF i \in DOMAIN @ THEN @[i] ELSE cache[Ops[i]]]]
  /\ UNCHANGED <<real, cache, holder, shown, seen>>

\* There is no connection, or an answer does not come in time: the cache, if it
\* has all of it.
Offline(s) ==
  /\ req[s].at = "read"
  /\ Answer(s, IF Cached THEN cache ELSE Nothing)
  /\ UNCHANGED <<real, cache, holder>>

\* The router answers what nobody expects.
Unexpected(s) ==
  /\ req[s].at = "read"
  /\ Answer(s, Nothing)
  /\ UNCHANGED <<real, cache, holder>>

-----------------------------------------------------------------------------
(* A change: the button asks for the opposite of what the screen shows.    *)

Press(s) ==
  /\ req[s].at = "none"
  /\ shown[s] # Nothing
  /\ \E op \in OpSet :
       req' = [req EXCEPT ![s] = [at |-> "lock", got |-> <<>>, op |-> op, value |-> ~shown[s][op]]]
  /\ shown' = [shown EXCEPT ![s] = Nothing]
  /\ UNCHANGED <<real, cache, holder, seen>>

\* Mutant of Acquire: the change does not wait for the lock.
AcquireUnlocked(s) ==
  /\ req[s].at = "lock"
  /\ holder' = s
  /\ Goes(s, "connect")
  /\ UNCHANGED <<real, cache, shown, seen>>

Acquire(s) ==
  /\ req[s].at = "lock"
  /\ holder = Nothing
  /\ holder' = s
  /\ Goes(s, "connect")
  /\ UNCHANGED <<real, cache, shown, seen>>

Busy(s) ==
  /\ req[s].at = "lock"
  /\ holder # Nothing
  /\ Answer(s, Nothing)
  /\ UNCHANGED <<real, cache, holder>>

\* Apply and ApplyVPN: verified, or failed with the router in any state.
Change(s) ==
  /\ req[s].at = "connect"
  /\ Becomes([real EXCEPT ![req[s].op] = req[s].value])
  /\ Goes(s, "keep")
  /\ UNCHANGED <<cache, holder, shown>>

ChangeFails(s) ==
  /\ req[s].at = "connect"
  /\ \E r \in States : Becomes(r)
  /\ req' = [req EXCEPT ![s] = Quiet]
  /\ holder' = Nothing
  /\ UNCHANGED <<cache, shown>>

Keep(s) ==
  /\ req[s].at = "keep"
  /\ CachePut(req[s].op, req[s].value)
  /\ Answer(s, Nothing)
  /\ holder' = Nothing
  /\ UNCHANGED real

-----------------------------------------------------------------------------
\* A reboot turns the VPN on again; people change the router by hand.
Reboots == Becomes([real EXCEPT ![Vpn] = TRUE]) /\ UNCHANGED <<cache, holder, req, shown>>
ByHand == (\E r \in States : Becomes(r)) /\ UNCHANGED <<cache, holder, req, shown>>

StatusServerRestart ==
  /\ holder' = Nothing
  /\ req' = [s \in Screens |-> Quiet]
  /\ shown' = [s \in Screens |-> Nothing]
  /\ seen' = [s \in Screens |-> Unseen]
  /\ UNCHANGED <<real, cache>>

Progress(s) ==
  \/ ReadOp(s) \/ PutRead(s) \/ Offline(s) \/ Unexpected(s)
  \/ Acquire(s) \/ Busy(s) \/ Change(s) \/ ChangeFails(s) \/ Keep(s)

StatusNext ==
  \/ \E s \in Screens : AskStatus(s) \/ Press(s) \/ Progress(s)
  \/ Reboots \/ ByHand \/ StatusServerRestart

StatusFairness == \A s \in Screens : WF_statusVars(Progress(s))
StatusSpec == StatusInit /\ [][StatusNext]_statusVars /\ StatusFairness

-----------------------------------------------------------------------------
(* Properties.                                                             *)

Answered(s) == req[s].at = "put" /\ req'[s].at = "none" /\ shown'[s] # Nothing

\* Each value of an answer that is not marked stale was the router's while the
\* request ran, and none of it comes from the cache (main.go:656-688).
FreshAnswersAreTrue ==
  [][\A s \in Screens : Answered(s) =>
       \A op \in OpSet : shown'[s][op] \in seen[s][op]]_statusVars

\* A value that a slow status has put into the cache over a newer one does not stay:
\* when the router has come to rest and statuses are answered, the cache is right
\* from some time on (main.go:656-688, store.go:262-268).
CacheCatchesUp ==
  /\ <>[][real' = real]_statusVars
  /\ \E s \in Screens : []<><<Answered(s)>>_statusVars
  => <>[](cache = real)
=============================================================================
