---------------------------- MODULE RouterLocks ----------------------------
(***************************************************************************)
(* How the server's handlers share the routers: the lock of each router    *)
(* (routerLocks, cmd/rt-server/config.go) and the reboot cooldown          *)
(* (cooldown, same file), as used by the handlers that change a router:    *)
(* handleApply, changeDomains, one router of a template roll-out, of a     *)
(* node synchronisation or of the weekly domain refresh, and handleReboot. *)
(* Handlers that only read take no lock and are not here.                  *)
(*                                                                         *)
(* Time passes in ticks.  What a change does to the router is ApplyPlan's  *)
(* and NodeSync's business; here it takes some time and ends.              *)
(***************************************************************************)
EXTENDS Naturals

CONSTANTS
  Routers,   \* the routers of the server
  Handlers,  \* requests and background jobs that can be in progress at a time
  LockWait,  \* lockWait, in ticks
  Every,     \* the reboot cooldown, in ticks
  Lossy,     \* the router's answer to the reboot command can be lost
  Restarts   \* the server process can be restarted

ASSUME LockWaitAssumption == LockWait \in Nat \ {0}
ASSUME EveryAssumption == Every \in Nat \ {0}
ASSUME SwitchesAssumption == Lossy \in BOOLEAN /\ Restarts \in BOOLEAN

VARIABLES
  token,   \* token[r]: the channel of router r is full
  pc,      \* what each handler does next
  kind,    \* "change" or "reboot"
  cur,     \* the router a handler works on
  todo,    \* the routers a roll-out has still to visit
  waited,  \* how long a handler has waited for the token
  marked,  \* ticks since the cooldown of a router was marked; Every: long ago or never
  booted,  \* history: ticks since a router last took a reboot command
  unknown, \* history: the server did not learn of it or has forgotten it
  tooSoon  \* history: a router took one before the cooldown of a known one was over

vars == <<token, pc, kind, cur, todo, waited, marked, booted, unknown, tooSoon>>
reboots == <<marked, booted, unknown, tooSoon>>

\* Handlers that have taken a token and not given it back.
Holding == {"connect", "work", "allow"}

TypeOK ==
  /\ token \in [Routers -> BOOLEAN]
  /\ pc \in [Handlers -> {"idle", "wait"} \cup Holding]
  /\ kind \in [Handlers -> {"change", "reboot"}]
  /\ cur \in [Handlers -> Routers]
  /\ todo \in [Handlers -> SUBSET Routers]
  /\ waited \in [Handlers -> 0..LockWait]
  /\ marked \in [Routers -> 0..Every]
  /\ booted \in [Routers -> 0..Every]
  /\ unknown \in [Routers -> BOOLEAN]
  /\ tooSoon \in BOOLEAN

Init ==
  /\ token = [r \in Routers |-> FALSE]
  /\ pc = [h \in Handlers |-> "idle"]
  /\ kind = [h \in Handlers |-> "change"]
  /\ cur \in [Handlers -> Routers]
  /\ todo = [h \in Handlers |-> {}]
  /\ waited = [h \in Handlers |-> 0]
  /\ marked = [r \in Routers |-> Every]
  /\ booted = [r \in Routers |-> Every]
  /\ unknown = [r \in Routers |-> FALSE]
  /\ tooSoon = FALSE

-----------------------------------------------------------------------------
(* Arrivals.                                                               *)

Arrive(h, k, r, rest) ==
  /\ pc[h] = "idle"
  /\ pc' = [pc EXCEPT ![h] = "wait"]
  /\ kind' = [kind EXCEPT ![h] = k]
  /\ cur' = [cur EXCEPT ![h] = r]
  /\ todo' = [todo EXCEPT ![h] = rest]
  /\ waited' = [waited EXCEPT ![h] = 0]
  /\ UNCHANGED <<token, reboots>>

\* One router: handleApply, changeDomains, a single synchronisation, a reboot.
Request(h) == \E r \in Routers, k \in {"change", "reboot"} : Arrive(h, k, r, {})

\* All routers one after another: handleTemplateApply, handleSync, syncAll,
\* refreshDomains.
RollOut(h) == \E r \in Routers : Arrive(h, "change", r, Routers \ {r})

-----------------------------------------------------------------------------
(* acquire and release.                                                    *)

Acquire(h) ==
  /\ pc[h] = "wait"
  /\ ~token[cur[h]]
  /\ token' = [token EXCEPT ![cur[h]] = TRUE]
  /\ pc' = [pc EXCEPT ![h] = IF kind[h] = "reboot" THEN "allow" ELSE "connect"]
  /\ UNCHANGED <<kind, cur, todo, waited, reboots>>

\* The next router of a roll-out, or the answer.
GoOn(h) ==
  IF todo[h] = {}
  THEN /\ pc' = [pc EXCEPT ![h] = "idle"]
       /\ UNCHANGED <<cur, todo, waited>>
  ELSE \E r \in todo[h] :
         /\ pc' = [pc EXCEPT ![h] = "wait"]
         /\ cur' = [cur EXCEPT ![h] = r]
         /\ todo' = [todo EXCEPT ![h] = @ \ {r}]
         /\ waited' = [waited EXCEPT ![h] = 0]

\* Mutants of GiveUp: the deferred release runs although nothing was taken, and
\* the wait starts anew.
GiveUpReleases(h) ==
  /\ pc[h] = "wait"
  /\ waited[h] = LockWait
  /\ token' = [token EXCEPT ![cur[h]] = FALSE]
  /\ GoOn(h)
  /\ UNCHANGED <<kind, reboots>>
GiveUpNever(h) ==
  /\ pc[h] = "wait"
  /\ waited[h] = LockWait
  /\ waited' = [waited EXCEPT ![h] = 0]
  /\ UNCHANGED <<token, pc, kind, cur, todo, reboots>>

\* "Busy": nothing was taken, nothing is given back.
GiveUp(h) ==
  /\ pc[h] = "wait"
  /\ waited[h] = LockWait
  /\ GoOn(h)
  /\ UNCHANGED <<token, kind, reboots>>

Release(h) ==
  /\ token' = [token EXCEPT ![cur[h]] = FALSE]
  /\ GoOn(h)
  /\ UNCHANGED kind

-----------------------------------------------------------------------------
(* With the token.                                                         *)

\* The cooldown of the router, asked under its lock.
Allow(h) ==
  /\ pc[h] = "allow"
  /\ IF marked[cur[h]] = Every
     THEN pc' = [pc EXCEPT ![h] = "connect"] /\ UNCHANGED <<token, kind, cur, todo, waited>>
     ELSE Release(h)
  /\ UNCHANGED reboots

Connect(h) ==
  /\ pc[h] = "connect"
  /\ pc' = [pc EXCEPT ![h] = "work"]
  /\ UNCHANGED <<token, kind, cur, todo, waited, reboots>>

ConnectFails(h) ==
  /\ pc[h] = "connect"
  /\ Release(h)
  /\ UNCHANGED reboots

\* A change ends, whatever its outcome.
Change(h) ==
  /\ pc[h] = "work"
  /\ kind[h] = "change"
  /\ Release(h)
  /\ UNCHANGED reboots

TakesReboot(r) ==
  /\ booted' = [booted EXCEPT ![r] = 0]
  /\ tooSoon' = (tooSoon \/ (booted[r] < Every /\ ~unknown[r]))

\* Mutant of Reboot: the cooldown is not marked.
RebootUnmarked(h) ==
  /\ pc[h] = "work"
  /\ kind[h] = "reboot"
  /\ TakesReboot(cur[h])
  /\ Release(h)
  /\ UNCHANGED <<marked, unknown>>

\* The router takes the reboot command, and the cooldown is marked.
Reboot(h) ==
  /\ pc[h] = "work"
  /\ kind[h] = "reboot"
  /\ TakesReboot(cur[h])
  /\ marked' = [marked EXCEPT ![cur[h]] = 0]
  /\ unknown' = [unknown EXCEPT ![cur[h]] = FALSE]
  /\ Release(h)

\* Mutant of RebootFails: the cooldown is marked before the command is tried.
RebootFailsMarked(h) ==
  /\ pc[h] = "work"
  /\ kind[h] = "reboot"
  /\ \/ UNCHANGED <<booted, unknown, tooSoon>>
     \/ Lossy /\ TakesReboot(cur[h]) /\ unknown' = [unknown EXCEPT ![cur[h]] = TRUE]
  /\ marked' = [marked EXCEPT ![cur[h]] = 0]
  /\ Release(h)

\* The command failed, or its answer was lost after it took effect.
RebootFails(h) ==
  /\ pc[h] = "work"
  /\ kind[h] = "reboot"
  /\ \/ UNCHANGED <<booted, unknown, tooSoon>>
     \/ Lossy /\ TakesReboot(cur[h]) /\ unknown' = [unknown EXCEPT ![cur[h]] = TRUE]
  /\ Release(h)
  /\ UNCHANGED marked

Step(h) == \/ Acquire(h) \/ GiveUp(h) \/ Allow(h) \/ Connect(h) \/ ConnectFails(h)
           \/ Change(h) \/ Reboot(h) \/ RebootFails(h)

-----------------------------------------------------------------------------
\* Times count no further than what they are compared with.
UpTo(n, limit) == IF n < limit THEN n + 1 ELSE limit

Tick ==
  /\ waited' = [h \in Handlers |-> IF pc[h] = "wait" THEN UpTo(waited[h], LockWait) ELSE waited[h]]
  /\ marked' = [r \in Routers |-> UpTo(marked[r], Every)]
  /\ booted' = [r \in Routers |-> UpTo(booted[r], Every)]
  /\ UNCHANGED <<token, pc, kind, cur, todo, unknown, tooSoon>>

\* A restarted server has new locks and has forgotten the cooldowns.
ServerRestart ==
  /\ Restarts
  /\ token' = [r \in Routers |-> FALSE]
  /\ pc' = [h \in Handlers |-> "idle"]
  /\ todo' = [h \in Handlers |-> {}]
  /\ waited' = [h \in Handlers |-> 0]
  /\ marked' = [r \in Routers |-> Every]
  /\ unknown' = [r \in Routers |-> TRUE]
  /\ UNCHANGED <<kind, cur, booted, tooSoon>>

Next == \/ \E h \in Handlers : Request(h) \/ RollOut(h) \/ Step(h)
        \/ Tick
        \/ ServerRestart

\* Goroutines are scheduled, commands end (commandTimeout), time passes.
Fairness == WF_vars(Tick) /\ \A h \in Handlers : WF_vars(Step(h))

Spec == Init /\ [][Next]_vars /\ Fairness

-----------------------------------------------------------------------------
(* Properties.                                                             *)

Holders(r) == {h \in Handlers : pc[h] \in Holding /\ cur[h] = r}

\* At most one handler at a time changes a router, and the token of a router is
\* gone exactly while one does: a token given back by somebody else, or never,
\* would show (config.go:77-104).
OneAtATime ==
  /\ \A r \in Routers : token[r] = (Holders(r) # {})
  /\ \A g, h \in Handlers : pc[g] \in Holding /\ pc[h] \in Holding /\ cur[g] = cur[h] => g = h

\* "Not more than once in 10 minutes per router" (main.go:420): a router takes no
\* reboot within the cooldown of one the server knows of, however many requests
\* ask for it at the same time.  The server does not know of a reboot whose answer
\* was lost, nor of any from before its own start.
RebootsAreSpaced == ~tooSoon

\* A reboot is refused for the cooldown only if the router did take one lately:
\* a failed reboot can be tried again at once (main.go:454-459).
CooldownIsEarned == \A r \in Routers : marked[r] < Every => booted[r] <= marked[r]

\* Every request is answered and every roll-out comes to its end, although each
\* of its routers may be busy: nobody waits for a token for ever, and nobody
\* waits for one while holding another.
EveryRequestEnds == \A h \in Handlers : pc[h] # "idle" ~> pc[h] = "idle"
=============================================================================
