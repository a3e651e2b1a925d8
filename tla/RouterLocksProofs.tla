------------------------- MODULE RouterLocksProofs -------------------------
(***************************************************************************)
(* For any set of routers and of handlers: mutual exclusion per router and *)
(* the two halves of the reboot cooldown.                                  *)
(***************************************************************************)
EXTENDS RouterLocks, TLAPS

Exclusion == TypeOK /\ OneAtATime

\* No handler, no token.
LEMMA InitExclusion == Init => Exclusion
<1> SUFFICES ASSUME Init
             PROVE  Exclusion
  OBVIOUS
<1>1. TypeOK
  <2>1. /\ pc \in [Handlers -> {"idle", "wait"} \cup Holding]
        /\ kind \in [Handlers -> {"change", "reboot"}]
        /\ cur \in [Handlers -> Routers]
        /\ waited \in [Handlers -> 0..LockWait]
        /\ marked \in [Routers -> 0..Every]
        /\ booted \in [Routers -> 0..Every]
    BY EveryAssumption, LockWaitAssumption DEF Init
  <2>2. /\ todo \in [Handlers -> SUBSET Routers]
        /\ token \in [Routers -> BOOLEAN]
        /\ unknown \in [Routers -> BOOLEAN]
        /\ tooSoon \in BOOLEAN
    BY Zenon DEF Init
  <2> QED
    BY <2>1, <2>2 DEF TypeOK
<1>2. \A h \in Handlers : pc[h] \notin Holding
  BY DEF Init, Holding
<1>3. \A r \in Routers : Holders(r) = {} /\ token[r] = FALSE
  BY <1>2 DEF Init, Holders
<1> QED
  BY <1>1, <1>2, <1>3 DEF Exclusion, OneAtATime

\* A handler that goes on, having given its token back or never had it, holds
\* nothing afterwards and leaves the others alone.
LEMMA GoOnHoldsNothing ==
  ASSUME TypeOK, NEW h \in Handlers, GoOn(h)
  PROVE  /\ pc' \in [Handlers -> {"idle", "wait"} \cup Holding]
         /\ cur' \in [Handlers -> Routers]
         /\ todo' \in [Handlers -> SUBSET Routers]
         /\ waited' \in [Handlers -> 0..LockWait]
         /\ pc'[h] \notin Holding
         /\ \A g \in Handlers \ {h} : pc'[g] = pc[g] /\ cur'[g] = cur[g]
<1>1. CASE todo[h] = {}
  BY <1>1 DEF GoOn, TypeOK, Holding
<1>2. CASE todo[h] # {}
  <2>1. PICK r \in todo[h] :
          /\ pc' = [pc EXCEPT ![h] = "wait"]
          /\ cur' = [cur EXCEPT ![h] = r]
          /\ todo' = [todo EXCEPT ![h] = @ \ {r}]
          /\ waited' = [waited EXCEPT ![h] = 0]
    BY <1>2 DEF GoOn
  <2> QED
    BY <2>1, LockWaitAssumption DEF TypeOK, Holding
<1> QED
  BY <1>1, <1>2

\* The one holder of a token gives it back.
LEMMA ReleaseKeepsExclusion ==
  ASSUME Exclusion, NEW h \in Handlers, pc[h] \in Holding, Release(h)
  PROVE  /\ OneAtATime'
         /\ token' \in [Routers -> BOOLEAN]
         /\ pc' \in [Handlers -> {"idle", "wait"} \cup Holding]
         /\ kind' = kind
         /\ cur' \in [Handlers -> Routers]
         /\ todo' \in [Handlers -> SUBSET Routers]
         /\ waited' \in [Handlers -> 0..LockWait]
         /\ pc'[h] \notin Holding
         /\ \A g \in Handlers \ {h} : pc'[g] = pc[g] /\ cur'[g] = cur[g]
<1>1. GoOn(h) /\ kind' = kind /\ token' = [token EXCEPT ![cur[h]] = FALSE]
  BY DEF Release
<1>2. TypeOK
  BY DEF Exclusion
<1>3. /\ pc'[h] \notin Holding
      /\ \A g \in Handlers \ {h} : pc'[g] = pc[g] /\ cur'[g] = cur[g]
  BY <1>1, <1>2, GoOnHoldsNothing
<1>4. \A r \in Routers : Holders(r)' = Holders(r) \ {h}
  BY <1>3 DEF Holders
<1>5. Holders(cur[h]) = {h} /\ \A r \in Routers \ {cur[h]} : h \notin Holders(r)
  BY DEF Exclusion, OneAtATime, Holders
<1>6. \A r \in Routers : token'[r] = (Holders(r)' # {})
  <2> SUFFICES ASSUME NEW r \in Routers
               PROVE  token'[r] = (Holders(r)' # {})
    OBVIOUS
  <2>1. CASE r = cur[h]
    <3>1. token'[r] = FALSE
      BY <1>1, <1>2, <2>1 DEF TypeOK
    <3>2. Holders(r)' = {}
      BY <1>4, <1>5, <2>1
    <3> QED
      BY <3>1, <3>2
  <2>2. CASE r # cur[h]
    <3>1. token'[r] = token[r]
      BY <1>1, <1>2, <2>2 DEF TypeOK
    <3>2. Holders(r)' = Holders(r)
      BY <1>4, <1>5, <2>2
    <3> QED
      BY <3>1, <3>2 DEF Exclusion, OneAtATime
  <2> QED
    BY <2>1, <2>2
<1>7. OneAtATime'
  BY <1>3, <1>6 DEF Exclusion, OneAtATime
<1> QED
  BY <1>1, <1>2, <1>3, <1>7, GoOnHoldsNothing DEF TypeOK

\* The ways a handler that holds a token lets go of it.
LEMMA LettingGo ==
  ASSUME Exclusion, NEW h \in Handlers, pc[h] \in Holding, Release(h),
         marked' \in [Routers -> 0..Every], booted' \in [Routers -> 0..Every],
         unknown' \in [Routers -> BOOLEAN], tooSoon' \in BOOLEAN
  PROVE  Exclusion'
  BY ReleaseKeepsExclusion DEF Exclusion, TypeOK

LEMMA StepExclusion == Exclusion /\ [Next]_vars => Exclusion'
<1> SUFFICES ASSUME Exclusion, [Next]_vars
             PROVE  Exclusion'
  OBVIOUS
<1> USE DEF Exclusion
<1>1. ASSUME NEW h \in Handlers, NEW k \in {"change", "reboot"}, NEW r \in Routers,
             NEW rest \in SUBSET Routers, Arrive(h, k, r, rest)
      PROVE  Exclusion'
  <2>1. TypeOK'
    BY <1>1, LockWaitAssumption DEF Arrive, TypeOK, reboots
  <2>2. \A q \in Routers : Holders(q)' = Holders(q)
    BY <1>1 DEF Arrive, TypeOK, Holders, Holding
  <2>3. OneAtATime'
    BY <1>1, <2>2 DEF Arrive, TypeOK, OneAtATime, Holding
  <2> QED
    BY <2>1, <2>3
<1>2. ASSUME NEW h \in Handlers, Acquire(h)
      PROVE  Exclusion'
  <2>1. TypeOK'
    BY <1>2 DEF Acquire, TypeOK, Holding, reboots
  <2>2. \A g \in Handlers : pc[g] \in Holding => cur[g] # cur[h]
    BY <1>2 DEF Acquire, TypeOK, OneAtATime, Holders
  <2>3. /\ \A r \in Routers \ {cur[h]} : Holders(r)' = Holders(r)
        /\ h \in Holders(cur[h])'
    BY <1>2 DEF Acquire, TypeOK, Holders, Holding
  <2>4. \A r \in Routers : token'[r] = (Holders(r)' # {})
    BY <1>2, <2>3 DEF Acquire, TypeOK, OneAtATime
  <2>5. /\ cur' = cur
        /\ \A g \in Handlers \ {h} : pc'[g] = pc[g]
    BY <1>2 DEF Acquire
  <2>6. OneAtATime'
    BY <2>2, <2>4, <2>5 DEF OneAtATime
  <2> QED
    BY <2>1, <2>6
<1>3. ASSUME NEW h \in Handlers, GiveUp(h)
      PROVE  Exclusion'
  <2>1. /\ pc[h] \notin Holding /\ pc'[h] \notin Holding
        /\ \A g \in Handlers \ {h} : pc'[g] = pc[g] /\ cur'[g] = cur[g]
    BY <1>3, GoOnHoldsNothing DEF GiveUp, Holding
  <2>2. \A r \in Routers : Holders(r)' = Holders(r)
    BY <2>1 DEF Holders
  <2>3. OneAtATime'
    BY <1>3, <2>1, <2>2 DEF GiveUp, OneAtATime
  <2> QED
    BY <1>3, <2>3, GoOnHoldsNothing DEF GiveUp, TypeOK, reboots
<1>4. ASSUME NEW h \in Handlers, Allow(h)
      PROVE  Exclusion'
  <2>1. CASE marked[cur[h]] = Every
    <3>1. /\ pc' = [pc EXCEPT ![h] = "connect"] /\ pc[h] = "allow"
          /\ UNCHANGED <<token, kind, cur, todo, waited, reboots>>
      BY <1>4, <2>1 DEF Allow
    <3>2. \A r \in Routers : Holders(r)' = Holders(r)
      BY <3>1 DEF TypeOK, Holders, Holding
    <3> QED
      BY <3>1, <3>2 DEF TypeOK, OneAtATime, Holding, reboots
  <2>2. CASE marked[cur[h]] # Every
    BY <1>4, <2>2, LettingGo DEF Allow, Holding, TypeOK, reboots
  <2> QED
    BY <2>1, <2>2
<1>5. ASSUME NEW h \in Handlers, Connect(h)
      PROVE  Exclusion'
  <2>1. \A r \in Routers : Holders(r)' = Holders(r)
    BY <1>5 DEF Connect, TypeOK, Holders, Holding
  <2> QED
    BY <1>5, <2>1 DEF Connect, TypeOK, OneAtATime, Holding, reboots
<1>6. ASSUME NEW h \in Handlers, ConnectFails(h) \/ Change(h)
      PROVE  Exclusion'
  BY <1>6, LettingGo DEF ConnectFails, Change, Holding, TypeOK, reboots
<1>7. ASSUME NEW h \in Handlers, Reboot(h) \/ RebootFails(h)
      PROVE  Exclusion'
  <2>1. /\ pc[h] \in Holding /\ Release(h)
        /\ marked' = marked \/ marked' = [marked EXCEPT ![cur[h]] = 0]
        /\ UNCHANGED <<booted, tooSoon>> \/ TakesReboot(cur[h])
        /\ \/ UNCHANGED unknown
           \/ unknown' = [unknown EXCEPT ![cur[h]] = FALSE]
           \/ unknown' = [unknown EXCEPT ![cur[h]] = TRUE]
    BY <1>7 DEF Reboot, RebootFails, Holding
  <2>2. /\ marked' \in [Routers -> 0..Every]
        /\ booted' \in [Routers -> 0..Every]
    BY <2>1, EveryAssumption DEF TakesReboot, TypeOK
  <2>3. tooSoon' \in BOOLEAN
    BY <2>1, Zenon DEF TakesReboot, TypeOK
  <2>4. unknown' \in [Routers -> BOOLEAN]
    BY <2>1, Zenon DEF TypeOK
  <2> QED
    BY <2>1, <2>2, <2>3, <2>4, LettingGo
<1>8. CASE Tick
  <2>1. TypeOK'
    BY <1>8, EveryAssumption, LockWaitAssumption DEF Tick, UpTo, TypeOK
  <2>2. \A r \in Routers : Holders(r)' = Holders(r)
    BY <1>8 DEF Tick, Holders
  <2> QED
    BY <1>8, <2>1, <2>2 DEF Tick, OneAtATime
<1>9. CASE ServerRestart
  <2>1. TypeOK'
    BY <1>9, EveryAssumption, LockWaitAssumption DEF ServerRestart, TypeOK
  <2>2. \A h \in Handlers : pc'[h] \notin Holding
    BY <1>9 DEF ServerRestart, Holding
  <2>3. \A r \in Routers : Holders(r)' = {} /\ token'[r] = FALSE
    BY <1>9, <2>2 DEF ServerRestart, Holders
  <2> QED
    BY <2>1, <2>2, <2>3 DEF OneAtATime
<1>10. CASE UNCHANGED vars
  BY <1>10 DEF vars, TypeOK, OneAtATime, Holders
<1>11. ASSUME NEW h \in Handlers, Request(h) \/ RollOut(h)
       PROVE  Exclusion'
  <2>1. PICK r \in Routers, k \in {"change", "reboot"}, rest \in SUBSET Routers :
          Arrive(h, k, r, rest)
    BY <1>11 DEF Request, RollOut
  <2> QED
    BY <1>1, <2>1
<1>12. ASSUME NEW h \in Handlers, Step(h)
       PROVE  Exclusion'
  BY <1>2, <1>3, <1>4, <1>5, <1>6, <1>7, <1>12 DEF Step
<1> QED
  BY <1>8, <1>9, <1>10, <1>11, <1>12 DEF Next

\* One handler at a time changes a router, and its token is gone meanwhile.
THEOREM MutualExclusion == Spec => []OneAtATime
<1>1. Init => Exclusion
  BY InitExclusion
<1>2. Exclusion /\ [Next]_vars => Exclusion'
  BY StepExclusion
<1>3. Exclusion => OneAtATime
  BY DEF Exclusion
<1> QED
  BY <1>1, <1>2, <1>3, PTL DEF Spec

\* Waits, marks and cooldowns keep within their bounds, and every handler works on a
\* router of the server (config.go:77-127).
THEOREM LocksTypes == Spec => []TypeOK
<1>1. Exclusion => TypeOK
  BY DEF Exclusion
<1> QED
  BY <1>1, InitExclusion, StepExclusion, PTL DEF Spec

-----------------------------------------------------------------------------
(* The cooldown.                                                           *)

Earned == Exclusion /\ CooldownIsEarned

LEMMA StepEarned == Earned /\ [Next]_vars => Earned'
<1> SUFFICES ASSUME Earned, [Next]_vars
             PROVE  CooldownIsEarned'
  BY StepExclusion DEF Earned
<1> USE EveryAssumption DEF Earned, Exclusion, TypeOK, CooldownIsEarned
<1>1. ASSUME UNCHANGED <<marked, booted>>
      PROVE  CooldownIsEarned'
  BY <1>1
<1>2. ASSUME NEW h \in Handlers, Reboot(h)
      PROVE  CooldownIsEarned'
  BY <1>2 DEF Reboot, TakesReboot
<1>3. ASSUME NEW h \in Handlers, RebootFails(h)
      PROVE  CooldownIsEarned'
  BY <1>3 DEF RebootFails, TakesReboot
<1>4. CASE Tick
  BY <1>4 DEF Tick, UpTo
<1>5. CASE ServerRestart
  BY <1>5 DEF ServerRestart
<1> QED
  BY <1>1, <1>2, <1>3, <1>4, <1>5 DEF Next, Request, RollOut, Step, Arrive,
     Acquire, GiveUp, Allow, Connect, ConnectFails, Change, reboots, vars

\* A reboot refused for the cooldown follows one that the router did take.
THEOREM CooldownHolds == Spec => []CooldownIsEarned
<1>1. Init => Earned
  BY InitExclusion, EveryAssumption DEF Init, Earned, CooldownIsEarned
<1>2. Earned /\ [Next]_vars => Earned'
  BY StepEarned
<1>3. Earned => CooldownIsEarned
  BY DEF Earned
<1> QED
  BY <1>1, <1>2, <1>3, PTL DEF Spec

\* What makes reboots spaced: where the server knows of the last reboot the mark
\* is as old, and a handler that was allowed to reboot a router holds its token,
\* so nobody has rebooted it meanwhile.
Marks == \A r \in Routers : ~unknown[r] => marked[r] = booted[r]
Allowed == \A h \in Handlers : pc[h] \in {"connect", "work"} /\ kind[h] = "reboot" =>
             marked[cur[h]] = Every
Spacing == Exclusion /\ Marks /\ Allowed /\ ~tooSoon

\* A handler that takes no new part in a reboot keeps Allowed, when the others are
\* left alone and marks change at most for its own router.
LEMMA OthersAllowed ==
  ASSUME Exclusion, Allowed, NEW h \in Handlers, UNCHANGED kind, pc[h] \in Holding,
         marked' = marked \/ marked' = [marked EXCEPT ![cur[h]] = 0],
         pc'[h] \notin {"connect", "work"},
         \A g \in Handlers \ {h} : pc'[g] = pc[g] /\ cur'[g] = cur[g]
  PROVE  Allowed'
<1>1. \A g \in Handlers \ {h} : pc[g] \in {"connect", "work"} => cur[g] # cur[h]
  BY DEF Exclusion, OneAtATime, Holding
<1>2. \A g \in Handlers \ {h} : pc[g] \in {"connect", "work"} => marked'[cur[g]] = marked[cur[g]]
  BY <1>1 DEF Exclusion, TypeOK
<1> QED
  BY <1>2 DEF Allowed

LEMMA StepSpacing == Spacing /\ [Next]_vars => Spacing'
<1> SUFFICES ASSUME Spacing, [Next]_vars
             PROVE  Spacing'
  OBVIOUS
<1> USE DEF Spacing
<1>1. Exclusion'
  BY StepExclusion
<1>2. ASSUME NEW h \in Handlers, UNCHANGED <<reboots, kind>>,
             pc'[h] \notin {"connect", "work"},
             \A g \in Handlers \ {h} : pc'[g] = pc[g] /\ cur'[g] = cur[g]
      PROVE  Spacing'
  BY <1>1, <1>2 DEF reboots, Marks, Allowed
<1>3. ASSUME NEW h \in Handlers, Request(h) \/ RollOut(h)
      PROVE  Spacing'
  <2>1. PICK r \in Routers, k \in {"change", "reboot"}, rest \in SUBSET Routers :
          Arrive(h, k, r, rest)
    BY <1>3 DEF Request, RollOut
  <2>2. /\ pc'[h] = "wait" /\ UNCHANGED reboots
        /\ \A g \in Handlers \ {h} : pc'[g] = pc[g] /\ cur'[g] = cur[g] /\ kind'[g] = kind[g]
    BY <2>1 DEF Arrive, Exclusion, TypeOK
  <2> QED
    BY <1>1, <2>2 DEF reboots, Marks, Allowed
<1>4. ASSUME NEW h \in Handlers, Acquire(h)
      PROVE  Spacing'
  BY <1>1, <1>4 DEF Acquire, Exclusion, TypeOK, reboots, Marks, Allowed
<1>5. ASSUME NEW h \in Handlers, GiveUp(h)
      PROVE  Spacing'
  BY <1>2, <1>5, GoOnHoldsNothing DEF GiveUp, Exclusion, Holding
<1>6. ASSUME NEW h \in Handlers, Allow(h)
      PROVE  Spacing'
  <2>1. CASE marked[cur[h]] = Every
    BY <1>1, <1>6, <2>1 DEF Allow, Exclusion, TypeOK, reboots, Marks, Allowed
  <2>2. CASE marked[cur[h]] # Every
    BY <1>2, <1>6, <2>2, ReleaseKeepsExclusion DEF Allow, Holding
  <2> QED
    BY <2>1, <2>2
<1>7. ASSUME NEW h \in Handlers, Connect(h)
      PROVE  Spacing'
  BY <1>1, <1>7 DEF Connect, Exclusion, TypeOK, reboots, Marks, Allowed
<1>8. ASSUME NEW h \in Handlers, ConnectFails(h) \/ Change(h)
      PROVE  Spacing'
  BY <1>2, <1>8, ReleaseKeepsExclusion DEF ConnectFails, Change, Holding
<1>9. ASSUME NEW h \in Handlers, pc[h] = "work", kind[h] = "reboot", TakesReboot(cur[h])
      PROVE  ~tooSoon'
  <2>1. ~(booted[cur[h]] < Every /\ ~unknown[cur[h]])
    BY <1>9, EveryAssumption DEF Allowed, Marks, Exclusion, TypeOK
  <2> QED
    BY <1>9, <2>1, Zenon DEF TakesReboot
<1>10. ASSUME NEW h \in Handlers, RebootFails(h)
       PROVE  Spacing'
  <2>1. /\ pc[h] \in Holding /\ pc'[h] \notin {"connect", "work"} /\ UNCHANGED <<kind, marked>>
        /\ \A g \in Handlers \ {h} : pc'[g] = pc[g] /\ cur'[g] = cur[g]
    BY <1>10, ReleaseKeepsExclusion DEF RebootFails, Holding
  <2>2. Allowed'
    BY <2>1, OthersAllowed
  <2>3. CASE UNCHANGED <<booted, unknown, tooSoon>>
    BY <1>1, <2>1, <2>2, <2>3 DEF Marks
  <2>4. CASE TakesReboot(cur[h]) /\ unknown' = [unknown EXCEPT ![cur[h]] = TRUE]
    <3>1. ~tooSoon'
      BY <1>9, <1>10, <2>4 DEF RebootFails
    <3>2. Marks'
      BY <2>1, <2>4 DEF TakesReboot, Marks, Exclusion, TypeOK
    <3> QED
      BY <1>1, <2>2, <3>1, <3>2
  <2> QED
    BY <1>10, <2>3, <2>4 DEF RebootFails
<1>11. ASSUME NEW h \in Handlers, Reboot(h)
       PROVE  Spacing'
  <2>1. /\ pc[h] \in Holding /\ pc'[h] \notin {"connect", "work"} /\ UNCHANGED kind
        /\ marked' = [marked EXCEPT ![cur[h]] = 0]
        /\ \A g \in Handlers \ {h} : pc'[g] = pc[g] /\ cur'[g] = cur[g]
    BY <1>11, ReleaseKeepsExclusion DEF Reboot, Holding
  <2>2. Allowed'
    BY <2>1, OthersAllowed
  <2>3. ~tooSoon'
    BY <1>9, <1>11 DEF Reboot
  <2>4. Marks'
    BY <1>11, <2>1 DEF Reboot, TakesReboot, Marks, Exclusion, TypeOK
  <2> QED
    BY <1>1, <2>2, <2>3, <2>4
<1>12. CASE Tick
  BY <1>1, <1>12, EveryAssumption DEF Tick, UpTo, Exclusion, TypeOK, Marks, Allowed
<1>13. CASE ServerRestart
  BY <1>1, <1>13 DEF ServerRestart, Marks, Allowed
<1>14. CASE UNCHANGED vars
  BY <1>1, <1>14 DEF vars, Marks, Allowed
<1> QED
  BY <1>3, <1>4, <1>5, <1>6, <1>7, <1>8, <1>10, <1>11, <1>12, <1>13, <1>14 DEF Next, Step

\* A router takes no reboot within the cooldown of one the server knows of.
THEOREM RebootSpacing == Spec => []RebootsAreSpaced
<1>1. Init => Spacing
  BY InitExclusion DEF Init, Spacing, Marks, Allowed
<1>2. Spacing /\ [Next]_vars => Spacing'
  BY StepSpacing
<1>3. Spacing => RebootsAreSpaced
  BY DEF Spacing, RebootsAreSpaced
<1> QED
  BY <1>1, <1>2, <1>3, PTL DEF Spec
=============================================================================
