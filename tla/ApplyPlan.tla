----------------------------- MODULE ApplyPlan -----------------------------
(***************************************************************************)
(* applyPlan (internal/router/apply.go): how a plan, a set of file changes *)
(* for one router, is written beside the files, checked, renamed into      *)
(* place, followed by a restart of the service and a read-back, and rolled *)
(* back when one of these fails.  Every command goes through one SSH       *)
(* connection (internal/sshconn/sshconn.go:107) and is one step here.      *)
(*                                                                         *)
(* A command that the router answers has succeeded or failed; a failed one *)
(* may have had part of its effect.  With Lossy, the answer can also be    *)
(* lost: the whole effect, part of it or nothing has taken place, the      *)
(* caller sees an error and the connection is closed for good, so that     *)
(* every later command of this run fails without effect.                   *)
(*                                                                         *)
(* The specification covers any number of runs, one after another: what a  *)
(* run leaves behind (.rt-new, .rt-bak) is there when the next one starts. *)
(***************************************************************************)
EXTENDS Naturals

CONSTANTS
  NFiles,      \* a plan is about the files 1..NFiles, changed in this order
  Contents,    \* the contents a configuration file can have
  Wellformed,  \* the contents FileChange.Validate accepts
  Loads,       \* the contents FileChange.RemoteCheck accepts
  Checked,     \* the files whose change carries a RemoteCheck
  NoFile,      \* no such file
  Partial,     \* what an interrupted write or copy leaves
  Guarded,     \* the restart does nothing while the VPN is off (Restart);
               \* otherwise it is unconditional (OpenWrt RestartProxy, RestartDNS)
  Confirms,    \* the restart ends with a look at the process (all but
               \* OpenWrt.Restart, whose status is that of rc.local's last command)
  Probed,      \* the xray of a probe may be the process it finds (pidof xray)
  Lossy,       \* answers can be lost
  Crashes,     \* the process running applyPlan can stop at any step
  Reboots      \* the router can lose power at any step

Files == 1..NFiles

ASSUME NFilesAssumption == NFiles \in Nat \ {0}
ASSUME ContentsAssumption ==
  /\ Wellformed \subseteq Contents
  /\ Loads \subseteq Contents
  /\ Checked \subseteq Files
  /\ NoFile \notin Contents
  /\ Partial \notin Contents
ASSUME SwitchesAssumption ==
  /\ Guarded \in BOOLEAN
  /\ Confirms \in BOOLEAN
  /\ Probed \in BOOLEAN
  /\ Confirms \/ Guarded
  /\ Lossy \in BOOLEAN
  /\ Crashes \in BOOLEAN
  /\ Reboots \in BOOLEAN

VARIABLES
  live,      \* the configuration files
  tmp,       \* the .rt-new file of each
  bak,       \* the .rt-bak file of each
  svc,       \* "up", "down": the process is not running or a part of the redirect
             \* rules is missing, "off": no redirect rules (Guarded only)
  loaded,    \* the contents the service last started with
  conn,      \* the connection of this run is open
  pc,        \* the next thing applyPlan does
  target,    \* FileChange.Content of each file, its old content if unchanged
  plan,      \* the files of Plan.Changes
  written,   \* changes whose .rt-new was written and is still to be removed
  replaced,  \* changes renamed into place
  restored,  \* changes the rollback has tried to restore
  rberr,     \* the rollback met an error
  outcome,   \* what applyPlan returns
  before,    \* history: the files when the plan was made (FileChange.Before)
  svc0       \* history: the service when the plan was made

router == <<live, tmp, bak>>
service == <<svc, loaded>>
request == <<target, plan, before, svc0>>
progress == <<written, replaced, restored, rberr>>
vars == <<live, tmp, bak, svc, loaded, conn, pc, target, plan, written,
          replaced, restored, rberr, outcome, before, svc0>>

Services == {"up", "down", "off"}
Outcomes == {"none", "ok", "error", "e11", "e12", "e13"}
Phases == {"idle", "write", "check", "replace", "restart", "verify",
           "restore", "rbrestart", "cleanup"}
Sides == Contents \cup {NoFile, Partial}

TypeOK ==
  /\ live \in [Files -> Contents]
  /\ tmp \in [Files -> Sides]
  /\ bak \in [Files -> Sides]
  /\ svc \in Services
  /\ loaded \in [Files -> Contents]
  /\ conn \in BOOLEAN
  /\ pc \in Phases
  /\ target \in [Files -> Contents]
  /\ plan \in SUBSET Files
  /\ written \in SUBSET Files
  /\ replaced \in SUBSET Files
  /\ restored \in SUBSET Files
  /\ rberr \in BOOLEAN
  /\ outcome \in Outcomes
  /\ before \in [Files -> Contents]
  /\ svc0 \in Services

\* f is the next of S in the order of the plan.
First(f, S) == f \in S /\ \A g \in S : f <= g
\* f is the one written last.
Last(f, S) == f \in S /\ \A g \in S : g <= f

\* What the checks before the rename accept for file f.
Acceptable(f) == IF f \in Checked THEN Wellformed \cap Loads ELSE Wellformed

Init ==
  /\ live \in [Files -> Contents]
  /\ \A f \in Files : live[f] \in Acceptable(f)
  /\ tmp = [f \in Files |-> NoFile]
  /\ bak = [f \in Files |-> NoFile]
  /\ svc \in IF Guarded THEN {"up", "off"} ELSE {"up"}
  /\ loaded = live
  /\ conn = FALSE
  /\ pc = "idle"
  /\ target = live
  /\ plan = {}
  /\ written = {}
  /\ replaced = {}
  /\ restored = {}
  /\ rberr = FALSE
  /\ outcome = "none"
  /\ before = live
  /\ svc0 = svc

-----------------------------------------------------------------------------
(* How a command can go wrong.                                             *)

\* The status was not 0; the connection was gone before; the answer is lost.
Refused == conn /\ UNCHANGED conn
Unreachable == ~conn /\ UNCHANGED conn
Unanswered == Lossy /\ conn /\ conn' = FALSE

\* A restart that does nothing because the VPN is off.
Idle == Guarded /\ svc = "off"

\* What a restart can leave and still end with status 0: rules are missing when
\* rc.local goes on after an nft that failed, the process is missing when another
\* xray answers for it.
Unnoticed == {s \in {"down", "off"} : ~Confirms \/ (Probed /\ s = "down")}

\* Mutant of Restarted: it does not ask whether the VPN is on.
RestartedUnasked == svc' \in {"up"} \cup Unnoticed /\ loaded' = live

\* The service after a restart that was answered with status 0.
Restarted == IF Idle THEN UNCHANGED service
                     ELSE svc' \in {"up"} \cup Unnoticed /\ loaded' = live

\* The service after a restart that failed half way: its rules may be gone
\* (xkeen stops before it starts, nft flushes before rc.local fills in), it may
\* be down, or up with the old or the new files.
HalfRestarted ==
  /\ svc' \in IF Guarded THEN Services ELSE {"up", "down"}
  /\ loaded' \in {loaded, live}

RestartFails ==
  \/ Refused /\ ~Idle /\ HalfRestarted
  \/ Unreachable /\ UNCHANGED service
  \/ Unanswered /\ (UNCHANGED service \/ (~Idle /\ HalfRestarted))

-----------------------------------------------------------------------------
(* One run of applyPlan.                                                   *)

\* applyPlan returns, after the removal of the .rt-new files it has written
\* unless all of them have been renamed.
Return(code) ==
  /\ outcome' = code
  /\ pc' = IF written = {} \/ replaced = plan THEN "idle" ELSE "cleanup"

\* The plan is made from the files as they are; an empty one returns at once.
Begin(t) ==
  /\ pc = "idle"
  /\ target' = t
  /\ plan' = {f \in Files : t[f] # live[f]}
  /\ before' = live
  /\ svc0' = svc
  /\ conn' = TRUE
  /\ written' = {}
  /\ replaced' = {}
  /\ restored' = {}
  /\ rberr' = FALSE
  /\ pc' = IF plan' = {} THEN "idle" ELSE "write"
  /\ outcome' = IF plan' = {} THEN "ok" ELSE "none"
  /\ UNCHANGED <<router, service>>

\* No plan can be made, the files contradict each other, or there is nothing to
\* change and the state cannot be read.
PlanFails ==
  /\ pc = "idle"
  /\ target' = live
  /\ plan' = {}
  /\ before' = live
  /\ svc0' = svc
  /\ conn' = FALSE
  /\ written' = {}
  /\ replaced' = {}
  /\ restored' = {}
  /\ rberr' = FALSE
  /\ outcome' = "error"
  /\ UNCHANGED <<router, service, pc>>

NextWrite(w) == IF w = plan THEN "replace" ELSE "write"

ValidateFails ==
  /\ pc = "write"
  /\ \E f \in Files : First(f, plan \ written) /\ target[f] \notin Wellformed
  /\ Return("e11")
  /\ UNCHANGED <<router, service, request, progress, conn>>

Write ==
  /\ pc = "write"
  /\ conn
  /\ \E f \in Files :
       /\ First(f, plan \ written)
       /\ target[f] \in Wellformed
       /\ tmp' = [tmp EXCEPT ![f] = target[f]]
       /\ written' = written \cup {f}
       /\ pc' = IF f \in Checked THEN "check" ELSE NextWrite(written')
  /\ UNCHANGED <<live, bak, service, request, conn, replaced, restored, rberr, outcome>>

\* The file that could not be written is not among those removed afterwards.
WriteFails ==
  /\ pc = "write"
  /\ \E f \in Files :
       /\ First(f, plan \ written)
       /\ target[f] \in Wellformed
       /\ \/ Refused /\ tmp' \in {tmp, [tmp EXCEPT ![f] = Partial]}
          \/ Unreachable /\ UNCHANGED tmp
          \/ Unanswered /\ tmp' \in {tmp, [tmp EXCEPT ![f] = Partial],
                                          [tmp EXCEPT ![f] = target[f]]}
  /\ Return("error")
  /\ UNCHANGED <<live, bak, service, request, progress>>

\* Mutant of Check: the status of RemoteCheck is ignored.
CheckIgnored ==
  /\ pc = "check"
  /\ conn
  /\ pc' = NextWrite(written)
  /\ UNCHANGED <<router, service, request, progress, conn, outcome>>

Check ==
  /\ pc = "check"
  /\ conn
  /\ \E f \in Files : Last(f, written) /\ tmp[f] \in Loads
  /\ pc' = NextWrite(written)
  /\ UNCHANGED <<router, service, request, progress, conn, outcome>>

CheckFails ==
  /\ pc = "check"
  /\ Refused \/ Unreachable \/ Unanswered
  /\ Return("e11")
  /\ UNCHANGED <<router, service, request, progress>>

-----------------------------------------------------------------------------
(* cp -p path path.rt-bak && mv path.rt-new path                           *)

\* Mutants of Renamed: mv before cp, and mv alone.
RenamedThenCopied(f) == /\ bak' = [bak EXCEPT ![f] = tmp[f]]
                        /\ live' = [live EXCEPT ![f] = tmp[f]]
                        /\ tmp' = [tmp EXCEPT ![f] = NoFile]
RenamedOnly(f) == /\ live' = [live EXCEPT ![f] = tmp[f]]
                  /\ tmp' = [tmp EXCEPT ![f] = NoFile]
                  /\ UNCHANGED bak

Renamed(f) == /\ bak' = [bak EXCEPT ![f] = live[f]]
              /\ live' = [live EXCEPT ![f] = tmp[f]]
              /\ tmp' = [tmp EXCEPT ![f] = NoFile]

\* cp stopped half way, or mv did not follow.
HalfRenamed(f) == /\ bak' \in {bak, [bak EXCEPT ![f] = Partial], [bak EXCEPT ![f] = live[f]]}
                  /\ UNCHANGED <<live, tmp>>

Replace ==
  /\ pc = "replace"
  /\ conn
  /\ \E f \in Files :
       /\ First(f, plan \ replaced)
       /\ Renamed(f)
       /\ replaced' = replaced \cup {f}
       /\ pc' = IF replaced' = plan THEN "restart" ELSE "replace"
  /\ UNCHANGED <<service, request, conn, written, restored, rberr, outcome>>

\* Mutants of ReplaceFails: the file counts as replaced before it is, E-12
\* without a rollback, and a plain error without one.
ReplaceFailsCounted ==
  /\ pc = "replace"
  /\ \E f \in Files :
       /\ First(f, plan \ replaced)
       /\ \/ Refused /\ HalfRenamed(f)
          \/ Unreachable /\ UNCHANGED router
          \/ Unanswered /\ (HalfRenamed(f) \/ Renamed(f))
       /\ replaced' = replaced \cup {f}
  /\ pc' = "restore"
  /\ UNCHANGED <<service, request, written, restored, rberr, outcome>>
ReplaceFailsAs(code) ==
  /\ pc = "replace"
  /\ \E f \in Files :
       /\ First(f, plan \ replaced)
       /\ \/ Refused /\ HalfRenamed(f)
          \/ Unreachable /\ UNCHANGED router
          \/ Unanswered /\ (HalfRenamed(f) \/ Renamed(f))
  /\ Return(code)
  /\ UNCHANGED <<service, request, progress>>
ReplaceFailsAlone == ReplaceFailsAs("e12")
ReplaceFailsPlainly == ReplaceFailsAs("error")

\* Only the files renamed before this one are rolled back; when there are none
\* the rollback succeeds without a command.
ReplaceFails ==
  /\ pc = "replace"
  /\ \E f \in Files :
       /\ First(f, plan \ replaced)
       /\ \/ Refused /\ HalfRenamed(f)
          \/ Unreachable /\ UNCHANGED router
          \/ Unanswered /\ (HalfRenamed(f) \/ Renamed(f))
  /\ IF replaced = {} THEN Return("e12")
                      ELSE pc' = "restore" /\ UNCHANGED outcome
  /\ UNCHANGED <<service, request, progress>>

-----------------------------------------------------------------------------
Restart ==
  /\ pc = "restart"
  /\ conn
  /\ Restarted
  /\ pc' = "verify"
  /\ UNCHANGED <<router, conn, request, progress, outcome>>

\* Mutant of RestartRollsBack: the error of the restart is dropped.
RestartErrorDropped ==
  /\ pc = "restart"
  /\ RestartFails
  /\ pc' = "verify"
  /\ UNCHANGED <<router, request, progress, outcome>>

RestartRollsBack ==
  /\ pc = "restart"
  /\ RestartFails
  /\ pc' = "restore"
  /\ UNCHANGED <<router, request, progress, outcome>>

\* verify(): the files read back hold what was asked for.
Verify ==
  /\ pc = "verify"
  /\ conn
  /\ \A f \in plan : live[f] = target[f]
  /\ Return("ok")
  /\ UNCHANGED <<router, service, conn, request, progress>>

\* They do not, or a read, the state of the proxy or a probe of a node failed.
VerifyFails ==
  /\ pc = "verify"
  /\ Refused \/ Unreachable \/ Unanswered
  /\ pc' = "restore"
  /\ UNCHANGED <<router, service, request, progress, outcome>>

-----------------------------------------------------------------------------
(* rollback: cp -p path.rt-bak path.rt-rb && mv path.rt-rb path for every  *)
(* replaced file, going on after an error, then one restart.  path.rt-rb   *)
(* is no variable: it is always written before it is read.                 *)

\* Mutant of PutBack: the wrong suffix.
PutBackNew(f) == live' = [live EXCEPT ![f] = tmp[f]]

PutBack(f) == live' = [live EXCEPT ![f] = bak[f]]

NextRestore == IF restored' = replaced THEN "rbrestart" ELSE "restore"

Restore ==
  /\ pc = "restore"
  /\ conn
  /\ \E f \in Files :
       /\ First(f, replaced \ restored)
       /\ PutBack(f)
       /\ restored' = restored \cup {f}
  /\ pc' = NextRestore
  /\ UNCHANGED <<tmp, bak, service, request, conn, written, replaced, rberr, outcome>>

\* Mutants of RestoreFails: the error is dropped, and the same file is tried
\* again until it works.
RestoreErrorDropped ==
  /\ pc = "restore"
  /\ \E f \in Files :
       /\ First(f, replaced \ restored)
       /\ \/ (Refused \/ Unreachable) /\ UNCHANGED live
          \/ Unanswered /\ (UNCHANGED live \/ PutBack(f))
       /\ restored' = restored \cup {f}
  /\ pc' = NextRestore
  /\ UNCHANGED <<tmp, bak, service, request, written, replaced, rberr, outcome>>
RestoreRetried ==
  /\ pc = "restore"
  /\ \E f \in Files :
       /\ First(f, replaced \ restored)
       /\ \/ (Refused \/ Unreachable) /\ UNCHANGED live
          \/ Unanswered /\ (UNCHANGED live \/ PutBack(f))
  /\ rberr' = TRUE
  /\ UNCHANGED <<tmp, bak, service, request, written, replaced, restored, pc, outcome>>

RestoreFails ==
  /\ pc = "restore"
  /\ \E f \in Files :
       /\ First(f, replaced \ restored)
       /\ \/ (Refused \/ Unreachable) /\ UNCHANGED live
          \/ Unanswered /\ (UNCHANGED live \/ PutBack(f))
       /\ restored' = restored \cup {f}
  /\ rberr' = TRUE
  /\ pc' = NextRestore
  /\ UNCHANGED <<tmp, bak, service, request, written, replaced, outcome>>

RollbackRestart ==
  /\ pc = "rbrestart"
  /\ conn
  /\ Restarted
  /\ Return(IF rberr THEN "e13" ELSE "e12")
  /\ UNCHANGED <<router, conn, request, progress>>

\* Mutant of RollbackRestartFails: only failed restores make it E-13.
RollbackRestartForgiven ==
  /\ pc = "rbrestart"
  /\ RestartFails
  /\ Return(IF rberr THEN "e13" ELSE "e12")
  /\ UNCHANGED <<router, request, progress>>

RollbackRestartFails ==
  /\ pc = "rbrestart"
  /\ RestartFails
  /\ rberr' = TRUE
  /\ Return("e13")
  /\ UNCHANGED <<router, request, written, replaced, restored>>

\* rm -f path.rt-new; its answer is ignored.
Cleanup ==
  /\ pc = "cleanup"
  /\ \E f \in Files :
       /\ First(f, written)
       /\ \/ (Refused \/ Unanswered) /\ tmp' \in {tmp, [tmp EXCEPT ![f] = NoFile]}
          \/ Unreachable /\ UNCHANGED tmp
       /\ written' = written \ {f}
  /\ pc' = IF written' = {} THEN "idle" ELSE "cleanup"
  /\ UNCHANGED <<live, bak, service, request, replaced, restored, rberr, outcome>>

Step == \/ ValidateFails \/ Write \/ WriteFails \/ Check \/ CheckFails
        \/ Replace \/ ReplaceFails \/ Restart \/ RestartRollsBack
        \/ Verify \/ VerifyFails \/ Restore \/ RestoreFails
        \/ RollbackRestart \/ RollbackRestartFails \/ Cleanup

-----------------------------------------------------------------------------
(* The surroundings.                                                       *)

\* The tunnel drops between two commands.
Disconnect ==
  /\ pc # "idle"
  /\ conn
  /\ conn' = FALSE
  /\ UNCHANGED <<router, service, request, progress, pc, outcome>>

\* The server or the manual-mode process ends; nobody learns an outcome.
Crash ==
  /\ Crashes
  /\ pc # "idle"
  /\ pc' = "idle"
  /\ conn' = FALSE
  /\ outcome' = "none"
  /\ UNCHANGED <<router, service, request, progress>>

\* The router starts again, with the VPN on, from the files it has.
RouterReboot ==
  /\ Reboots
  /\ conn' = FALSE
  /\ svc' \in {"up", "down"}
  /\ loaded' = live
  /\ UNCHANGED <<router, request, progress, pc, outcome>>

\* SetVPN between two runs.
SwitchVPN(on) ==
  /\ Guarded
  /\ pc = "idle"
  /\ IF on THEN svc' = "up" /\ loaded' = live
           ELSE svc' = "off" /\ UNCHANGED loaded
  /\ UNCHANGED <<router, request, progress, conn, pc, outcome>>

Environment == Disconnect \/ Crash \/ RouterReboot \/ (\E on \in BOOLEAN : SwitchVPN(on))

Next == (\E t \in [Files -> Contents] : Begin(t)) \/ PlanFails \/ Step \/ Environment

\* The goroutine of the request goes on: every command is answered or given up
\* after commandTimeout.
Fairness == WF_vars(Step)

Spec == Init /\ [][Next]_vars /\ Fairness

-----------------------------------------------------------------------------
(* Properties.                                                             *)

\* The rollback always has something to restore: the content a file had when
\* the plan was made is in the file or in its .rt-bak, whatever was lost,
\* crashed or left over by an earlier run (apply.go:71-81, remotefile.go:58-77).
OldContentKept == \A f \in Files : before[f] \in {live[f], bak[f]}

\* A file holds its old content or the wanted one, never a truncated write or
\* the .rt-new of an earlier run (apply.go:47-81).
NoThirdContent == \A f \in Files : live[f] \in {before[f], target[f]}

\* No content that Validate or RemoteCheck rejects is ever in place: the checks
\* of every file precede the first rename (apply.go:47-71).
ChecksComeFirst == \A f \in Files : live[f] \in Acceptable(f)

\* An error before the first rename, E-11 included, leaves the files as they
\* were (controller.go:23), and success means they are as asked for.
VerdictTellsTheFiles ==
  /\ outcome \in {"error", "e11"} => live = before
  /\ outcome = "ok" => live = target

\* E-12: everything is as it was (controller.go:25).
RolledBackMeansAsBefore == outcome = "e12" => live = before

-----------------------------------------------------------------------------
(* The inductive invariant behind the five invariants above: what applyPlan *)
(* knows at each point of a run.                                            *)

\* The bookkeeping of a run.
Books ==
  /\ plan = {f \in Files : target[f] # before[f]}
  /\ written \subseteq plan
  /\ replaced \subseteq plan
  /\ restored \subseteq replaced
  /\ pc \in {"write", "check"} => replaced = {}
  /\ pc \in {"write", "check", "replace"} => restored = {} /\ plan # {}
  /\ pc \in {"write", "check"} => \A f \in written, g \in plan \ written : f < g
  /\ pc \in {"replace", "restart", "verify"} => written = plan
  /\ pc \in {"restart", "verify"} => replaced = plan
  /\ pc = "rbrestart" => restored = replaced
  /\ pc \notin {"idle", "cleanup"} => outcome = "none"
  /\ pc = "cleanup" => outcome \in {"error", "e11", "e12", "e13"}

\* The files and their copies.
FilesInv ==
  /\ OldContentKept
  /\ NoThirdContent
  /\ \A f \in replaced : bak[f] = before[f]
  /\ ~Lossy => \A f \in Files \ replaced : live[f] = before[f]
  /\ ~rberr => \A f \in restored : live[f] = before[f]
  /\ pc \in {"write", "check"} => live = before
  /\ pc \in {"write", "check", "replace"} =>
       \A f \in written \ replaced : tmp[f] = target[f] /\ live[f] = before[f]
  /\ pc \in {"replace", "restart", "verify"} => \A f \in replaced : live[f] = target[f]

\* The checks.
ChecksInv ==
  /\ ChecksComeFirst
  /\ \A f \in Files : before[f] \in Acceptable(f)
  /\ pc \in {"write", "check", "replace"} => \A f \in written : target[f] \in Wellformed
  /\ pc = "check" => \A f \in written \cap Checked : target[f] \in Loads \/ Last(f, written)
  /\ pc \in {"write", "replace"} => \A f \in written \cap Checked : target[f] \in Loads

VerdictInv ==
  /\ VerdictTellsTheFiles
  /\ ~Lossy => RolledBackMeansAsBefore

IInv == TypeOK /\ Books /\ FilesInv /\ ChecksInv /\ VerdictInv

-----------------------------------------------------------------------------
\* A change reported as done is in force: the service runs the files in place,
\* or the VPN was off from the start (apply.go:83-93).  It depends on a restart
\* that looks for the process of the service (Confirms) and does not find that
\* of a probe (~Probed).
OkMeansInForce ==
  [][pc = "verify" /\ outcome' = "ok" =>
       \/ svc = "up" /\ loaded = live
       \/ svc = "off" /\ svc0 = "off"]_vars

\* E-12 also promises the service back (api.go:275, apply_test.go:205): if it
\* ran before it runs now, and on the old files if a rename made it restart.
RolledBackMeansRunning ==
  [][outcome = "none" /\ outcome' = "e12" /\ svc0 = "up" =>
       svc' = "up" /\ (replaced # {} => loaded' = before)]_vars

\* No step of a run, a rollback included, turns a switched-off VPN on
\* (keenetic.go:119, openwrt.go:81: the restarts ask first).
StaysOff == [][svc = "off" /\ svc' # "off" => pc' = pc]_vars

\* "Nothing to change" (apply.go:18-21): when the files already hold what is
\* asked for, so does the running service.
NothingToChange ==
  [][pc = "idle" /\ outcome' = "ok" /\ before' = target' /\ svc = "up" =>
       loaded = live]_vars

\* Every run ends: no failure, lost answer or dropped tunnel keeps it going.
RunEnds == pc # "idle" ~> pc = "idle"

\* While a run is in progress its effects are its own business: seen from the
\* outside the files change when it ends.
Atomic == INSTANCE AtomicChange WITH
  value <- IF pc = "idle" THEN live ELSE before,
  goal <- target,
  busy <- pc # "idle",
  verdict <- IF pc = "idle" THEN outcome ELSE "none"

\* Without lost answers applyPlan is an atomic change with a true verdict.
ImplementsAtomicChange == Atomic!Spec
=============================================================================
