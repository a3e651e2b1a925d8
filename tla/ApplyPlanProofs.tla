-------------------------- MODULE ApplyPlanProofs --------------------------
(***************************************************************************)
(* Every reachable state of ApplyPlan satisfies IInv, for any number of    *)
(* files, any contents, and whatever fails, is lost, crashes or reboots.   *)
(* One lemma per action; each shows the five parts of IInv one by one.     *)
(***************************************************************************)
EXTENDS ApplyPlan, TLAPS

\* The first state: no run yet, no file beside the configuration.
LEMMA InitEstablishes == Init => IInv
  BY NFilesAssumption, ContentsAssumption
     DEF Init, Sides, Services, Outcomes, Phases, IInv, TypeOK, Books, FilesInv,
         ChecksInv, VerdictInv, OldContentKept, NoThirdContent, ChecksComeFirst,
         VerdictTellsTheFiles, RolledBackMeansAsBefore, Acceptable

\* Nothing has been renamed when Validate rejects a content.
LEMMA ValidateFailsKeeps ==
  ASSUME IInv, ValidateFails
  PROVE  IInv'
<1>1. TypeOK'
  BY DEF IInv, TypeOK, Sides, Services, Outcomes, Phases, ValidateFails,
     Return, router, service, request, progress
<1>2. Books'
  BY DEF IInv, TypeOK, Books, ValidateFails, Return, router, service, request,
     progress
<1>3. FilesInv'
  BY DEF IInv, TypeOK, Books, FilesInv, OldContentKept, NoThirdContent,
     ValidateFails, Return, router, service, request, progress
<1>4. ChecksInv'
  BY DEF IInv, TypeOK, Books, FilesInv, ChecksInv, ChecksComeFirst,
     Acceptable, OldContentKept, NoThirdContent, ValidateFails, Return,
     router, service, request, progress
<1>5. VerdictInv'
  BY DEF IInv, TypeOK, Books, FilesInv, VerdictInv, VerdictTellsTheFiles,
     RolledBackMeansAsBefore, OldContentKept, NoThirdContent, ValidateFails,
     Return, router, service, request, progress
<1> QED
  BY <1>1, <1>2, <1>3, <1>4, <1>5 DEF IInv

\* The new content of one more file is beside it.
LEMMA WriteKeeps ==
  ASSUME IInv, Write
  PROVE  IInv'
<1>1. PICK f \in Files :
        /\ First(f, plan \ written)
        /\ f \in plan \ written
        /\ target[f] \in Wellformed
        /\ tmp' = [tmp EXCEPT ![f] = target[f]]
        /\ written' = written \cup {f}
        /\ pc' = IF f \in Checked THEN "check" ELSE NextWrite(written')
  BY DEF Write, First
<1>2. /\ pc = "write" /\ pc' \in {"write", "check", "replace"}
      /\ UNCHANGED <<live, bak, service, request, conn, replaced, restored, rberr, outcome>>
  BY <1>1 DEF Write, NextWrite
<1>3. TypeOK'
  BY <1>1, <1>2, ContentsAssumption
     DEF IInv, TypeOK, Sides, Phases, service, request
<1>4. Books'
  <2>1. \A g \in plan \ written : f <= g
    BY <1>1 DEF First
  <2>2. \A g \in written', h \in plan \ written' : g < h
    BY <1>1, <1>2, <2>1, NFilesAssumption DEF IInv, TypeOK, Books, Files
  <2> QED
    BY <1>1, <1>2, <2>2 DEF IInv, TypeOK, Books, NextWrite, request
<1>5. FilesInv'
  BY <1>1, <1>2
     DEF IInv, TypeOK, Books, FilesInv, OldContentKept, NoThirdContent, request
<1>6. ChecksInv'
  <2>1. ChecksComeFirst' /\ \A g \in Files : before'[g] \in Acceptable(g)
    BY <1>2 DEF IInv, ChecksInv, ChecksComeFirst, Acceptable, request
  <2>2. pc' \in {"write", "check", "replace"} => \A g \in written' : target'[g] \in Wellformed
    BY <1>1, <1>2 DEF IInv, ChecksInv, request
  <2>3. pc' = "check" => \A g \in written' \cap Checked : target'[g] \in Loads \/ Last(g, written')
    <3>1. \A g \in written : g <= f
      BY <1>1, <1>2, NFilesAssumption DEF Write, First, IInv, TypeOK, Books, Files
    <3>2. Last(f, written')
      BY <1>1, <3>1 DEF Last, Files
    <3> QED
      BY <1>1, <1>2, <3>2 DEF IInv, ChecksInv, request
  <2>4. pc' \in {"write", "replace"} => \A g \in written' \cap Checked : target'[g] \in Loads
    BY <1>1, <1>2 DEF IInv, ChecksInv, request
  <2> QED
    BY <2>1, <2>2, <2>3, <2>4 DEF ChecksInv
<1>7. VerdictInv'
  BY <1>2 DEF IInv, Books, VerdictInv, VerdictTellsTheFiles, RolledBackMeansAsBefore, request
<1> QED
  BY <1>3, <1>4, <1>5, <1>6, <1>7 DEF IInv

\* A file that could not be written is not counted as written.
LEMMA WriteFailsKeeps ==
  ASSUME IInv, WriteFails
  PROVE  IInv'
<1>1. TypeOK'
  BY DEF IInv, TypeOK, Sides, Services, Outcomes, Phases, WriteFails, Return,
     Refused, Unreachable, Unanswered, service, request, progress
<1>2. Books'
  BY DEF IInv, TypeOK, Books, WriteFails, Return, Refused, Unreachable,
     Unanswered, service, request, progress
<1>3. FilesInv'
  BY DEF IInv, TypeOK, Books, FilesInv, OldContentKept, NoThirdContent,
     WriteFails, Return, Refused, Unreachable, Unanswered, service, request,
     progress
<1>4. ChecksInv'
  BY DEF IInv, TypeOK, Books, FilesInv, ChecksInv, ChecksComeFirst,
     Acceptable, OldContentKept, NoThirdContent, WriteFails, Return, Refused,
     Unreachable, Unanswered, service, request, progress
<1>5. VerdictInv'
  BY DEF IInv, TypeOK, Books, FilesInv, VerdictInv, VerdictTellsTheFiles,
     RolledBackMeansAsBefore, OldContentKept, NoThirdContent, WriteFails,
     Return, Refused, Unreachable, Unanswered, service, request, progress
<1> QED
  BY <1>1, <1>2, <1>3, <1>4, <1>5 DEF IInv

\* The file written last passes the check on the router.
LEMMA CheckKeeps ==
  ASSUME IInv, Check
  PROVE  IInv'
<1>1. TypeOK'
  BY DEF IInv, TypeOK, Sides, Services, Outcomes, Phases, Check, NextWrite,
     Last, router, service, request, progress
<1>2. Books'
  BY DEF IInv, TypeOK, Books, Check, NextWrite, Last, router, service,
     request, progress
<1>3. FilesInv'
  BY DEF IInv, TypeOK, Books, FilesInv, OldContentKept, NoThirdContent, Check,
     NextWrite, Last, router, service, request, progress
<1>4. ChecksInv'
  BY DEF IInv, TypeOK, Books, FilesInv, ChecksInv, ChecksComeFirst,
     Acceptable, OldContentKept, NoThirdContent, Check, NextWrite, Last,
     router, service, request, progress, Files
<1>5. VerdictInv'
  BY DEF IInv, TypeOK, Books, FilesInv, VerdictInv, VerdictTellsTheFiles,
     RolledBackMeansAsBefore, OldContentKept, NoThirdContent, Check,
     NextWrite, Last, router, service, request, progress
<1> QED
  BY <1>1, <1>2, <1>3, <1>4, <1>5 DEF IInv

\* Nothing has been renamed when the check on the router fails.
LEMMA CheckFailsKeeps ==
  ASSUME IInv, CheckFails
  PROVE  IInv'
<1>1. TypeOK'
  BY DEF IInv, TypeOK, Sides, Services, Outcomes, Phases, CheckFails, Return,
     Refused, Unreachable, Unanswered, router, service, request, progress
<1>2. Books'
  BY DEF IInv, TypeOK, Books, CheckFails, Return, Refused, Unreachable,
     Unanswered, router, service, request, progress
<1>3. FilesInv'
  BY DEF IInv, TypeOK, Books, FilesInv, OldContentKept, NoThirdContent,
     CheckFails, Return, Refused, Unreachable, Unanswered, router, service,
     request, progress
<1>4. ChecksInv'
  BY DEF IInv, TypeOK, Books, FilesInv, ChecksInv, ChecksComeFirst,
     Acceptable, OldContentKept, NoThirdContent, CheckFails, Return, Refused,
     Unreachable, Unanswered, router, service, request, progress
<1>5. VerdictInv'
  BY DEF IInv, TypeOK, Books, FilesInv, VerdictInv, VerdictTellsTheFiles,
     RolledBackMeansAsBefore, OldContentKept, NoThirdContent, CheckFails,
     Return, Refused, Unreachable, Unanswered, router, service, request,
     progress
<1> QED
  BY <1>1, <1>2, <1>3, <1>4, <1>5 DEF IInv

\* The one step that puts new content in place keeps the old one in .rt-bak.
LEMMA ReplaceKeeps ==
  ASSUME IInv, Replace
  PROVE  IInv'
<1>1. PICK f \in Files :
        /\ f \in plan \ replaced
        /\ Renamed(f)
        /\ replaced' = replaced \cup {f}
        /\ pc' = IF replaced' = plan THEN "restart" ELSE "replace"
  BY DEF Replace, First
<1>2. /\ pc = "replace"
      /\ UNCHANGED <<service, request, conn, written, restored, rberr, outcome>>
  BY DEF Replace
<1>3. /\ live[f] = before[f] /\ tmp[f] = target[f]
      /\ f \in written /\ f \notin restored
  BY <1>1, <1>2 DEF IInv, Books, FilesInv
<1>4. /\ live' = [live EXCEPT ![f] = target[f]]
      /\ bak' = [bak EXCEPT ![f] = before[f]]
      /\ tmp' = [tmp EXCEPT ![f] = NoFile]
  BY <1>1, <1>3 DEF Renamed
<1>5. TypeOK'
  BY <1>1, <1>2, <1>4, ContentsAssumption
     DEF IInv, TypeOK, Sides, Phases, service, request
<1>6. Books'
  BY <1>1, <1>2 DEF IInv, TypeOK, Books, request
<1>7. FilesInv'
  <2>1. OldContentKept' /\ NoThirdContent'
    BY <1>2, <1>4 DEF IInv, TypeOK, FilesInv, OldContentKept, NoThirdContent, request
  <2>2. \A g \in replaced' : bak'[g] = before'[g] /\ live'[g] = target'[g]
    BY <1>1, <1>2, <1>4 DEF IInv, TypeOK, FilesInv, request
  <2>3. \A g \in Files \ replaced' : live'[g] = live[g] /\ tmp'[g] = tmp[g]
    BY <1>1, <1>4 DEF IInv, TypeOK
  <2> QED
    BY <1>1, <1>2, <2>1, <2>2, <2>3 DEF IInv, TypeOK, Books, FilesInv, request
<1>8. ChecksInv'
  <2>1. target[f] \in Acceptable(f)
    BY <1>2, <1>3 DEF IInv, ChecksInv, Acceptable
  <2>2. ChecksComeFirst' /\ \A g \in Files : before'[g] \in Acceptable(g)
    BY <1>2, <1>4, <2>1 DEF IInv, TypeOK, ChecksInv, ChecksComeFirst, Acceptable, request
  <2> QED
    BY <1>1, <1>2, <2>2 DEF IInv, ChecksInv, request
<1>9. VerdictInv'
  BY <1>2 DEF IInv, Books, VerdictInv, VerdictTellsTheFiles, RolledBackMeansAsBefore
<1> QED
  BY <1>5, <1>6, <1>7, <1>8, <1>9 DEF IInv

\* A rename that failed, or whose answer was lost, may leave the new content in
\* place outside `replaced', but its old content is then in .rt-bak.
LEMMA ReplaceFailsKeeps ==
  ASSUME IInv, ReplaceFails
  PROVE  IInv'
<1>1. PICK f \in Files :
        /\ f \in plan \ replaced
        /\ \/ Refused /\ HalfRenamed(f)
           \/ Unreachable /\ UNCHANGED router
           \/ Unanswered /\ (HalfRenamed(f) \/ Renamed(f))
  BY DEF ReplaceFails, First
<1>2. /\ pc = "replace"
      /\ IF replaced = {} THEN Return("e12")
                          ELSE pc' = "restore" /\ UNCHANGED outcome
      /\ UNCHANGED <<service, request, progress>>
  BY DEF ReplaceFails
<1>3. /\ live[f] = before[f] /\ tmp[f] = target[f]
      /\ f \in written /\ f \notin restored
  BY <1>1, <1>2 DEF IInv, Books, FilesInv
<1>4. /\ pc' \in {"idle", "cleanup", "restore"}
      /\ replaced = {} => outcome' = "e12" /\ pc' \in {"idle", "cleanup"}
      /\ replaced # {} => outcome' = "none" /\ pc' = "restore"
  BY <1>2 DEF Return, IInv, Books
<1>5. conn' \in BOOLEAN
  BY <1>1 DEF Refused, Unreachable, Unanswered, IInv, TypeOK
<1>a. CASE HalfRenamed(f)
  <2>1. /\ UNCHANGED <<live, tmp>>
        /\ bak' \in {bak, [bak EXCEPT ![f] = Partial], [bak EXCEPT ![f] = before[f]]}
    BY <1>3, <1>a DEF HalfRenamed
  <2>2. TypeOK'
    BY <1>2, <1>4, <1>5, <2>1
       DEF IInv, TypeOK, Sides, Phases, Outcomes, service, request, progress
  <2>3. FilesInv'
    <3>1. \A g \in Files \ {f} : bak'[g] = bak[g]
      BY <2>1 DEF IInv, TypeOK
    <3> QED
      BY <1>1, <1>2, <1>3, <1>4, <2>1, <3>1
         DEF IInv, TypeOK, Books, FilesInv, OldContentKept, NoThirdContent, request, progress
  <2>4. VerdictInv'
    BY <1>2, <1>4, <2>1 DEF IInv, TypeOK, Books, FilesInv, VerdictInv,
       VerdictTellsTheFiles, RolledBackMeansAsBefore, request, progress
  <2>5. ChecksInv'
    BY <1>2, <1>4, <2>1 DEF IInv, ChecksInv, ChecksComeFirst, Acceptable, request, progress
  <2>6. Books'
    BY <1>2, <1>4 DEF IInv, Books, request, progress
  <2> QED
    BY <2>2, <2>3, <2>4, <2>5, <2>6 DEF IInv
<1>b. CASE UNCHANGED router
  <2>1. TypeOK'
    BY <1>2, <1>4, <1>5, <1>b
       DEF IInv, TypeOK, Phases, Outcomes, router, service, request, progress
  <2>2. Books' /\ FilesInv' /\ ChecksInv'
    BY <1>2, <1>4, <1>b DEF IInv, Books, FilesInv, OldContentKept, NoThirdContent,
       ChecksInv, ChecksComeFirst, Acceptable, router, request, progress
  <2>3. VerdictInv'
    BY <1>2, <1>4, <1>b DEF IInv, TypeOK, Books, FilesInv, VerdictInv,
       VerdictTellsTheFiles, RolledBackMeansAsBefore, router, request, progress
  <2> QED
    BY <2>1, <2>2, <2>3 DEF IInv
<1>c. CASE Lossy /\ Renamed(f)
  <2>1. /\ live' = [live EXCEPT ![f] = target[f]]
        /\ bak' = [bak EXCEPT ![f] = before[f]]
        /\ tmp' = [tmp EXCEPT ![f] = NoFile]
    BY <1>3, <1>c DEF Renamed
  <2>2. TypeOK'
    BY <1>2, <1>4, <1>5, <2>1
       DEF IInv, TypeOK, Sides, Phases, Outcomes, service, request, progress
  <2>3. FilesInv'
    <3>1. OldContentKept' /\ NoThirdContent'
      BY <1>2, <2>1 DEF IInv, TypeOK, FilesInv, OldContentKept, NoThirdContent, request
    <3>2. \A g \in Files \ {f} : live'[g] = live[g] /\ bak'[g] = bak[g]
      BY <2>1 DEF IInv, TypeOK
    <3>3. (\A g \in replaced' : bak'[g] = before'[g]) /\ restored' = {}
      BY <1>1, <1>2, <3>2 DEF IInv, TypeOK, Books, FilesInv, request, progress
    <3> QED
      BY <1>4, <1>c, <3>1, <3>3 DEF FilesInv
  <2>4. ChecksInv'
    <3>1. target[f] \in Acceptable(f)
      BY <1>2, <1>3 DEF IInv, ChecksInv, Acceptable
    <3>2. ChecksComeFirst' /\ \A g \in Files : before'[g] \in Acceptable(g)
      BY <1>2, <2>1, <3>1
         DEF IInv, TypeOK, ChecksInv, ChecksComeFirst, Acceptable, request
    <3> QED
      BY <1>4, <3>2 DEF ChecksInv
  <2>5. Books'
    BY <1>2, <1>4 DEF IInv, Books, request, progress
  <2>6. VerdictInv'
    BY <1>4, <1>c DEF VerdictInv, VerdictTellsTheFiles
  <2> QED
    BY <2>2, <2>3, <2>4, <2>5, <2>6 DEF IInv
<1> QED
  BY <1>1, <1>a, <1>b, <1>c DEF Unanswered

\* The restart leaves the files alone.
LEMMA RestartKeeps ==
  ASSUME IInv, Restart
  PROVE  IInv'
<1>1. TypeOK'
  <2>1. svc' \in Services /\ loaded' \in [Files -> Contents]
    BY DEF IInv, TypeOK, Services, Restart, Restarted, Unnoticed, service
  <2> QED
    BY <2>1 DEF IInv, TypeOK, Phases, Restart, router, request, progress
<1>2. Books'
  BY DEF IInv, TypeOK, Books, Restart, Restarted, Unnoticed, Idle, router, service,
     request, progress
<1>3. FilesInv'
  BY DEF IInv, TypeOK, Books, FilesInv, OldContentKept, NoThirdContent,
     Restart, Restarted, Unnoticed, Idle, router, service, request, progress
<1>4. ChecksInv'
  BY DEF IInv, TypeOK, Books, FilesInv, ChecksInv, ChecksComeFirst,
     Acceptable, OldContentKept, NoThirdContent, Restart, Restarted, Unnoticed, Idle,
     router, service, request, progress
<1>5. VerdictInv'
  BY DEF IInv, TypeOK, Books, FilesInv, VerdictInv, VerdictTellsTheFiles,
     RolledBackMeansAsBefore, OldContentKept, NoThirdContent, Restart,
     Restarted, Unnoticed, Idle, router, service, request, progress
<1> QED
  BY <1>1, <1>2, <1>3, <1>4, <1>5 DEF IInv

\* So does one that fails.
LEMMA RestartRollsBackKeeps ==
  ASSUME IInv, RestartRollsBack
  PROVE  IInv'
<1>1. TypeOK'
  BY DEF IInv, TypeOK, Sides, Services, Outcomes, Phases, RestartRollsBack,
     RestartFails, HalfRestarted, Unnoticed, Idle, Refused, Unreachable, Unanswered,
     router, service, request, progress
<1>2. Books'
  BY DEF IInv, TypeOK, Books, RestartRollsBack, RestartFails, HalfRestarted,
     Idle, Refused, Unreachable, Unanswered, router, service, request,
     progress
<1>3. FilesInv'
  BY DEF IInv, TypeOK, Books, FilesInv, OldContentKept, NoThirdContent,
     RestartRollsBack, RestartFails, HalfRestarted, Unnoticed, Idle, Refused,
     Unreachable, Unanswered, router, service, request, progress
<1>4. ChecksInv'
  BY DEF IInv, TypeOK, Books, FilesInv, ChecksInv, ChecksComeFirst,
     Acceptable, OldContentKept, NoThirdContent, RestartRollsBack,
     RestartFails, HalfRestarted, Unnoticed, Idle, Refused, Unreachable, Unanswered,
     router, service, request, progress
<1>5. VerdictInv'
  BY DEF IInv, TypeOK, Books, FilesInv, VerdictInv, VerdictTellsTheFiles,
     RolledBackMeansAsBefore, OldContentKept, NoThirdContent,
     RestartRollsBack, RestartFails, HalfRestarted, Unnoticed, Idle, Refused,
     Unreachable, Unanswered, router, service, request, progress
<1> QED
  BY <1>1, <1>2, <1>3, <1>4, <1>5 DEF IInv

\* Success is reported for files that were read back.
LEMMA VerifyKeeps ==
  ASSUME IInv, Verify
  PROVE  IInv'
<1>1. TypeOK'
  BY DEF IInv, TypeOK, Sides, Services, Outcomes, Phases, Verify, Return,
     router, service, request, progress
<1>2. Books'
  BY DEF IInv, TypeOK, Books, Verify, Return, router, service, request,
     progress
<1>3. FilesInv'
  BY DEF IInv, TypeOK, Books, FilesInv, OldContentKept, NoThirdContent,
     Verify, Return, router, service, request, progress
<1>4. ChecksInv'
  BY DEF IInv, TypeOK, Books, FilesInv, ChecksInv, ChecksComeFirst,
     Acceptable, OldContentKept, NoThirdContent, Verify, Return, router,
     service, request, progress
<1>5. VerdictInv'
  BY NFilesAssumption DEF IInv, TypeOK, Books, FilesInv, VerdictInv,
     VerdictTellsTheFiles, RolledBackMeansAsBefore, OldContentKept,
     NoThirdContent, Verify, Return, router, service, request, progress
<1> QED
  BY <1>1, <1>2, <1>3, <1>4, <1>5 DEF IInv

\* A failed read-back starts the rollback.
LEMMA VerifyFailsKeeps ==
  ASSUME IInv, VerifyFails
  PROVE  IInv'
<1>1. TypeOK'
  BY DEF IInv, TypeOK, Sides, Services, Outcomes, Phases, VerifyFails,
     Refused, Unreachable, Unanswered, router, service, request, progress
<1>2. Books'
  BY DEF IInv, TypeOK, Books, VerifyFails, Refused, Unreachable, Unanswered,
     router, service, request, progress
<1>3. FilesInv'
  BY DEF IInv, TypeOK, Books, FilesInv, OldContentKept, NoThirdContent,
     VerifyFails, Refused, Unreachable, Unanswered, router, service, request,
     progress
<1>4. ChecksInv'
  BY DEF IInv, TypeOK, Books, FilesInv, ChecksInv, ChecksComeFirst,
     Acceptable, OldContentKept, NoThirdContent, VerifyFails, Refused,
     Unreachable, Unanswered, router, service, request, progress
<1>5. VerdictInv'
  BY DEF IInv, TypeOK, Books, FilesInv, VerdictInv, VerdictTellsTheFiles,
     RolledBackMeansAsBefore, OldContentKept, NoThirdContent, VerifyFails,
     Refused, Unreachable, Unanswered, router, service, request, progress
<1> QED
  BY <1>1, <1>2, <1>3, <1>4, <1>5 DEF IInv

\* What is restored is the content the file had when the plan was made.
LEMMA RestoreKeeps ==
  ASSUME IInv, Restore
  PROVE  IInv'
<1>1. TypeOK'
  BY DEF IInv, TypeOK, Books, FilesInv, OldContentKept, NoThirdContent, Sides,
     Services, Outcomes, Phases, Restore, PutBack, NextRestore, First,
     service, request
<1>2. Books'
  BY DEF IInv, TypeOK, Books, Restore, PutBack, NextRestore, First, service,
     request
<1>3. FilesInv'
  BY DEF IInv, TypeOK, Books, FilesInv, OldContentKept, NoThirdContent,
     Restore, PutBack, NextRestore, First, service, request
<1>4. ChecksInv'
  BY DEF IInv, TypeOK, Books, FilesInv, ChecksInv, ChecksComeFirst,
     Acceptable, OldContentKept, NoThirdContent, Restore, PutBack,
     NextRestore, First, service, request
<1>5. VerdictInv'
  BY DEF IInv, TypeOK, Books, FilesInv, VerdictInv, VerdictTellsTheFiles,
     RolledBackMeansAsBefore, OldContentKept, NoThirdContent, Restore,
     PutBack, NextRestore, service, request
<1> QED
  BY <1>1, <1>2, <1>3, <1>4, <1>5 DEF IInv

\* A restore that failed is remembered in rberr.
LEMMA RestoreFailsKeeps ==
  ASSUME IInv, RestoreFails
  PROVE  IInv'
<1>1. TypeOK'
  <2>1. PICK f \in Files :
          /\ f \in replaced
          /\ UNCHANGED live \/ PutBack(f)
          /\ restored' = restored \cup {f}
          /\ conn' \in BOOLEAN
    BY DEF RestoreFails, First, Refused, Unreachable, Unanswered, IInv, TypeOK
  <2>2. bak[f] \in Contents
    BY <2>1 DEF IInv, TypeOK, FilesInv
  <2>3. live' \in [Files -> Contents]
    BY <2>1, <2>2 DEF PutBack, IInv, TypeOK
  <2> QED
    BY <2>1, <2>3 DEF RestoreFails, NextRestore, IInv, TypeOK, Phases, service, request
<1>2. Books'
  BY DEF IInv, TypeOK, Books, RestoreFails, PutBack, NextRestore, Refused,
     Unreachable, Unanswered, First, service, request
<1>3. FilesInv'
  BY NFilesAssumption DEF IInv, TypeOK, Books, FilesInv, OldContentKept,
     NoThirdContent, RestoreFails, PutBack, NextRestore, Refused, Unreachable,
     Unanswered, First, service, request
<1>4. ChecksInv'
  BY NFilesAssumption DEF IInv, TypeOK, Books, FilesInv, ChecksInv,
     ChecksComeFirst, Acceptable, OldContentKept, NoThirdContent,
     RestoreFails, PutBack, NextRestore, Refused, Unreachable, Unanswered,
     First, service, request
<1>5. VerdictInv'
  BY DEF IInv, TypeOK, Books, FilesInv, VerdictInv, VerdictTellsTheFiles,
     RolledBackMeansAsBefore, OldContentKept, NoThirdContent, RestoreFails,
     PutBack, NextRestore, Refused, Unreachable, Unanswered, service, request
<1> QED
  BY <1>1, <1>2, <1>3, <1>4, <1>5 DEF IInv

\* E-12 is given only when every file renamed into place was restored.
LEMMA RollbackRestartKeeps ==
  ASSUME IInv, RollbackRestart
  PROVE  IInv'
<1>1. TypeOK'
  BY DEF IInv, TypeOK, Sides, Services, Outcomes, Phases, RollbackRestart,
     Return, Restarted, Unnoticed, Idle, router, service, request, progress
<1>2. Books'
  BY DEF IInv, TypeOK, Books, RollbackRestart, Return, Restarted, Unnoticed, Idle,
     router, service, request, progress
<1>3. FilesInv'
  BY DEF IInv, TypeOK, Books, FilesInv, OldContentKept, NoThirdContent,
     RollbackRestart, Return, Restarted, Unnoticed, Idle, router, service, request,
     progress
<1>4. ChecksInv'
  BY DEF IInv, TypeOK, Books, FilesInv, ChecksInv, ChecksComeFirst,
     Acceptable, OldContentKept, NoThirdContent, RollbackRestart, Return,
     Restarted, Unnoticed, Idle, router, service, request, progress
<1>5. VerdictInv'
  BY NFilesAssumption DEF IInv, TypeOK, Books, FilesInv, VerdictInv,
     VerdictTellsTheFiles, RolledBackMeansAsBefore, OldContentKept,
     NoThirdContent, RollbackRestart, Return, Restarted, Unnoticed, Idle, router,
     service, request, progress
<1> QED
  BY <1>1, <1>2, <1>3, <1>4, <1>5 DEF IInv

\* Otherwise the verdict is E-13.
LEMMA RollbackRestartFailsKeeps ==
  ASSUME IInv, RollbackRestartFails
  PROVE  IInv'
<1>1. TypeOK'
  BY DEF IInv, TypeOK, Sides, Services, Outcomes, Phases,
     RollbackRestartFails, Return, RestartFails, HalfRestarted, Unnoticed, Idle, Refused,
     Unreachable, Unanswered, router, service, request
<1>2. Books'
  BY DEF IInv, TypeOK, Books, RollbackRestartFails, Return, RestartFails,
     HalfRestarted, Unnoticed, Idle, Refused, Unreachable, Unanswered, router, service,
     request
<1>3. FilesInv'
  BY DEF IInv, TypeOK, Books, FilesInv, OldContentKept, NoThirdContent,
     RollbackRestartFails, Return, RestartFails, HalfRestarted, Unnoticed, Idle, Refused,
     Unreachable, Unanswered, router, service, request
<1>4. ChecksInv'
  BY DEF IInv, TypeOK, Books, FilesInv, ChecksInv, ChecksComeFirst,
     Acceptable, OldContentKept, NoThirdContent, RollbackRestartFails, Return,
     RestartFails, HalfRestarted, Unnoticed, Idle, Refused, Unreachable, Unanswered,
     router, service, request
<1>5. VerdictInv'
  BY DEF IInv, TypeOK, Books, FilesInv, VerdictInv, VerdictTellsTheFiles,
     RolledBackMeansAsBefore, OldContentKept, NoThirdContent,
     RollbackRestartFails, Return, RestartFails, HalfRestarted, Unnoticed, Idle, Refused,
     Unreachable, Unanswered, router, service, request
<1> QED
  BY <1>1, <1>2, <1>3, <1>4, <1>5 DEF IInv

\* Removing .rt-new files touches nothing else.
LEMMA CleanupKeeps ==
  ASSUME IInv, Cleanup
  PROVE  IInv'
<1>1. TypeOK'
  BY DEF IInv, TypeOK, Sides, Services, Outcomes, Phases, Cleanup, Refused,
     Unreachable, Unanswered, service, request
<1>2. Books'
  BY DEF IInv, TypeOK, Books, Cleanup, Refused, Unreachable, Unanswered,
     service, request
<1>3. FilesInv'
  BY DEF IInv, TypeOK, Books, FilesInv, OldContentKept, NoThirdContent,
     Cleanup, Refused, Unreachable, Unanswered, service, request
<1>4. ChecksInv'
  BY DEF IInv, TypeOK, Books, FilesInv, ChecksInv, ChecksComeFirst,
     Acceptable, OldContentKept, NoThirdContent, Cleanup, Refused,
     Unreachable, Unanswered, service, request
<1>5. VerdictInv'
  BY DEF IInv, TypeOK, Books, FilesInv, VerdictInv, VerdictTellsTheFiles,
     RolledBackMeansAsBefore, OldContentKept, NoThirdContent, Cleanup,
     Refused, Unreachable, Unanswered, service, request
<1> QED
  BY <1>1, <1>2, <1>3, <1>4, <1>5 DEF IInv

\* A dropped tunnel changes only what later commands can do.
LEMMA DisconnectKeeps ==
  ASSUME IInv, Disconnect
  PROVE  IInv'
<1>1. TypeOK'
  BY DEF IInv, TypeOK, Sides, Services, Outcomes, Phases, Disconnect, router,
     service, request, progress
<1>2. Books'
  BY DEF IInv, TypeOK, Books, Disconnect, router, service, request, progress
<1>3. FilesInv'
  BY DEF IInv, TypeOK, Books, FilesInv, OldContentKept, NoThirdContent,
     Disconnect, router, service, request, progress
<1>4. ChecksInv'
  BY DEF IInv, TypeOK, Books, FilesInv, ChecksInv, ChecksComeFirst,
     Acceptable, OldContentKept, NoThirdContent, Disconnect, router, service,
     request, progress
<1>5. VerdictInv'
  BY DEF IInv, TypeOK, Books, FilesInv, VerdictInv, VerdictTellsTheFiles,
     RolledBackMeansAsBefore, OldContentKept, NoThirdContent, Disconnect,
     router, service, request, progress
<1> QED
  BY <1>1, <1>2, <1>3, <1>4, <1>5 DEF IInv

\* What a stopped run knew is no longer used.
LEMMA CrashKeeps ==
  ASSUME IInv, Crash
  PROVE  IInv'
<1>1. TypeOK'
  BY DEF IInv, TypeOK, Sides, Services, Outcomes, Phases, Crash, router,
     service, request, progress
<1>2. Books'
  BY DEF IInv, TypeOK, Books, Crash, router, service, request, progress
<1>3. FilesInv'
  BY DEF IInv, TypeOK, Books, FilesInv, OldContentKept, NoThirdContent, Crash,
     router, service, request, progress
<1>4. ChecksInv'
  BY DEF IInv, TypeOK, Books, FilesInv, ChecksInv, ChecksComeFirst,
     Acceptable, OldContentKept, NoThirdContent, Crash, router, service,
     request, progress
<1>5. VerdictInv'
  BY DEF IInv, TypeOK, Books, FilesInv, VerdictInv, VerdictTellsTheFiles,
     RolledBackMeansAsBefore, OldContentKept, NoThirdContent, Crash, router,
     service, request, progress
<1> QED
  BY <1>1, <1>2, <1>3, <1>4, <1>5 DEF IInv

\* A reboot keeps the files.
LEMMA RouterRebootKeeps ==
  ASSUME IInv, RouterReboot
  PROVE  IInv'
<1>1. TypeOK'
  BY DEF IInv, TypeOK, Sides, Services, Outcomes, Phases, RouterReboot,
     router, request, progress
<1>2. Books'
  BY DEF IInv, TypeOK, Books, RouterReboot, router, request, progress
<1>3. FilesInv'
  BY DEF IInv, TypeOK, Books, FilesInv, OldContentKept, NoThirdContent,
     RouterReboot, router, request, progress
<1>4. ChecksInv'
  BY DEF IInv, TypeOK, Books, FilesInv, ChecksInv, ChecksComeFirst,
     Acceptable, OldContentKept, NoThirdContent, RouterReboot, router,
     request, progress
<1>5. VerdictInv'
  BY DEF IInv, TypeOK, Books, FilesInv, VerdictInv, VerdictTellsTheFiles,
     RolledBackMeansAsBefore, OldContentKept, NoThirdContent, RouterReboot,
     router, request, progress
<1> QED
  BY <1>1, <1>2, <1>3, <1>4, <1>5 DEF IInv

\* Switching the VPN keeps the files.
LEMMA SwitchVPNKeeps ==
  ASSUME IInv, NEW on \in BOOLEAN, SwitchVPN(on)
  PROVE  IInv'
<1>1. TypeOK'
  BY DEF IInv, TypeOK, Sides, Services, Outcomes, Phases, SwitchVPN, router,
     request, progress
<1>2. Books'
  BY DEF IInv, TypeOK, Books, SwitchVPN, router, request, progress
<1>3. FilesInv'
  BY DEF IInv, TypeOK, Books, FilesInv, OldContentKept, NoThirdContent,
     SwitchVPN, router, request, progress
<1>4. ChecksInv'
  BY DEF IInv, TypeOK, Books, FilesInv, ChecksInv, ChecksComeFirst,
     Acceptable, OldContentKept, NoThirdContent, SwitchVPN, router, request,
     progress
<1>5. VerdictInv'
  BY DEF IInv, TypeOK, Books, FilesInv, VerdictInv, VerdictTellsTheFiles,
     RolledBackMeansAsBefore, OldContentKept, NoThirdContent, SwitchVPN,
     router, request, progress
<1> QED
  BY <1>1, <1>2, <1>3, <1>4, <1>5 DEF IInv

\* A new run starts from the files as they are.
LEMMA BeginKeeps ==
  ASSUME IInv, NEW t \in [Files -> Contents], Begin(t)
  PROVE  IInv'
<1>1. TypeOK'
  BY DEF IInv, TypeOK, Sides, Services, Outcomes, Phases, Begin, router,
     service
<1>2. Books'
  BY DEF IInv, TypeOK, Books, Begin, router, service
<1>3. FilesInv'
  BY DEF IInv, TypeOK, Books, FilesInv, OldContentKept, NoThirdContent, Begin,
     router, service
<1>4. ChecksInv'
  BY DEF IInv, TypeOK, Books, FilesInv, ChecksInv, ChecksComeFirst,
     Acceptable, OldContentKept, NoThirdContent, Begin, router, service
<1>5. VerdictInv'
  BY NFilesAssumption DEF IInv, TypeOK, Books, FilesInv, VerdictInv,
     VerdictTellsTheFiles, RolledBackMeansAsBefore, OldContentKept,
     NoThirdContent, Begin, router, service
<1> QED
  BY <1>1, <1>2, <1>3, <1>4, <1>5 DEF IInv

\* A run that ends before there is anything to write.
LEMMA PlanFailsKeeps ==
  ASSUME IInv, PlanFails
  PROVE  IInv'
<1>1. TypeOK'
  BY DEF IInv, TypeOK, Sides, Services, Outcomes, Phases, PlanFails, router,
     service
<1>2. Books'
  BY DEF IInv, TypeOK, Books, PlanFails, router, service
<1>3. FilesInv'
  BY DEF IInv, TypeOK, Books, FilesInv, OldContentKept, NoThirdContent, PlanFails,
     router, service
<1>4. ChecksInv'
  BY DEF IInv, TypeOK, Books, FilesInv, ChecksInv, ChecksComeFirst,
     Acceptable, OldContentKept, NoThirdContent, PlanFails, router, service
<1>5. VerdictInv'
  BY NFilesAssumption DEF IInv, TypeOK, Books, FilesInv, VerdictInv,
     VerdictTellsTheFiles, RolledBackMeansAsBefore, OldContentKept,
     NoThirdContent, PlanFails, router, service
<1> QED
  BY <1>1, <1>2, <1>3, <1>4, <1>5 DEF IInv

\* A step that changes nothing.
LEMMA StutterKeeps == ASSUME IInv, UNCHANGED vars PROVE IInv'
  BY DEF vars, IInv, TypeOK, Books, FilesInv, ChecksInv, VerdictInv,
         OldContentKept, NoThirdContent, ChecksComeFirst, VerdictTellsTheFiles,
         RolledBackMeansAsBefore, Last, First

\* Every step of the specification preserves IInv.
LEMMA StepKeeps == IInv /\ [Next]_vars => IInv'
<1> SUFFICES ASSUME IInv, [Next]_vars
             PROVE  IInv'
  OBVIOUS
<1>1. CASE \E t \in [Files -> Contents] : Begin(t)
  BY <1>1, BeginKeeps
<1>5. CASE PlanFails
  BY <1>5, PlanFailsKeeps
<1>2. CASE Step
  BY <1>2, ValidateFailsKeeps, WriteKeeps, WriteFailsKeeps, CheckKeeps,
     CheckFailsKeeps, ReplaceKeeps, ReplaceFailsKeeps, RestartKeeps,
     RestartRollsBackKeeps, VerifyKeeps, VerifyFailsKeeps, RestoreKeeps,
     RestoreFailsKeeps, RollbackRestartKeeps, RollbackRestartFailsKeeps,
     CleanupKeeps DEF Step
<1>3. CASE Environment
  BY <1>3, DisconnectKeeps, CrashKeeps, RouterRebootKeeps, SwitchVPNKeeps
     DEF Environment
<1>4. CASE UNCHANGED vars
  BY <1>4, StutterKeeps
<1> QED
  BY <1>1, <1>2, <1>3, <1>4, <1>5 DEF Next

\* The inductive invariant holds in every behaviour of applyPlan.
THEOREM Invariance == Spec => []IInv
<1>1. Init => IInv
  BY InitEstablishes
<1>2. IInv /\ [Next]_vars => IInv'
  BY StepKeeps
<1> QED
  BY <1>1, <1>2, PTL DEF Spec

-----------------------------------------------------------------------------
\* Every variable keeps its type; .rt-new and .rt-bak never put a missing or a
\* truncated file in place.
THEOREM TypeCorrect == Spec => []TypeOK
<1>1. IInv => TypeOK
  BY DEF IInv
<1> QED
  BY <1>1, Invariance, PTL

\* The old content of every file is in place or in its .rt-bak, whatever fails.
THEOREM OldContentIsKept == Spec => []OldContentKept
<1>1. IInv => OldContentKept
  BY DEF IInv, FilesInv
<1> QED
  BY <1>1, Invariance, PTL

\* No file ever holds anything but its old content or the wanted one.
THEOREM NoThirdContentInPlace == Spec => []NoThirdContent
<1>1. IInv => NoThirdContent
  BY DEF IInv, FilesInv
<1> QED
  BY <1>1, Invariance, PTL

\* No content rejected by Validate or RemoteCheck is ever in place.
THEOREM ChecksPrecedeRenames == Spec => []ChecksComeFirst
<1>1. IInv => ChecksComeFirst
  BY DEF IInv, ChecksInv
<1> QED
  BY <1>1, Invariance, PTL

\* An early error means untouched files, success means the wanted ones.
THEOREM VerdictIsTrue == Spec => []VerdictTellsTheFiles
<1>1. IInv => VerdictTellsTheFiles
  BY DEF IInv, VerdictInv
<1> QED
  BY <1>1, Invariance, PTL

\* As long as no answer is lost, E-12 means that the files are as they were.
THEOREM RollbackIsTrue == ASSUME ~Lossy PROVE Spec => []RolledBackMeansAsBefore
<1>1. IInv => RolledBackMeansAsBefore
  BY DEF IInv, VerdictInv
<1> QED
  BY <1>1, Invariance, PTL
-----------------------------------------------------------------------------
(* The service.                                                            *)

\* What applyPlan knows of the service: it is as it was until the restart, unless the
\* router has started again, which costs the run its connection.
SvcInv ==
  /\ svc = "off" => Guarded
  /\ pc \in {"write", "check", "replace", "restart"} /\ (conn \/ ~Reboots) => svc = svc0
  /\ pc = "verify" /\ conn /\ Confirms /\ ~Probed =>
       \/ svc = "up" /\ loaded = live
       \/ svc = "off" /\ svc0 = "off"

\* Up to the restart, no command of a run touches the service.
LEMMA EarlyStepsKeepSvc ==
  ASSUME IInv, SvcInv,
         ValidateFails \/ Write \/ WriteFails \/ Check \/ CheckFails \/ Replace \/ ReplaceFails
  PROVE  SvcInv'
<1>1. UNCHANGED <<svc, loaded, svc0>>
  BY DEF ValidateFails, Write, WriteFails, Check, CheckFails, Replace, ReplaceFails,
         service, request
<1>2. /\ pc \in {"write", "check", "replace"}
      /\ pc' \in {"write", "check", "replace", "restart", "restore", "idle", "cleanup"}
  BY DEF ValidateFails, Write, WriteFails, Check, CheckFails, Replace, ReplaceFails,
         NextWrite, Return
<1>3. conn' => conn
  BY DEF ValidateFails, Write, WriteFails, Check, CheckFails, Replace, ReplaceFails,
         Refused, Unreachable, Unanswered
<1> QED
  BY <1>1, <1>2, <1>3 DEF SvcInv

\* The restart, and what may follow it.
LEMMA RestartsKeepSvc ==
  ASSUME IInv, SvcInv,
         Restart \/ RestartRollsBack \/ RollbackRestart \/ RollbackRestartFails
  PROVE  SvcInv'
<1>1. CASE Restart
  BY <1>1, SwitchesAssumption
     DEF Restart, Restarted, Unnoticed, Idle, SvcInv, IInv, TypeOK, Services,
         service, router, request
<1>2. CASE RestartRollsBack \/ RollbackRestart \/ RollbackRestartFails
  <2>1. pc' \in {"restore", "idle", "cleanup"}
    BY <1>2 DEF RestartRollsBack, RollbackRestart, RollbackRestartFails, Return
  <2>2. svc' = "off" => svc = "off" \/ Guarded
    BY <1>2, SwitchesAssumption
       DEF RestartRollsBack, RollbackRestart, RollbackRestartFails, RestartFails,
           Restarted, Unnoticed, HalfRestarted, service
  <2> QED
    BY <2>1, <2>2 DEF SvcInv
<1> QED
  BY <1>1, <1>2

LEMMA StepKeepsSvc == IInv /\ SvcInv /\ [Next]_vars => SvcInv'
<1> SUFFICES ASSUME IInv, SvcInv, [Next]_vars PROVE SvcInv'
  OBVIOUS
<1>1. ASSUME NEW t \in [Files -> Contents], Begin(t) PROVE SvcInv'
  BY <1>1 DEF Begin, SvcInv, service
<1>7. CASE PlanFails
  BY <1>7 DEF PlanFails, SvcInv, service
<1>2. CASE Verify \/ VerifyFails \/ Restore \/ RestoreFails \/ Cleanup
  <2>1. pc' \in {"idle", "cleanup", "restore", "rbrestart"} /\ svc' = svc
    BY <1>2 DEF Verify, VerifyFails, Restore, RestoreFails, Cleanup, Return, NextRestore, service
  <2> QED
    BY <2>1 DEF SvcInv
<1>3. CASE Disconnect \/ Crash
  BY <1>3 DEF Disconnect, Crash, SvcInv, router, service, request
<1>4. CASE RouterReboot
  BY <1>4 DEF RouterReboot, SvcInv, request
<1>5. ASSUME NEW on \in BOOLEAN, SwitchVPN(on) PROVE SvcInv'
  BY <1>5 DEF SwitchVPN, SvcInv
<1>6. CASE UNCHANGED vars
  BY <1>6 DEF vars, SvcInv
<1> QED
  BY <1>1, <1>2, <1>3, <1>4, <1>5, <1>6, <1>7, EarlyStepsKeepSvc, RestartsKeepSvc
     DEF Next, Step, Environment

\* What is known of the service holds in every behaviour of applyPlan.
LEMMA SvcInvariance == Spec => [](IInv /\ SvcInv)
<1>1. Init => SvcInv
  BY DEF Init, SvcInv
<1> QED
  BY <1>1, StepKeepsSvc, Invariance, PTL DEF Spec

\* No step of a run, a failed restart and the rollback included, turns a switched-off
\* VPN on (keenetic.go:119, openwrt.go:81).
THEOREM VPNStaysOff == Spec => StaysOff
<1>1. IInv /\ SvcInv /\ [Next]_vars => [svc = "off" /\ svc' # "off" => pc' = pc]_vars
  <2> SUFFICES ASSUME SvcInv, Next, svc = "off", svc' # "off" PROVE pc' = pc
    OBVIOUS
  <2>1. Idle
    BY DEF SvcInv, Idle
  <2>2. ~Step
    BY <2>1 DEF Step, ValidateFails, Write, WriteFails, Check, CheckFails, Replace,
       ReplaceFails, Restart, RestartRollsBack, Verify, VerifyFails, Restore, RestoreFails,
       RollbackRestart, RollbackRestartFails, Cleanup, RestartFails, Restarted, service
  <2>3. ~PlanFails /\ \A t : ~Begin(t)
    BY DEF Begin, PlanFails, service
  <2> QED
    BY <2>2, <2>3 DEF Next, Environment, Disconnect, Crash, RouterReboot, SwitchVPN, service
<1> QED
  BY <1>1, SvcInvariance, PTL DEF Spec, StaysOff

\* Where the restart looks for the process of the service and finds no other one, a
\* change reported as done is in force, whatever is lost or reboots meanwhile
\* (apply.go:83-93).  Without the one or the other it need not be
\* (ApplyRulesMissing.cfg, ApplyProbeAnswers.cfg).
THEOREM SuccessIsInForce ==
  ASSUME Confirms, ~Probed
  PROVE  Spec => OkMeansInForce
<1> DEFINE InForce == \/ svc = "up" /\ loaded = live
                      \/ svc = "off" /\ svc0 = "off"
<1>1. IInv /\ SvcInv /\ [Next]_vars => [pc = "verify" /\ outcome' = "ok" => InForce]_vars
  <2> SUFFICES ASSUME IInv, SvcInv, Next, pc = "verify", outcome' = "ok" PROVE InForce
    OBVIOUS
  <2>1. outcome = "none"
    BY DEF IInv, Books
  <2>2. Verify
    BY <2>1 DEF Next, Step, Environment, Begin, PlanFails, ValidateFails, Write, WriteFails, Check,
       CheckFails, Replace, ReplaceFails, Restart, RestartRollsBack, VerifyFails, Restore,
       RestoreFails, RollbackRestart, RollbackRestartFails, Cleanup, Disconnect, Crash,
       RouterReboot, SwitchVPN
  <2> QED
    BY <2>2 DEF Verify, SvcInv
<1> QED
  BY <1>1, SvcInvariance, PTL DEF Spec, OkMeansInForce

\* Where the restart is unconditional and finds no other process than that of the
\* service, no answer is lost and the router does not start again by itself, E-12
\* leaves a service that ran running, and on the old files if one of them was renamed
\* (api.go:275).  The guarded restart can leave it off (ApplyHalfRestart.cfg).
THEOREM RollbackRunsAgain ==
  ASSUME ~Lossy, ~Guarded, ~Probed, ~Reboots
  PROVE  Spec => RolledBackMeansRunning
<1> DEFINE Running == svc' = "up" /\ (replaced # {} => loaded' = before)
<1>1. /\ IInv /\ SvcInv /\ [Next]_vars
      => [outcome = "none" /\ outcome' = "e12" /\ svc0 = "up" => Running]_vars
  <2> SUFFICES ASSUME IInv, SvcInv, Next, outcome = "none", outcome' = "e12", svc0 = "up"
               PROVE  Running
    OBVIOUS
  <2>1. ReplaceFails \/ RollbackRestart
    BY DEF Next, Step, Environment, Begin, PlanFails, ValidateFails, Write, WriteFails, Check,
       CheckFails, Replace, Restart, RestartRollsBack, Verify, VerifyFails, Restore,
       RestoreFails, RollbackRestartFails, Cleanup, Disconnect, Crash,
       RouterReboot, SwitchVPN, Return
  <2>2. CASE ReplaceFails
    BY <2>2 DEF ReplaceFails, SvcInv, service
  <2>3. CASE RollbackRestart
    <3>1. IInv'
      BY StepKeeps
    <3>2. svc' = "up" /\ loaded' = live
      BY <2>3, SwitchesAssumption DEF RollbackRestart, Restarted, Unnoticed, Idle
    <3>3. live = before
      BY <2>3, <3>1 DEF RollbackRestart, IInv, VerdictInv, RolledBackMeansAsBefore,
         router, request
    <3> QED
      BY <3>2, <3>3
  <2> QED
    BY <2>1, <2>2, <2>3
<1> QED
  BY <1>1, SvcInvariance, PTL DEF Spec, RolledBackMeansRunning

-----------------------------------------------------------------------------
(* The refinement of AtomicChange: its state is that of the last request   *)
(* that has ended, and every step before that is a step of nothing.        *)

\* A run does not change what it was asked for, and between two runs nothing changes
\* the files.
LEMMA RunFrame ==
  ASSUME IInv, Step \/ Environment
  PROVE  /\ target' = target /\ before' = before
         /\ pc = "idle" => live' = live /\ outcome' = outcome /\ pc' = pc
<1>1. ASSUME Step
      PROVE  target' = target /\ before' = before /\ pc # "idle"
  BY <1>1 DEF Step, ValidateFails, Write, WriteFails, Check, CheckFails, Replace,
     ReplaceFails, Restart, RestartRollsBack, Verify, VerifyFails, Restore, RestoreFails,
     RollbackRestart, RollbackRestartFails, Cleanup, request
<1>2. CASE Environment
  BY <1>2 DEF Environment, Disconnect, Crash, RouterReboot, SwitchVPN, router, request
<1> QED
  BY <1>1, <1>2

LEMMA InitIsAtomic == Init => Atomic!Init
BY DEF Init, Atomic!Init

\* A request is Ask of AtomicChange; an empty plan is answered at once.
LEMMA BeginIsAsk ==
  ASSUME IInv, NEW t \in [Files -> Contents], Begin(t)
  PROVE  Atomic!Ask(t)
<1>1. plan' = {} <=> t = live
  BY DEF Begin, IInv, TypeOK
<1> QED
  BY <1>1 DEF Begin, Atomic!Ask, router

\* A plan that cannot be made is Decline.
LEMMA PlanFailsIsDecline == ASSUME PlanFails PROVE Atomic!Decline
  BY DEF PlanFails, Atomic!Decline, router

\* The end of a run is Commit, Refuse or Leave of AtomicChange.
LEMMA EndIsSettle ==
  ASSUME ~Lossy, IInv, IInv', pc # "idle", pc' = "idle", target' = target, before' = before
  PROVE  Atomic!Settle
<1>1. CASE outcome' = "ok"
  BY <1>1 DEF IInv, VerdictInv, VerdictTellsTheFiles, Atomic!Settle, Atomic!Commit
<1>2. CASE outcome' \in {"error", "e11", "e12"}
  BY <1>2 DEF IInv, VerdictInv, VerdictTellsTheFiles, RolledBackMeansAsBefore,
     Atomic!Settle, Atomic!Refuse
<1>3. CASE outcome' \in {"e13", "none"}
  <2>1. live' \in Atomic!Between(before, target)
    BY DEF IInv, TypeOK, FilesInv, NoThirdContent, Atomic!Between
  <2> QED
    BY <1>3, <2>1 DEF Atomic!Settle, Atomic!Leave
<1> QED
  BY <1>1, <1>2, <1>3 DEF IInv, TypeOK, Outcomes

\* Without lost answers applyPlan is an atomic change with a true verdict: it starts as
\* one, and each of its steps is one of AtomicChange or is not seen outside
\* (README.md:35).  That every request is settled in the end is left to TLC.
THEOREM RefinesAtomicChange ==
  ASSUME ~Lossy
  PROVE  Spec => Atomic!Init /\ [][Atomic!Next]_(Atomic!vars)
<1>1. IInv /\ [Next]_vars => [Atomic!Next]_(Atomic!vars)
  <2> SUFFICES ASSUME IInv, [Next]_vars PROVE [Atomic!Next]_(Atomic!vars)
    OBVIOUS
  <2>1. ASSUME NEW t \in [Files -> Contents], Begin(t) PROVE Atomic!Next
    BY <2>1, BeginIsAsk DEF Atomic!Next
  <2>4. CASE PlanFails
    BY <2>4, PlanFailsIsDecline DEF Atomic!Next
  <2>2. CASE Step \/ Environment
    <3>1. CASE pc # "idle" /\ pc' = "idle"
      BY <2>2, <3>1, RunFrame, StepKeeps, EndIsSettle DEF Atomic!Next
    <3>2. CASE pc = "idle" \/ pc' # "idle"
      BY <2>2, <3>2, RunFrame DEF Atomic!vars
    <3> QED
      BY <3>1, <3>2
  <2>3. CASE UNCHANGED vars
    BY <2>3 DEF vars, Atomic!vars
  <2> QED
    BY <2>1, <2>2, <2>3, <2>4 DEF Next
<1> QED
  BY <1>1, InitIsAtomic, Invariance, PTL DEF Spec
=============================================================================
