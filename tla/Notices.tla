------------------------------- MODULE Notices -------------------------------
(***************************************************************************)
(* Messages to the owner: Send, throttled and send of internal/notify, and *)
(* the keys its callers give them: report and notifyCheck of               *)
(* cmd/rt-server/main.go and their like.                                   *)
(*                                                                         *)
(* A key is marked as sent before its message leaves, and a goroutine      *)
(* delivers the message or loses it.  A message without a key is never     *)
(* held back.  Times are ages in ticks.                                    *)
(***************************************************************************)
EXTENDS Naturals

CONSTANTS
  Keys,     \* one of a router and a failure each
  Urgent,   \* the empty key, of E-13
  Repeat,   \* repeatAfter
  Unsent

ASSUME NoticesAssumption == Repeat \in Nat \ {0} /\ Urgent \notin Keys

VARIABLES
  sent,     \* Telegram.sent: the age of each mark
  posted,   \* keys whose message is on its way
  failed    \* history: the failure that has just been reported

noticesVars == <<sent, posted, failed>>

NoticesTypeOK ==
  /\ sent \in [Keys -> 0..Repeat \cup {Unsent}]
  /\ posted \subseteq Keys \cup {Urgent}
  /\ failed \in Keys \cup {Urgent, Unsent}

NoticesInit ==
  /\ sent = [k \in Keys |-> Unsent]
  /\ posted = {}
  /\ failed = Unsent

\* Mutant of Throttled: what is held back moves the mark.
ThrottledSliding(k) ==
  IF sent[k] # Unsent /\ sent[k] < Repeat
  THEN sent' = [sent EXCEPT ![k] = 0] /\ UNCHANGED posted
  ELSE sent' = [sent EXCEPT ![k] = 0] /\ posted' = posted \cup {k}

\* throttled marks what it lets pass.
Throttled(k) ==
  IF sent[k] # Unsent /\ sent[k] < Repeat
  THEN UNCHANGED <<sent, posted>>
  ELSE sent' = [sent EXCEPT ![k] = 0] /\ posted' = posted \cup {k}

Report(k) == Throttled(k) /\ failed' = k

\* A rollback that failed, and the reports of roll-outs and nights.
ReportUrgent ==
  /\ posted' = posted \cup {Urgent}
  /\ failed' = Urgent
  /\ UNCHANGED sent

\* send: there is no second attempt.
Leaves(k) ==
  /\ k \in posted
  /\ posted' = posted \ {k}
  /\ failed' = Unsent
  /\ UNCHANGED sent

TimePasses ==
  /\ sent' = [k \in Keys |-> IF sent[k] \in {Unsent, Repeat} THEN sent[k] ELSE sent[k] + 1]
  /\ failed' = Unsent
  /\ UNCHANGED posted

NoticesRestart ==
  /\ sent' = [k \in Keys |-> Unsent]
  /\ posted' = {}
  /\ failed' = Unsent

NoticesNext ==
  \/ \E k \in Keys : Report(k)
  \/ ReportUrgent
  \/ \E k \in Keys \cup {Urgent} : Leaves(k)
  \/ TimePasses
  \/ NoticesRestart

NoticesFairness ==
  /\ WF_noticesVars(TimePasses)
  /\ \A k \in Keys \cup {Urgent} : WF_noticesVars(Leaves(k))
NoticesSpec == NoticesInit /\ [][NoticesNext]_noticesVars /\ NoticesFairness

\* A failure that goes on is told of again and again, however often it is reported
\* in between and although the throttle marks messages that may be lost
\* (notify.go:41-59).
FailuresAreToldAgain ==
  \A k \in Keys \cup {Urgent} : []<>(failed = k) => []<>(k \in posted)
=============================================================================
