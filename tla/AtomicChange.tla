---------------------------- MODULE AtomicChange ----------------------------
(***************************************************************************)
(* What a change of the router's configuration promises to whoever asked   *)
(* for it (README.md:35 of the repository): the configuration files move   *)
(* from their old contents to the wanted ones in one step, or not at all,  *)
(* and the verdict says which.  Only the verdict "e13" (rollback failed)   *)
(* and a request that was abandoned leave the files in between.            *)
(***************************************************************************)
CONSTANTS Files,     \* the configuration files of one router
          Contents   \* the contents a file can have

VARIABLES value,     \* value[f]: what file f holds
          goal,      \* what the request in progress wants the files to hold
          busy,      \* a request is in progress
          verdict    \* the last answer, "none" while there is none

vars == <<value, goal, busy, verdict>>

Verdicts == {"none", "ok", "error", "e11", "e12", "e13"}

TypeOK == /\ value \in [Files -> Contents]
          /\ goal \in [Files -> Contents]
          /\ busy \in BOOLEAN
          /\ verdict \in Verdicts

\* Every file holds either its old content or the wanted one.
Between(old, new) == {v \in [Files -> Contents] : \A f \in Files : v[f] \in {old[f], new[f]}}

Init == /\ value \in [Files -> Contents]
        /\ goal = value
        /\ busy = FALSE
        /\ verdict = "none"

Ask(t) == /\ ~busy
          /\ goal' = t
          /\ busy' = (t # value)
          /\ verdict' = IF t = value THEN "ok" ELSE "none"
          /\ UNCHANGED value

\* The request cannot be turned into wanted contents.
Decline == /\ ~busy
           /\ goal' = value
           /\ verdict' = "error"
           /\ UNCHANGED <<value, busy>>

Commit == /\ busy
          /\ busy' = FALSE
          /\ value' = goal
          /\ verdict' = "ok"
          /\ UNCHANGED goal

Refuse == /\ busy
          /\ busy' = FALSE
          /\ verdict' \in {"error", "e11", "e12"}
          /\ UNCHANGED <<value, goal>>

\* "e13", or nobody is left to give a verdict.
Leave == /\ busy
         /\ busy' = FALSE
         /\ verdict' \in {"e13", "none"}
         /\ value' \in Between(value, goal)
         /\ UNCHANGED goal

Settle == Commit \/ Refuse \/ Leave

Next == (\E t \in [Files -> Contents] : Ask(t)) \/ Decline \/ Settle

Spec == Init /\ [][Next]_vars /\ WF_vars(Settle)
=============================================================================
