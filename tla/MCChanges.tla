------------------------------- MODULE MCChanges -------------------------------
(* An instance of Changes: one site, one category, two templates, of which  *)
(* one already has the category, and two versions of dlc.dat.              *)
EXTENDS Changes, TLC

CONSTANTS site, cat, host, bad, word, base, rich, n1, n2

AnyJob == Permutations(Jobs)

MCDomains == {site}
MCCategories == {cat}
MCHosts == {site, host, bad}
MCInvalid == {bad}
MCTemplates == {base, rich}
MCInside == [t \in {base, rich, Torn} |-> IF t = rich THEN {cat} ELSE {}]
MCKeywords == {word}
MCNodes == {n1, n2}
MCConfs == {{n1}, {n1, n2}}

\* A list with the category, and a later one with a host dnsmasq cannot have.
MCDlc == {[c \in {cat} |-> {host, word}], [c \in {cat} |-> {host, bad}]}

\* What a job still reads of the files beside: a backup the run has made itself, a
\* .rt-new it has written and not renamed yet.  Every other one is overwritten before
\* it is read.
InUse(j, f) ==
  \/ job[j].pc \in Renaming /\ f \in job[j].done
  \/ job[j].pc = "replace" /\ f \in job[j].todo
  \/ job[j].pc = "write" /\ f \in DOMAIN job[j].plan \ job[j].todo
Kept(beside) ==
  [f \in DOMAIN files |-> IF \E j \in Jobs : InUse(j, f) THEN beside[f] ELSE NoFile]
UsedFiles == <<files, Kept(tmp), Kept(bak), token, server, upload, job, history, bounds>>
=============================================================================
