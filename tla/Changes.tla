------------------------------- MODULE Changes -------------------------------
(***************************************************************************)
(* Everything that changes the files of one router, at the same time: the  *)
(* handlers of rt-server for game ports, domains, templates, nodes and the *)
(* weekly refresh (cmd/rt-server), each under the lock of the router, and  *)
(* manual mode (cmd/router-toggle/manual.go), which takes no lock and uses *)
(* the same .rt-new and .rt-bak.  With them what the plans are made from   *)
(* on the server: the geosite index and the template, which are loaded and *)
(* replaced beside the lock.                                               *)
(*                                                                         *)
(* A run of applyPlan is shortened to its renames: ApplyPlan has the lost  *)
(* answers, the checks and the service.  A failure here is one the router  *)
(* reports; the process of the server can end at any step.                 *)
(***************************************************************************)
EXTENDS RouterFiles, Naturals, FiniteSets

CONSTANTS
  Jobs,       \* jobs that can be in progress at a time
  NoFile,     \* no such file
  Dlc,        \* the contents dlc.dat can have
  Big,        \* categories a client may not add to an OpenWrt router
  MaxJobs,    \* bound: jobs that arrive
  MaxFaults   \* bound: failed restores and restarts of the server

ASSUME JobsAssumption ==
  /\ Dlc \subseteq Indexes
  /\ Big \subseteq Categories
  /\ NoFile \notin Bases
  /\ MaxJobs \in Nat
  /\ MaxFaults \in Nat

Unloaded == [c \in {} |-> {}]

VARIABLES
  files,     \* the configuration files of the router
  tmp, bak,  \* .rt-new and .rt-bak beside them
  token,     \* the lock of the router is taken
  index,     \* geosite.Index in memory
  dlc,       \* dlc.dat, or NoFile
  loader,    \* what loadGeosite does next
  template,  \* the template of this firmware in templates_dir
  saved,     \* its .tmp
  job,       \* the jobs
  promised,  \* history: the entries and game ports as last answered
  doubt,     \* history: what a change left in doubt that was cut off or could not
             \* be rolled back, and no later change has set right
  overlap,   \* history: two jobs changed files at the same time
  clash,     \* history: two uploads wrote .tmp at the same time
  current,   \* history: the lines of the categories are those of the index
  arrived, faults

router == <<files, tmp, bak>>
server == <<index, dlc, loader>>
upload == <<template, saved, clash>>
history == <<promised, doubt, overlap, current>>
bounds == <<arrived, faults>>
vars == <<router, token, server, upload, job, history, bounds>>

Idle == [pc |-> "idle", kind |-> "none", arg |-> "none", plan |-> <<>>, todo |-> {},
         done |-> {}, saw |-> Unloaded]

\* A job may have begun to change files.
Changing == {"write", "replace", "verify", "restore"}
\* It may have renamed one.
Renaming == {"replace", "verify", "restore"}

Kinds == {"games", "manual", "add", "remove", "template", "nodes", "refresh", "upload"}

TypeOK ==
  /\ files \in KeeneticFiles \cup OpenWrtFiles
  /\ DOMAIN tmp = DOMAIN files
  /\ DOMAIN bak = DOMAIN files
  /\ token \in BOOLEAN
  /\ index \in Dlc \cup {Unloaded}
  /\ dlc \in Dlc \cup {NoFile}
  /\ loader \in {"load", "reload", "done"}
  /\ template \in Bases
  /\ saved \in Bases \cup {NoFile}
  /\ \A j \in Jobs :
       /\ job[j].pc \in {"idle", "wait", "plan", "download", "load", "open", "fill", "move"}
                         \cup Changing
       /\ job[j].kind \in Kinds \cup {"none"}
       /\ job[j].done \subseteq DOMAIN job[j].plan
       /\ job[j].todo \subseteq DOMAIN job[j].plan
       /\ DOMAIN job[j].plan \subseteq DOMAIN files
  /\ token = (\E j \in Jobs : job[j].kind # "manual" /\ job[j].pc \in Changing \cup {"plan"})

\* A router as it was set up: a template, no entries, no nodes.
Keenetic(t, games) ==
  [list |-> games, routing |-> Fresh(t, games), outbounds |-> {Main, Direct}]
OpenWrt(t, games, others) ==
  [rc |-> [games |-> games, others |-> others],
   servers |-> [base |-> t, section |-> <<>>],
   yaml |-> [outbounds |-> {Main, Direct}, balancers |-> NoBalancer]]

Init ==
  /\ template \in Templates
  /\ \/ files = Keenetic(template, FALSE)
     \/ \E games, others \in BOOLEAN :
          (games # others) /\ files = OpenWrt(template, games, others)
  /\ tmp = [f \in DOMAIN files |-> NoFile]
  /\ bak = [f \in DOMAIN files |-> NoFile]
  /\ token = FALSE
  /\ index = Unloaded
  /\ dlc = NoFile
  /\ loader = "load"
  /\ saved = NoFile
  /\ job = [j \in Jobs |-> Idle]
  /\ promised = [sites |-> ListDomains(files), games |-> ReadGames(files)]
  /\ doubt = {}
  /\ overlap = FALSE
  /\ clash = FALSE
  /\ current = TRUE
  /\ arrived = 0
  /\ faults = 0

Fault == faults < MaxFaults /\ faults' = faults + 1 /\ UNCHANGED arrived

-----------------------------------------------------------------------------
(* The geosite list on the server.                                         *)

\* loadGeosite, a goroutine of its own: what is on the disk, else a download, which
\* writes beside the file, checks and renames.
Load ==
  /\ loader = "load"
  /\ dlc # NoFile
  /\ loader' = "done"
  /\ index' = dlc
  /\ current' = FALSE
  /\ UNCHANGED <<router, token, upload, dlc, job, promised, doubt, overlap, bounds>>

LoaderDownloads ==
  /\ loader = "load"
  /\ dlc = NoFile
  /\ \/ dlc' \in Dlc /\ loader' = "reload"
     \/ loader' = "done" /\ UNCHANGED dlc
  /\ UNCHANGED <<router, token, index, upload, job, history, bounds>>

Reload ==
  /\ loader = "reload"
  /\ loader' = "done"
  /\ index' = dlc
  /\ current' = FALSE
  /\ UNCHANGED <<router, token, dlc, upload, job, promised, doubt, overlap, bounds>>

-----------------------------------------------------------------------------
(* Arrivals: what a handler does before it asks for the lock.              *)

\* What checkNew accepts, with the index of this moment.
CheckNew(e, admin) ==
  e \in Domains \/ (e \in DOMAIN index /\ (IsKeenetic(files) \/ admin \/ e \notin Big))

\* The bound counts a choice in manual mode twice.
Arrive(j, kind, arg, pc) ==
  /\ job[j].pc = "idle"
  /\ arrived' = arrived + (IF kind = "manual" THEN 2 ELSE 1)
  /\ arrived' <= MaxJobs
  /\ job' = [job EXCEPT ![j] = [Idle EXCEPT !.kind = kind, !.arg = arg, !.pc = pc]]
  /\ UNCHANGED <<router, token, server, upload, history, faults>>

\* handleApply, the synchronisation of nodes, and one choice in manual mode:
\* the person is offered the other state of the ports, without any lock.
ChangeGames(j) == \E value \in BOOLEAN : Arrive(j, "games", value, "wait")
ManualGames(j) ==
  /\ \A k \in Jobs : job[k].kind # "manual"
  /\ \E udp \in ReadGames(files) : Arrive(j, "manual", ~udp, "plan")
ChangeNodes(j) == \E conf \in Confs : Arrive(j, "nodes", conf, "wait")

AddDomain(j) ==
  \E e \in Entries, admin \in BOOLEAN : CheckNew(e, admin) /\ Arrive(j, "add", e, "wait")
RemoveDomain(j) == \E e \in Entries : Arrive(j, "remove", e, "wait")

\* handleTemplateApply reads the template first.
ApplyTemplate(j) == Arrive(j, "template", template, "wait")

\* handleTemplateUpload.
UploadTemplate(j) == \E t \in Bases : ValidateTemplate(t) /\ Arrive(j, "upload", t, "open")

RefreshDomains(j) ==
  /\ \A k \in Jobs : job[k].kind # "refresh"
  /\ Arrive(j, "refresh", "none", "download")

-----------------------------------------------------------------------------
(* The end of a job: the lock is given back, the answer written.           *)

EndJob(j) ==
  /\ job' = [job EXCEPT ![j] = Idle]
  /\ token' = IF job[j].kind = "manual" \/ job[j].pc \notin Changing \cup {"plan"}
              THEN token ELSE FALSE

\* An answer that changes nothing of what was promised.
Refuse(j) == EndJob(j) /\ UNCHANGED history

\* Busy, or the router cannot be reached.
Busy(j) ==
  /\ job[j].pc = "wait"
  /\ token
  /\ Refuse(j)
  /\ UNCHANGED <<router, server, upload, bounds>>

Offline(j) ==
  /\ job[j].pc = "plan"
  /\ Refuse(j)
  /\ UNCHANGED <<router, server, upload, bounds>>

\* Mutant of Acquire: the token is not looked at.
AcquireAnyway(j) ==
  /\ job[j].pc = "wait"
  /\ token' = TRUE
  /\ job' = [job EXCEPT ![j].pc = "plan"]
  /\ UNCHANGED <<router, server, upload, history, bounds>>

Acquire(j) ==
  /\ job[j].pc = "wait"
  /\ ~token
  /\ token' = TRUE
  /\ job' = [job EXCEPT ![j].pc = "plan"]
  /\ UNCHANGED <<router, server, upload, history, bounds>>

-----------------------------------------------------------------------------
(* The plan, from the files as they are read now.                          *)

Wanted(j) ==
  CASE job[j].kind \in {"games", "manual"} -> PlanGames(files, job[j].arg)
    [] job[j].kind = "add" -> PlanDomains(files, ListDomains(files) \cup {job[j].arg}, index)
    [] job[j].kind = "remove" -> PlanDomains(files, ListDomains(files) \ {job[j].arg}, index)
    [] job[j].kind = "refresh" -> PlanDomains(files, ListDomains(files), index)
    [] job[j].kind = "nodes" -> PlanNodes(files, job[j].arg)
    [] job[j].kind = "template" -> PlanTemplate(files, job[j].arg, index)

\* The errors of a plan and of its validation, all before the first write.
Refused(j) ==
  \/ job[j].kind \in {"games", "manual"} /\ ~GamesFit(files, job[j].arg)
  \/ job[j].kind = "add" /\ (job[j].arg \in ListDomains(files) \/ HasElsewhere(files, job[j].arg))
  \/ job[j].kind = "template" /\ ~TemplateFits(files, job[j].arg)
  \/ /\ ~IsKeenetic(files)
     /\ Wanted(j).servers # files.servers
     /\ ~OpenWrtCheckUser(Wanted(j).servers)

PlanRefused(j) ==
  /\ job[j].pc = "plan"
  /\ Refused(j)
  /\ Refuse(j)
  /\ UNCHANGED <<router, server, upload, bounds>>

\* The files j reads may be in the middle of another change.
Meets(j) == \E k \in Jobs \ {j} : job[k].pc \in Changing

\* What a change makes of the sites.
SitesAfter(kind, arg, sites) ==
  CASE kind = "add" -> sites \cup {arg}
    [] kind = "remove" -> sites \ {arg}
    [] OTHER -> sites

\* What the answer "done" to a job promises.
Promise(j) ==
  /\ promised' =
       [sites |-> SitesAfter(job[j].kind, job[j].arg, promised.sites),
        games |-> IF job[j].kind \in {"games", "manual"} THEN {job[j].arg} ELSE promised.games]
  /\ doubt' = doubt \ {job[j].kind}

\* An empty plan: nothing to change.
NothingToDo(j) ==
  /\ job[j].pc = "plan"
  /\ ~Refused(j)
  /\ Wanted(j) = files
  /\ Promise(j)
  /\ EndJob(j)
  /\ overlap' = (overlap \/ Meets(j))
  /\ current' = (current \/ job[j].kind = "refresh")
  /\ UNCHANGED <<router, server, upload, bounds>>

MakePlan(j) ==
  /\ job[j].pc = "plan"
  /\ ~Refused(j)
  /\ Wanted(j) # files
  /\ LET plan == Changed(files, Wanted(j))
         saw == IF "servers" \in DOMAIN plan THEN index ELSE Unloaded
     IN  job' = [job EXCEPT ![j] = [@ EXCEPT !.pc = "write", !.plan = plan,
                                             !.todo = DOMAIN plan, !.saw = saw]]
  /\ overlap' = (overlap \/ Meets(j))
  /\ UNCHANGED <<router, token, server, upload, promised, doubt, current, bounds>>

-----------------------------------------------------------------------------
(* applyPlan.                                                              *)

\* The routing file comes last in the plans that have two files.
NextFile(j, f) == f \in job[j].todo /\ (f = "routing" => job[j].todo = {"routing"})

Went(j, f, next, done) ==
  LET left == job[j].todo \ {f}
  IN  [job EXCEPT ![j] = [@ EXCEPT
         !.todo = IF left = {} /\ next = "replace" THEN DOMAIN job[j].plan ELSE left,
         !.pc = IF left = {} THEN next ELSE job[j].pc,
         !.done = done]]

WriteFile(j) ==
  /\ job[j].pc = "write"
  /\ \E f \in DOMAIN files :
       /\ NextFile(j, f)
       /\ tmp' = [tmp EXCEPT ![f] = job[j].plan[f]]
       /\ job' = Went(j, f, "replace", {})
  /\ UNCHANGED <<files, bak, token, server, upload, history, bounds>>

\* removeFile for each .rt-new this run has written.
Cleaned(paths) == [f \in DOMAIN tmp |-> IF f \in paths THEN NoFile ELSE tmp[f]]

WriteFails(j) ==
  /\ job[j].pc = "write"
  /\ tmp' = Cleaned(DOMAIN job[j].plan \ job[j].todo)
  /\ Refuse(j)
  /\ UNCHANGED <<files, bak, server, upload, bounds>>

\* cp -p path path.rt-bak && mv path.rt-new path
ReplaceFile(j) ==
  /\ job[j].pc = "replace"
  /\ \E f \in DOMAIN files :
       /\ NextFile(j, f)
       /\ tmp[f] # NoFile
       /\ bak' = [bak EXCEPT ![f] = files[f]]
       /\ files' = [files EXCEPT ![f] = tmp[f]]
       /\ tmp' = [tmp EXCEPT ![f] = NoFile]
       /\ job' = Went(j, f, "verify", job[j].done \cup {f})
  /\ UNCHANGED <<token, server, upload, history, bounds>>

\* mv finds no .rt-new because another run has used it, or the command fails.
ReplaceFails(j) ==
  /\ job[j].pc = "replace"
  /\ \E f \in DOMAIN files :
       /\ NextFile(j, f)
       /\ \/ tmp[f] = NoFile /\ bak' = [bak EXCEPT ![f] = files[f]]
          \/ UNCHANGED bak
  /\ job' = [job EXCEPT ![j].pc = "restore"]
  /\ UNCHANGED <<files, tmp, token, server, upload, history, bounds>>

\* The read-back of each kind of change.
Verified(j) ==
  CASE job[j].kind \in {"games", "manual"} -> ReadGames(files) = {job[j].arg}
    [] job[j].kind \in {"add", "remove", "refresh"} ->
         ListDomains(files) = ListDomains(job[j].plan)
    [] OTHER -> \A f \in DOMAIN job[j].plan : files[f] = job[j].plan[f]

Done(j) ==
  /\ job[j].pc = "verify"
  /\ Verified(j)
  /\ Promise(j)
  /\ current' = IF "servers" \in DOMAIN job[j].plan THEN job[j].saw = index ELSE current
  /\ EndJob(j)
  /\ UNCHANGED <<router, server, upload, overlap, bounds>>

VerifyFails(j) ==
  /\ job[j].pc = "verify"
  /\ job' = [job EXCEPT ![j].pc = "restore"]
  /\ UNCHANGED <<router, token, server, upload, history, bounds>>

\* cleanup follows a failed rename, not a failed restart.
Leftover(j) == IF job[j].done = DOMAIN job[j].plan THEN {} ELSE DOMAIN job[j].plan

\* E-12.
Restore(j) ==
  /\ job[j].pc = "restore"
  /\ files' = [f \in DOMAIN files |-> IF f \in job[j].done THEN bak[f] ELSE files[f]]
  /\ tmp' = Cleaned(Leftover(j))
  /\ Refuse(j)
  /\ UNCHANGED <<bak, server, upload, bounds>>

\* Nobody was told what the files hold now.  A change that was begun may count as made,
\* if it had renamed the file of the sites and was to make just these of them; sites
\* other than that and the old ones are nobody's wish, and the promise remains.
Unknown(begun, new) ==
  /\ promised' =
       [sites |-> IF \E j \in begun :
                       /\ job[j].done \cap {"routing", "servers"} # {}
                       /\ ListDomains(new) =
                            SitesAfter(job[j].kind, job[j].arg, promised.sites)
                  THEN ListDomains(new) ELSE promised.sites,
        games |-> ReadGames(new)]
  /\ doubt' = {"games", "nodes"}
  /\ current' = FALSE

\* E-13: a part of the files was put back.
RestoreFails(j) ==
  /\ job[j].pc = "restore"
  /\ Fault
  /\ \E put \in SUBSET job[j].done :
       /\ put # job[j].done
       /\ files' = [f \in DOMAIN files |-> IF f \in put THEN bak[f] ELSE files[f]]
  /\ Unknown({j}, files')
  /\ tmp' = Cleaned(Leftover(j))
  /\ EndJob(j)
  /\ UNCHANGED <<bak, server, upload, overlap>>

-----------------------------------------------------------------------------
(* The weekly refresh: download, load, and the routers with OpenWrt.       *)

RefreshDownloads(j) ==
  /\ job[j].pc = "download"
  /\ \/ /\ dlc' \in Dlc
        /\ job' = [job EXCEPT ![j].pc = "load"]
        /\ UNCHANGED token
     \/ EndJob(j) /\ UNCHANGED dlc
  /\ UNCHANGED <<router, index, loader, upload, history, bounds>>

RefreshLoads(j) ==
  /\ job[j].pc = "load"
  /\ index' = dlc
  /\ current' = FALSE
  /\ IF IsKeenetic(files) THEN EndJob(j)
     ELSE job' = [job EXCEPT ![j].pc = "wait"] /\ UNCHANGED token
  /\ UNCHANGED <<router, dlc, loader, upload, promised, doubt, overlap, bounds>>

-----------------------------------------------------------------------------
(* saveTemplate: .prev, then .tmp is created empty, filled and renamed.    *)

\* Mutant of OpenSaved: the file itself is written, not .tmp.
OpenSavedLive(j) ==
  /\ job[j].pc = "open"
  /\ template' = Torn
  /\ saved' = Torn
  /\ clash' = (clash \/ \E k \in Jobs \ {j} : job[k].kind = "upload")
  /\ job' = [job EXCEPT ![j].pc = "fill"]
  /\ UNCHANGED <<router, token, server, history, bounds>>

OpenSaved(j) ==
  /\ job[j].pc = "open"
  /\ saved' = Torn
  /\ clash' = (clash \/ \E k \in Jobs \ {j} : job[k].pc \in {"fill", "move"})
  /\ job' = [job EXCEPT ![j].pc = "fill"]
  /\ UNCHANGED <<router, token, server, template, history, bounds>>

\* The open file may have been renamed by the other upload.
FillSaved(j) ==
  /\ job[j].pc = "fill"
  /\ IF saved = NoFile THEN template' = job[j].arg /\ UNCHANGED saved
                       ELSE saved' = job[j].arg /\ UNCHANGED template
  /\ job' = [job EXCEPT ![j].pc = "move"]
  /\ UNCHANGED <<router, token, server, clash, history, bounds>>

MoveSaved(j) ==
  /\ job[j].pc = "move"
  /\ IF saved = NoFile THEN UNCHANGED <<template, saved>>
                       ELSE template' = saved /\ saved' = NoFile
  /\ EndJob(j)
  /\ UNCHANGED <<router, server, clash, history, bounds>>

-----------------------------------------------------------------------------
\* The server is stopped and started; manual mode is another process.
ServerRestart ==
  /\ Fault
  /\ LET cut == {j \in Jobs : job[j].kind # "manual"}
         begun == {j \in cut : job[j].done # {}}
     IN  /\ job' = [j \in Jobs |-> IF j \in cut THEN Idle ELSE job[j]]
         /\ IF begun = {} THEN current' = FALSE /\ UNCHANGED <<promised, doubt>>
            ELSE Unknown(begun, files)
  /\ token' = FALSE
  /\ index' = Unloaded
  /\ loader' = "load"
  /\ UNCHANGED <<router, dlc, template, saved, clash, overlap>>

Step(j) ==
  \/ Busy(j) \/ Offline(j) \/ Acquire(j)
  \/ PlanRefused(j) \/ NothingToDo(j) \/ MakePlan(j)
  \/ WriteFile(j) \/ WriteFails(j) \/ ReplaceFile(j) \/ ReplaceFails(j)
  \/ Done(j) \/ VerifyFails(j) \/ Restore(j) \/ RestoreFails(j)
  \/ RefreshDownloads(j) \/ RefreshLoads(j)
  \/ OpenSaved(j) \/ FillSaved(j) \/ MoveSaved(j)

Request(j) ==
  \/ ChangeGames(j) \/ ManualGames(j) \/ ChangeNodes(j) \/ AddDomain(j)
  \/ RemoveDomain(j) \/ ApplyTemplate(j) \/ UploadTemplate(j) \/ RefreshDomains(j)

Next ==
  \/ \E j \in Jobs : Request(j) \/ Step(j)
  \/ Load \/ LoaderDownloads \/ Reload
  \/ ServerRestart

Spec == Init /\ [][Next]_vars

-----------------------------------------------------------------------------
(* Properties.                                                             *)

\* No file of the router is on its way.
Quiet == \A j \in Jobs : job[j].pc \notin Renaming

\* "Sites added by clients and the state of the game ports are kept" (README.md:32):
\* between changes, the router has the sites and the game ports it was last said to
\* have, whatever template, nodes, index, failure or restart came in between
\* (template.go:81-112, nodes.go:142-212, domains.go:280-320).  Manual mode beside a
\* job of the server can break this on a Keenetic, where one file holds everything
\* (manual.go:231), and never costs a site of an OpenWrt router.
SitesAndGamesKept ==
  Quiet =>
    /\ ~IsKeenetic(files) \/ ~overlap => ListDomains(files) = promised.sites
    /\ "games" \notin doubt /\ ~overlap => ReadGames(files) = promised.games

\* Between changes every rule of a Keenetic, the user's included, leads to an
\* outbound or a balancer that is there (nodes.go:275-291, domains.go:297-310,
\* template.go:103-108).
BalancerMatchesNodes == Quiet /\ "nodes" \notin doubt /\ ~overlap => Consistent(files)

\* dnsmasq does not start with a line it cannot read: no list of hosts, wherever it
\* came from, puts one into place, at no moment (domains.go:489-507).
LinesAreValid ==
  ~IsKeenetic(files) =>
    \A e \in DOMAIN files.servers.section : files.servers.section[e] \cap Invalid = {}

\* A refresh, or any other change of the list, leaves the lines of every category as
\* the index of the server has them, not only those of the entry it was about
\* (domains.go:451-485, cmd/rt-server/domains.go:294-322).
LinesAreCurrent ==
  ~IsKeenetic(files) /\ current /\ Quiet =>
    \A e \in DOMAIN files.servers.section : files.servers.section[e] = Lines(index, e)

\* "atomic rename" (templates.go:106): the template is never one cut short, whatever
\* is interrupted, and none such reaches a router; two uploads at a time share one
\* .tmp and are the exception.
TemplateIsWhole ==
  ~clash =>
    /\ template # Torn
    /\ Torn # IF IsKeenetic(files) THEN files.routing.base ELSE files.servers.base
=============================================================================
