--------------------------- MODULE ChangesProofs ----------------------------
(***************************************************************************)
(* For any number of jobs, any lists of hosts and any templates: what      *)
(* never gets into a file of the router, at no moment of any interleaving; *)
(* and, between changes, that a router has what it was last said to have.  *)
(*                                                                         *)
(* Four invariants, each of which rests on the ones before: Sound (what    *)
(* may be in place), LockInv (who may change files), Typing, and AllKept   *)
(* (what the files were before the changes in progress, and will be).      *)
(***************************************************************************)
EXTENDS Changes, TLAPS

Fields == {"pc", "kind", "arg", "plan", "todo", "done", "saw"}
Paths == {{"list", "routing", "outbounds"}, {"rc", "servers", "yaml"}}
Templated == {"routing", "servers"}

\* The content c of path f is one that may be in place; torn: a template may have
\* been cut short.
Good(f, c, torn) ==
  f \in Templated =>
    /\ "base" \in DOMAIN c
    /\ torn \/ c.base # Torn
    /\ f = "servers" => OpenWrtCheckUser(c)

\* The jobs whose plan is made from the files.
Planned == {"games", "manual", "add", "remove", "template", "nodes", "refresh"}

JobSound(j) ==
  /\ DOMAIN job[j] = Fields
  /\ job[j].pc \in {"wait", "plan"} => job[j].kind \in Planned
  /\ job[j].pc \in {"download", "load"} => job[j].kind = "refresh"
  /\ job[j].pc \in {"open", "fill", "move"} => job[j].kind = "upload"
  /\ job[j].kind = "template" => clash \/ job[j].arg # Torn
  /\ job[j].kind = "upload" => job[j].arg # Torn
  /\ job[j].pc = "move" => clash \/ saved # Torn
  /\ job[j].pc \in Changing =>
       /\ DOMAIN job[j].plan \subseteq DOMAIN files
       /\ job[j].todo \subseteq DOMAIN job[j].plan
       /\ \A f \in DOMAIN job[j].plan : Good(f, job[j].plan[f], clash)
  /\ job[j].pc \in Renaming =>
       \A f \in job[j].done : f \in DOMAIN files /\ Good(f, bak[f], clash)

FilesSound ==
  /\ DOMAIN files \in Paths
  /\ DOMAIN tmp = DOMAIN files
  /\ DOMAIN bak = DOMAIN files
  /\ \A f \in DOMAIN files : Good(f, files[f], clash)
  /\ \A f \in DOMAIN files : tmp[f] # NoFile => Good(f, tmp[f], clash)

\* What is in place, beside it or planned may be in place.
Sound ==
  /\ clash \in BOOLEAN
  /\ clash \/ template # Torn
  /\ DOMAIN job = Jobs
  /\ FilesSound
  /\ \A j \in Jobs : JobSound(j)

-----------------------------------------------------------------------------
(* The plans.                                                              *)

\* The path f of what is planned from the files old keeps its template.
Keeps(f, old, new) == "base" \in DOMAIN new[f] /\ new[f].base = old[f].base

LEMMA WithUserKeeps ==
  ASSUME NEW r, NEW entries, "base" \in DOMAIN r
  PROVE  /\ "base" \in DOMAIN KeeneticWithUser(r, entries)
         /\ KeeneticWithUser(r, entries).base = r.base
BY DEF KeeneticWithUser

LEMMA BalancerKeeps ==
  ASSUME NEW r, NEW conf, "base" \in DOMAIN r
  PROVE  /\ "base" \in DOMAIN KeeneticUseBalancer(r, conf)
         /\ KeeneticUseBalancer(r, conf).base = r.base
BY DEF KeeneticUseBalancer

LEMMA PortKeeps ==
  ASSUME NEW r, NEW value, "base" \in DOMAIN r
  PROVE  /\ "base" \in DOMAIN KeeneticSetPort(r, value)
         /\ KeeneticSetPort(r, value).base = r.base
BY DEF KeeneticSetPort

LEMMA TemplateFresh ==
  ASSUME NEW t, NEW value
  PROVE  "base" \in DOMAIN Fresh(t, value) /\ Fresh(t, value).base = t
BY DEF Fresh

\* Only a new template changes the template a file came from.
LEMMA PlansKeep ==
  ASSUME NEW old, DOMAIN old \in Paths, NEW f \in DOMAIN old, f \in Templated,
         "base" \in DOMAIN old[f], NEW value, NEW entries, NEW idx, NEW conf, NEW t
  PROVE  /\ Keeps(f, old, PlanGames(old, value))
         /\ Keeps(f, old, PlanDomains(old, entries, idx))
         /\ Keeps(f, old, PlanNodes(old, conf))
         /\ "base" \in DOMAIN PlanTemplate(old, t, idx)[f]
         /\ PlanTemplate(old, t, idx)[f].base = t
<1>1. CASE f = "routing"
  <2>1. IsKeenetic(old) /\ old.routing = old[f] /\ "base" \in DOMAIN old.routing
    BY <1>1 DEF IsKeenetic
  <2>2. Keeps(f, old, PlanGames(old, value))
    BY <1>1, <2>1, PortKeeps DEF PlanGames, KeeneticPlan, Keeps
  <2>3. Keeps(f, old, PlanDomains(old, entries, idx))
    BY <1>1, <2>1, WithUserKeeps DEF PlanDomains, KeeneticPlanDomains, Keeps
  <2>4. Keeps(f, old, PlanNodes(old, conf))
    BY <1>1, <2>1, BalancerKeeps DEF PlanNodes, KeeneticPlanNodes, Keeps
  <2> DEFINE ported == KeeneticSetPort(Fresh(t, FALSE), old.routing.games)
             new == KeeneticWithUser(ported, KeeneticDomains(old.routing))
             kept == KeepBalancer(new, old.routing.balancers)
  <2>5. "base" \in DOMAIN new /\ new.base = t
    <3>1. "base" \in DOMAIN ported /\ ported.base = t
      BY TemplateFresh, PortKeeps
    <3> HIDE DEF ported
    <3> QED
      BY <3>1, WithUserKeeps
  <2> HIDE DEF new
  <2>6. "base" \in DOMAIN kept /\ kept.base = t
    BY <2>5, BalancerKeeps DEF KeepBalancer
  <2> HIDE DEF kept
  <2>7. PlanTemplate(old, t, idx) = [old EXCEPT !.routing = kept]
    BY <2>1 DEF PlanTemplate, KeeneticPlanTemplate, kept, new
  <2>8. PlanTemplate(old, t, idx)[f] = kept
    BY <1>1, <2>7
  <2> QED
    BY <2>2, <2>3, <2>4, <2>6, <2>8
<1>2. CASE f = "servers"
  <2>1. ~IsKeenetic(old) /\ old.servers = old[f]
    BY <1>2 DEF IsKeenetic, Paths
  <2>2. Keeps(f, old, PlanGames(old, value))
    BY <1>2, <2>1 DEF PlanGames, OpenWrtPlan, Keeps
  <2>3. Keeps(f, old, PlanDomains(old, entries, idx))
    BY <1>2, <2>1 DEF PlanDomains, OpenWrtPlanDomains, OpenWrtWithUser, Keeps
  <2>4. Keeps(f, old, PlanNodes(old, conf))
    BY <1>2, <2>1 DEF PlanNodes, OpenWrtPlanNodes, Keeps
  <2>5. PlanTemplate(old, t, idx)[f] = OpenWrtWithUser(t, OpenWrtDomains(old.servers), idx)
    BY <1>2, <2>1 DEF PlanTemplate, OpenWrtPlanTemplate
  <2> QED
    BY <2>2, <2>3, <2>4, <2>5 DEF OpenWrtWithUser
<1> QED
  BY <1>1, <1>2 DEF Templated

-----------------------------------------------------------------------------
(* The steps.                                                              *)

LEMMA IdleSound ==
  /\ DOMAIN Idle = Fields
  /\ Idle.pc = "idle" /\ Idle.kind = "none"
BY DEF Idle, Fields

\* What a step of another job may do to the files is nothing to this one.
LEMMA OthersKept ==
  ASSUME Sound, NEW k \in Jobs, job'[k] = job[k], DOMAIN files' = DOMAIN files,
         clash' = clash \/ clash' = TRUE,
         \A f \in DOMAIN files : bak'[f] = bak[f] \/ Good(f, bak'[f], clash'),
         job[k].pc = "move" => clash' \/ saved' = saved \/ saved' # Torn
  PROVE  JobSound(k)'
<1>1. JobSound(k)
  BY DEF Sound
<1>2. \A f, c : Good(f, c, clash) => Good(f, c, clash')
  BY DEF Good
<1>3. clash => clash'
  OBVIOUS
<1> QED
  BY <1>1, <1>2, <1>3 DEF JobSound

\* The backups and the .tmp of a step are no worse than the ones before.
Backups == \A f \in DOMAIN files : bak'[f] = bak[f] \/ Good(f, bak'[f], clash')
Uploads == saved' = saved \/ clash' \/ saved' # Torn \/ \A k \in Jobs : job[k].pc # "move"

\* A job comes to its next step, with the plan it has.
LEMMA StepKept ==
  ASSUME Sound, NEW j \in Jobs, NEW a,
         job' = [job EXCEPT ![j].pc = a],
         DOMAIN files' = DOMAIN files, clash' = clash \/ clash' = TRUE,
         Backups, Uploads,
         a = "plan" => job[j].pc = "wait",
         a = "wait" => job[j].pc = "load",
         a = "load" => job[j].pc = "download",
         a \in {"fill", "move"} => job[j].kind = "upload",
         a = "move" => clash' \/ saved' # Torn,
         a = "restore" => job[j].pc \in Renaming,
         a \in {"plan", "wait", "load", "fill", "move", "restore"}
  PROVE  DOMAIN job' = Jobs /\ \A k \in Jobs : JobSound(k)'
<1>1. DOMAIN job' = Jobs /\ \A k \in Jobs \ {j} : job'[k] = job[k]
  BY DEF Sound
<1>2. \A k \in Jobs \ {j} : JobSound(k)'
  BY <1>1, OthersKept DEF Backups, Uploads
<1>3. /\ JobSound(j)
      /\ \A f, c : Good(f, c, clash) => Good(f, c, clash')
      /\ clash => clash'
  BY DEF Sound, Good
<1>4. /\ job'[j].pc = a /\ DOMAIN job'[j] = Fields
      /\ job'[j].kind = job[j].kind /\ job'[j].arg = job[j].arg
      /\ job'[j].plan = job[j].plan /\ job'[j].todo = job[j].todo
      /\ job'[j].done = job[j].done
  BY <1>3 DEF Sound, JobSound, Fields
<1>5. JobSound(j)'
  <2>1. job[j].kind \in Planned \/ a \notin {"plan", "wait"}
    BY <1>3 DEF JobSound, Planned
  <2>2. a = "load" => job[j].kind = "refresh"
    BY <1>3 DEF JobSound
  <2>3. a \in Changing => a = "restore" /\ job[j].pc \in Changing
    BY DEF Changing, Renaming
  <2>4. a \in Renaming => a = "restore" /\ job[j].pc \in Renaming
    BY DEF Renaming
  <2> QED
    BY <1>3, <1>4, <2>1, <2>2, <2>3, <2>4 DEF JobSound, Backups
<1> QED
  BY <1>1, <1>2, <1>5

\* A job has ended.
LEMMA EndKept ==
  ASSUME Sound, NEW j \in Jobs, job' = [job EXCEPT ![j] = Idle],
         DOMAIN files' = DOMAIN files, clash' = clash, bak' = bak,
         saved' = saved \/ saved' # Torn
  PROVE  DOMAIN job' = Jobs /\ \A k \in Jobs : JobSound(k)'
<1>1. DOMAIN job' = Jobs /\ \A k \in Jobs \ {j} : job'[k] = job[k]
  BY DEF Sound
<1>2. \A k \in Jobs \ {j} : JobSound(k)'
  BY <1>1, OthersKept
<1>3. job'[j] = Idle
  BY DEF Sound
<1>4. JobSound(j)'
  BY <1>3, IdleSound DEF JobSound, Changing, Renaming
<1> QED
  BY <1>1, <1>2, <1>4

LEMMA ArriveKept ==
  ASSUME Sound, NEW j \in Jobs, NEW kind, NEW arg, NEW pc,
         Arrive(j, kind, arg, pc),
         pc \in {"wait", "plan", "download", "open"},
         pc \in {"wait", "plan"} => kind \in Planned,
         pc = "download" => kind = "refresh",
         pc = "open" => kind = "upload",
         kind = "template" => clash \/ arg # Torn,
         kind = "upload" => arg # Torn
  PROVE  Sound'
<1> DEFINE new == [Idle EXCEPT !.kind = kind, !.arg = arg, !.pc = pc]
<1>1. /\ job' = [job EXCEPT ![j] = new]
      /\ UNCHANGED <<files, tmp, bak, clash, template, saved>>
  BY DEF Arrive, router, upload
<1>2. new.pc = pc /\ new.kind = kind /\ new.arg = arg /\ DOMAIN new = Fields
  BY IdleSound DEF Fields
<1> HIDE DEF new
<1>3. DOMAIN job' = Jobs /\ job'[j] = new /\ \A k \in Jobs \ {j} : job'[k] = job[k]
  BY <1>1 DEF Sound
<1>4. \A k \in Jobs \ {j} : JobSound(k)'
  BY <1>1, <1>3, OthersKept
<1>5. JobSound(j)'
  BY <1>1, <1>2, <1>3 DEF JobSound, Changing, Renaming
<1> QED
  BY <1>1, <1>3, <1>4, <1>5 DEF Sound, FilesSound

LEMMA InitSound == Init => Sound
<1> SUFFICES ASSUME Init PROVE Sound
  OBVIOUS
<1>1. template # Torn /\ template \in Templates
  BY TemplatesAssumption DEF Init
<1>2. DOMAIN files \in Paths /\ \A f \in DOMAIN files : Good(f, files[f], clash)
  <2>1. CASE files = Keenetic(template, FALSE)
    BY <1>1, <2>1 DEF Keenetic, Fresh, Good, Paths, Templated
  <2>2. ASSUME NEW games, NEW others, files = OpenWrt(template, games, others)
        PROVE  DOMAIN files \in Paths /\ \A f \in DOMAIN files : Good(f, files[f], clash)
    BY <1>1, <2>2 DEF OpenWrt, Good, Paths, Templated, OpenWrtCheckUser
  <2> QED
    BY <2>1, <2>2 DEF Init
<1>3. \A j \in Jobs : JobSound(j)
  BY IdleSound DEF Init, JobSound, Changing, Renaming
<1> QED
  BY <1>1, <1>2, <1>3 DEF Init, Sound, FilesSound

\* The contents of a plan may be put into place.
LEMMA MakePlanKept ==
  ASSUME Sound, NEW j \in Jobs, MakePlan(j)
  PROVE  Sound'
<1> DEFINE plan == Changed(files, Wanted(j))
           saw == IF "servers" \in DOMAIN plan THEN index ELSE Unloaded
<1>1. /\ job[j].pc = "plan" /\ ~Refused(j)
      /\ job' = [job EXCEPT ![j] = [job[j] EXCEPT !.pc = "write", !.plan = plan,
                                                  !.todo = DOMAIN plan, !.saw = saw]]
      /\ UNCHANGED <<files, tmp, bak, clash, template, saved>>
  BY DEF MakePlan, router, upload
<1>2. JobSound(j) /\ job[j].kind \in Planned
  BY <1>1 DEF Sound, JobSound
<1>3. /\ DOMAIN plan \subseteq DOMAIN files
      /\ \A f \in DOMAIN plan : plan[f] = Wanted(j)[f] /\ Wanted(j)[f] # files[f]
  BY DEF Changed
<1>4. \A f \in DOMAIN plan : Good(f, plan[f], clash)
  <2> SUFFICES ASSUME NEW f \in DOMAIN plan, f \in Templated
               PROVE  /\ "base" \in DOMAIN plan[f]
                      /\ clash \/ plan[f].base # Torn
                      /\ f = "servers" => OpenWrtCheckUser(plan[f])
    BY DEF Good
  <2> HIDE DEF plan
  <2>1. /\ DOMAIN files \in Paths /\ f \in DOMAIN files
        /\ "base" \in DOMAIN files[f] /\ (clash \/ files[f].base # Torn)
    BY <1>3 DEF Sound, FilesSound, Good
  <2>2. \/ Keeps(f, files, Wanted(j))
        \/ /\ "base" \in DOMAIN Wanted(j)[f] /\ Wanted(j)[f].base = job[j].arg
           /\ job[j].kind = "template"
    <3>1. CASE job[j].kind \in {"games", "manual"}
      BY <2>1, <3>1, PlansKeep DEF Wanted
    <3>2. CASE job[j].kind = "add"
      BY <2>1, <3>2, PlansKeep DEF Wanted
    <3>3. CASE job[j].kind = "remove"
      BY <2>1, <3>3, PlansKeep DEF Wanted
    <3>4. CASE job[j].kind = "refresh"
      BY <2>1, <3>4, PlansKeep DEF Wanted
    <3>5. CASE job[j].kind = "nodes"
      BY <2>1, <3>5, PlansKeep DEF Wanted
    <3>6. CASE job[j].kind = "template"
      BY <2>1, <3>6, PlansKeep DEF Wanted
    <3> QED
      BY <1>2, <3>1, <3>2, <3>3, <3>4, <3>5, <3>6 DEF Planned
  <2>3. job[j].kind = "template" => clash \/ job[j].arg # Torn
    BY <1>2 DEF JobSound
  <2>4. ASSUME f = "servers" PROVE OpenWrtCheckUser(plan[f])
    <3>1. ~IsKeenetic(files)
      BY <2>1, <2>4 DEF IsKeenetic, Paths
    <3> QED
      BY <1>1, <1>3, <2>4, <3>1 DEF Refused
  <2> QED
    BY <1>3, <2>1, <2>2, <2>3, <2>4 DEF Keeps
<1> HIDE DEF plan, saw
<1>5. /\ DOMAIN job' = Jobs /\ \A k \in Jobs \ {j} : job'[k] = job[k]
      /\ job'[j] = [job[j] EXCEPT !.pc = "write", !.plan = plan,
                                  !.todo = DOMAIN plan, !.saw = saw]
  BY <1>1 DEF Sound
<1>6. /\ job'[j].pc = "write" /\ job'[j].plan = plan /\ job'[j].todo = DOMAIN plan
      /\ job'[j].kind = job[j].kind /\ job'[j].arg = job[j].arg
      /\ DOMAIN job'[j] = Fields
  BY <1>2, <1>5 DEF JobSound, Fields
<1>7. \A k \in Jobs \ {j} : JobSound(k)'
  BY <1>1, <1>5, OthersKept
<1>8. JobSound(j)'
  BY <1>1, <1>2, <1>3, <1>4, <1>6 DEF JobSound, Renaming, Planned
<1> QED
  BY <1>1, <1>5, <1>7, <1>8 DEF Sound, FilesSound

\* One more file of a plan is written or renamed.
LEMMA WentKept ==
  ASSUME Sound, NEW j \in Jobs, NEW f, NEW next, NEW done, NextFile(j, f),
         job' = Went(j, f, next, done),
         next \in {"replace", "verify"}, job[j].pc \in {"write", "replace"},
         DOMAIN files' = DOMAIN files, UNCHANGED <<clash, saved>>,
         \A g \in DOMAIN files : bak'[g] = bak[g] \/ Good(g, bak'[g], clash),
         \A g \in done : g \in DOMAIN files /\ Good(g, bak'[g], clash)
  PROVE  DOMAIN job' = Jobs /\ \A k \in Jobs : JobSound(k)'
<1> DEFINE left == job[j].todo \ {f}
           todo == IF left = {} /\ next = "replace" THEN DOMAIN job[j].plan ELSE left
           pc == IF left = {} THEN next ELSE job[j].pc
<1>1. job' = [job EXCEPT ![j] = [job[j] EXCEPT !.todo = todo, !.pc = pc, !.done = done]]
  BY DEF Went
<1>2. JobSound(j) /\ job[j].pc \in Changing
  BY DEF Sound, Changing
<1>3. todo \subseteq DOMAIN job[j].plan
  BY <1>2 DEF JobSound
<1>4. pc \in {"write", "replace", "verify"}
  OBVIOUS
<1> HIDE DEF todo, pc
<1>5. /\ DOMAIN job' = Jobs /\ \A k \in Jobs \ {j} : job'[k] = job[k]
      /\ job'[j] = [job[j] EXCEPT !.todo = todo, !.pc = pc, !.done = done]
  BY <1>1 DEF Sound
<1>6. /\ job'[j].pc = pc /\ job'[j].todo = todo /\ job'[j].done = done
      /\ job'[j].kind = job[j].kind /\ job'[j].arg = job[j].arg
      /\ job'[j].plan = job[j].plan /\ DOMAIN job'[j] = Fields
  BY <1>2, <1>5 DEF JobSound, Fields
<1>7. \A k \in Jobs \ {j} : JobSound(k)'
  BY <1>5, OthersKept
<1>8. JobSound(j)'
  BY <1>2, <1>3, <1>4, <1>6 DEF JobSound
<1> QED
  BY <1>5, <1>7, <1>8

LEMMA RequestKept ==
  ASSUME Sound, NEW j \in Jobs, Request(j)
  PROVE  Sound'
<1>1. CASE ChangeGames(j)
  BY <1>1, ArriveKept DEF ChangeGames, Planned
<1>2. CASE ManualGames(j)
  BY <1>2, ArriveKept DEF ManualGames, Planned
<1>3. CASE ChangeNodes(j)
  BY <1>3, ArriveKept DEF ChangeNodes, Planned
<1>4. CASE AddDomain(j)
  BY <1>4, ArriveKept DEF AddDomain, Planned
<1>5. CASE RemoveDomain(j)
  BY <1>5, ArriveKept DEF RemoveDomain, Planned
<1>6. CASE ApplyTemplate(j)
  <2>1. clash \/ template # Torn
    BY DEF Sound
  <2> QED
    BY <1>6, <2>1, ArriveKept DEF ApplyTemplate, Planned
<1>7. CASE UploadTemplate(j)
  <2>1. PICK t \in Bases : ValidateTemplate(t) /\ Arrive(j, "upload", t, "open")
    BY <1>7 DEF UploadTemplate
  <2>2. t # Torn
    BY <2>1, TemplatesAssumption DEF ValidateTemplate
  <2> QED
    BY <2>1, <2>2, ArriveKept
<1>8. CASE RefreshDomains(j)
  BY <1>8, ArriveKept DEF RefreshDomains
<1> QED
  BY <1>1, <1>2, <1>3, <1>4, <1>5, <1>6, <1>7, <1>8 DEF Request

\* The files are put back, or a part of them.
LEMMA RestoreKept ==
  ASSUME Sound, NEW j \in Jobs, job[j].pc = "restore", NEW put \in SUBSET job[j].done,
         files' = [f \in DOMAIN files |-> IF f \in put THEN bak[f] ELSE files[f]],
         tmp' = Cleaned(Leftover(j)),
         job' = [job EXCEPT ![j] = Idle],
         UNCHANGED <<bak, clash, template, saved>>
  PROVE  Sound'
<1>1. \A f \in job[j].done : Good(f, bak[f], clash)
  BY DEF Sound, JobSound, Renaming
<1>2. DOMAIN files' = DOMAIN files /\ \A f \in DOMAIN files : Good(f, files'[f], clash)
  BY <1>1 DEF Sound, FilesSound
<1>3. DOMAIN tmp' = DOMAIN tmp /\ \A f \in DOMAIN tmp : tmp'[f] \in {tmp[f], NoFile}
  BY DEF Cleaned
<1>4. FilesSound'
  BY <1>2, <1>3 DEF Sound, FilesSound
<1>5. DOMAIN job' = Jobs /\ \A k \in Jobs : JobSound(k)'
  BY <1>2, EndKept
<1> QED
  BY <1>4, <1>5 DEF Sound

LEMMA JobStepKept ==
  ASSUME Sound, NEW j \in Jobs, Step(j)
  PROVE  Sound'
<1>1. CASE \/ Busy(j) \/ Offline(j) \/ PlanRefused(j) \/ NothingToDo(j) \/ Done(j)
  <2>1. /\ job' = [job EXCEPT ![j] = Idle]
        /\ UNCHANGED <<files, tmp, bak, clash, template, saved>>
    BY <1>1 DEF Busy, Offline, PlanRefused, NothingToDo, Done, Refuse, EndJob, router, upload
  <2>2. DOMAIN job' = Jobs /\ \A k \in Jobs : JobSound(k)'
    BY <2>1, EndKept
  <2> QED
    BY <2>1, <2>2 DEF Sound, FilesSound
<1>2. CASE Acquire(j) \/ VerifyFails(j)
  <2>1. /\ UNCHANGED <<files, tmp, bak, clash, template, saved>>
        /\ \/ job[j].pc = "wait" /\ job' = [job EXCEPT ![j].pc = "plan"]
           \/ job[j].pc = "verify" /\ job' = [job EXCEPT ![j].pc = "restore"]
    BY <1>2 DEF Acquire, VerifyFails, router, upload
  <2>2. DOMAIN job' = Jobs /\ \A k \in Jobs : JobSound(k)'
    BY <2>1, StepKept DEF Renaming, Backups, Uploads
  <2> QED
    BY <2>1, <2>2 DEF Sound, FilesSound
<1>3. CASE MakePlan(j)
  BY <1>3, MakePlanKept
<1>4. CASE WriteFile(j)
  <2>1. PICK f \in DOMAIN files :
          /\ NextFile(j, f)
          /\ tmp' = [tmp EXCEPT ![f] = job[j].plan[f]]
          /\ job' = Went(j, f, "replace", {})
    BY <1>4 DEF WriteFile
  <2>2. job[j].pc = "write" /\ UNCHANGED <<files, bak, clash, template, saved>>
    BY <1>4 DEF WriteFile, upload
  <2>3. Good(f, job[j].plan[f], clash)
    BY <2>1, <2>2 DEF Sound, JobSound, Changing, NextFile
  <2>4. DOMAIN job' = Jobs /\ \A k \in Jobs : JobSound(k)'
    BY <2>1, <2>2, WentKept
  <2>5. FilesSound'
    BY <2>1, <2>2, <2>3 DEF Sound, FilesSound
  <2> QED
    BY <2>2, <2>4, <2>5 DEF Sound
<1>5. CASE WriteFails(j)
  <2>1. /\ job' = [job EXCEPT ![j] = Idle]
        /\ tmp' = Cleaned(DOMAIN job[j].plan \ job[j].todo)
        /\ UNCHANGED <<files, bak, clash, template, saved>>
    BY <1>5 DEF WriteFails, Refuse, EndJob, upload
  <2>2. DOMAIN tmp' = DOMAIN tmp /\ \A f \in DOMAIN tmp : tmp'[f] \in {tmp[f], NoFile}
    BY <2>1 DEF Cleaned
  <2>3. DOMAIN job' = Jobs /\ \A k \in Jobs : JobSound(k)'
    BY <2>1, EndKept
  <2> QED
    BY <2>1, <2>2, <2>3 DEF Sound, FilesSound
<1>6. CASE ReplaceFile(j)
  <2>1. PICK f \in DOMAIN files :
          /\ NextFile(j, f)
          /\ tmp[f] # NoFile
          /\ bak' = [bak EXCEPT ![f] = files[f]]
          /\ files' = [files EXCEPT ![f] = tmp[f]]
          /\ tmp' = [tmp EXCEPT ![f] = NoFile]
          /\ job' = Went(j, f, "verify", job[j].done \cup {f})
    BY <1>6 DEF ReplaceFile
  <2>2. job[j].pc = "replace" /\ UNCHANGED <<clash, template, saved>>
    BY <1>6 DEF ReplaceFile, upload
  <2>3. /\ DOMAIN files' = DOMAIN files /\ DOMAIN bak = DOMAIN files
        /\ Good(f, files[f], clash) /\ Good(f, tmp[f], clash)
    BY <2>1 DEF Sound, FilesSound
  <2>4. \A g \in DOMAIN files : bak'[g] = bak[g] \/ Good(g, bak'[g], clash)
    BY <2>1, <2>3
  <2>5. \A g \in job[j].done \cup {f} : g \in DOMAIN files /\ Good(g, bak'[g], clash)
    <3>1. \A g \in job[j].done : g \in DOMAIN files /\ Good(g, bak[g], clash)
      BY <2>2 DEF Sound, JobSound, Renaming
    <3> QED
      BY <2>1, <2>3, <3>1
  <2>6. DOMAIN job' = Jobs /\ \A k \in Jobs : JobSound(k)'
    BY <2>1, <2>2, <2>3, <2>4, <2>5, WentKept
  <2>7. FilesSound'
    BY <2>1, <2>2, <2>3 DEF Sound, FilesSound
  <2> QED
    BY <2>2, <2>6, <2>7 DEF Sound
<1>7. CASE ReplaceFails(j)
  <2>1. /\ job[j].pc = "replace" /\ job' = [job EXCEPT ![j].pc = "restore"]
        /\ UNCHANGED <<files, tmp, clash, template, saved>>
    BY <1>7 DEF ReplaceFails, upload
  <2>2. PICK f \in DOMAIN files : bak' = [bak EXCEPT ![f] = files[f]] \/ UNCHANGED bak
    BY <1>7 DEF ReplaceFails
  <2>3. /\ DOMAIN bak' = DOMAIN bak
        /\ \A g \in DOMAIN files : bak'[g] = bak[g] \/ Good(g, bak'[g], clash)
    BY <2>2 DEF Sound, FilesSound
  <2>4. DOMAIN job' = Jobs /\ \A k \in Jobs : JobSound(k)'
    <3>1. /\ DOMAIN files' = DOMAIN files /\ job' = [job EXCEPT ![j].pc = "restore"]
          /\ job[j].pc \in Renaming /\ Backups /\ Uploads
      BY <2>1, <2>3 DEF Renaming, Backups, Uploads
    <3>2. clash' = clash \/ clash' = TRUE
      BY <2>1
    <3> QED
      BY <3>1, <3>2, StepKept
  <2> QED
    BY <2>1, <2>3, <2>4 DEF Sound, FilesSound
<1>8. CASE Restore(j)
  BY <1>8, RestoreKept DEF Restore, Refuse, EndJob, upload
<1>9. CASE RestoreFails(j)
  <2>1. PICK put \in SUBSET job[j].done :
          files' = [f \in DOMAIN files |-> IF f \in put THEN bak[f] ELSE files[f]]
    BY <1>9 DEF RestoreFails
  <2> QED
    BY <1>9, <2>1, RestoreKept DEF RestoreFails, EndJob, upload
<1>10. CASE RefreshDownloads(j) \/ RefreshLoads(j)
  <2>1. /\ UNCHANGED <<files, tmp, bak, clash, template, saved>>
        /\ \/ job' = [job EXCEPT ![j] = Idle]
           \/ job[j].pc = "download" /\ job' = [job EXCEPT ![j].pc = "load"]
           \/ job[j].pc = "load" /\ job' = [job EXCEPT ![j].pc = "wait"]
    BY <1>10 DEF RefreshDownloads, RefreshLoads, EndJob, router, upload
  <2>2. DOMAIN job' = Jobs /\ \A k \in Jobs : JobSound(k)'
    BY <2>1, EndKept, StepKept DEF Backups, Uploads
  <2> QED
    BY <2>1, <2>2 DEF Sound, FilesSound
<1>11. CASE OpenSaved(j)
  <2>1. /\ job[j].pc = "open" /\ job' = [job EXCEPT ![j].pc = "fill"]
        /\ clash' = (clash \/ \E k \in Jobs \ {j} : job[k].pc \in {"fill", "move"})
        /\ UNCHANGED <<files, tmp, bak, template>>
    BY <1>11 DEF OpenSaved, router
  <2>2. clash' \in BOOLEAN
    BY <2>1 DEF Sound
  <2>3. clash' \/ \A k \in Jobs : job[k].pc # "move"
    BY <2>1
  <2>4. clash' = clash \/ clash' = TRUE
    BY <2>1 DEF Sound
  <2>5. job[j].kind = "upload"
    BY <2>1 DEF Sound, JobSound
  <2>6. DOMAIN job' = Jobs /\ \A k \in Jobs : JobSound(k)'
    <3>1. DOMAIN files' = DOMAIN files /\ Backups /\ Uploads
      BY <2>1, <2>3 DEF Backups, Uploads
    <3> QED
      BY <2>1, <2>5, <2>4, <3>1, StepKept
  <2>7. FilesSound'
    BY <2>1, <2>4 DEF Sound, FilesSound, Good
  <2>8. clash' \/ template' # Torn
    BY <2>1 DEF Sound
  <2> QED
    BY <2>2, <2>6, <2>7, <2>8 DEF Sound
<1>12. CASE FillSaved(j)
  <2>1. /\ job[j].pc = "fill" /\ job' = [job EXCEPT ![j].pc = "move"]
        /\ UNCHANGED <<files, tmp, bak, clash>>
        /\ \/ saved = NoFile /\ template' = job[j].arg /\ UNCHANGED saved
           \/ saved' = job[j].arg /\ UNCHANGED template
    BY <1>12 DEF FillSaved, router
  <2>2. job[j].kind = "upload" /\ job[j].arg # Torn
    BY <2>1 DEF Sound, JobSound
  <2>3. NoFile # Torn
    BY JobsAssumption DEF Bases
  <2>4. saved' # Torn /\ clash' = clash
    BY <2>1, <2>2, <2>3
  <2>5. clash \/ template' # Torn
    BY <2>1, <2>2 DEF Sound
  <2>6. DOMAIN job' = Jobs /\ \A k \in Jobs : JobSound(k)'
    BY <2>1, <2>2, <2>4, StepKept DEF Backups, Uploads
  <2> QED
    BY <2>1, <2>4, <2>5, <2>6 DEF Sound, FilesSound
<1>13. CASE MoveSaved(j)
  <2>1. /\ job[j].pc = "move" /\ job' = [job EXCEPT ![j] = Idle]
        /\ UNCHANGED <<files, tmp, bak, clash>>
        /\ \/ UNCHANGED <<template, saved>>
           \/ template' = saved /\ saved' = NoFile
    BY <1>13 DEF MoveSaved, EndJob, router
  <2>2. clash \/ saved # Torn
    BY <2>1 DEF Sound, JobSound
  <2>3. NoFile # Torn
    BY JobsAssumption DEF Bases
  <2>4. DOMAIN job' = Jobs /\ \A k \in Jobs : JobSound(k)'
    BY <2>1, <2>3, EndKept
  <2> QED
    BY <2>1, <2>2, <2>4 DEF Sound, FilesSound
<1> QED
  BY <1>1, <1>2, <1>3, <1>4, <1>5, <1>6, <1>7, <1>8, <1>9, <1>10, <1>11, <1>12, <1>13 DEF Step

LEMMA StepSound == Sound /\ [Next]_vars => Sound'
<1> SUFFICES ASSUME Sound, [Next]_vars PROVE Sound'
  OBVIOUS
<1>1. CASE Load \/ LoaderDownloads \/ Reload \/ UNCHANGED vars
  <2>1. UNCHANGED <<files, tmp, bak, job, clash, template, saved>>
    BY <1>1 DEF Load, LoaderDownloads, Reload, vars, router, upload, history
  <2>2. \A k \in Jobs : JobSound(k)'
    BY <2>1, OthersKept
  <2> QED
    BY <2>1, <2>2 DEF Sound, FilesSound
<1>2. CASE ServerRestart
  <2>1. /\ UNCHANGED <<files, tmp, bak, clash, template, saved>>
        /\ job' = [j \in Jobs |-> IF j \in {k \in Jobs : job[k].kind # "manual"}
                                   THEN Idle ELSE job[j]]
    BY <1>2 DEF ServerRestart, router
  <2>2. ASSUME NEW k \in Jobs PROVE JobSound(k)'
    <3>1. CASE job'[k] = job[k]
      BY <2>1, <3>1, OthersKept
    <3>2. CASE job'[k] = Idle
      BY <3>2, IdleSound DEF JobSound, Changing, Renaming
    <3> QED
      BY <2>1, <3>1, <3>2
  <2> QED
    BY <2>1, <2>2 DEF Sound, FilesSound
<1> QED
  BY <1>1, <1>2, RequestKept, JobStepKept DEF Next

\* What is in place, beside it or planned may be in place, whatever jobs, manual mode
\* and restarts do to each other (domains.go:489-507, templates.go:97-113).
THEOREM SoundInvariance == Spec => []Sound
BY InitSound, StepSound, PTL DEF Spec

\* No line that dnsmasq cannot read gets into place, whatever the lists of hosts hold
\* and whichever jobs run at the same time (domains.go:489-507).
THEOREM NoInvalidLine == Spec => []LinesAreValid
<1>1. Sound => LinesAreValid
  <2> SUFFICES ASSUME Sound, ~IsKeenetic(files) PROVE OpenWrtCheckUser(files.servers)
    BY DEF LinesAreValid, OpenWrtCheckUser
  <2>1. "servers" \in DOMAIN files
    BY DEF Sound, FilesSound, IsKeenetic, Paths
  <2> QED
    BY <2>1 DEF Sound, FilesSound, Good, Templated
<1> QED
  BY <1>1, SoundInvariance, PTL

\* A template cut short is neither stored nor sent, with any number of jobs, as long as
\* two uploads do not meet (templates.go:97-113).
THEOREM NoTornTemplate == Spec => []TemplateIsWhole
<1>1. Sound => TemplateIsWhole
  <2> SUFFICES ASSUME Sound, ~clash
               PROVE  /\ template # Torn
                      /\ Torn # IF IsKeenetic(files) THEN files.routing.base ELSE files.servers.base
    BY DEF TemplateIsWhole
  <2>1. \A f \in DOMAIN files \cap Templated : files[f].base # Torn
    BY DEF Sound, FilesSound, Good
  <2>2. IF IsKeenetic(files) THEN "routing" \in DOMAIN files ELSE "servers" \in DOMAIN files
    BY DEF Sound, FilesSound, IsKeenetic, Paths
  <2> QED
    BY <2>1, <2>2 DEF Sound, Templated
<1> QED
  BY <1>1, SoundInvariance, PTL

-----------------------------------------------------------------------------
(* Who may change files at the same time: of the jobs of the server the    *)
(* one that holds the token, and manual mode beside it.                    *)

Holds(j) == job[j].kind # "manual" /\ job[j].pc \in Changing \cup {"plan"}

LockInv ==
  /\ overlap \in BOOLEAN
  /\ token \in BOOLEAN
  /\ token <=> \E j \in Jobs : Holds(j)
  /\ \A j, k \in Jobs : Holds(j) /\ Holds(k) => j = k
  /\ \A j \in Jobs : job[j].kind = "manual" => job[j].pc \in Changing \cup {"plan"}
  /\ \A j, k \in Jobs : job[j].kind = "manual" /\ job[k].kind = "manual" => j = k
  /\ \A j, k \in Jobs : job[j].pc \in Changing /\ job[k].pc \in Changing /\ j # k => overlap

\* The job that ended no longer counts.
LEMMA EndKeepsLock ==
  ASSUME Sound, LockInv, NEW j \in Jobs, EndJob(j), overlap' = overlap \/ overlap' = TRUE
  PROVE  LockInv'
<1>1. /\ job'[j] = Idle
      /\ \A k \in Jobs \ {j} : job'[k] = job[k]
      /\ token' = IF job[j].kind = "manual" \/ job[j].pc \notin Changing \cup {"plan"}
                  THEN token ELSE FALSE
  BY DEF EndJob, Sound
<1>2. ~Holds(j)' /\ job'[j].kind # "manual" /\ job'[j].pc \notin Changing
  BY <1>1, IdleSound DEF Holds, Changing
<1>3. \A k \in Jobs \ {j} : Holds(k)' <=> Holds(k)
  BY <1>1 DEF Holds
<1>4. token' \in BOOLEAN /\ (token' <=> \E k \in Jobs : Holds(k)')
  <2>1. CASE Holds(j)
    <3>1. token' = FALSE
      BY <1>1, <2>1 DEF Holds
    <3> QED
      BY <1>2, <1>3, <2>1, <3>1 DEF LockInv
  <2>2. CASE ~Holds(j)
    <3>1. token' = token
      BY <1>1, <2>2 DEF Holds
    <3> QED
      BY <1>2, <1>3, <2>2, <3>1 DEF LockInv
  <2> QED
    BY <2>1, <2>2
<1>5. overlap' \in BOOLEAN
  BY DEF LockInv
<1>6. overlap => overlap'
  OBVIOUS
<1> QED
  BY <1>1, <1>2, <1>3, <1>4, <1>5, <1>6 DEF LockInv

\* A job goes on with what it may do already.
LEMMA SameKeepsLock ==
  ASSUME Sound, LockInv, NEW j \in Jobs, UNCHANGED <<token, overlap>>,
         \A k \in Jobs \ {j} : job'[k] = job[k],
         job'[j].kind = job[j].kind,
         job'[j].pc \in Changing <=> job[j].pc \in Changing,
         job'[j].pc = "plan" <=> job[j].pc = "plan"
  PROVE  LockInv'
<1>1. \A k \in Jobs : Holds(k)' <=> Holds(k)
  BY DEF Holds
<1>2. \A k \in Jobs : /\ job'[k].kind = job[k].kind
                      /\ job'[k].pc \in Changing <=> job[k].pc \in Changing
  OBVIOUS
<1> QED
  BY <1>1, <1>2 DEF LockInv

\* A job of the server that comes in holds nothing yet; there is one manual mode.
LEMMA ArriveKeepsLock ==
  ASSUME Sound, LockInv, NEW j \in Jobs, NEW kind, NEW arg, NEW pc,
         Arrive(j, kind, arg, pc),
         \/ pc \in {"wait", "download", "open"} /\ kind # "manual"
         \/ pc = "plan" /\ kind = "manual" /\ \A k \in Jobs : job[k].kind # "manual"
  PROVE  LockInv'
<1>1. /\ job'[j].pc = pc /\ job'[j].kind = kind
      /\ \A k \in Jobs \ {j} : job'[k] = job[k]
      /\ job[j].pc = "idle" /\ UNCHANGED <<token, overlap>>
  BY DEF Arrive, Sound, Idle, history
<1>2. ~Holds(j) /\ ~Holds(j)' /\ job'[j].pc \notin Changing
  BY <1>1 DEF Holds, Changing
<1>3. \A k \in Jobs \ {j} : Holds(k)' <=> Holds(k)
  BY <1>1 DEF Holds
<1>4. token' <=> \E k \in Jobs : Holds(k)'
  BY <1>1, <1>2, <1>3 DEF LockInv
<1> QED
  BY <1>1, <1>2, <1>3, <1>4 DEF LockInv

LEMMA RequestKeepsLock ==
  ASSUME Sound, LockInv, NEW j \in Jobs, Request(j)
  PROVE  LockInv'
<1>1. CASE ChangeGames(j)
  BY <1>1, ArriveKeepsLock DEF ChangeGames
<1>2. CASE ManualGames(j)
  BY <1>2, ArriveKeepsLock DEF ManualGames
<1>3. CASE ChangeNodes(j)
  BY <1>3, ArriveKeepsLock DEF ChangeNodes
<1>4. CASE AddDomain(j)
  BY <1>4, ArriveKeepsLock DEF AddDomain
<1>5. CASE RemoveDomain(j)
  BY <1>5, ArriveKeepsLock DEF RemoveDomain
<1>6. CASE ApplyTemplate(j)
  BY <1>6, ArriveKeepsLock DEF ApplyTemplate
<1>7. CASE UploadTemplate(j)
  BY <1>7, ArriveKeepsLock DEF UploadTemplate
<1>8. CASE RefreshDomains(j)
  BY <1>8, ArriveKeepsLock DEF RefreshDomains
<1> QED
  BY <1>1, <1>2, <1>3, <1>4, <1>5, <1>6, <1>7, <1>8 DEF Request

\* A plan is made: from here on a second job that is changing files overlaps.
LEMMA MakePlanKeepsLock ==
  ASSUME Sound, LockInv, NEW j \in Jobs, MakePlan(j)
  PROVE  LockInv'
<1>1. /\ job[j].pc = "plan" /\ job'[j].pc = "write" /\ job'[j].kind = job[j].kind
      /\ \A k \in Jobs \ {j} : job'[k] = job[k]
      /\ token' = token
  BY DEF MakePlan, Sound, JobSound, Fields
<1>2. overlap' \in BOOLEAN
  BY DEF MakePlan, LockInv, Meets
<1>3. overlap => overlap'
  BY DEF MakePlan
<1>4. \A k \in Jobs \ {j} : job[k].pc \in Changing => overlap'
  BY DEF MakePlan, Meets
<1>5. \A k \in Jobs : Holds(k)' <=> Holds(k)
  BY <1>1 DEF Holds, Changing
<1>6. token' \in BOOLEAN /\ (token' <=> \E k \in Jobs : Holds(k)')
  BY <1>1, <1>5 DEF LockInv
<1>7. \A k \in Jobs : job'[k].kind = job[k].kind
  BY <1>1
<1>8. \A k, l \in Jobs : /\ job'[k].pc \in Changing /\ job'[l].pc \in Changing /\ k # l
                         => overlap'
  BY <1>1, <1>3, <1>4 DEF LockInv
<1>9. \A k \in Jobs : job'[k].kind = "manual" => job'[k].pc \in Changing \cup {"plan"}
  BY <1>1 DEF LockInv, Changing
<1> QED
  BY <1>2, <1>5, <1>6, <1>7, <1>8, <1>9 DEF LockInv

LEMMA WentMoves ==
  ASSUME Sound, NEW j \in Jobs, NEW f, NEW next, NEW done, job' = Went(j, f, next, done)
  PROVE  /\ \A k \in Jobs \ {j} : job'[k] = job[k]
         /\ job'[j].kind = job[j].kind /\ job'[j].arg = job[j].arg
         /\ job'[j].plan = job[j].plan /\ job'[j].saw = job[j].saw
         /\ job'[j].done = done
         /\ job'[j].pc = IF job[j].todo \ {f} = {} THEN next ELSE job[j].pc
         /\ job'[j].todo = IF job[j].todo \ {f} = {} /\ next = "replace"
                           THEN DOMAIN job[j].plan ELSE job[j].todo \ {f}
  BY DEF Went, Sound, JobSound, Fields

LEMMA JobStepKeepsLock ==
  ASSUME Sound, LockInv, NEW j \in Jobs, Step(j)
  PROVE  LockInv'
<1>1. CASE \/ Busy(j) \/ Offline(j) \/ PlanRefused(j) \/ WriteFails(j) \/ Done(j)
           \/ Restore(j) \/ RestoreFails(j) \/ MoveSaved(j)
  BY <1>1, EndKeepsLock DEF Busy, Offline, PlanRefused, WriteFails, Done, Restore,
     RestoreFails, MoveSaved, Refuse, Unknown, history
<1>2. CASE NothingToDo(j)
  <2>1. EndJob(j) /\ (overlap' = overlap \/ overlap' = TRUE)
    BY <1>2 DEF NothingToDo, Meets, LockInv
  <2> QED
    BY <2>1, EndKeepsLock
<1>3. CASE Acquire(j)
  <2>1. /\ ~token /\ token' = TRUE /\ overlap' = overlap
        /\ job[j].pc = "wait" /\ job'[j].pc = "plan" /\ job'[j].kind = job[j].kind
        /\ \A k \in Jobs \ {j} : job'[k] = job[k]
    BY <1>3 DEF Acquire, Sound, JobSound, Fields, history
  <2>2. \A k \in Jobs \ {j} : ~Holds(k) /\ ~Holds(k)'
    BY <2>1 DEF LockInv, Holds
  <2>3. \A k \in Jobs : /\ job'[k].kind = job[k].kind
                        /\ job'[k].pc \in Changing <=> job[k].pc \in Changing
    BY <2>1 DEF Changing
  <2>4. token' \in BOOLEAN
    BY <2>1
  <2>5. CASE job[j].kind = "manual"
    <3>1. FALSE
      BY <2>1, <2>5 DEF LockInv, Changing
    <3> QED
      BY <3>1
  <2>6. CASE job[j].kind # "manual"
    <3>1. Holds(j)'
      BY <2>1, <2>6 DEF Holds
    <3> QED
      BY <2>1, <2>2, <2>3, <2>4, <3>1 DEF LockInv
  <2> QED
    BY <2>5, <2>6
<1>4. CASE MakePlan(j)
  BY <1>4, MakePlanKeepsLock
<1>5. CASE WriteFile(j) \/ ReplaceFile(j)
  <2>1. PICK f, next, done : /\ job' = Went(j, f, next, done)
                             /\ next \in {"replace", "verify"}
                             /\ job[j].pc \in {"write", "replace"}
    BY <1>5 DEF WriteFile, ReplaceFile
  <2>2. UNCHANGED <<token, overlap>>
    BY <1>5 DEF WriteFile, ReplaceFile, history
  <2>3. /\ job'[j].pc \in {"write", "replace", "verify"} /\ job'[j].kind = job[j].kind
        /\ \A k \in Jobs \ {j} : job'[k] = job[k]
    BY <2>1, WentMoves
  <2> QED
    BY <2>1, <2>2, <2>3, SameKeepsLock DEF Changing
<1>6. CASE ReplaceFails(j) \/ VerifyFails(j)
  <2>1. /\ job[j].pc \in {"replace", "verify"} /\ job'[j].pc = "restore"
        /\ job'[j].kind = job[j].kind
        /\ \A k \in Jobs \ {j} : job'[k] = job[k]
        /\ UNCHANGED <<token, overlap>>
    BY <1>6 DEF ReplaceFails, VerifyFails, Sound, JobSound, Fields, history
  <2> QED
    BY <2>1, SameKeepsLock DEF Changing
<1>7. CASE RefreshDownloads(j) \/ RefreshLoads(j)
  <2>1. overlap' = overlap
    BY <1>7 DEF RefreshDownloads, RefreshLoads, history
  <2>2. \/ EndJob(j)
        \/ /\ job[j].pc \in {"download", "load"} /\ job'[j].pc \in {"load", "wait"}
           /\ job'[j].kind = job[j].kind
           /\ \A k \in Jobs \ {j} : job'[k] = job[k]
           /\ token' = token
    BY <1>7 DEF RefreshDownloads, RefreshLoads, Sound, JobSound, Fields
  <2> QED
    BY <2>1, <2>2, SameKeepsLock, EndKeepsLock DEF Changing
<1>8. CASE OpenSaved(j) \/ FillSaved(j)
  <2>1. /\ job[j].pc \in {"open", "fill"} /\ job'[j].pc \in {"fill", "move"}
        /\ job'[j].kind = job[j].kind
        /\ \A k \in Jobs \ {j} : job'[k] = job[k]
        /\ UNCHANGED <<token, overlap>>
    BY <1>8 DEF OpenSaved, FillSaved, Sound, JobSound, Fields, history
  <2> QED
    BY <2>1, SameKeepsLock DEF Changing
<1> QED
  BY <1>1, <1>2, <1>3, <1>4, <1>5, <1>6, <1>7, <1>8 DEF Step

LEMMA RestartKeepsLock ==
  ASSUME Sound, LockInv, ServerRestart
  PROVE  LockInv'
<1>1. /\ \A j \in Jobs : job'[j] = IF job[j].kind # "manual" THEN Idle ELSE job[j]
      /\ token' = FALSE
  BY DEF ServerRestart
<1>2. overlap' = overlap
  BY DEF ServerRestart
<1>3. \A j \in Jobs : ~Holds(j)'
  BY <1>1, IdleSound DEF Holds, Changing
<1>4. \A j \in Jobs : /\ job'[j].kind = "manual" => job[j].kind = "manual"
                      /\ job'[j].pc \in Changing => job[j].pc \in Changing
  BY <1>1, IdleSound DEF Changing
<1> QED
  BY <1>1, <1>2, <1>3, <1>4 DEF LockInv

\* Of the jobs of the server at most one is between its plan and its answer, and two
\* jobs that change files at the same time are known (config.go:102-111, manual.go:231).
LEMMA LockInvariance == Spec => []LockInv
<1>1. Init => LockInv
  BY IdleSound DEF Init, LockInv, Holds, Changing
<1>2. Sound /\ LockInv /\ [Next]_vars => LockInv'
  <2> SUFFICES ASSUME Sound, LockInv, [Next]_vars PROVE LockInv'
    OBVIOUS
  <2>1. CASE Load \/ LoaderDownloads \/ Reload \/ UNCHANGED vars
    BY <2>1 DEF Load, LoaderDownloads, Reload, vars, history, LockInv, Holds
  <2> QED
    BY <2>1, RequestKeepsLock, JobStepKeepsLock, RestartKeepsLock DEF Next
<1> QED
  BY <1>1, <1>2, SoundInvariance, PTL DEF Spec

-----------------------------------------------------------------------------
(* What each plan makes of the files it has read.                          *)

RouterSets == KeeneticFiles \cup OpenWrtFiles

LinesOf(section, idx) == \A e \in DOMAIN section : section[e] = Lines(idx, e)

LEMMA KindOfRouter ==
  ASSUME NEW old \in RouterSets
  PROVE  /\ IsKeenetic(old) =>
              old \in KeeneticFiles /\ DOMAIN old = {"list", "routing", "outbounds"}
         /\ ~IsKeenetic(old) =>
              old \in OpenWrtFiles /\ DOMAIN old = {"rc", "servers", "yaml"}
BY DEF RouterSets, KeeneticFiles, OpenWrtFiles, IsKeenetic

\* The lines of an entry are hosts, whatever the list of hosts holds beside them.
LEMMA LinesAreHosts ==
  ASSUME NEW idx \in Indexes, NEW e \in Entries
  PROVE  Lines(idx, e) \subseteq Hosts
<1>1. PICK C \in SUBSET Categories : idx \in [C -> SUBSET (Hosts \cup Keywords)]
  BY DEF Indexes
<1> QED
  BY <1>1, EntriesAssumption DEF Lines, Expand

LEMMA SectionTyped ==
  ASSUME NEW base \in Bases, NEW entries \in SUBSET Entries, NEW idx \in Indexes
  PROVE  /\ OpenWrtWithUser(base, entries, idx) \in Servers
         /\ DOMAIN OpenWrtWithUser(base, entries, idx).section = entries
         /\ LinesOf(OpenWrtWithUser(base, entries, idx).section, idx)
<1> DEFINE section == [e \in entries |-> Lines(idx, e)]
<1>1. section \in [entries -> SUBSET Hosts]
  BY LinesAreHosts
<1>2. section \in Sections
  BY <1>1 DEF Sections
<1>3. DOMAIN section = entries /\ LinesOf(section, idx)
  BY DEF LinesOf
<1> HIDE DEF section
<1>4. OpenWrtWithUser(base, entries, idx) = [base |-> base, section |-> section]
  BY DEF OpenWrtWithUser, section
<1> QED
  BY <1>2, <1>3, <1>4 DEF Servers

LEMMA UserRuleTyped ==
  ASSUME NEW r \in Routings, NEW entries \in SUBSET Entries
  PROVE  LET new == KeeneticWithUser(r, entries)
         IN  /\ new \in Routings
             /\ new.user = entries /\ new.games = r.games
             /\ new.balancers = r.balancers
             /\ new.over = IF entries # {} /\ "main" \in r.over THEN r.over \cup {"user"}
                           ELSE r.over \ {"user"}
BY DEF KeeneticWithUser, Routings, Rules

LEMMA BalancerTyped ==
  ASSUME NEW r \in Routings, NEW conf \in Confs
  PROVE  LET new == KeeneticUseBalancer(r, conf)
         IN  /\ new \in Routings
             /\ new.user = r.user /\ new.games = r.games
             /\ new.balancers = conf
             /\ new.over = {"main"} \cup (IF r.user = {} THEN {} ELSE {"user"})
BY DEF KeeneticUseBalancer, Routings, Rules, Balancers

\* Nodes in place of the main outbound: exactly those the balancer names.
LEMMA NodesSelected ==
  ASSUME NEW outbounds \in SUBSET Outbounds, NEW conf \in Confs
  PROVE  /\ conf \cup (outbounds \ (Nodes \cup {Main})) \in SUBSET Outbounds
         /\ Selects(conf \cup (outbounds \ (Nodes \cup {Main})), conf)
BY NodesAssumption DEF Outbounds, Selects

LEMMA GamesPlan ==
  ASSUME NEW old \in RouterSets, NEW value \in BOOLEAN, NEW new, new = PlanGames(old, value)
  PROVE  /\ new \in RouterSets /\ DOMAIN new = DOMAIN old
         /\ ListDomains(new) = ListDomains(old)
         /\ ReadGames(new) = {value}
         /\ Consistent(old) => Consistent(new)
         /\ ~IsKeenetic(old) => \A f \in DOMAIN old \ {"rc"} : new[f] = old[f]
<1>1. CASE IsKeenetic(old)
  <2>1. old \in KeeneticFiles
    BY <1>1, KindOfRouter
  <2>2. new = [old EXCEPT !.list = value, !.routing = KeeneticSetPort(old.routing, value)]
    BY <1>1 DEF PlanGames, KeeneticPlan
  <2>3. /\ KeeneticSetPort(old.routing, value) \in Routings
        /\ KeeneticSetPort(old.routing, value).games = value
        /\ KeeneticSetPort(old.routing, value).user = old.routing.user
        /\ KeeneticSetPort(old.routing, value).over = old.routing.over
        /\ KeeneticSetPort(old.routing, value).balancers = old.routing.balancers
    BY <2>1 DEF KeeneticSetPort, KeeneticFiles, Routings
  <2>4. /\ new \in KeeneticFiles
        /\ new.list = value /\ new.routing = KeeneticSetPort(old.routing, value)
        /\ new.outbounds = old.outbounds
    BY <2>1, <2>2, <2>3 DEF KeeneticFiles
  <2>5. IsKeenetic(new) /\ DOMAIN new = DOMAIN old
    BY <2>1, <2>4 DEF IsKeenetic, KeeneticFiles
  <2> QED
    BY <1>1, <2>3, <2>4, <2>5
       DEF RouterSets, ListDomains, KeeneticDomains, ReadGames, KeeneticReadState, Consistent
<1>2. CASE ~IsKeenetic(old)
  <2>1. old \in OpenWrtFiles
    BY <1>2, KindOfRouter
  <2>2. new = [old EXCEPT !.rc = [old.rc EXCEPT !.games = value]]
    BY <1>2 DEF PlanGames, OpenWrtPlan
  <2>3. /\ new \in OpenWrtFiles
        /\ new.rc.games = value /\ new.servers = old.servers /\ new.yaml = old.yaml
    BY <2>1, <2>2 DEF OpenWrtFiles
  <2>4. ~IsKeenetic(new) /\ DOMAIN new = DOMAIN old
    BY <2>1, <2>3 DEF IsKeenetic, OpenWrtFiles
  <2>5. DOMAIN old = {"rc", "servers", "yaml"}
    BY <2>1 DEF OpenWrtFiles
  <2> QED
    BY <1>2, <2>3, <2>4, <2>5
       DEF RouterSets, ListDomains, OpenWrtDomains, ReadGames, OpenWrtReadState, Consistent
<1> QED
  BY <1>1, <1>2

LEMMA DomainsPlan ==
  ASSUME NEW old \in RouterSets, NEW entries \in SUBSET Entries, NEW idx \in Indexes,
         NEW new, new = PlanDomains(old, entries, idx)
  PROVE  /\ new \in RouterSets /\ DOMAIN new = DOMAIN old
         /\ ListDomains(new) = entries
         /\ ReadGames(new) = ReadGames(old)
         /\ Consistent(old) => Consistent(new)
         /\ ~IsKeenetic(old) => LinesOf(new.servers.section, idx)
<1>1. CASE IsKeenetic(old)
  <2>1. old \in KeeneticFiles /\ old.routing \in Routings
    BY <1>1, KindOfRouter DEF KeeneticFiles
  <2> DEFINE r == KeeneticWithUser(old.routing, entries)
  <2>2. new = [old EXCEPT !.routing = r]
    BY <1>1 DEF PlanDomains, KeeneticPlanDomains
  <2>3. /\ r \in Routings
        /\ r.user = entries /\ r.games = old.routing.games
        /\ r.balancers = old.routing.balancers
        /\ r.over = IF entries # {} /\ "main" \in old.routing.over
                    THEN old.routing.over \cup {"user"} ELSE old.routing.over \ {"user"}
    BY <2>1, UserRuleTyped
  <2> HIDE DEF r
  <2>4. /\ new \in KeeneticFiles /\ new.routing = r
        /\ new.list = old.list /\ new.outbounds = old.outbounds
    BY <2>1, <2>2, <2>3 DEF KeeneticFiles
  <2>5. IsKeenetic(new) /\ DOMAIN new = DOMAIN old
    BY <2>1, <2>4 DEF IsKeenetic, KeeneticFiles
  <2>6. Consistent(old) => Consistent(new)
    BY <1>1, <2>3, <2>4, <2>5 DEF Consistent
  <2> QED
    BY <1>1, <2>3, <2>4, <2>5, <2>6
       DEF RouterSets, ListDomains, KeeneticDomains, ReadGames, KeeneticReadState
<1>2. CASE ~IsKeenetic(old)
  <2>1. old \in OpenWrtFiles /\ old.servers.base \in Bases
    BY <1>2, KindOfRouter DEF OpenWrtFiles, Servers
  <2> DEFINE s == OpenWrtWithUser(old.servers.base, entries, idx)
  <2>2. new = [old EXCEPT !.servers = s]
    BY <1>2 DEF PlanDomains, OpenWrtPlanDomains
  <2>3. s \in Servers /\ DOMAIN s.section = entries /\ LinesOf(s.section, idx)
    BY <2>1, SectionTyped
  <2> HIDE DEF s
  <2>4. /\ new \in OpenWrtFiles /\ new.servers = s
        /\ new.rc = old.rc /\ new.yaml = old.yaml
    BY <2>1, <2>2, <2>3 DEF OpenWrtFiles
  <2>5. ~IsKeenetic(new) /\ DOMAIN new = DOMAIN old
    BY <2>1, <2>4 DEF IsKeenetic, OpenWrtFiles
  <2> QED
    BY <1>2, <2>3, <2>4, <2>5
       DEF RouterSets, ListDomains, OpenWrtDomains, ReadGames, OpenWrtReadState, Consistent
<1> QED
  BY <1>1, <1>2

LEMMA NodesPlan ==
  ASSUME NEW old \in RouterSets, NEW conf \in Confs, NEW new, new = PlanNodes(old, conf)
  PROVE  /\ new \in RouterSets /\ DOMAIN new = DOMAIN old
         /\ ListDomains(new) = ListDomains(old)
         /\ ReadGames(new) = ReadGames(old)
         /\ Consistent(new)
         /\ ~IsKeenetic(old) => new.servers = old.servers
<1>0. conf # NoBalancer
  BY NodesAssumption
<1>1. CASE IsKeenetic(old)
  <2>1. old \in KeeneticFiles /\ old.routing \in Routings /\ old.outbounds \in SUBSET Outbounds
    BY <1>1, KindOfRouter DEF KeeneticFiles
  <2> DEFINE r == KeeneticUseBalancer(old.routing, conf)
             o == KeeneticWithNodes(old.outbounds, conf)
  <2>2. new = [old EXCEPT !.outbounds = o, !.routing = r]
    BY <1>1 DEF PlanNodes, KeeneticPlanNodes
  <2>3. /\ r \in Routings
        /\ r.user = old.routing.user /\ r.games = old.routing.games /\ r.balancers = conf
        /\ r.over = {"main"} \cup (IF old.routing.user = {} THEN {} ELSE {"user"})
    BY <2>1, BalancerTyped
  <2>4. o \in SUBSET Outbounds /\ Selects(o, conf)
    BY <2>1, NodesSelected DEF KeeneticWithNodes
  <2> HIDE DEF r, o
  <2>5. /\ new \in KeeneticFiles /\ new.routing = r
        /\ new.list = old.list /\ new.outbounds = o
    BY <2>1, <2>2, <2>3, <2>4 DEF KeeneticFiles
  <2>6. IsKeenetic(new) /\ DOMAIN new = DOMAIN old
    BY <2>1, <2>5 DEF IsKeenetic, KeeneticFiles
  <2>7. Consistent(new)
    BY <1>0, <2>3, <2>4, <2>5, <2>6 DEF Consistent
  <2> QED
    BY <1>1, <2>3, <2>5, <2>6, <2>7
       DEF RouterSets, ListDomains, KeeneticDomains, ReadGames, KeeneticReadState
<1>2. CASE ~IsKeenetic(old)
  <2>1. old \in OpenWrtFiles /\ old.yaml.outbounds \in SUBSET Outbounds
    BY <1>2, KindOfRouter DEF OpenWrtFiles
  <2> DEFINE o == conf \cup (old.yaml.outbounds \ (Nodes \cup {Main}))
  <2>2. new = [old EXCEPT !.yaml = [outbounds |-> o, balancers |-> conf]]
    BY <1>2 DEF PlanNodes, OpenWrtPlanNodes, OpenWrtWithNodes
  <2>3. o \in SUBSET Outbounds /\ Selects(o, conf)
    BY <2>1, NodesSelected
  <2> HIDE DEF o
  <2>4. /\ new \in OpenWrtFiles /\ new.servers = old.servers /\ new.rc = old.rc
        /\ new.yaml = [outbounds |-> o, balancers |-> conf]
    BY <2>1, <2>2, <2>3 DEF OpenWrtFiles, Balancers
  <2>5. ~IsKeenetic(new) /\ DOMAIN new = DOMAIN old
    BY <2>1, <2>4 DEF IsKeenetic, OpenWrtFiles
  <2> QED
    BY <1>2, <2>3, <2>4, <2>5
       DEF RouterSets, ListDomains, OpenWrtDomains, ReadGames, OpenWrtReadState, Consistent
<1> QED
  BY <1>1, <1>2

LEMMA TemplatePlan ==
  ASSUME NEW old \in RouterSets, NEW t \in Bases, NEW idx \in Indexes,
         NEW new, new = PlanTemplate(old, t, idx)
  PROVE  /\ new \in RouterSets /\ DOMAIN new = DOMAIN old
         /\ ListDomains(new) = ListDomains(old)
         /\ ReadGames(new) = ReadGames(old)
         /\ Consistent(old) => Consistent(new)
         /\ ~IsKeenetic(old) => LinesOf(new.servers.section, idx)
<1>1. CASE IsKeenetic(old)
  <2>1. old \in KeeneticFiles /\ old.routing \in Routings
    BY <1>1, KindOfRouter DEF KeeneticFiles
  <2> DEFINE ported == KeeneticSetPort(Fresh(t, FALSE), old.routing.games)
             user == KeeneticWithUser(ported, KeeneticDomains(old.routing))
             r == KeepBalancer(user, old.routing.balancers)
  <2>2. /\ ported \in Routings /\ ported.games = old.routing.games
        /\ ported.over = {} /\ ported.balancers = NoBalancer
    BY <2>1 DEF KeeneticSetPort, Fresh, Routings, Balancers
  <2>3. old.routing.user \in SUBSET Entries /\ old.routing.balancers \in Balancers
    BY <2>1 DEF Routings
  <2> HIDE DEF ported
  <2>4. /\ user \in Routings /\ user.games = old.routing.games
        /\ user.user = old.routing.user /\ user.balancers = NoBalancer /\ user.over = {}
    <3>1. user = KeeneticWithUser(ported, old.routing.user)
      BY DEF KeeneticDomains
    <3> HIDE DEF user
    <3>2. /\ user \in Routings /\ user.games = ported.games
          /\ user.user = old.routing.user /\ user.balancers = ported.balancers
          /\ user.over = IF old.routing.user # {} /\ "main" \in ported.over
                         THEN ported.over \cup {"user"} ELSE ported.over \ {"user"}
      BY <2>2, <2>3, <3>1, UserRuleTyped
    <3> QED
      BY <2>2, <3>2
  <2> HIDE DEF user
  <2>5. /\ r \in Routings /\ r.games = old.routing.games
        /\ r.user = old.routing.user /\ r.balancers = old.routing.balancers
        /\ r.over = IF old.routing.balancers = NoBalancer THEN {}
                    ELSE {"main"} \cup (IF old.routing.user = {} THEN {} ELSE {"user"})
    <3>1. CASE old.routing.balancers = NoBalancer
      BY <2>4, <3>1 DEF KeepBalancer
    <3>2. CASE old.routing.balancers \in Confs /\ old.routing.balancers # NoBalancer
      BY <2>4, <3>2, BalancerTyped DEF KeepBalancer
    <3> QED
      BY <2>3, <3>1, <3>2 DEF Balancers
  <2> HIDE DEF r
  <2>6. new = [old EXCEPT !.routing = r]
    BY <1>1 DEF PlanTemplate, KeeneticPlanTemplate, r, user, ported
  <2>7. /\ new \in KeeneticFiles /\ new.routing = r
        /\ new.list = old.list /\ new.outbounds = old.outbounds
    BY <2>1, <2>5, <2>6 DEF KeeneticFiles
  <2>8. IsKeenetic(new) /\ DOMAIN new = DOMAIN old
    BY <2>1, <2>7 DEF IsKeenetic, KeeneticFiles
  <2> QED
    BY <1>1, <2>5, <2>7, <2>8
       DEF RouterSets, ListDomains, KeeneticDomains, ReadGames, KeeneticReadState, Consistent
<1>2. CASE ~IsKeenetic(old)
  <2>1. old \in OpenWrtFiles
    BY <1>2, KindOfRouter
  <2>2. DOMAIN old.servers.section \in SUBSET Entries
    BY <2>1 DEF OpenWrtFiles, Servers, Sections
  <2> DEFINE s == OpenWrtWithUser(t, DOMAIN old.servers.section, idx)
  <2>3. new = [old EXCEPT !.servers = s]
    BY <1>2 DEF PlanTemplate, OpenWrtPlanTemplate, OpenWrtDomains
  <2>4. /\ s \in Servers /\ DOMAIN s.section = DOMAIN old.servers.section
        /\ LinesOf(s.section, idx)
    BY <2>2, SectionTyped
  <2> HIDE DEF s
  <2>5. /\ new \in OpenWrtFiles /\ new.servers = s
        /\ new.rc = old.rc /\ new.yaml = old.yaml
    BY <2>1, <2>3, <2>4 DEF OpenWrtFiles
  <2>6. ~IsKeenetic(new) /\ DOMAIN new = DOMAIN old
    BY <2>1, <2>5 DEF IsKeenetic, OpenWrtFiles
  <2> QED
    BY <1>2, <2>4, <2>5, <2>6
       DEF RouterSets, ListDomains, OpenWrtDomains, ReadGames, OpenWrtReadState, Consistent
<1> QED
  BY <1>1, <1>2

-----------------------------------------------------------------------------
(* The types of what is in place, beside it and planned.                   *)

Types == [list |-> BOOLEAN, routing |-> Routings, outbounds |-> SUBSET Outbounds,
          rc |-> [games : BOOLEAN, others : BOOLEAN], servers |-> Servers,
          yaml |-> [outbounds : SUBSET Outbounds, balancers : Balancers]]

JobTyped(j) ==
  /\ job[j].pc \in {"idle", "wait", "plan", "download", "load", "open", "fill", "move"}
                   \cup Changing
  /\ job[j].kind \in Kinds \cup {"none"}
  /\ job[j].kind \in {"games", "manual"} => job[j].arg \in BOOLEAN
  /\ job[j].kind \in {"add", "remove"} => job[j].arg \in Entries
  /\ job[j].kind = "nodes" => job[j].arg \in Confs
  /\ job[j].kind \in {"template", "upload"} => job[j].arg \in Bases
  /\ job[j].pc = "load" => dlc \in Dlc
  /\ job[j].pc \notin Renaming => job[j].done = {}
  /\ DOMAIN job[j].plan \subseteq DOMAIN files
  /\ job[j].todo \subseteq DOMAIN job[j].plan
  /\ job[j].done \subseteq DOMAIN job[j].plan
  /\ \A f \in DOMAIN job[j].plan : job[j].plan[f] \in Types[f]
  /\ \A f \in job[j].done : bak[f] \in Types[f]

FilesTyped ==
  /\ files \in RouterSets
  /\ \A f \in DOMAIN files : tmp[f] # NoFile => tmp[f] \in Types[f]

ServerTyped ==
  /\ index \in Dlc \cup {Unloaded}
  /\ dlc \in Dlc \cup {NoFile}
  /\ loader \in {"load", "reload", "done"}
  /\ loader = "reload" => dlc \in Dlc
  /\ template \in Bases
  /\ saved \in Bases \cup {NoFile}

Typing == FilesTyped /\ ServerTyped /\ \A j \in Jobs : JobTyped(j)

LEMMA FileHasType ==
  ASSUME NEW g \in RouterSets, NEW f \in DOMAIN g
  PROVE  g[f] \in Types[f]
<1>1. CASE IsKeenetic(g)
  <2>1. g \in KeeneticFiles /\ DOMAIN g = {"list", "routing", "outbounds"}
    BY <1>1, KindOfRouter
  <2>2. /\ g["list"] \in BOOLEAN /\ g["routing"] \in Routings
        /\ g["outbounds"] \in SUBSET Outbounds
    BY <2>1 DEF KeeneticFiles
  <2> QED
    BY <2>1, <2>2 DEF Types
<1>2. CASE ~IsKeenetic(g)
  <2>1. g \in OpenWrtFiles /\ DOMAIN g = {"rc", "servers", "yaml"}
    BY <1>2, KindOfRouter
  <2>2. /\ g["rc"] \in [games : BOOLEAN, others : BOOLEAN] /\ g["servers"] \in Servers
        /\ g["yaml"] \in [outbounds : SUBSET Outbounds, balancers : Balancers]
    BY <2>1 DEF OpenWrtFiles
  <2>3. /\ Types["rc"] = [games : BOOLEAN, others : BOOLEAN] /\ Types["servers"] = Servers
        /\ Types["yaml"] = [outbounds : SUBSET Outbounds, balancers : Balancers]
    BY DEF Types
  <2>4. f = "rc" \/ f = "servers" \/ f = "yaml"
    BY <2>1
  <2> QED
    BY <2>2, <2>3, <2>4
<1> QED
  BY <1>1, <1>2

\* The files after some of them have got another content of their type.
LEMMA FilesStayTyped ==
  ASSUME NEW old \in RouterSets, NEW g, g = [f \in DOMAIN old |-> g[f]],
         \A f \in DOMAIN old : g[f] \in Types[f]
  PROVE  g \in RouterSets /\ DOMAIN g = DOMAIN old
<1>1. CASE IsKeenetic(old)
  <2>1. DOMAIN old = {"list", "routing", "outbounds"}
    BY <1>1, KindOfRouter
  <2>2. /\ g["list"] \in BOOLEAN /\ g["routing"] \in Routings
        /\ g["outbounds"] \in SUBSET Outbounds
    BY <2>1 DEF Types
  <2>3. g = [list |-> g["list"], routing |-> g["routing"], outbounds |-> g["outbounds"]]
    BY <2>1
  <2> QED
    BY <2>1, <2>2, <2>3 DEF RouterSets, KeeneticFiles
<1>2. CASE ~IsKeenetic(old)
  <2>1. DOMAIN old = {"rc", "servers", "yaml"}
    BY <1>2, KindOfRouter
  <2>2. /\ g["rc"] \in [games : BOOLEAN, others : BOOLEAN] /\ g["servers"] \in Servers
        /\ g["yaml"] \in [outbounds : SUBSET Outbounds, balancers : Balancers]
    BY <2>1 DEF Types
  <2>3. g = [rc |-> g["rc"], servers |-> g["servers"], yaml |-> g["yaml"]]
    BY <2>1
  <2> QED
    BY <2>1, <2>2, <2>3 DEF RouterSets, OpenWrtFiles
<1> QED
  BY <1>1, <1>2

LEMMA SitesAreEntries ==
  ASSUME NEW g \in RouterSets
  PROVE  ListDomains(g) \in SUBSET Entries /\ ReadGames(g) \in SUBSET BOOLEAN
<1>1. CASE IsKeenetic(g)
  BY <1>1, KindOfRouter DEF KeeneticFiles, Routings, ListDomains, KeeneticDomains,
     ReadGames, KeeneticReadState
<1>2. CASE ~IsKeenetic(g)
  <2>1. g \in OpenWrtFiles
    BY <1>2, KindOfRouter
  <2>2. g.servers.section \in Sections /\ g.rc.games \in BOOLEAN
    BY <2>1 DEF OpenWrtFiles, Servers
  <2> QED
    BY <1>2, <2>2 DEF Sections, ListDomains, OpenWrtDomains, ReadGames, OpenWrtReadState
<1> QED
  BY <1>1, <1>2

LEMMA IndexTyped == Typing => index \in Indexes
<1>1. Unloaded \in Indexes
  <2>1. Unloaded \in [{} -> SUBSET (Hosts \cup Keywords)]
    BY DEF Unloaded
  <2> QED
    BY <2>1 DEF Indexes
<1> QED
  BY <1>1, JobsAssumption DEF Typing, ServerTyped

\* A plan does what its job was asked for, and nothing else.
PlanFits(kind, arg, old, new) ==
  /\ ListDomains(new) = SitesAfter(kind, arg, ListDomains(old))
  /\ ReadGames(new) = IF kind \in {"games", "manual"} THEN {arg} ELSE ReadGames(old)
  /\ kind = "nodes" \/ Consistent(old) => Consistent(new)

LEMMA WantedFits ==
  ASSUME Typing, NEW j \in Jobs, job[j].kind \in Planned, NEW new, new = Wanted(j)
  PROVE  /\ new \in RouterSets /\ DOMAIN new = DOMAIN files
         /\ PlanFits(job[j].kind, job[j].arg, files, new)
         /\ ~IsKeenetic(files) /\ job[j].kind = "manual" =>
              \A f \in DOMAIN files \ {"rc"} : new[f] = files[f]
         /\ ~IsKeenetic(files) =>
              \/ new.servers = files.servers /\ job[j].kind # "refresh"
              \/ LinesOf(new.servers.section, index)
<1>0. /\ files \in RouterSets /\ index \in Indexes
      /\ ListDomains(files) \in SUBSET Entries
      /\ JobTyped(j)
  BY IndexTyped, SitesAreEntries DEF Typing, FilesTyped
<1>1. CASE job[j].kind \in {"games", "manual"}
  <2>1. new = PlanGames(files, job[j].arg) /\ job[j].arg \in BOOLEAN
    BY <1>0, <1>1 DEF Wanted, JobTyped
  <2>2. ~IsKeenetic(files) => "servers" \in DOMAIN files
    BY <1>0, KindOfRouter
  <2> QED
    BY <1>0, <1>1, <2>1, <2>2, GamesPlan DEF PlanFits, SitesAfter
<1>2. CASE job[j].kind \in {"add", "remove", "refresh"}
  <2> DEFINE entries == SitesAfter(job[j].kind, job[j].arg, ListDomains(files))
  <2>1. new = PlanDomains(files, entries, index)
    BY <1>2 DEF Wanted, SitesAfter
  <2>2. entries \in SUBSET Entries
    BY <1>0, <1>2 DEF JobTyped, SitesAfter
  <2> HIDE DEF entries
  <2>3. /\ new \in RouterSets /\ DOMAIN new = DOMAIN files
        /\ ListDomains(new) = entries
        /\ ReadGames(new) = ReadGames(files)
        /\ Consistent(files) => Consistent(new)
        /\ ~IsKeenetic(files) => LinesOf(new.servers.section, index)
    BY <1>0, <2>1, <2>2, DomainsPlan
  <2> QED
    BY <1>2, <2>3 DEF PlanFits, entries
<1>3. CASE job[j].kind = "nodes"
  <2>1. new = PlanNodes(files, job[j].arg) /\ job[j].arg \in Confs
    BY <1>0, <1>3 DEF Wanted, JobTyped
  <2> QED
    BY <1>0, <1>3, <2>1, NodesPlan DEF PlanFits, SitesAfter
<1>4. CASE job[j].kind = "template"
  <2>1. new = PlanTemplate(files, job[j].arg, index) /\ job[j].arg \in Bases
    BY <1>0, <1>4 DEF Wanted, JobTyped
  <2> QED
    BY <1>0, <1>4, <2>1, TemplatePlan DEF PlanFits, SitesAfter
<1> QED
  BY <1>1, <1>2, <1>3, <1>4 DEF Planned

-----------------------------------------------------------------------------
(* Every step keeps the types.                                             *)
LEMMA InitTyped == Init => Typing
<1> SUFFICES ASSUME Init PROVE Typing
  OBVIOUS
<1>1. template \in Bases
  BY DEF Init, Bases
<1>2. files \in RouterSets
  <2>1. CASE files = Keenetic(template, FALSE)
    BY <1>1, <2>1 DEF Keenetic, Fresh, RouterSets, KeeneticFiles, Routings, Balancers, Outbounds
  <2>2. ASSUME NEW games \in BOOLEAN, NEW others \in BOOLEAN,
               files = OpenWrt(template, games, others)
        PROVE  files \in RouterSets
    <3>1. <<>> \in Sections
      <4>1. <<>> \in [{} -> SUBSET Hosts]
        OBVIOUS
      <4> QED
        BY <4>1 DEF Sections
    <3> QED
      BY <1>1, <2>2, <3>1 DEF OpenWrt, RouterSets, OpenWrtFiles, Servers, Balancers, Outbounds
  <2> QED
    BY <2>1, <2>2 DEF Init
<1>3. /\ Idle.pc = "idle" /\ Idle.kind = "none" /\ Idle.plan = <<>>
      /\ Idle.todo = {} /\ Idle.done = {}
  BY DEF Idle
<1>4. \A j \in Jobs : JobTyped(j)
  BY <1>3 DEF Init, JobTyped
<1> QED
  BY <1>1, <1>2, <1>4 DEF Init, Typing, FilesTyped, ServerTyped

LEMMA IdleTyped ==
  ASSUME NEW j \in Jobs, job'[j] = Idle
  PROVE  JobTyped(j)'
<1>1. /\ Idle.pc = "idle" /\ Idle.kind = "none" /\ Idle.plan = <<>>
      /\ Idle.todo = {} /\ Idle.done = {}
  BY DEF Idle
<1> QED
  BY <1>1 DEF JobTyped

\* A job that takes no part in a step.
LEMMA OthersStayTyped ==
  ASSUME Typing, NEW k \in Jobs, job'[k] = job[k], DOMAIN files' = DOMAIN files,
         \A f \in DOMAIN files : bak'[f] = bak[f] \/ bak'[f] \in Types[f],
         dlc' = dlc \/ dlc' \in Dlc
  PROVE  JobTyped(k)'
<1>1. JobTyped(k)
  BY DEF Typing
<1>2. job[k].done \subseteq DOMAIN files
  BY <1>1 DEF JobTyped
<1> QED
  BY <1>1, <1>2 DEF JobTyped

\* Steps that leave the files alone: the job ends, or goes on with the plan it has.
LEMMA EndStaysTyped ==
  ASSUME Sound, Typing, NEW j \in Jobs,
         UNCHANGED <<files, tmp, bak>>,
         dlc' = dlc \/ dlc' \in Dlc, ServerTyped',
         job' = [job EXCEPT ![j] = Idle]
  PROVE  Typing'
<1>1. job'[j] = Idle /\ \A k \in Jobs \ {j} : job'[k] = job[k]
  BY DEF Sound
<1>2. \A k \in Jobs \ {j} : JobTyped(k)'
  BY <1>1, OthersStayTyped
<1>3. JobTyped(j)'
  BY <1>1, IdleTyped
<1> QED
  BY <1>2, <1>3 DEF Typing, FilesTyped

\* Job j has another pc, and nothing else of it changes.
GoesOn(j) ==
  /\ \A k \in Jobs \ {j} : job'[k] = job[k]
  /\ job'[j].kind = job[j].kind /\ job'[j].arg = job[j].arg
  /\ job'[j].plan = job[j].plan /\ job'[j].todo = job[j].todo
  /\ job'[j].done = job[j].done /\ job'[j].saw = job[j].saw

LEMMA QuietStaysTyped ==
  ASSUME Sound, Typing, NEW j \in Jobs,
         UNCHANGED <<files, tmp, bak>>,
         dlc' = dlc \/ dlc' \in Dlc, ServerTyped',
         GoesOn(j),
         job'[j].pc \in {"wait", "plan", "load", "fill", "move", "restore"},
         job'[j].pc = "load" => dlc' \in Dlc,
         job'[j].pc = "restore" \/ job[j].pc \notin Renaming
  PROVE  Typing'
<1>1. \A k \in Jobs \ {j} : JobTyped(k)'
  BY OthersStayTyped DEF GoesOn
<1>2. JobTyped(j)
  BY DEF Typing
<1>3. JobTyped(j)'
  BY <1>2 DEF GoesOn, JobTyped, Changing, Renaming
<1> QED
  BY <1>1, <1>3 DEF Typing, FilesTyped

LEMMA ArriveStaysTyped ==
  ASSUME Sound, Typing, NEW j \in Jobs, NEW kind, NEW arg, NEW pc,
         Arrive(j, kind, arg, pc),
         pc \in {"wait", "plan", "download", "open"},
         kind \in Kinds,
         kind \in {"games", "manual"} => arg \in BOOLEAN,
         kind \in {"add", "remove"} => arg \in Entries,
         kind = "nodes" => arg \in Confs,
         kind \in {"template", "upload"} => arg \in Bases
  PROVE  Typing'
<1>1. /\ job' = [job EXCEPT ![j] = [Idle EXCEPT !.kind = kind, !.arg = arg, !.pc = pc]]
      /\ UNCHANGED <<files, tmp, bak, index, dlc, loader, template, saved>>
  BY DEF Arrive, router, server, upload
<1>2. /\ \A k \in Jobs \ {j} : job'[k] = job[k]
      /\ job'[j].pc = pc /\ job'[j].kind = kind /\ job'[j].arg = arg
      /\ job'[j].plan = <<>> /\ job'[j].todo = {} /\ job'[j].done = {}
  BY <1>1 DEF Sound, Idle
<1>3. \A k \in Jobs \ {j} : JobTyped(k)'
  BY <1>1, <1>2, OthersStayTyped
<1>4. JobTyped(j)'
  BY <1>2 DEF JobTyped
<1> QED
  BY <1>1, <1>3, <1>4 DEF Typing, FilesTyped, ServerTyped

LEMMA RequestStaysTyped ==
  ASSUME Sound, Typing, NEW j \in Jobs, Request(j)
  PROVE  Typing'
<1>1. CASE ChangeGames(j)
  BY <1>1, ArriveStaysTyped DEF ChangeGames, Kinds
<1>2. CASE ManualGames(j)
  BY <1>2, ArriveStaysTyped, SitesAreEntries DEF ManualGames, Kinds, Typing, FilesTyped
<1>3. CASE ChangeNodes(j)
  BY <1>3, ArriveStaysTyped DEF ChangeNodes, Kinds
<1>4. CASE AddDomain(j)
  BY <1>4, ArriveStaysTyped DEF AddDomain, Kinds
<1>5. CASE RemoveDomain(j)
  BY <1>5, ArriveStaysTyped DEF RemoveDomain, Kinds
<1>6. CASE ApplyTemplate(j)
  BY <1>6, ArriveStaysTyped DEF ApplyTemplate, Kinds, Typing, ServerTyped
<1>7. CASE UploadTemplate(j)
  BY <1>7, ArriveStaysTyped DEF UploadTemplate, Kinds
<1>8. CASE RefreshDomains(j)
  BY <1>8, ArriveStaysTyped DEF RefreshDomains, Kinds
<1> QED
  BY <1>1, <1>2, <1>3, <1>4, <1>5, <1>6, <1>7, <1>8 DEF Request

LEMMA MakePlanStaysTyped ==
  ASSUME Sound, Typing, NEW j \in Jobs, MakePlan(j)
  PROVE  Typing'
<1> DEFINE new == Wanted(j)
           plan == Changed(files, new)
           saw == IF "servers" \in DOMAIN plan THEN index ELSE Unloaded
<1>1. /\ job[j].pc = "plan" /\ job[j].kind \in Planned
      /\ job' = [job EXCEPT ![j] = [job[j] EXCEPT !.pc = "write", !.plan = plan,
                                                  !.todo = DOMAIN plan, !.saw = saw]]
      /\ UNCHANGED <<files, tmp, bak, index, dlc, loader, template, saved>>
  BY DEF MakePlan, router, server, upload, Sound, JobSound
<1>2. new \in RouterSets /\ DOMAIN new = DOMAIN files
  BY <1>1, WantedFits
<1> HIDE DEF new
<1>3. DOMAIN plan \subseteq DOMAIN files /\ \A f \in DOMAIN plan : plan[f] \in Types[f]
  BY <1>2, FileHasType DEF Changed
<1> HIDE DEF plan, saw
<1>4. /\ \A k \in Jobs \ {j} : job'[k] = job[k]
      /\ job'[j].pc = "write" /\ job'[j].kind = job[j].kind /\ job'[j].arg = job[j].arg
      /\ job'[j].plan = plan /\ job'[j].todo = DOMAIN plan /\ job'[j].done = job[j].done
  BY <1>1 DEF Sound, JobSound, Fields
<1>5. \A k \in Jobs \ {j} : JobTyped(k)'
  BY <1>1, <1>4, OthersStayTyped
<1>6. JobTyped(j)
  BY DEF Typing
<1>7. job[j].done = {}
  BY <1>1, <1>6 DEF JobTyped, Renaming
<1>8. JobTyped(j)'
  BY <1>1, <1>3, <1>4, <1>6, <1>7 DEF JobTyped, Changing
<1> QED
  BY <1>1, <1>5, <1>8 DEF Typing, FilesTyped, ServerTyped

LEMMA WriteFileStaysTyped ==
  ASSUME Sound, Typing, NEW j \in Jobs, WriteFile(j)
  PROVE  Typing'
<1>1. PICK f \in DOMAIN files :
        /\ NextFile(j, f)
        /\ tmp' = [tmp EXCEPT ![f] = job[j].plan[f]]
        /\ job' = Went(j, f, "replace", {})
  BY DEF WriteFile
<1>2. job[j].pc = "write" /\ UNCHANGED <<files, bak, index, dlc, loader, template, saved>>
  BY DEF WriteFile, server, upload
<1>3. JobTyped(j) /\ f \in DOMAIN job[j].plan
  BY <1>1 DEF Typing, JobTyped, NextFile
<1>4. \A g \in DOMAIN files : tmp'[g] # NoFile => tmp'[g] \in Types[g]
  BY <1>1, <1>3 DEF Typing, FilesTyped, JobTyped, Sound, FilesSound
<1>5. /\ \A k \in Jobs \ {j} : job'[k] = job[k]
      /\ job'[j].kind = job[j].kind /\ job'[j].arg = job[j].arg
      /\ job'[j].plan = job[j].plan /\ job'[j].done = {}
      /\ job'[j].pc \in {"write", "replace"}
      /\ job'[j].todo \subseteq DOMAIN job[j].plan
  <2>1. job[j].todo \ {f} \subseteq DOMAIN job[j].plan
    BY <1>3 DEF JobTyped
  <2>2. /\ \A k \in Jobs \ {j} : job'[k] = job[k]
        /\ job'[j].kind = job[j].kind /\ job'[j].arg = job[j].arg
        /\ job'[j].plan = job[j].plan /\ job'[j].done = {}
        /\ job'[j].pc = IF job[j].todo \ {f} = {} THEN "replace" ELSE job[j].pc
        /\ job'[j].todo = IF job[j].todo \ {f} = {} THEN DOMAIN job[j].plan
                          ELSE job[j].todo \ {f}
    BY <1>1 DEF Went, Sound, JobSound, Fields
  <2> QED
    BY <1>2, <2>1, <2>2
<1>6. \A k \in Jobs \ {j} : JobTyped(k)'
  BY <1>2, <1>5, OthersStayTyped
<1>7. JobTyped(j)'
  BY <1>2, <1>3, <1>5 DEF JobTyped, Changing
<1> QED
  BY <1>2, <1>4, <1>6, <1>7 DEF Typing, FilesTyped, ServerTyped

LEMMA ReplaceFileStaysTyped ==
  ASSUME Sound, Typing, NEW j \in Jobs, ReplaceFile(j)
  PROVE  Typing'
<1>1. PICK f \in DOMAIN files :
        /\ NextFile(j, f)
        /\ tmp[f] # NoFile
        /\ bak' = [bak EXCEPT ![f] = files[f]]
        /\ files' = [files EXCEPT ![f] = tmp[f]]
        /\ tmp' = [tmp EXCEPT ![f] = NoFile]
        /\ job' = Went(j, f, "verify", job[j].done \cup {f})
  BY DEF ReplaceFile
<1>2. job[j].pc = "replace" /\ UNCHANGED <<index, dlc, loader, template, saved>>
  BY DEF ReplaceFile, server, upload
<1>3. JobTyped(j) /\ f \in DOMAIN job[j].plan
  BY <1>1 DEF Typing, JobTyped, NextFile
<1>4. /\ files \in RouterSets /\ tmp[f] \in Types[f] /\ files[f] \in Types[f]
      /\ \A g \in DOMAIN files : files[g] \in Types[g]
  BY <1>1, FileHasType DEF Typing, FilesTyped
<1>5. files' \in RouterSets /\ DOMAIN files' = DOMAIN files
  <2>1. files' = [g \in DOMAIN files |-> files'[g]]
    BY <1>1
  <2>2. \A g \in DOMAIN files : files'[g] \in Types[g]
    BY <1>1, <1>4
  <2> QED
    BY <1>4, <2>1, <2>2, FilesStayTyped
<1>6. \A g \in DOMAIN files : tmp'[g] # NoFile => tmp'[g] \in Types[g]
  BY <1>1 DEF Typing, FilesTyped, Sound, FilesSound
<1>7. \A g \in DOMAIN files : bak'[g] = bak[g] \/ bak'[g] \in Types[g]
  BY <1>1, <1>4 DEF Sound, FilesSound
<1>8. /\ \A k \in Jobs \ {j} : job'[k] = job[k]
      /\ job'[j].kind = job[j].kind /\ job'[j].arg = job[j].arg
      /\ job'[j].plan = job[j].plan /\ job'[j].done = job[j].done \cup {f}
      /\ job'[j].pc \in {"replace", "verify"}
      /\ job'[j].todo \subseteq DOMAIN job[j].plan
  <2>1. job[j].todo \ {f} \subseteq DOMAIN job[j].plan
    BY <1>3 DEF JobTyped
  <2>2. /\ \A k \in Jobs \ {j} : job'[k] = job[k]
        /\ job'[j].kind = job[j].kind /\ job'[j].arg = job[j].arg
        /\ job'[j].plan = job[j].plan /\ job'[j].done = job[j].done \cup {f}
        /\ job'[j].pc = IF job[j].todo \ {f} = {} THEN "verify" ELSE job[j].pc
        /\ job'[j].todo = job[j].todo \ {f}
    BY <1>1 DEF Went, Sound, JobSound, Fields
  <2> QED
    BY <1>2, <2>1, <2>2
<1>9. \A k \in Jobs \ {j} : JobTyped(k)'
  BY <1>2, <1>5, <1>7, <1>8, OthersStayTyped
<1>10. \A g \in job'[j].done : bak'[g] \in Types[g]
  <2>1. \A g \in job[j].done : bak[g] \in Types[g] /\ g \in DOMAIN files
    BY <1>3 DEF JobTyped
  <2>2. bak'[f] \in Types[f]
    BY <1>1, <1>4 DEF Sound, FilesSound
  <2> QED
    BY <1>7, <1>8, <2>1, <2>2
<1>11. JobTyped(j)'
  BY <1>2, <1>3, <1>5, <1>8, <1>10 DEF JobTyped, Changing, Renaming
<1> QED
  BY <1>2, <1>5, <1>6, <1>9, <1>11 DEF Typing, FilesTyped, ServerTyped

\* The job ends, and has cleaned up or put a part of the files back.
LEMMA BackStaysTyped ==
  ASSUME Sound, Typing, NEW j \in Jobs, NEW put \in SUBSET job[j].done, NEW paths,
         files' = [f \in DOMAIN files |-> IF f \in put THEN bak[f] ELSE files[f]],
         tmp' = Cleaned(paths), job' = [job EXCEPT ![j] = Idle],
         UNCHANGED <<bak, index, dlc, loader, template, saved>>
  PROVE  Typing'
<1>1. JobTyped(j) /\ files \in RouterSets
  BY DEF Typing, FilesTyped
<1>2. files' \in RouterSets /\ DOMAIN files' = DOMAIN files
  <2>1. files' = [g \in DOMAIN files |-> files'[g]]
    OBVIOUS
  <2>2. \A g \in DOMAIN files : files[g] \in Types[g]
    BY <1>1, FileHasType
  <2>3. \A g \in put : bak[g] \in Types[g]
    BY <1>1 DEF JobTyped
  <2>4. \A g \in DOMAIN files : files'[g] \in Types[g]
    BY <2>2, <2>3
  <2> QED
    BY <1>1, <2>1, <2>4, FilesStayTyped
<1>3. \A g \in DOMAIN files : tmp'[g] # NoFile => tmp'[g] \in Types[g]
  BY DEF Cleaned, Typing, FilesTyped, Sound, FilesSound
<1>4. \A k \in Jobs \ {j} : job'[k] = job[k] /\ job'[j] = Idle
  BY DEF Sound
<1>5. \A k \in Jobs \ {j} : JobTyped(k)'
  BY <1>2, <1>4, OthersStayTyped
<1>6. JobTyped(j)'
  <2>1. job'[j] = Idle
    BY DEF Sound
  <2> QED
    BY <2>1, IdleTyped
<1> QED
  BY <1>2, <1>3, <1>5, <1>6 DEF Typing, FilesTyped, ServerTyped

LEMMA ReplaceFailsStaysTyped ==
  ASSUME Sound, Typing, NEW j \in Jobs, ReplaceFails(j)
  PROVE  Typing'
<1>1. /\ job[j].pc = "replace" /\ job' = [job EXCEPT ![j].pc = "restore"]
      /\ UNCHANGED <<files, tmp, index, dlc, loader, template, saved>>
  BY DEF ReplaceFails, server, upload
<1>2. PICK f \in DOMAIN files : bak' = [bak EXCEPT ![f] = files[f]] \/ UNCHANGED bak
  BY DEF ReplaceFails
<1>3. \A g \in DOMAIN files : bak'[g] = bak[g] \/ bak'[g] \in Types[g]
  BY <1>2, FileHasType DEF Sound, FilesSound, Typing, FilesTyped
<1>4. /\ \A k \in Jobs \ {j} : job'[k] = job[k]
      /\ job'[j].kind = job[j].kind /\ job'[j].arg = job[j].arg
      /\ job'[j].plan = job[j].plan /\ job'[j].done = job[j].done
      /\ job'[j].todo = job[j].todo /\ job'[j].pc = "restore"
  BY <1>1 DEF Sound, JobSound, Fields
<1>5. \A k \in Jobs \ {j} : JobTyped(k)'
  BY <1>1, <1>3, <1>4, OthersStayTyped
<1>6. JobTyped(j)
  BY DEF Typing
<1>7. \A g \in job[j].done : g \in DOMAIN files
  BY <1>6 DEF JobTyped
<1>8. JobTyped(j)'
  BY <1>1, <1>3, <1>4, <1>6, <1>7 DEF JobTyped, Changing, Renaming
<1> QED
  BY <1>1, <1>5, <1>8 DEF Typing, FilesTyped, ServerTyped

LEMMA RefreshStaysTyped ==
  ASSUME Sound, Typing, NEW j \in Jobs, RefreshDownloads(j) \/ RefreshLoads(j)
  PROVE  Typing'
<1>0. UNCHANGED <<files, tmp, bak, loader, template, saved>>
  BY DEF RefreshDownloads, RefreshLoads, router, upload
<1>1. CASE RefreshDownloads(j)
  <2>1. /\ job[j].pc = "download" /\ index' = index
        /\ \/ dlc' \in Dlc /\ job' = [job EXCEPT ![j].pc = "load"]
           \/ dlc' = dlc /\ job' = [job EXCEPT ![j] = Idle]
    BY <1>1 DEF RefreshDownloads, EndJob
  <2>2. ServerTyped'
    BY <1>0, <2>1 DEF Typing, ServerTyped
  <2>3. job[j].pc \notin Renaming
    BY <2>1 DEF Renaming
  <2>4. CASE dlc' \in Dlc /\ job' = [job EXCEPT ![j].pc = "load"]
    <3>1. job'[j].pc = "load" /\ GoesOn(j)
      BY <2>4 DEF GoesOn, Sound, JobSound, Fields
    <3> QED
      BY <1>0, <2>2, <2>3, <2>4, <3>1, QuietStaysTyped
  <2>5. CASE dlc' = dlc /\ job' = [job EXCEPT ![j] = Idle]
    BY <1>0, <2>2, <2>5, EndStaysTyped
  <2> QED
    BY <2>1, <2>4, <2>5
<1>2. CASE RefreshLoads(j)
  <2>1. /\ job[j].pc = "load" /\ index' = dlc /\ dlc' = dlc
        /\ \/ job' = [job EXCEPT ![j] = Idle]
           \/ job' = [job EXCEPT ![j].pc = "wait"]
    BY <1>2 DEF RefreshLoads, EndJob
  <2>2. dlc \in Dlc
    BY <2>1 DEF Typing, JobTyped
  <2>3. ServerTyped'
    BY <1>0, <2>1, <2>2 DEF Typing, ServerTyped
  <2>4. job[j].pc \notin Renaming
    BY <2>1 DEF Renaming
  <2>5. CASE job' = [job EXCEPT ![j] = Idle]
    BY <1>0, <2>1, <2>3, <2>5, EndStaysTyped
  <2>6. CASE job' = [job EXCEPT ![j].pc = "wait"]
    <3>1. job'[j].pc = "wait" /\ GoesOn(j)
      BY <2>6 DEF GoesOn, Sound, JobSound, Fields
    <3> QED
      BY <1>0, <2>1, <2>3, <2>4, <3>1, QuietStaysTyped
  <2> QED
    BY <2>1, <2>5, <2>6
<1> QED
  BY <1>1, <1>2

LEMMA UploadStaysTyped ==
  ASSUME Sound, Typing, NEW j \in Jobs, OpenSaved(j) \/ FillSaved(j) \/ MoveSaved(j)
  PROVE  Typing'
<1>0. UNCHANGED <<files, tmp, bak, index, dlc, loader>>
  BY DEF OpenSaved, FillSaved, MoveSaved, router, server
<1>1. PICK a \in {"fill", "move"} :
        job' = [job EXCEPT ![j] = Idle] \/ job' = [job EXCEPT ![j].pc = a]
  BY DEF OpenSaved, FillSaved, MoveSaved, EndJob
<1>2. job[j].pc \in {"open", "fill", "move"}
  BY DEF OpenSaved, FillSaved, MoveSaved
<1>3. JobSound(j) /\ JobTyped(j)
  BY DEF Sound, Typing
<1>4. job[j].arg \in Bases
  <2>1. job[j].kind = "upload"
    BY <1>2, <1>3 DEF JobSound
  <2> QED
    BY <1>3, <2>1 DEF JobTyped
<1>5. Torn \in Bases
  BY DEF Bases
<1>6. template' \in Bases /\ saved' \in Bases \cup {NoFile}
  BY <1>4, <1>5 DEF OpenSaved, FillSaved, MoveSaved, Typing, ServerTyped
<1>7. ServerTyped'
  BY <1>0, <1>6 DEF Typing, ServerTyped
<1>8. job[j].pc \notin Renaming
  BY <1>2 DEF Renaming
<1>9. CASE job' = [job EXCEPT ![j] = Idle]
  BY <1>0, <1>7, <1>9, EndStaysTyped
<1>10. CASE job' = [job EXCEPT ![j].pc = a]
  <2>1. job'[j].pc = a /\ GoesOn(j)
    BY <1>10 DEF GoesOn, Sound, JobSound, Fields
  <2> QED
    BY <1>0, <1>7, <1>8, <2>1, QuietStaysTyped
<1> QED
  BY <1>1, <1>9, <1>10

LEMMA JobStepStaysTyped ==
  ASSUME Sound, Typing, NEW j \in Jobs, Step(j)
  PROVE  Typing'
<1>0. JobTyped(j)
  BY DEF Typing
<1>1. CASE \/ Busy(j) \/ Offline(j) \/ PlanRefused(j) \/ NothingToDo(j) \/ Done(j)
  <2>1. /\ job' = [job EXCEPT ![j] = Idle]
        /\ UNCHANGED <<files, tmp, bak, index, dlc, loader, template, saved>>
    BY <1>1 DEF Busy, Offline, PlanRefused, NothingToDo, Done, Refuse, EndJob,
       router, server, upload
  <2>2. ServerTyped'
    BY <2>1 DEF Typing, ServerTyped
  <2> QED
    BY <2>1, <2>2, EndStaysTyped
<1>2. CASE Acquire(j)
  <2>1. /\ job' = [job EXCEPT ![j].pc = "plan"] /\ job[j].pc \notin Renaming
        /\ UNCHANGED <<files, tmp, bak, index, dlc, loader, template, saved>>
    BY <1>2 DEF Acquire, router, server, upload, Renaming
  <2>2. ServerTyped'
    BY <2>1 DEF Typing, ServerTyped
  <2>3. job'[j].pc = "plan" /\ GoesOn(j)
    BY <2>1 DEF GoesOn, Sound, JobSound, Fields
  <2> QED
    BY <2>1, <2>2, <2>3, QuietStaysTyped
<1>3. CASE VerifyFails(j)
  <2>1. /\ job' = [job EXCEPT ![j].pc = "restore"]
        /\ UNCHANGED <<files, tmp, bak, index, dlc, loader, template, saved>>
    BY <1>3 DEF VerifyFails, router, server, upload
  <2>2. ServerTyped'
    BY <2>1 DEF Typing, ServerTyped
  <2>3. job'[j].pc = "restore" /\ GoesOn(j)
    BY <2>1 DEF GoesOn, Sound, JobSound, Fields
  <2> QED
    BY <2>1, <2>2, <2>3, QuietStaysTyped
<1>4. CASE MakePlan(j)
  BY <1>4, MakePlanStaysTyped
<1>5. CASE WriteFile(j)
  BY <1>5, WriteFileStaysTyped
<1>6. CASE WriteFails(j)
  <2>1. /\ job' = [job EXCEPT ![j] = Idle]
        /\ tmp' = Cleaned(DOMAIN job[j].plan \ job[j].todo)
        /\ UNCHANGED <<files, bak, index, dlc, loader, template, saved>>
    BY <1>6 DEF WriteFails, Refuse, EndJob, server, upload
  <2>2. files = [f \in DOMAIN files |-> files[f]]
    <3>1. files \in KeeneticFiles \/ files \in OpenWrtFiles
      BY DEF Typing, FilesTyped, RouterSets
    <3> QED
      BY <3>1 DEF KeeneticFiles, OpenWrtFiles
  <2>3. files' = [f \in DOMAIN files |-> IF f \in {} THEN bak[f] ELSE files[f]]
    BY <2>1, <2>2
  <2>4. {} \in SUBSET job[j].done
    OBVIOUS
  <2> QED
    BY <2>1, <2>3, <2>4, BackStaysTyped
<1>7. CASE ReplaceFile(j)
  BY <1>7, ReplaceFileStaysTyped
<1>8. CASE ReplaceFails(j)
  BY <1>8, ReplaceFailsStaysTyped
<1>9. CASE Restore(j) \/ RestoreFails(j)
  <2>1. PICK put \in SUBSET job[j].done :
          files' = [f \in DOMAIN files |-> IF f \in put THEN bak[f] ELSE files[f]]
    <3>1. CASE Restore(j)
      BY <3>1 DEF Restore
    <3>2. CASE RestoreFails(j)
      BY <3>2 DEF RestoreFails
    <3> QED
      BY <1>9, <3>1, <3>2
  <2>2. /\ tmp' = Cleaned(Leftover(j)) /\ job' = [job EXCEPT ![j] = Idle]
        /\ UNCHANGED <<bak, index, dlc, loader, template, saved>>
    BY <1>9 DEF Restore, RestoreFails, Refuse, EndJob, server, upload
  <2> QED
    BY <2>1, <2>2, BackStaysTyped
<1>10. CASE RefreshDownloads(j) \/ RefreshLoads(j)
  BY <1>10, RefreshStaysTyped
<1>11. CASE OpenSaved(j) \/ FillSaved(j) \/ MoveSaved(j)
  BY <1>11, UploadStaysTyped
<1> QED
  BY <1>1, <1>2, <1>3, <1>4, <1>5, <1>6, <1>7, <1>8, <1>9, <1>10, <1>11 DEF Step

LEMMA LoaderStaysTyped ==
  ASSUME Sound, Typing, Load \/ LoaderDownloads \/ Reload \/ ServerRestart \/ UNCHANGED vars
  PROVE  Typing'
<1>1. /\ UNCHANGED <<files, tmp, bak, template, saved>>
      /\ dlc' = dlc \/ dlc' \in Dlc
  BY DEF Load, LoaderDownloads, Reload, ServerRestart, vars, router, server, upload
<1>2. ServerTyped'
  <2>1. CASE Load
    BY <1>1, <2>1 DEF Load, Typing, ServerTyped
  <2>2. CASE LoaderDownloads
    BY <1>1, <2>2 DEF LoaderDownloads, Typing, ServerTyped
  <2>3. CASE Reload
    BY <1>1, <2>3 DEF Reload, Typing, ServerTyped
  <2>4. CASE ServerRestart
    BY <1>1, <2>4 DEF ServerRestart, Typing, ServerTyped
  <2>5. CASE UNCHANGED vars
    BY <1>1, <2>5 DEF vars, server, Typing, ServerTyped
  <2> QED
    BY <2>1, <2>2, <2>3, <2>4, <2>5
<1>3. \A j \in Jobs : job'[j] = job[j] \/ job'[j] = Idle
  BY DEF Load, LoaderDownloads, Reload, ServerRestart, vars
<1>4. \A j \in Jobs : JobTyped(j)'
  BY <1>1, <1>3, OthersStayTyped, IdleTyped
<1> QED
  BY <1>1, <1>2, <1>4 DEF Typing, FilesTyped

\* What is planned for a path, beside it and behind it is of the path's kind, and every
\* job has an argument of its own kind.
LEMMA TypingInvariance == Spec => []Typing
<1>1. Sound /\ Typing /\ [Next]_vars => Typing'
  BY RequestStaysTyped, JobStepStaysTyped, LoaderStaysTyped DEF Next
<1> QED
  BY <1>1, InitTyped, SoundInvariance, PTL DEF Spec

\* Every variable has its type; the lock is taken exactly while a job of the server
\* is between its plan and its answer (config.go:102-111).
THEOREM TypeCorrect == Spec => []TypeOK
<1>1. Sound /\ Typing /\ LockInv => TypeOK
  <2> SUFFICES ASSUME Sound, Typing, LockInv PROVE TypeOK
    OBVIOUS
  <2>1. /\ files \in KeeneticFiles \cup OpenWrtFiles
        /\ DOMAIN tmp = DOMAIN files /\ DOMAIN bak = DOMAIN files
    BY DEF Typing, FilesTyped, RouterSets, Sound, FilesSound
  <2>2. token \in BOOLEAN /\ token = (\E j \in Jobs : Holds(j))
    BY DEF LockInv
  <2>3. \A j \in Jobs :
          /\ job[j].pc \in {"idle", "wait", "plan", "download", "load", "open", "fill", "move"}
                           \cup Changing
          /\ job[j].kind \in Kinds \cup {"none"}
          /\ job[j].done \subseteq DOMAIN job[j].plan
          /\ job[j].todo \subseteq DOMAIN job[j].plan
          /\ DOMAIN job[j].plan \subseteq DOMAIN files
    BY DEF Typing, JobTyped
  <2> QED
    BY <2>1, <2>2, <2>3 DEF TypeOK, Holds, Typing, ServerTyped
<1> QED
  BY <1>1, SoundInvariance, TypingInvariance, LockInvariance, PTL

-----------------------------------------------------------------------------
(* The argument for what is kept.  Was is what the files would hold if     *)
(* every change in progress were put back; a change makes Goal of it.  On  *)
(* the paths that one job at a time can change, which are Watched, every   *)
(* step keeps Was, until the job is done and Was becomes its Goal.         *)

\* Without an overlap every path, and servers.conf of an OpenWrt in any case: manual
\* mode has only rc.local there.
Watched(f) == f \in DOMAIN files /\ (f = "servers" \/ ~overlap)

\* Where a job is in its plan, on the paths that are watched.
JobTracked(j) ==
  /\ job[j].pc \in Changing /\ job[j].kind = "manual" /\ ~IsKeenetic(files) =>
       DOMAIN job[j].plan = {"rc"}
  /\ \A f \in DOMAIN job[j].plan : Watched(f) =>
       /\ job[j].pc = "write" => f \in job[j].todo \/ tmp[f] = job[j].plan[f]
       /\ job[j].pc = "replace" =>
            \/ f \in job[j].todo \ job[j].done /\ tmp[f] = job[j].plan[f]
            \/ f \in job[j].done \ job[j].todo
       /\ job[j].pc = "verify" => f \in job[j].done
       /\ f \in job[j].done => files[f] = job[j].plan[f]

Was == [f \in DOMAIN files |->
          IF \E j \in Jobs : f \in job[j].done THEN bak[f] ELSE files[f]]
Goal(j) == [f \in DOMAIN files |-> IF f \in DOMAIN job[j].plan THEN job[j].plan[f] ELSE Was[f]]

\* What a plan in progress will have done when it is done.
JobPromises(j) ==
  job[j].pc \in Changing =>
    /\ ~IsKeenetic(files) \/ ~overlap =>
         ListDomains(Goal(j)) = SitesAfter(job[j].kind, job[j].arg, ListDomains(Was))
    /\ ~overlap =>
         /\ ReadGames(Goal(j)) = IF job[j].kind \in {"games", "manual"} THEN {job[j].arg}
                                 ELSE ReadGames(Was)
         /\ job[j].kind = "nodes" \/ Consistent(Was) => Consistent(Goal(j))
    /\ "servers" \in DOMAIN job[j].plan => LinesOf(job[j].plan["servers"].section, job[j].saw)

\* What was promised is what the files were.
Promised ==
  /\ DOMAIN promised = {"sites", "games"}
  /\ ~IsKeenetic(files) \/ ~overlap => ListDomains(Was) = promised.sites
  /\ ~overlap /\ "games" \notin doubt => ReadGames(Was) = promised.games
  /\ ~overlap /\ "nodes" \notin doubt => Consistent(Was)
  /\ ~IsKeenetic(files) /\ current => LinesOf(Was["servers"].section, index)

Tracked == \A j \in Jobs : JobTracked(j)
Promising == \A j \in Jobs : JobPromises(j)

LEMMA DoneIsPlanned ==
  ASSUME Typing, NEW k \in Jobs
  PROVE  /\ DOMAIN job[k].plan \subseteq DOMAIN files
         /\ job[k].done \subseteq DOMAIN job[k].plan
         /\ job[k].todo \subseteq DOMAIN job[k].plan
         /\ job[k].done # {} => job[k].pc \in Renaming /\ job[k].pc \in Changing
  BY DEF Typing, JobTyped, Renaming, Changing

\* Two jobs do not change a path that is watched.
LEMMA Exclusive ==
  ASSUME LockInv, Typing, Tracked, NEW j \in Jobs, NEW k \in Jobs, j # k,
         job[j].pc \in Changing, job[k].pc \in Changing,
         NEW f \in DOMAIN job[j].plan, f \in DOMAIN job[k].plan
  PROVE  ~Watched(f)
<1> SUFFICES ASSUME Watched(f) PROVE FALSE
  OBVIOUS
<1>1. overlap
  BY DEF LockInv
<1>2. f = "servers" /\ f \in DOMAIN files
  BY <1>1 DEF Watched
<1>3. ~IsKeenetic(files)
  <2>1. files \in RouterSets
    BY DEF Typing, FilesTyped
  <2> QED
    BY <1>2, <2>1, KindOfRouter
<1>4. job[j].kind # "manual" /\ job[k].kind # "manual"
  BY <1>2, <1>3 DEF Tracked, JobTracked
<1>5. Holds(j) /\ Holds(k)
  BY <1>4 DEF Holds
<1> QED
  BY <1>5 DEF LockInv

\* Another job has not renamed what this one has in its plan, if it is watched.
LEMMA OwnDone ==
  ASSUME LockInv, Typing, Tracked, NEW j \in Jobs, NEW k \in Jobs, j # k,
         job[j].pc \in Changing, NEW f \in DOMAIN job[j].plan, Watched(f)
  PROVE  f \notin job[k].done
<1> SUFFICES ASSUME f \in job[k].done PROVE FALSE
  OBVIOUS
<1>1. job[k].pc \in Changing /\ f \in DOMAIN job[k].plan
  BY DoneIsPlanned
<1> QED
  BY <1>1, Exclusive

LEMMA WasIs ==
  /\ DOMAIN Was = DOMAIN files
  /\ Was = [f \in DOMAIN files |-> Was[f]]
  /\ IsKeenetic(Was) <=> IsKeenetic(files)
  /\ \A f \in DOMAIN files : Was[f] = IF \E j \in Jobs : f \in job[j].done THEN bak[f] ELSE files[f]
BY DEF Was, IsKeenetic

LEMMA GoalIs ==
  ASSUME NEW j \in Jobs
  PROVE  /\ DOMAIN Goal(j) = DOMAIN files
         /\ Goal(j) = [f \in DOMAIN files |-> Goal(j)[f]]
         /\ IsKeenetic(Goal(j)) <=> IsKeenetic(files)
         /\ \A f \in DOMAIN files :
              Goal(j)[f] = IF f \in DOMAIN job[j].plan THEN job[j].plan[f] ELSE Was[f]
BY DEF Goal, IsKeenetic

LEMMA SameFiles ==
  ASSUME NEW S, NEW g, NEW h, g = [f \in S |-> g[f]], h = [f \in S |-> h[f]],
         \A f \in S : g[f] = h[f]
  PROVE  g = h
OBVIOUS

\* The sites of an OpenWrt are in one file.
LEMMA SameServers ==
  ASSUME NEW g, NEW h, ~IsKeenetic(g), ~IsKeenetic(h), g["servers"] = h["servers"]
  PROVE  ListDomains(g) = ListDomains(h)
BY DEF ListDomains, OpenWrtDomains

LEMMA OpenWrtPath ==
  ASSUME Typing, ~IsKeenetic(files)
  PROVE  DOMAIN files = {"rc", "servers", "yaml"}
<1>1. files \in RouterSets
  BY DEF Typing, FilesTyped
<1> QED
  BY <1>1, KindOfRouter

\* The step does not change what the watched files were.
Alike ==
  /\ DOMAIN files' = DOMAIN files
  /\ overlap' = overlap \/ overlap' = TRUE
  /\ \A f \in DOMAIN files : Watched(f)' => Was'[f] = Was[f]

LEMMA WasAlike ==
  ASSUME Typing, Alike
  PROVE  /\ ~overlap' => ~overlap /\ Was' = Was
         /\ ~IsKeenetic(files) =>
              /\ Was'["servers"] = Was["servers"]
              /\ ListDomains(Was') = ListDomains(Was)
         /\ IsKeenetic(files)' <=> IsKeenetic(files)
<1>1. /\ DOMAIN Was = DOMAIN files /\ Was = [f \in DOMAIN files |-> Was[f]]
      /\ IsKeenetic(Was) <=> IsKeenetic(files)
  BY WasIs
<1>2. /\ DOMAIN Was' = DOMAIN files' /\ Was' = [f \in DOMAIN files' |-> Was'[f]]
      /\ IsKeenetic(Was') <=> IsKeenetic(files')
  BY DEF Was, IsKeenetic
<1>3. IsKeenetic(files') <=> IsKeenetic(files)
  BY DEF Alike, IsKeenetic
<1>4. ~overlap' => ~overlap /\ Was' = Was
  <2> SUFFICES ASSUME ~overlap' PROVE ~overlap /\ Was' = Was
    OBVIOUS
  <2>1. \A f \in DOMAIN files : Was'[f] = Was[f]
    BY DEF Alike, Watched
  <2>2. Was' = [f \in DOMAIN files |-> Was'[f]]
    BY <1>2 DEF Alike
  <2> QED
    BY <1>1, <2>1, <2>2, SameFiles DEF Alike
<1>5. ASSUME ~IsKeenetic(files) PROVE Was'["servers"] = Was["servers"]
  BY <1>5, OpenWrtPath DEF Alike, Watched
<1>6. ASSUME ~IsKeenetic(files) PROVE ListDomains(Was') = ListDomains(Was)
  BY <1>1, <1>2, <1>3, <1>5, <1>6, SameServers
<1> QED
  BY <1>3, <1>4, <1>5, <1>6

\* A plan that goes on.
SamePlan(k) ==
  /\ job'[k].kind = job[k].kind /\ job'[k].arg = job[k].arg
  /\ job'[k].plan = job[k].plan /\ job'[k].saw = job[k].saw
  /\ job'[k].pc \in Changing => job[k].pc \in Changing

LEMMA AlikePromises ==
  ASSUME Typing, Alike, NEW k \in Jobs, SamePlan(k), JobPromises(k)
  PROVE  JobPromises(k)'
<1> SUFFICES ASSUME job'[k].pc \in Changing PROVE JobPromises(k)'
  BY DEF JobPromises
<1>1. job[k].pc \in Changing
  BY DEF SamePlan
<1>2. /\ DOMAIN Goal(k) = DOMAIN files /\ Goal(k) = [f \in DOMAIN files |-> Goal(k)[f]]
      /\ IsKeenetic(Goal(k)) <=> IsKeenetic(files)
      /\ \A f \in DOMAIN files :
           Goal(k)[f] = IF f \in DOMAIN job[k].plan THEN job[k].plan[f] ELSE Was[f]
  BY GoalIs
<1>3. /\ DOMAIN Goal(k)' = DOMAIN files' /\ Goal(k)' = [f \in DOMAIN files' |-> Goal(k)'[f]]
      /\ IsKeenetic(Goal(k)') <=> IsKeenetic(files')
      /\ \A f \in DOMAIN files' :
           Goal(k)'[f] = IF f \in DOMAIN job'[k].plan THEN job'[k].plan[f] ELSE Was'[f]
  BY DEF Goal, IsKeenetic
<1>4. ASSUME ~overlap' PROVE ~overlap /\ Was' = Was /\ Goal(k)' = Goal(k)
  <2>1. ~overlap /\ Was' = Was
    BY <1>4, WasAlike
  <2>2. \A f \in DOMAIN files : Goal(k)'[f] = Goal(k)[f]
    BY <1>2, <1>3, <2>1 DEF SamePlan, Alike
  <2>3. Goal(k)' = [f \in DOMAIN files |-> Goal(k)'[f]]
    BY <1>3 DEF Alike
  <2> QED
    BY <1>2, <2>1, <2>2, <2>3, SameFiles
<1>5. ASSUME ~IsKeenetic(files)
      PROVE  /\ ListDomains(Was') = ListDomains(Was)
             /\ ListDomains(Goal(k)') = ListDomains(Goal(k))
  <2>1. Was'["servers"] = Was["servers"] /\ ListDomains(Was') = ListDomains(Was)
    BY <1>5, WasAlike
  <2>2. "servers" \in DOMAIN files
    BY <1>5, OpenWrtPath
  <2>3. Goal(k)'["servers"] = Goal(k)["servers"]
    BY <1>2, <1>3, <2>1, <2>2 DEF SamePlan, Alike
  <2>4. ~IsKeenetic(Goal(k)) /\ ~IsKeenetic(Goal(k)')
    BY <1>2, <1>3, <1>5, WasAlike
  <2> QED
    BY <2>1, <2>3, <2>4, SameServers
<1>6. IsKeenetic(files)' <=> IsKeenetic(files)
  BY WasAlike
<1>7. ~IsKeenetic(files)' \/ ~overlap' =>
        ListDomains(Goal(k)') = SitesAfter(job'[k].kind, job'[k].arg, ListDomains(Was'))
  BY <1>1, <1>4, <1>5, <1>6 DEF JobPromises, SamePlan
<1>8. ~overlap' =>
        /\ ReadGames(Goal(k)') = IF job'[k].kind \in {"games", "manual"} THEN {job'[k].arg}
                                 ELSE ReadGames(Was')
        /\ job'[k].kind = "nodes" \/ Consistent(Was') => Consistent(Goal(k)')
  BY <1>1, <1>4 DEF JobPromises, SamePlan
<1>9. "servers" \in DOMAIN job'[k].plan =>
        LinesOf(job'[k].plan["servers"].section, job'[k].saw)
  BY <1>1 DEF JobPromises, SamePlan
<1> QED
  BY <1>7, <1>8, <1>9 DEF JobPromises

LEMMA AlikePromised ==
  ASSUME Typing, Alike, Promised, promised' = promised, doubt' = doubt,
         current' => current /\ index' = index
  PROVE  Promised'
<1>1. /\ ~overlap' => ~overlap /\ Was' = Was
      /\ ~IsKeenetic(files) =>
           Was'["servers"] = Was["servers"] /\ ListDomains(Was') = ListDomains(Was)
      /\ IsKeenetic(files)' <=> IsKeenetic(files)
  BY WasAlike
<1> QED
  BY <1>1 DEF Promised

\* A job that takes no part, beside a step that keeps away from its watched paths.
LEMMA OthersTracked ==
  ASSUME Typing, Tracked, NEW k \in Jobs, job'[k] = job[k],
         DOMAIN files' = DOMAIN files, overlap' = overlap \/ overlap' = TRUE,
         \A f \in DOMAIN job[k].plan : Watched(f) /\ job[k].pc \in Changing =>
           tmp'[f] = tmp[f] /\ files'[f] = files[f]
  PROVE  JobTracked(k)'
<1>1. IsKeenetic(files)' <=> IsKeenetic(files)
  BY DEF IsKeenetic
<1>2. \A f : Watched(f)' => Watched(f)
  BY DEF Watched
<1>3. JobTracked(k) /\ (job[k].pc \notin Changing => job[k].done = {})
  BY DoneIsPlanned DEF Tracked
<1>4. CASE job[k].pc \in Changing
  BY <1>1, <1>2, <1>3, <1>4 DEF JobTracked
<1>5. CASE job[k].pc \notin Changing
  BY <1>1, <1>2, <1>3, <1>5 DEF JobTracked, Changing
<1> QED
  BY <1>4, <1>5

-----------------------------------------------------------------------------
(* Every step keeps what was promised.                                     *)
AllKept == Tracked /\ Promising /\ Promised

\* A job that changes nothing any more, or not yet.
LEMMA IdleKept ==
  ASSUME NEW j \in Jobs, job'[j].pc \notin Changing, job'[j].done = {}
  PROVE  JobTracked(j)' /\ JobPromises(j)'
BY DEF JobTracked, JobPromises, Changing

\* The other jobs beside a step of j that is Alike and keeps to its own plan.
LEMMA AlikeOthers ==
  ASSUME LockInv, Typing, Tracked, Promising, Alike, NEW j \in Jobs,
         \A k \in Jobs \ {j} : job'[k] = job[k],
         \A f \in DOMAIN files :
           \/ job[j].pc \in Changing /\ f \in DOMAIN job[j].plan
           \/ tmp'[f] = tmp[f] /\ files'[f] = files[f]
  PROVE  \A k \in Jobs \ {j} : JobTracked(k)' /\ JobPromises(k)'
<1> SUFFICES ASSUME NEW k \in Jobs \ {j} PROVE JobTracked(k)' /\ JobPromises(k)'
  OBVIOUS
<1>1. JobPromises(k)'
  BY AlikePromises DEF SamePlan, Promising
<1>2. ASSUME NEW f \in DOMAIN job[k].plan, Watched(f), job[k].pc \in Changing
      PROVE  tmp'[f] = tmp[f] /\ files'[f] = files[f]
  BY <1>2, Exclusive, DoneIsPlanned
<1>3. JobTracked(k)'
  BY <1>2, OthersTracked DEF Alike
<1> QED
  BY <1>1, <1>3

\* Nothing is renamed by the step, and j has renamed nothing.
LEMMA NothingRenamed ==
  ASSUME NEW j \in Jobs, UNCHANGED <<files, bak>>, overlap' = overlap \/ overlap' = TRUE,
         \A k \in Jobs \ {j} : job'[k] = job[k], job'[j].done = job[j].done
  PROVE  Alike
<1>1. Was' = Was
  BY DEF Was
<1> QED
  BY <1>1 DEF Alike

\* A step of a job before its plan or at its end, that changes no promise.
LEMMA QuietKept ==
  ASSUME LockInv, Typing, AllKept, NEW j \in Jobs,
         UNCHANGED <<files, bak, overlap, promised, doubt>>,
         current' => current /\ index' = index,
         \A k \in Jobs \ {j} : job'[k] = job[k],
         job[j].done = {}, job'[j].done = {}, job'[j].pc \notin Changing,
         \A f \in DOMAIN files :
           \/ job[j].pc \in Changing /\ f \in DOMAIN job[j].plan
           \/ tmp'[f] = tmp[f]
  PROVE  AllKept'
<1>1. Alike
  BY NothingRenamed
<1>2. \A k \in Jobs \ {j} : JobTracked(k)' /\ JobPromises(k)'
  BY <1>1, AlikeOthers DEF AllKept
<1>3. JobTracked(j)' /\ JobPromises(j)'
  BY IdleKept
<1>4. Promised'
  BY <1>1, AlikePromised DEF AllKept
<1> QED
  BY <1>2, <1>3, <1>4 DEF AllKept, Tracked, Promising

LEMMA InitKept == Init => AllKept
<1> SUFFICES ASSUME Init PROVE AllKept
  OBVIOUS
<1>1. /\ promised = [sites |-> ListDomains(files), games |-> ReadGames(files)]
      /\ \A j \in Jobs : job[j] = Idle
  BY DEF Init
<1>2. Idle.pc = "idle" /\ Idle.done = {} /\ Idle.plan = <<>>
  BY DEF Idle
<1>3. \A j \in Jobs : JobTracked(j) /\ JobPromises(j)
  BY <1>1, <1>2 DEF JobTracked, JobPromises, Changing
<1>4. files \in RouterSets
  BY InitTyped DEF Typing, FilesTyped
<1>5. Was = files
  <2>1. files = [f \in DOMAIN files |-> files[f]]
    BY <1>4 DEF RouterSets, KeeneticFiles, OpenWrtFiles
  <2>2. \A f \in DOMAIN files : Was[f] = files[f]
    BY <1>1, <1>2, WasIs
  <2> QED
    BY <2>1, <2>2, WasIs, SameFiles
<1>6. Consistent(files)
  <2>1. CASE files = Keenetic(template, FALSE)
    BY <2>1, NodesAssumption DEF Keenetic, Fresh, Consistent, Selects, IsKeenetic
  <2>2. ASSUME NEW games, NEW others, files = OpenWrt(template, games, others)
        PROVE  Consistent(files)
    BY <2>2, NodesAssumption DEF OpenWrt, Consistent, Selects, IsKeenetic
  <2> QED
    BY <2>1, <2>2 DEF Init
<1>7. ~IsKeenetic(files) => LinesOf(files["servers"].section, index)
  <2>1. CASE files = Keenetic(template, FALSE)
    BY <2>1 DEF Keenetic, IsKeenetic
  <2>2. ASSUME NEW games, NEW others, files = OpenWrt(template, games, others)
        PROVE  LinesOf(files["servers"].section, index)
    BY <2>2 DEF OpenWrt, LinesOf
  <2> QED
    BY <2>1, <2>2 DEF Init
<1>8. Promised
  <2>1. DOMAIN promised = {"sites", "games"}
    BY <1>1
  <2>2. promised.sites = ListDomains(Was) /\ promised.games = ReadGames(Was)
    BY <1>1, <1>5
  <2> QED
    BY <1>5, <1>6, <1>7, <2>1, <2>2 DEF Promised
<1> QED
  BY <1>3, <1>8 DEF AllKept, Tracked, Promising

LEMMA ArriveStaysKept ==
  ASSUME Sound, LockInv, Typing, AllKept, NEW j \in Jobs, NEW kind, NEW arg, NEW pc,
         Arrive(j, kind, arg, pc), pc \in {"wait", "plan", "download", "open"}
  PROVE  AllKept'
<1>1. /\ job[j].pc = "idle"
      /\ UNCHANGED <<files, tmp, bak, overlap, promised, doubt, current, index>>
      /\ job' = [job EXCEPT ![j] = [Idle EXCEPT !.kind = kind, !.arg = arg, !.pc = pc]]
  BY DEF Arrive, router, server, history
<1>2. /\ \A k \in Jobs \ {j} : job'[k] = job[k]
      /\ job'[j].pc = pc /\ job'[j].done = {}
  BY <1>1 DEF Sound, Idle
<1>3. job[j].done = {}
  BY <1>1 DEF Typing, JobTyped, Renaming
<1>4. job'[j].pc \notin Changing
  BY <1>2 DEF Changing
<1> QED
  BY <1>1, <1>2, <1>3, <1>4, QuietKept

LEMMA RequestStaysKept ==
  ASSUME Sound, LockInv, Typing, AllKept, NEW j \in Jobs, Request(j)
  PROVE  AllKept'
<1>1. CASE ChangeGames(j)
  BY <1>1, ArriveStaysKept DEF ChangeGames
<1>2. CASE ManualGames(j)
  BY <1>2, ArriveStaysKept DEF ManualGames
<1>3. CASE ChangeNodes(j)
  BY <1>3, ArriveStaysKept DEF ChangeNodes
<1>4. CASE AddDomain(j)
  BY <1>4, ArriveStaysKept DEF AddDomain
<1>5. CASE RemoveDomain(j)
  BY <1>5, ArriveStaysKept DEF RemoveDomain
<1>6. CASE ApplyTemplate(j)
  BY <1>6, ArriveStaysKept DEF ApplyTemplate
<1>7. CASE UploadTemplate(j)
  BY <1>7, ArriveStaysKept DEF UploadTemplate
<1>8. CASE RefreshDomains(j)
  BY <1>8, ArriveStaysKept DEF RefreshDomains
<1> QED
  BY <1>1, <1>2, <1>3, <1>4, <1>5, <1>6, <1>7, <1>8 DEF Request

\* The steps of a job that is not changing files, and those of an upload.
LEMMA QuietStepStaysKept ==
  ASSUME Sound, LockInv, Typing, AllKept, NEW j \in Jobs,
         \/ Busy(j) \/ Offline(j) \/ Acquire(j) \/ PlanRefused(j)
         \/ RefreshDownloads(j) \/ RefreshLoads(j)
         \/ OpenSaved(j) \/ FillSaved(j) \/ MoveSaved(j)
  PROVE  AllKept'
<1>1. /\ UNCHANGED <<files, tmp, bak, overlap, promised, doubt>>
      /\ current' => current /\ index' = index
  <2>1. CASE Busy(j) \/ Offline(j) \/ Acquire(j) \/ PlanRefused(j)
    BY <2>1 DEF Busy, Offline, Acquire, PlanRefused, Refuse, router, server, history
  <2>2. CASE RefreshDownloads(j) \/ RefreshLoads(j)
    BY <2>2 DEF RefreshDownloads, RefreshLoads, router, history
  <2>3. CASE OpenSaved(j) \/ FillSaved(j) \/ MoveSaved(j)
    BY <2>3 DEF OpenSaved, FillSaved, MoveSaved, router, server, history
  <2> QED
    BY <2>1, <2>2, <2>3
<1>2. job[j].pc \in {"wait", "plan", "download", "load", "open", "fill", "move"}
  BY DEF Busy, Offline, Acquire, PlanRefused, RefreshDownloads, RefreshLoads, OpenSaved,
     FillSaved, MoveSaved
<1>3. \/ job' = [job EXCEPT ![j] = Idle]
      \/ \E a \in {"plan", "load", "wait", "fill", "move"} : job' = [job EXCEPT ![j].pc = a]
  BY DEF Busy, Offline, Acquire, PlanRefused, Refuse, EndJob, RefreshDownloads, RefreshLoads,
     OpenSaved, FillSaved, MoveSaved
<1>4. job[j].done = {}
  BY <1>2 DEF Typing, JobTyped, Renaming
<1>5. /\ \A k \in Jobs \ {j} : job'[k] = job[k]
      /\ job'[j].done = {} /\ job'[j].pc \notin Changing
  <2>1. CASE job' = [job EXCEPT ![j] = Idle]
    <3>1. Idle.pc = "idle" /\ Idle.done = {}
      BY DEF Idle
    <3> QED
      BY <2>1, <3>1 DEF Sound, Changing
  <2>2. ASSUME NEW a \in {"plan", "load", "wait", "fill", "move"},
               job' = [job EXCEPT ![j].pc = a]
        PROVE  /\ \A k \in Jobs \ {j} : job'[k] = job[k]
               /\ job'[j].done = {} /\ job'[j].pc \notin Changing
    BY <1>4, <2>2 DEF Sound, JobSound, Fields, Changing
  <2> QED
    BY <1>3, <2>1, <2>2
<1> QED
  BY <1>1, <1>4, <1>5, QuietKept

\* The list of hosts is loaded: the lines in place are not said to be current any more.
LEMMA LoaderStaysKept ==
  ASSUME Typing, AllKept, Load \/ LoaderDownloads \/ Reload \/ UNCHANGED vars
  PROVE  AllKept'
<1>1. /\ UNCHANGED <<files, tmp, bak, job, overlap, promised, doubt>>
      /\ current' => current /\ index' = index
  BY DEF Load, LoaderDownloads, Reload, vars, router, server, history
<1>2. Was' = Was
  BY <1>1 DEF Was
<1>3. Alike
  BY <1>1, <1>2 DEF Alike
<1>4. \A k \in Jobs : JobPromises(k)'
  BY <1>1, <1>3, AlikePromises DEF SamePlan, AllKept, Promising
<1>5. \A k \in Jobs : JobTracked(k)'
  BY <1>1, OthersTracked DEF AllKept, Tracked
<1>6. Promised'
  BY <1>1, <1>3, AlikePromised DEF AllKept
<1> QED
  BY <1>4, <1>5, <1>6 DEF AllKept, Tracked, Promising

\* What a job reads for its plan: nothing of another change, unless there is an overlap;
\* and never a servers.conf on its way.
LEMMA WhatIsRead ==
  ASSUME LockInv, Typing, Tracked, NEW j \in Jobs, job[j].pc = "plan"
  PROVE  /\ ~Meets(j) => Was = files
         /\ ~IsKeenetic(files) /\ job[j].kind # "manual" => Was["servers"] = files["servers"]
<1>1. job[j].done = {}
  BY DEF Typing, JobTyped, Renaming
<1>2. ASSUME ~Meets(j) PROVE Was = files
  <2>1. \A k \in Jobs : job[k].done = {}
    BY <1>1, <1>2, DoneIsPlanned DEF Meets
  <2>2. \A f \in DOMAIN files : Was[f] = files[f]
    BY <2>1, WasIs
  <2>3. files = [f \in DOMAIN files |-> files[f]]
    <3>1. files \in KeeneticFiles \/ files \in OpenWrtFiles
      BY DEF Typing, FilesTyped, RouterSets
    <3> QED
      BY <3>1 DEF KeeneticFiles, OpenWrtFiles
  <2> QED
    BY <2>2, <2>3, WasIs, SameFiles
<1>3. ASSUME ~IsKeenetic(files), job[j].kind # "manual"
      PROVE  Was["servers"] = files["servers"]
  <2>1. Holds(j)
    BY <1>3 DEF Holds
  <2>2. ASSUME NEW k \in Jobs PROVE "servers" \notin job[k].done
    <3> SUFFICES ASSUME "servers" \in job[k].done PROVE FALSE
      OBVIOUS
    <3>1. job[k].pc \in Changing /\ "servers" \in DOMAIN job[k].plan
      BY DoneIsPlanned
    <3>2. job[k].kind # "manual"
      BY <1>3, <3>1 DEF Tracked, JobTracked
    <3>3. Holds(k)
      BY <3>1, <3>2 DEF Holds
    <3>4. j = k
      BY <2>1, <3>3 DEF LockInv
    <3> QED
      BY <1>1, <3>4
  <2>3. "servers" \in DOMAIN files
    BY <1>3, OpenWrtPath
  <2> QED
    BY <2>2, <2>3, WasIs
<1> QED
  BY <1>2, <1>3

\* The files are already as they are wanted; they were so before, if nobody changes them.
LEMMA NothingToDoStaysKept ==
  ASSUME Sound, LockInv, Typing, AllKept, NEW j \in Jobs, NothingToDo(j)
  PROVE  AllKept'
<1>1. /\ job[j].pc = "plan" /\ Wanted(j) = files /\ Promise(j)
      /\ overlap' = (overlap \/ Meets(j))
      /\ current' = (current \/ job[j].kind = "refresh")
      /\ UNCHANGED <<files, tmp, bak, index>>
      /\ job' = [job EXCEPT ![j] = Idle]
  BY DEF NothingToDo, EndJob, router, server
<1>2. job[j].done = {} /\ job[j].kind \in Planned
  BY <1>1 DEF Typing, JobTyped, Renaming, Sound, JobSound
<1>3. /\ \A k \in Jobs \ {j} : job'[k] = job[k]
      /\ job'[j].done = {} /\ job'[j].pc \notin Changing
  <2>1. Idle.pc = "idle" /\ Idle.done = {}
    BY DEF Idle
  <2> QED
    BY <1>1, <2>1 DEF Sound, Changing
<1>4. overlap' = overlap \/ overlap' = TRUE
  BY <1>1 DEF LockInv, Meets
<1>5. Alike
  BY <1>1, <1>2, <1>3, <1>4, NothingRenamed
<1>6. \A k \in Jobs \ {j} : JobTracked(k)' /\ JobPromises(k)'
  BY <1>1, <1>5, AlikeOthers DEF AllKept
<1>7. JobTracked(j)' /\ JobPromises(j)'
  BY <1>3, IdleKept
<1>8. /\ ~overlap' => ~overlap /\ Was' = Was
      /\ ~IsKeenetic(files) =>
           Was'["servers"] = Was["servers"] /\ ListDomains(Was') = ListDomains(Was)
      /\ IsKeenetic(files)' <=> IsKeenetic(files)
  BY <1>5, WasAlike
<1>9. /\ ~overlap' => Was = files
      /\ ~IsKeenetic(files) /\ job[j].kind # "manual" => Was["servers"] = files["servers"]
  BY <1>1, WhatIsRead DEF AllKept
<1>10. /\ PlanFits(job[j].kind, job[j].arg, files, files)
       /\ ~IsKeenetic(files) =>
            job[j].kind # "refresh" \/ LinesOf(files.servers.section, index)
  BY <1>1, <1>2, WantedFits
<1>11. /\ DOMAIN promised' = {"sites", "games"}
       /\ promised'.sites = SitesAfter(job[j].kind, job[j].arg, promised.sites)
       /\ promised'.games = IF job[j].kind \in {"games", "manual"} THEN {job[j].arg}
                            ELSE promised.games
       /\ doubt' = doubt \ {job[j].kind}
  <2>1. DOMAIN promised = {"sites", "games"}
    BY DEF AllKept, Promised
  <2> QED
    BY <1>1, <2>1 DEF Promise, SitesAfter
<1>12. ~IsKeenetic(files)' \/ ~overlap' => ListDomains(Was') = promised'.sites
  <2>1. ASSUME ~overlap' PROVE ListDomains(Was') = promised'.sites
    <3>1. ListDomains(files) = promised.sites
      BY <1>8, <1>9, <2>1 DEF AllKept, Promised
    <3> QED
      BY <1>8, <1>9, <1>10, <1>11, <2>1, <3>1 DEF PlanFits
  <2>2. ASSUME ~IsKeenetic(files) PROVE ListDomains(Was') = promised'.sites
    <3>1. ListDomains(Was) = promised.sites
      BY <2>2 DEF AllKept, Promised
    <3>2. CASE job[j].kind = "manual"
      BY <1>8, <1>11, <2>2, <3>1, <3>2 DEF SitesAfter
    <3>3. CASE job[j].kind # "manual"
      <4>1. ListDomains(Was) = ListDomains(files)
        BY <1>9, <2>2, <3>3, SameServers, WasIs
      <4> QED
        BY <1>8, <1>10, <1>11, <2>2, <3>1, <4>1 DEF PlanFits
    <3> QED
      BY <3>2, <3>3
  <2> QED
    BY <1>8, <2>1, <2>2
<1>13. ~overlap' /\ "games" \notin doubt' => ReadGames(Was') = promised'.games
  <2> SUFFICES ASSUME ~overlap', "games" \notin doubt' PROVE ReadGames(Was') = promised'.games
    OBVIOUS
  <2>1. CASE job[j].kind \in {"games", "manual"}
    BY <1>8, <1>9, <1>10, <1>11, <2>1 DEF PlanFits
  <2>2. CASE job[j].kind \notin {"games", "manual"}
    BY <1>8, <1>11, <2>2 DEF AllKept, Promised
  <2> QED
    BY <2>1, <2>2
<1>14. ~overlap' /\ "nodes" \notin doubt' => Consistent(Was')
  <2> SUFFICES ASSUME ~overlap', "nodes" \notin doubt' PROVE Consistent(Was')
    OBVIOUS
  <2>1. CASE job[j].kind = "nodes"
    BY <1>8, <1>9, <1>10, <2>1 DEF PlanFits
  <2>2. CASE job[j].kind # "nodes"
    BY <1>8, <1>11, <2>2 DEF AllKept, Promised
  <2> QED
    BY <2>1, <2>2
<1>15. ~IsKeenetic(files)' /\ current' => LinesOf(Was'["servers"].section, index')
  <2> SUFFICES ASSUME ~IsKeenetic(files), current' PROVE LinesOf(Was'["servers"].section, index)
    BY <1>1, <1>8
  <2>1. CASE job[j].kind = "refresh"
    BY <1>8, <1>9, <1>10, <2>1
  <2>2. CASE job[j].kind # "refresh"
    BY <1>1, <1>8, <2>2 DEF AllKept, Promised
  <2> QED
    BY <2>1, <2>2
<1>16. Promised'
  BY <1>11, <1>12, <1>13, <1>14, <1>15 DEF Promised
<1> QED
  BY <1>6, <1>7, <1>16 DEF AllKept, Tracked, Promising

\* The plan makes of the files what was asked for.
LEMMA MakePlanStaysKept ==
  ASSUME Sound, LockInv, Typing, AllKept, NEW j \in Jobs, MakePlan(j)
  PROVE  AllKept'
<1> DEFINE new == Wanted(j)
           plan == Changed(files, new)
           saw == IF "servers" \in DOMAIN plan THEN index ELSE Unloaded
<1>1. /\ job[j].pc = "plan" /\ job[j].kind \in Planned /\ new # files
      /\ job' = [job EXCEPT ![j] = [job[j] EXCEPT !.pc = "write", !.plan = plan,
                                                  !.todo = DOMAIN plan, !.saw = saw]]
      /\ overlap' = (overlap \/ Meets(j))
      /\ UNCHANGED <<files, tmp, bak, index, promised, doubt, current>>
  BY DEF MakePlan, router, server, Sound, JobSound
<1>2. /\ new \in RouterSets /\ DOMAIN new = DOMAIN files
      /\ PlanFits(job[j].kind, job[j].arg, files, new)
      /\ ~IsKeenetic(files) /\ job[j].kind = "manual" =>
           \A f \in DOMAIN files \ {"rc"} : new[f] = files[f]
      /\ ~IsKeenetic(files) =>
           \/ new.servers = files.servers /\ job[j].kind # "refresh"
           \/ LinesOf(new.servers.section, index)
  BY <1>1, WantedFits
<1>3. /\ DOMAIN plan = {f \in DOMAIN files : new[f] # files[f]}
      /\ \A f \in DOMAIN plan : plan[f] = new[f]
  BY DEF Changed
<1>4. "servers" \in DOMAIN plan => saw = index
  OBVIOUS
<1>5. new # files
  BY <1>1
<1>6. job' = [job EXCEPT ![j] = [job[j] EXCEPT !.pc = "write", !.plan = plan,
                                               !.todo = DOMAIN plan, !.saw = saw]]
  BY <1>1
<1> HIDE DEF new, plan, saw
<1>7. /\ \A k \in Jobs \ {j} : job'[k] = job[k]
      /\ job'[j].pc = "write" /\ job'[j].kind = job[j].kind /\ job'[j].arg = job[j].arg
      /\ job'[j].plan = plan /\ job'[j].todo = DOMAIN plan /\ job'[j].done = job[j].done
      /\ job'[j].saw = saw
  BY <1>6 DEF Sound, JobSound, Fields
<1>8. overlap' = overlap \/ overlap' = TRUE
  BY <1>1 DEF LockInv, Meets
<1>9. Alike
  BY <1>1, <1>7, <1>8, NothingRenamed
<1>10. \A k \in Jobs \ {j} : JobTracked(k)' /\ JobPromises(k)'
  BY <1>1, <1>7, <1>9, AlikeOthers DEF AllKept
<1>11. Promised'
  BY <1>1, <1>9, AlikePromised DEF AllKept
<1>12. job[j].done = {}
  BY <1>1 DEF Typing, JobTyped, Renaming
<1>13. /\ ~overlap' => ~overlap /\ Was' = Was
       /\ ~IsKeenetic(files) =>
            Was'["servers"] = Was["servers"] /\ ListDomains(Was') = ListDomains(Was)
       /\ IsKeenetic(files)' <=> IsKeenetic(files)
  BY <1>9, WasAlike
<1>14. /\ ~overlap' => Was = files
       /\ ~IsKeenetic(files) /\ job[j].kind # "manual" => Was["servers"] = files["servers"]
  BY <1>1, WhatIsRead DEF AllKept
<1>15. JobTracked(j)'
  <2>1. ~IsKeenetic(files) /\ job[j].kind = "manual" => DOMAIN plan = {"rc"}
    <3> SUFFICES ASSUME ~IsKeenetic(files), job[j].kind = "manual" PROVE DOMAIN plan = {"rc"}
      OBVIOUS
    <3>1. DOMAIN plan \subseteq {"rc"}
      BY <1>2, <1>3
    <3>2. DOMAIN plan # {}
      <4> SUFFICES ASSUME DOMAIN plan = {} PROVE FALSE
        OBVIOUS
      <4>1. \A f \in DOMAIN files : new[f] = files[f]
        BY <1>3
      <4>2. files \in RouterSets
        BY DEF Typing, FilesTyped
      <4>3. files = [f \in DOMAIN files |-> files[f]] /\ new = [f \in DOMAIN files |-> new[f]]
        BY <1>2, <4>2 DEF RouterSets, KeeneticFiles, OpenWrtFiles
      <4> QED
        BY <1>5, <4>1, <4>3, SameFiles
    <3> QED
      BY <3>1, <3>2
  <2> QED
    BY <1>7, <1>12, <1>13, <2>1 DEF JobTracked
<1>16. /\ DOMAIN Goal(j)' = DOMAIN files /\ Goal(j)' = [f \in DOMAIN files |-> Goal(j)'[f]]
       /\ IsKeenetic(Goal(j)') <=> IsKeenetic(files)
       /\ \A f \in DOMAIN files :
            Goal(j)'[f] = IF f \in DOMAIN plan THEN new[f] ELSE Was'[f]
  BY <1>1, <1>3, <1>7 DEF Goal, IsKeenetic
<1>17. ASSUME ~overlap' PROVE Was' = files /\ Goal(j)' = new
  <2>1. Was' = files
    BY <1>13, <1>14, <1>17
  <2>2. \A f \in DOMAIN files : Goal(j)'[f] = new[f]
    BY <1>3, <1>16, <2>1
  <2>3. new = [f \in DOMAIN files |-> new[f]]
    BY <1>2 DEF RouterSets, KeeneticFiles, OpenWrtFiles
  <2>4. Goal(j)' = new
    BY <1>16, <2>2, <2>3, SameFiles
  <2> QED
    BY <2>1, <2>4
<1>18. ASSUME ~IsKeenetic(files)
       PROVE  ListDomains(Goal(j)') = SitesAfter(job[j].kind, job[j].arg, ListDomains(Was'))
  <2>1. "servers" \in DOMAIN files /\ ~IsKeenetic(new) /\ ~IsKeenetic(Was)
    BY <1>2, <1>18, OpenWrtPath, WasIs DEF IsKeenetic
  <2>2. CASE job[j].kind = "manual"
    <3>1. Goal(j)'["servers"] = Was["servers"]
      BY <1>2, <1>3, <1>13, <1>16, <1>18, <2>1, <2>2
    <3>2. ListDomains(Goal(j)') = ListDomains(Was)
      BY <1>16, <1>18, <2>1, <3>1, SameServers
    <3> QED
      BY <1>13, <1>18, <2>2, <3>2 DEF SitesAfter
  <2>3. CASE job[j].kind # "manual"
    <3>1. Was["servers"] = files["servers"]
      BY <1>14, <1>18, <2>3
    <3>2. Goal(j)'["servers"] = new["servers"]
      BY <1>3, <1>13, <1>16, <1>18, <2>1, <3>1
    <3>3. ListDomains(Goal(j)') = ListDomains(new)
      BY <1>16, <1>18, <2>1, <3>2, SameServers
    <3>4. ListDomains(Was) = ListDomains(files)
      BY <1>18, <2>1, <3>1, SameServers
    <3> QED
      BY <1>2, <1>13, <1>18, <3>3, <3>4 DEF PlanFits
  <2> QED
    BY <2>2, <2>3
<1>19. "servers" \in DOMAIN plan => LinesOf(plan["servers"].section, saw)
  <2> SUFFICES ASSUME "servers" \in DOMAIN plan PROVE LinesOf(plan["servers"].section, saw)
    OBVIOUS
  <2>1. plan["servers"] = new["servers"] /\ new["servers"] # files["servers"]
        /\ "servers" \in DOMAIN files
    BY <1>3
  <2>2. ~IsKeenetic(files)
    <3>1. files \in RouterSets
      BY DEF Typing, FilesTyped
    <3> QED
      BY <2>1, <3>1, KindOfRouter
  <2> QED
    BY <1>2, <1>4, <2>1, <2>2
<1>20. ~IsKeenetic(files)' \/ ~overlap' =>
         ListDomains(Goal(j)') = SitesAfter(job'[j].kind, job'[j].arg, ListDomains(Was'))
  BY <1>2, <1>7, <1>13, <1>17, <1>18 DEF PlanFits
<1>21. ~overlap' =>
         /\ ReadGames(Goal(j)') = IF job'[j].kind \in {"games", "manual"} THEN {job'[j].arg}
                                  ELSE ReadGames(Was')
         /\ job'[j].kind = "nodes" \/ Consistent(Was') => Consistent(Goal(j)')
  BY <1>2, <1>7, <1>17 DEF PlanFits
<1>22. JobPromises(j)'
  BY <1>7, <1>19, <1>20, <1>21 DEF JobPromises
<1> QED
  BY <1>10, <1>11, <1>15, <1>22 DEF AllKept, Tracked, Promising

LEMMA WriteFileStaysKept ==
  ASSUME Sound, LockInv, Typing, AllKept, NEW j \in Jobs, WriteFile(j)
  PROVE  AllKept'
<1>1. PICK f \in DOMAIN files :
        /\ NextFile(j, f)
        /\ tmp' = [tmp EXCEPT ![f] = job[j].plan[f]]
        /\ job' = Went(j, f, "replace", {})
  BY DEF WriteFile
<1>2. /\ job[j].pc = "write" /\ f \in job[j].todo
      /\ UNCHANGED <<files, bak, index, overlap, promised, doubt, current>>
  BY <1>1 DEF WriteFile, NextFile, server, history
<1>3. job[j].done = {} /\ job[j].todo \subseteq DOMAIN job[j].plan
      /\ DOMAIN job[j].plan \subseteq DOMAIN files
  BY <1>2 DEF Typing, JobTyped, Renaming
<1>4. /\ \A k \in Jobs \ {j} : job'[k] = job[k]
      /\ job'[j].kind = job[j].kind /\ job'[j].arg = job[j].arg
      /\ job'[j].plan = job[j].plan /\ job'[j].saw = job[j].saw /\ job'[j].done = {}
      /\ job'[j].pc = IF job[j].todo \ {f} = {} THEN "replace" ELSE "write"
      /\ job'[j].todo = IF job[j].todo \ {f} = {} THEN DOMAIN job[j].plan
                        ELSE job[j].todo \ {f}
  BY <1>1, <1>2 DEF Went, Sound, JobSound, Fields
<1>5. Alike
  BY <1>2, <1>3, <1>4, NothingRenamed
<1>6. \A g \in DOMAIN files : tmp'[g] = IF g = f THEN job[j].plan[f] ELSE tmp[g]
  BY <1>1 DEF Sound, FilesSound
<1>7. job[j].pc \in Changing
  BY <1>2 DEF Changing
<1>8. \A k \in Jobs \ {j} : JobTracked(k)' /\ JobPromises(k)'
  BY <1>2, <1>3, <1>4, <1>5, <1>6, <1>7, AlikeOthers DEF AllKept
<1>9. Promised'
  BY <1>2, <1>5, AlikePromised DEF AllKept
<1>10. JobPromises(j)'
  BY <1>4, <1>5, <1>7, AlikePromises DEF SamePlan, AllKept, Promising
<1>11. JobTracked(j)'
  <2>1. JobTracked(j)
    BY DEF AllKept, Tracked
  <2>2. \A g \in DOMAIN job[j].plan : Watched(g) => g \in job[j].todo \/ tmp[g] = job[j].plan[g]
    BY <1>2, <2>1 DEF JobTracked
  <2>3. \A g : Watched(g)' <=> Watched(g)
    BY <1>2 DEF Watched
  <2>4. CASE job[j].todo \ {f} = {}
    BY <1>2, <1>3, <1>4, <1>6, <1>7, <2>1, <2>2, <2>3, <2>4 DEF JobTracked
  <2>5. CASE job[j].todo \ {f} # {}
    BY <1>2, <1>3, <1>4, <1>6, <1>7, <2>1, <2>2, <2>3, <2>5 DEF JobTracked
  <2> QED
    BY <2>4, <2>5
<1> QED
  BY <1>8, <1>9, <1>10, <1>11 DEF AllKept, Tracked, Promising

LEMMA WriteFailsStaysKept ==
  ASSUME Sound, LockInv, Typing, AllKept, NEW j \in Jobs, WriteFails(j)
  PROVE  AllKept'
<1>1. /\ job[j].pc = "write" /\ job' = [job EXCEPT ![j] = Idle]
      /\ tmp' = Cleaned(DOMAIN job[j].plan \ job[j].todo)
      /\ UNCHANGED <<files, bak, index, overlap, promised, doubt, current>>
  BY DEF WriteFails, Refuse, EndJob, server, history
<1>2. job[j].done = {}
  BY <1>1 DEF Typing, JobTyped, Renaming
<1>3. /\ \A k \in Jobs \ {j} : job'[k] = job[k]
      /\ job'[j].done = {} /\ job'[j].pc \notin Changing
  <2>1. Idle.pc = "idle" /\ Idle.done = {}
    BY DEF Idle
  <2> QED
    BY <1>1, <2>1 DEF Sound, Changing
<1>4. \A f \in DOMAIN files :
        \/ job[j].pc \in Changing /\ f \in DOMAIN job[j].plan
        \/ tmp'[f] = tmp[f]
  BY <1>1 DEF Cleaned, Sound, FilesSound, Changing
<1> QED
  BY <1>1, <1>2, <1>3, <1>4, QuietKept

LEMMA VerifyFailsStaysKept ==
  ASSUME Sound, LockInv, Typing, AllKept, NEW j \in Jobs, VerifyFails(j)
  PROVE  AllKept'
<1>1. /\ job[j].pc = "verify" /\ job' = [job EXCEPT ![j].pc = "restore"]
      /\ UNCHANGED <<files, tmp, bak, index, overlap, promised, doubt, current>>
  BY DEF VerifyFails, router, server, history
<1>2. GoesOn(j) /\ job'[j].pc = "restore" /\ job[j].pc \in Changing
  BY <1>1 DEF GoesOn, Sound, JobSound, Fields, Changing
<1>3. Alike
  BY <1>1, <1>2, NothingRenamed DEF GoesOn
<1>4. \A k \in Jobs \ {j} : JobTracked(k)' /\ JobPromises(k)'
  BY <1>1, <1>2, <1>3, AlikeOthers DEF GoesOn, AllKept
<1>5. Promised'
  BY <1>1, <1>3, AlikePromised DEF AllKept
<1>6. JobPromises(j)'
  BY <1>2, <1>3, AlikePromises DEF GoesOn, SamePlan, AllKept, Promising
<1>7. JobTracked(j)'
  <2>1. JobTracked(j)
    BY DEF AllKept, Tracked
  <2>2. \A g : Watched(g)' <=> Watched(g)
    BY <1>1 DEF Watched
  <2> QED
    BY <1>1, <1>2, <2>1, <2>2 DEF JobTracked, GoesOn
<1> QED
  BY <1>4, <1>5, <1>6, <1>7 DEF AllKept, Tracked, Promising

\* cp has run, mv has not: the backup is of a file that no job has renamed.
LEMMA ReplaceFailsStaysKept ==
  ASSUME Sound, LockInv, Typing, AllKept, NEW j \in Jobs, ReplaceFails(j)
  PROVE  AllKept'
<1>1. /\ job[j].pc = "replace" /\ job' = [job EXCEPT ![j].pc = "restore"]
      /\ UNCHANGED <<files, tmp, index, overlap, promised, doubt, current>>
  BY DEF ReplaceFails, server, history
<1>2. PICK f \in DOMAIN files : /\ f \in job[j].todo
                                /\ bak' = [bak EXCEPT ![f] = files[f]] \/ UNCHANGED bak
  BY DEF ReplaceFails, NextFile
<1>3. GoesOn(j) /\ job'[j].pc = "restore" /\ job[j].pc \in Changing
  BY <1>1 DEF GoesOn, Sound, JobSound, Fields, Changing
<1>4. /\ f \in DOMAIN job[j].plan
      /\ \A g \in DOMAIN files : g # f => bak'[g] = bak[g]
      /\ \A k \in Jobs : job'[k].done = job[k].done
  BY <1>2, <1>3, DoneIsPlanned DEF GoesOn, Sound, FilesSound
<1>5. JobTracked(j) /\ Tracked
  BY DEF AllKept, Tracked
<1>6. \A g : Watched(g)' <=> Watched(g)
  BY <1>1 DEF Watched
<1>7. Alike
  <2>1. Watched(f) => \A k \in Jobs : f \notin job[k].done
    <3> SUFFICES ASSUME Watched(f), NEW k \in Jobs PROVE f \notin job[k].done
      OBVIOUS
    <3>1. CASE k = j
      BY <1>1, <1>2, <1>4, <1>5, <3>1 DEF JobTracked
    <3>2. CASE k # j
      BY <1>3, <1>4, <1>5, <3>2, OwnDone
    <3> QED
      BY <3>1, <3>2
  <2>2. ASSUME NEW g \in DOMAIN files, Watched(g) PROVE Was'[g] = Was[g]
    <3>1. CASE g = f
      BY <1>1, <1>4, <2>1, <2>2, <3>1 DEF Was
    <3>2. CASE g # f
      BY <1>1, <1>4, <3>2 DEF Was
    <3> QED
      BY <3>1, <3>2
  <2> QED
    BY <1>1, <1>6, <2>2 DEF Alike
<1>8. \A k \in Jobs \ {j} : JobTracked(k)' /\ JobPromises(k)'
  BY <1>1, <1>3, <1>7, AlikeOthers DEF GoesOn, AllKept
<1>9. Promised'
  BY <1>1, <1>7, AlikePromised DEF AllKept
<1>10. JobPromises(j)'
  BY <1>3, <1>7, AlikePromises DEF GoesOn, SamePlan, AllKept, Promising
<1>11. JobTracked(j)'
  BY <1>1, <1>3, <1>5, <1>6 DEF JobTracked, GoesOn
<1> QED
  BY <1>8, <1>9, <1>10, <1>11 DEF AllKept, Tracked, Promising

\* The backup is the file as it was, and what takes its place is what was planned.
LEMMA ReplaceFileStaysKept ==
  ASSUME Sound, LockInv, Typing, AllKept, NEW j \in Jobs, ReplaceFile(j)
  PROVE  AllKept'
<1>1. PICK f \in DOMAIN files :
        /\ NextFile(j, f)
        /\ bak' = [bak EXCEPT ![f] = files[f]]
        /\ files' = [files EXCEPT ![f] = tmp[f]]
        /\ tmp' = [tmp EXCEPT ![f] = NoFile]
        /\ job' = Went(j, f, "verify", job[j].done \cup {f})
  BY DEF ReplaceFile
<1>2. /\ job[j].pc = "replace" /\ f \in job[j].todo
      /\ UNCHANGED <<index, overlap, promised, doubt, current>>
  BY <1>1 DEF ReplaceFile, NextFile, server, history
<1>3. /\ job[j].todo \subseteq DOMAIN job[j].plan /\ DOMAIN job[j].plan \subseteq DOMAIN files
      /\ f \in DOMAIN job[j].plan
  BY <1>2, DoneIsPlanned
<1>4. /\ \A k \in Jobs \ {j} : job'[k] = job[k]
      /\ job'[j].kind = job[j].kind /\ job'[j].arg = job[j].arg
      /\ job'[j].plan = job[j].plan /\ job'[j].saw = job[j].saw
      /\ job'[j].done = job[j].done \cup {f}
      /\ job'[j].pc = IF job[j].todo \ {f} = {} THEN "verify" ELSE "replace"
      /\ job'[j].todo = job[j].todo \ {f}
  BY <1>1, <1>2 DEF Went, Sound, JobSound, Fields
<1>5. /\ DOMAIN files' = DOMAIN files
      /\ \A g \in DOMAIN files :
           /\ bak'[g] = IF g = f THEN files[f] ELSE bak[g]
           /\ files'[g] = IF g = f THEN tmp[f] ELSE files[g]
           /\ g # f => tmp'[g] = tmp[g]
  BY <1>1 DEF Sound, FilesSound
<1>6. JobTracked(j) /\ Tracked
  BY DEF AllKept, Tracked
<1>7. \A g : Watched(g)' <=> Watched(g)
  BY <1>2, <1>5 DEF Watched
<1>8. job[j].pc \in Changing /\ job'[j].pc \in Changing
  BY <1>2, <1>4 DEF Changing
<1>9. Watched(f) => f \notin job[j].done /\ tmp[f] = job[j].plan[f]
  BY <1>2, <1>3, <1>6 DEF JobTracked
<1>10. Alike
  <2>1. Watched(f) => \A k \in Jobs : f \notin job[k].done
    <3> SUFFICES ASSUME Watched(f), NEW k \in Jobs, k # j PROVE f \notin job[k].done
      BY <1>9
    <3> QED
      BY <1>3, <1>6, <1>8, OwnDone
  <2>2. ASSUME NEW g \in DOMAIN files, Watched(g) PROVE Was'[g] = Was[g]
    <3>1. CASE g = f
      <4>1. Was'[g] = bak'[g]
        BY <1>4, <1>5, <3>1 DEF Was
      <4>2. Was[g] = files[g]
        BY <2>1, <2>2, <3>1 DEF Was
      <4> QED
        BY <1>5, <3>1, <4>1, <4>2
    <3>2. CASE g # f
      <4>1. (\E k \in Jobs : g \in job'[k].done) <=> (\E k \in Jobs : g \in job[k].done)
        BY <1>4, <3>2
      <4> QED
        BY <1>5, <3>2, <4>1 DEF Was
    <3> QED
      BY <3>1, <3>2
  <2> QED
    BY <1>2, <1>5, <1>7, <2>2 DEF Alike
<1>11. \A k \in Jobs \ {j} : JobTracked(k)' /\ JobPromises(k)'
  <2>1. \A k \in Jobs \ {j} : job'[k] = job[k]
    BY <1>4
  <2>2. \A g \in DOMAIN files :
          \/ job[j].pc \in Changing /\ g \in DOMAIN job[j].plan
          \/ tmp'[g] = tmp[g] /\ files'[g] = files[g]
    BY <1>3, <1>5, <1>8
  <2>3. Tracked /\ Promising
    BY DEF AllKept
  <2> QED
    BY <1>10, <2>1, <2>2, <2>3, AlikeOthers
<1>12. Promised'
  BY <1>2, <1>10, AlikePromised DEF AllKept
<1>13. JobPromises(j)'
  BY <1>4, <1>8, <1>10, AlikePromises DEF SamePlan, AllKept, Promising
<1>14. JobTracked(j)'
  <2>1. IsKeenetic(files)' <=> IsKeenetic(files)
    BY <1>5 DEF IsKeenetic
  <2>2. ASSUME NEW g \in DOMAIN job[j].plan, Watched(g)
        PROVE  /\ \/ g \in job[j].todo \ job[j].done /\ tmp[g] = job[j].plan[g]
                  \/ g \in job[j].done \ job[j].todo
               /\ g \in job[j].done => files[g] = job[j].plan[g]
    BY <1>2, <1>6, <2>2 DEF JobTracked
  <2>3. ASSUME NEW g \in DOMAIN job[j].plan, Watched(g)
        PROVE  /\ \/ g \in job'[j].todo \ job'[j].done /\ tmp'[g] = job[j].plan[g]
                  \/ g \in job'[j].done \ job'[j].todo
               /\ g \in job'[j].done => files'[g] = job[j].plan[g]
    <3>1. CASE g = f
      BY <1>3, <1>4, <1>5, <1>9, <2>3, <3>1
    <3>2. CASE g # f
      BY <1>3, <1>4, <1>5, <2>2, <2>3, <3>2
    <3> QED
      BY <3>1, <3>2
  <2>4. job'[j].pc = "verify" => job'[j].todo = {}
    BY <1>4
  <2>5. job'[j].pc \in {"replace", "verify"}
    BY <1>4
  <2> QED
    BY <1>4, <1>6, <1>7, <1>8, <2>1, <2>3, <2>4, <2>5 DEF JobTracked
<1> QED
  BY <1>11, <1>12, <1>13, <1>14 DEF AllKept, Tracked, Promising

\* Job j has ended, and has touched no path it has not renamed.
Ended(j) ==
  /\ job[j].pc \in Changing
  /\ job'[j] = Idle
  /\ \A k \in Jobs \ {j} : job'[k] = job[k]
  /\ DOMAIN files' = DOMAIN files
  /\ \A f \in DOMAIN files : f \notin job[j].done => files'[f] = files[f]
  /\ \A f \in DOMAIN files : f \notin DOMAIN job[j].plan => tmp'[f] = tmp[f]
  /\ UNCHANGED <<bak, overlap>>

LEMMA EndedWas ==
  ASSUME LockInv, Typing, Tracked, NEW j \in Jobs, Ended(j), NEW f \in DOMAIN files, Watched(f)
  PROVE  Was'[f] = IF f \in job[j].done THEN files'[f] ELSE Was[f]
<1>1. job'[j].done = {}
  BY DEF Ended, Idle
<1>2. CASE f \in job[j].done
  <2>1. f \in DOMAIN job[j].plan
    BY <1>2, DoneIsPlanned
  <2>2. \A k \in Jobs \ {j} : f \notin job'[k].done
    BY <2>1, OwnDone DEF Ended
  <2> QED
    BY <1>1, <1>2, <2>2 DEF Was, Ended
<1>3. CASE f \notin job[j].done
  <2>1. (\E k \in Jobs : f \in job'[k].done) <=> (\E k \in Jobs : f \in job[k].done)
    BY <1>1, <1>3 DEF Ended
  <2> QED
    BY <1>3, <2>1 DEF Was, Ended
<1> QED
  BY <1>2, <1>3

\* Manual mode does not touch the sites of an OpenWrt, whatever comes in between.
LEMMA ManualPromises ==
  ASSUME Typing, NEW k \in Jobs, JobTracked(k)', job'[k].kind = "manual",
         DOMAIN files' = DOMAIN files, ~IsKeenetic(files), overlap'
  PROVE  JobPromises(k)'
<1> SUFFICES ASSUME job'[k].pc \in Changing PROVE JobPromises(k)'
  BY DEF JobPromises
<1>1. ~IsKeenetic(files')
  BY DEF IsKeenetic
<1>2. DOMAIN job'[k].plan = {"rc"}
  BY <1>1 DEF JobTracked
<1>3. "servers" \in DOMAIN files'
  BY OpenWrtPath
<1>4. /\ ~IsKeenetic(Goal(k)') /\ ~IsKeenetic(Was')
      /\ Goal(k)'["servers"] = Was'["servers"]
  BY <1>1, <1>2, <1>3 DEF Goal, Was, IsKeenetic
<1>5. ListDomains(Goal(k)') = ListDomains(Was')
  BY <1>4, SameServers
<1> QED
  BY <1>2, <1>5 DEF JobPromises, SitesAfter

\* The others, when j has ended: it had its paths to itself.
LEMMA EndedOthers ==
  ASSUME LockInv, Typing, Tracked, Promising, NEW j \in Jobs, Ended(j)
  PROVE  \A k \in Jobs \ {j} : JobTracked(k)' /\ JobPromises(k)'
<1> SUFFICES ASSUME NEW k \in Jobs \ {j} PROVE JobTracked(k)' /\ JobPromises(k)'
  OBVIOUS
<1>1. job'[k] = job[k] /\ DOMAIN files' = DOMAIN files /\ overlap' = overlap
  BY DEF Ended
<1>2. JobTracked(k)'
  <2>1. ASSUME NEW f \in DOMAIN job[k].plan, Watched(f), job[k].pc \in Changing
        PROVE  tmp'[f] = tmp[f] /\ files'[f] = files[f]
    <3>1. f \notin DOMAIN job[j].plan /\ f \in DOMAIN files
      BY <2>1, Exclusive, DoneIsPlanned DEF Ended
    <3>2. f \notin job[j].done
      BY <3>1, DoneIsPlanned
    <3> QED
      BY <3>1, <3>2 DEF Ended
  <2> QED
    BY <1>1, <2>1, OthersTracked
<1>3. JobPromises(k)'
  <2> SUFFICES ASSUME job[k].pc \in Changing PROVE JobPromises(k)'
    BY <1>1 DEF JobPromises
  <2>1. overlap /\ overlap'
    BY <1>1 DEF LockInv, Ended
  <2>2. CASE IsKeenetic(files)
    <3>1. IsKeenetic(files')
      BY <1>1, <2>2 DEF IsKeenetic
    <3>2. "servers" \in DOMAIN job'[k].plan =>
            LinesOf(job'[k].plan["servers"].section, job'[k].saw)
      BY <1>1 DEF Promising, JobPromises
    <3> QED
      BY <2>1, <3>1, <3>2 DEF JobPromises
  <2>3. CASE ~IsKeenetic(files) /\ job[k].kind = "manual"
    BY <1>1, <1>2, <2>1, <2>3, ManualPromises
  <2>4. CASE ~IsKeenetic(files) /\ job[k].kind # "manual"
    <3>1. job[j].kind = "manual"
      <4>1. Holds(k) /\ (job[j].kind # "manual" => Holds(j))
        BY <2>4 DEF Holds, Ended
      <4> QED
        BY <4>1 DEF LockInv
    <3>2. "servers" \notin job[j].done
      BY <2>4, <3>1, DoneIsPlanned DEF Tracked, JobTracked, Ended
    <3>3. \A f \in DOMAIN files : Watched(f)' => Was'[f] = Was[f]
      <4> SUFFICES ASSUME NEW f \in DOMAIN files, Watched(f)' PROVE Was'[f] = Was[f]
        OBVIOUS
      <4>1. f = "servers" /\ Watched(f)
        BY <1>1, <2>1 DEF Watched
      <4> QED
        BY <3>2, <4>1, EndedWas
    <3>4. Alike
      BY <1>1, <3>3 DEF Alike
    <3> QED
      BY <1>1, <3>4, AlikePromises DEF SamePlan, Promising
  <2> QED
    BY <2>2, <2>3, <2>4
<1> QED
  BY <1>2, <1>3

\* E-12: everything is as it was.
LEMMA RestoreStaysKept ==
  ASSUME Sound, LockInv, Typing, AllKept, NEW j \in Jobs, Restore(j)
  PROVE  AllKept'
<1>1. /\ job[j].pc = "restore" /\ job' = [job EXCEPT ![j] = Idle]
      /\ files' = [f \in DOMAIN files |-> IF f \in job[j].done THEN bak[f] ELSE files[f]]
      /\ tmp' = Cleaned(Leftover(j))
      /\ UNCHANGED <<bak, index, overlap, promised, doubt, current>>
  BY DEF Restore, Refuse, EndJob, server, history
<1>2. Ended(j)
  BY <1>1 DEF Ended, Changing, Cleaned, Leftover, Sound, FilesSound
<1>3. Tracked /\ Promising
  BY DEF AllKept
<1>4. Alike
  <2>1. ASSUME NEW f \in DOMAIN files, Watched(f) PROVE Was'[f] = Was[f]
    BY <1>1, <1>2, <1>3, <2>1, EndedWas, WasIs
  <2>2. \A f : Watched(f)' <=> Watched(f)
    BY <1>1 DEF Watched
  <2> QED
    BY <1>1, <2>1, <2>2 DEF Alike
<1>5. Promised'
  BY <1>1, <1>4, AlikePromised DEF AllKept
<1>6. \A k \in Jobs \ {j} : JobTracked(k)' /\ JobPromises(k)'
  BY <1>2, <1>3, EndedOthers
<1>7. JobTracked(j)' /\ JobPromises(j)'
  BY <1>2, IdleKept DEF Ended, Idle, Changing
<1> QED
  BY <1>5, <1>6, <1>7 DEF AllKept, Tracked, Promising

\* The file that holds the sites.
Place == IF IsKeenetic(files) THEN "routing" ELSE "servers"

LEMMA SamePlace ==
  ASSUME Typing, NEW g, NEW h,
         IsKeenetic(g) <=> IsKeenetic(files), IsKeenetic(h) <=> IsKeenetic(files),
         g[Place] = h[Place]
  PROVE  ListDomains(g) = ListDomains(h)
<1>1. CASE IsKeenetic(files)
  BY <1>1 DEF Place, ListDomains, KeeneticDomains
<1>2. CASE ~IsKeenetic(files)
  BY <1>2, SameServers DEF Place
<1> QED
  BY <1>1, <1>2

LEMMA PlaceIs ==
  ASSUME Typing
  PROVE  /\ Place \in DOMAIN files
         /\ \A paths \in SUBSET DOMAIN files :
              paths \cap {"routing", "servers"} = {} <=> Place \notin paths
         /\ ~IsKeenetic(files) \/ ~overlap => Watched(Place)
<1>1. CASE IsKeenetic(files)
  <2>1. "routing" \in DOMAIN files /\ "servers" \notin DOMAIN files
    BY <1>1, KindOfRouter DEF Typing, FilesTyped
  <2> QED
    BY <1>1, <2>1 DEF Place, Watched
<1>2. CASE ~IsKeenetic(files)
  <2>1. "servers" \in DOMAIN files /\ "routing" \notin DOMAIN files
    BY <1>2, OpenWrtPath
  <2> QED
    BY <1>2, <2>1 DEF Place, Watched
<1> QED
  BY <1>1, <1>2

\* A change that was cut off has its sites in place, or the old ones.
LEMMA HalfWay ==
  ASSUME Typing, Tracked, Promising, Promised, NEW j \in Jobs, Place \in job[j].done,
         ~IsKeenetic(files) \/ ~overlap, NEW new, DOMAIN new = DOMAIN files,
         new[Place] \in {files[Place], bak[Place]}
  PROVE  ListDomains(new) \in
           {promised.sites, SitesAfter(job[j].kind, job[j].arg, promised.sites)}
<1>1. /\ Place \in DOMAIN files /\ Watched(Place)
      /\ Place \in DOMAIN job[j].plan /\ job[j].pc \in Changing
  BY PlaceIs, DoneIsPlanned
<1>2. Was[Place] = bak[Place] /\ Goal(j)[Place] = files[Place]
  <2>1. files[Place] = job[j].plan[Place]
    BY <1>1 DEF Tracked, JobTracked
  <2> QED
    BY <1>1, <2>1, WasIs, GoalIs
<1>3. IsKeenetic(new) <=> IsKeenetic(files)
  BY DEF IsKeenetic
<1>4. ListDomains(new) \in {ListDomains(Goal(j)), ListDomains(Was)}
  BY <1>2, <1>3, SamePlace, WasIs, GoalIs
<1>5. /\ ListDomains(Was) = promised.sites
      /\ ListDomains(Goal(j)) = SitesAfter(job[j].kind, job[j].arg, ListDomains(Was))
  BY <1>1 DEF Promised, Promising, JobPromises
<1> QED
  BY <1>4, <1>5

\* When nobody was told what the files hold.
LEMMA UnknownPromised ==
  ASSUME Typing, Tracked, Promising, Promised, NEW begun \in SUBSET Jobs,
         DOMAIN files' = DOMAIN files, overlap' = overlap,
         Unknown(begun, files'),
         \A j \in begun : Place \in job[j].done => files'[Place] \in {files[Place], bak[Place]},
         ~IsKeenetic(files) \/ ~overlap =>
           Was'[Place] = IF \E j \in begun : Place \in job[j].done THEN files'[Place]
                         ELSE Was[Place]
  PROVE  Promised'
<1> DEFINE asked(j) == SitesAfter(job[j].kind, job[j].arg, promised.sites)
           moved == \E j \in begun : Place \in job[j].done
<1>1. \A j \in begun : job[j].done \cap {"routing", "servers"} # {} <=> Place \in job[j].done
  BY PlaceIs, DoneIsPlanned
<1>2. /\ DOMAIN promised' = {"sites", "games"}
      /\ promised'.sites = IF \E j \in begun : /\ Place \in job[j].done
                                               /\ ListDomains(files') = asked(j)
                           THEN ListDomains(files') ELSE promised.sites
      /\ "games" \in doubt' /\ "nodes" \in doubt' /\ ~current'
  BY <1>1 DEF Unknown
<1>3. /\ IsKeenetic(files') <=> IsKeenetic(files)
      /\ IsKeenetic(Was') <=> IsKeenetic(files)
      /\ IsKeenetic(Was) <=> IsKeenetic(files)
  BY DEF Was, IsKeenetic
<1>4. ASSUME ~IsKeenetic(files) \/ ~overlap
      PROVE  ListDomains(Was') = promised'.sites
  <2>1. CASE ~moved
    <3>1. ListDomains(Was') = ListDomains(Was)
      BY <1>3, <1>4, <2>1, SamePlace
    <3> QED
      BY <1>2, <1>4, <2>1, <3>1 DEF Promised
  <2>2. CASE moved
    <3>1. ListDomains(Was') = ListDomains(files')
      BY <1>3, <1>4, <2>2, SamePlace
    <3>2. PICK j \in begun : Place \in job[j].done
      BY <2>2
    <3>3. ListDomains(files') \in {promised.sites, asked(j)}
      BY <1>4, <3>2, HalfWay
    <3> QED
      BY <1>2, <3>1, <3>2, <3>3
  <2> QED
    BY <2>1, <2>2
<1> QED
  BY <1>2, <1>3, <1>4 DEF Promised

\* E-13: nobody was told what the files hold.
LEMMA RestoreFailsStaysKept ==
  ASSUME Sound, LockInv, Typing, AllKept, NEW j \in Jobs, RestoreFails(j)
  PROVE  AllKept'
<1>1. /\ job[j].pc = "restore" /\ job' = [job EXCEPT ![j] = Idle]
      /\ Unknown({j}, files')
      /\ tmp' = Cleaned(Leftover(j))
      /\ UNCHANGED <<bak, index, overlap>>
  BY DEF RestoreFails, EndJob, server
<1>2. PICK put \in SUBSET job[j].done :
        files' = [f \in DOMAIN files |-> IF f \in put THEN bak[f] ELSE files[f]]
  BY DEF RestoreFails
<1>3. Ended(j)
  BY <1>1, <1>2 DEF Ended, Changing, Cleaned, Leftover, Sound, FilesSound
<1>4. Tracked /\ Promising /\ Promised
  BY DEF AllKept
<1>5. \A f \in DOMAIN files : Watched(f) =>
        Was'[f] = IF f \in job[j].done THEN files'[f] ELSE Was[f]
  BY <1>3, <1>4, EndedWas
<1>6. /\ job[j].done \subseteq DOMAIN files
      /\ DOMAIN files' = DOMAIN files /\ overlap' = overlap
  BY <1>1, <1>2, DoneIsPlanned
<1>7. files'[Place] \in {files[Place], bak[Place]}
  BY <1>2, PlaceIs
<1>8. ~IsKeenetic(files) \/ ~overlap =>
        Was'[Place] = IF Place \in job[j].done THEN files'[Place] ELSE Was[Place]
  BY <1>5, PlaceIs
<1>9. Promised'
  BY <1>1, <1>4, <1>6, <1>7, <1>8, UnknownPromised
<1>10. \A k \in Jobs \ {j} : JobTracked(k)' /\ JobPromises(k)'
  BY <1>3, <1>4, EndedOthers
<1>11. JobTracked(j)' /\ JobPromises(j)'
  BY <1>3, IdleKept DEF Ended, Idle, Changing
<1> QED
  BY <1>9, <1>10, <1>11 DEF AllKept, Tracked, Promising

\* Done: the files are what the job wanted to make of them.
LEMMA DoneStaysKept ==
  ASSUME Sound, LockInv, Typing, AllKept, NEW j \in Jobs, Done(j)
  PROVE  AllKept'
<1>1. /\ job[j].pc = "verify" /\ job' = [job EXCEPT ![j] = Idle]
      /\ Promise(j)
      /\ current' = IF "servers" \in DOMAIN job[j].plan THEN job[j].saw = index ELSE current
      /\ UNCHANGED <<files, tmp, bak, index, overlap>>
  BY DEF Done, EndJob, router, server
<1>2. Ended(j)
  BY <1>1 DEF Ended, Changing, Sound
<1>3. Tracked /\ Promising /\ Promised
  BY DEF AllKept
<1>4. JobTracked(j) /\ JobPromises(j) /\ job[j].pc \in Changing
  BY <1>2, <1>3 DEF Tracked, Promising, Ended
<1>5. /\ DOMAIN Goal(j) = DOMAIN files /\ Goal(j) = [f \in DOMAIN files |-> Goal(j)[f]]
      /\ IsKeenetic(Goal(j)) <=> IsKeenetic(files)
      /\ \A f \in DOMAIN files :
           Goal(j)[f] = IF f \in DOMAIN job[j].plan THEN job[j].plan[f] ELSE Was[f]
  BY GoalIs
<1>6. /\ DOMAIN Was' = DOMAIN files /\ Was' = [f \in DOMAIN files |-> Was'[f]]
      /\ IsKeenetic(Was') <=> IsKeenetic(files)
  BY <1>1 DEF Was, IsKeenetic
<1>7. ASSUME NEW f \in DOMAIN files, Watched(f) PROVE Was'[f] = Goal(j)[f]
  <2>1. Was'[f] = IF f \in job[j].done THEN files[f] ELSE Was[f]
    BY <1>1, <1>2, <1>3, <1>7, EndedWas
  <2>2. CASE f \in DOMAIN job[j].plan
    BY <1>1, <1>4, <1>5, <1>7, <2>1, <2>2 DEF JobTracked
  <2>3. CASE f \notin DOMAIN job[j].plan
    BY <1>5, <2>1, <2>3, DoneIsPlanned
  <2> QED
    BY <2>2, <2>3
<1>8. ASSUME ~overlap PROVE Was' = Goal(j)
  <2>1. \A f \in DOMAIN files : Was'[f] = Goal(j)[f]
    BY <1>7, <1>8 DEF Watched
  <2> QED
    BY <1>5, <1>6, <2>1, SameFiles
<1>9. ASSUME ~IsKeenetic(files)
      PROVE  Was'["servers"] = Goal(j)["servers"] /\ ListDomains(Was') = ListDomains(Goal(j))
  <2>1. "servers" \in DOMAIN files
    BY <1>9, OpenWrtPath
  <2>2. Was'["servers"] = Goal(j)["servers"]
    BY <1>7, <2>1 DEF Watched
  <2> QED
    BY <1>5, <1>6, <1>9, <2>2, SameServers
<1>10. /\ DOMAIN promised' = {"sites", "games"}
       /\ promised'.sites = SitesAfter(job[j].kind, job[j].arg, promised.sites)
       /\ promised'.games = IF job[j].kind \in {"games", "manual"} THEN {job[j].arg}
                            ELSE promised.games
       /\ doubt' = doubt \ {job[j].kind}
  <2>1. DOMAIN promised = {"sites", "games"}
    BY <1>3 DEF Promised
  <2> QED
    BY <1>1, <2>1 DEF Promise, SitesAfter
<1>11. ~IsKeenetic(files)' \/ ~overlap' => ListDomains(Was') = promised'.sites
  <2> SUFFICES ASSUME ~IsKeenetic(files) \/ ~overlap PROVE ListDomains(Was') = promised'.sites
    BY <1>1
  <2>1. ListDomains(Was') = ListDomains(Goal(j))
    BY <1>8, <1>9
  <2>2. /\ ListDomains(Goal(j)) = SitesAfter(job[j].kind, job[j].arg, ListDomains(Was))
        /\ ListDomains(Was) = promised.sites
    BY <1>3, <1>4 DEF Promised, JobPromises
  <2> QED
    BY <1>10, <2>1, <2>2
<1>12. ~overlap' /\ "games" \notin doubt' => ReadGames(Was') = promised'.games
  <2> SUFFICES ASSUME ~overlap, "games" \notin doubt' PROVE ReadGames(Was') = promised'.games
    BY <1>1
  <2>1. ReadGames(Was') = IF job[j].kind \in {"games", "manual"} THEN {job[j].arg}
                          ELSE ReadGames(Was)
    BY <1>4, <1>8 DEF JobPromises
  <2>2. CASE job[j].kind \in {"games", "manual"}
    BY <1>10, <2>1, <2>2
  <2>3. CASE job[j].kind \notin {"games", "manual"}
    BY <1>3, <1>10, <2>1, <2>3 DEF Promised
  <2> QED
    BY <2>2, <2>3
<1>13. ~overlap' /\ "nodes" \notin doubt' => Consistent(Was')
  <2> SUFFICES ASSUME ~overlap, "nodes" \notin doubt' PROVE Consistent(Was')
    BY <1>1
  <2>1. job[j].kind = "nodes" \/ Consistent(Was)
    BY <1>3, <1>10 DEF Promised
  <2> QED
    BY <1>4, <1>8, <2>1 DEF JobPromises
<1>14. ~IsKeenetic(files)' /\ current' => LinesOf(Was'["servers"].section, index')
  <2> SUFFICES ASSUME ~IsKeenetic(files), current' PROVE LinesOf(Was'["servers"].section, index)
    BY <1>1
  <2>1. "servers" \in DOMAIN files
    BY OpenWrtPath
  <2>2. CASE "servers" \in DOMAIN job[j].plan
    <3>1. LinesOf(job[j].plan["servers"].section, index)
      BY <1>1, <1>4, <2>2 DEF JobPromises
    <3> QED
      BY <1>5, <1>9, <2>1, <2>2, <3>1
  <2>3. CASE "servers" \notin DOMAIN job[j].plan
    BY <1>1, <1>3, <1>5, <1>9, <2>1, <2>3 DEF Promised
  <2> QED
    BY <2>2, <2>3
<1>15. Promised'
  BY <1>10, <1>11, <1>12, <1>13, <1>14 DEF Promised
<1>16. \A k \in Jobs \ {j} : JobTracked(k)' /\ JobPromises(k)'
  BY <1>2, <1>3, EndedOthers
<1>17. JobTracked(j)' /\ JobPromises(j)'
  BY <1>2, IdleKept DEF Ended, Idle, Changing
<1> QED
  BY <1>15, <1>16, <1>17 DEF AllKept, Tracked, Promising

\* The server is stopped in the middle of a change; manual mode goes on.
LEMMA RestartStaysKept ==
  ASSUME Sound, LockInv, Typing, AllKept, ServerRestart
  PROVE  AllKept'
<1> DEFINE cut == {j \in Jobs : job[j].kind # "manual"}
           begun == {j \in cut : job[j].done # {}}
           renamed == UNION {job[j].done : j \in begun}
<1>1. /\ job' = [j \in Jobs |-> IF j \in cut THEN Idle ELSE job[j]]
      /\ IF begun = {} THEN current' = FALSE /\ UNCHANGED <<promised, doubt>>
         ELSE Unknown(begun, files)
      /\ UNCHANGED <<files, tmp, bak, overlap>>
  BY DEF ServerRestart, router
<1>2. /\ \A f \in renamed : \E k \in Jobs : job[k].kind # "manual" /\ f \in job[k].done
      /\ \A k \in Jobs : job[k].kind # "manual" => job[k].done \subseteq renamed
      /\ \A f : f \in renamed <=> \E k \in begun : f \in job[k].done
      /\ begun \in SUBSET Jobs /\ (begun = {} <=> renamed = {})
  OBVIOUS
<1>3. \A k \in Jobs : /\ job[k].kind # "manual" => job'[k] = Idle
                      /\ job[k].kind = "manual" => job'[k] = job[k]
  BY <1>1
<1> HIDE DEF renamed, cut, begun
<1>4. Idle.pc = "idle" /\ Idle.done = {} /\ Idle.kind = "none"
  BY DEF Idle
<1>5. Tracked /\ Promising /\ Promised
  BY DEF AllKept
<1>6. \A g : Watched(g)' <=> Watched(g)
  BY <1>1 DEF Watched
<1>7. \A k \in Jobs : JobTracked(k)'
  <2> SUFFICES ASSUME NEW k \in Jobs PROVE JobTracked(k)'
    OBVIOUS
  <2>1. CASE job[k].kind # "manual"
    BY <1>3, <1>4, <2>1, IdleKept DEF Changing
  <2>2. CASE job[k].kind = "manual"
    BY <1>1, <1>3, <1>5, <2>2, OthersTracked
  <2> QED
    BY <2>1, <2>2
<1>8. ASSUME NEW f \in DOMAIN files, f \notin renamed PROVE Was'[f] = Was[f]
  <2>1. (\E k \in Jobs : f \in job'[k].done) <=> (\E k \in Jobs : f \in job[k].done)
    BY <1>2, <1>3, <1>4, <1>8
  <2> QED
    BY <1>1, <2>1 DEF Was
<1>9. ASSUME NEW f \in DOMAIN files, f \in renamed, Watched(f) PROVE Was'[f] = files[f]
  <2>1. PICK k \in Jobs : job[k].kind # "manual" /\ f \in job[k].done
    BY <1>2, <1>9
  <2>2. job[k].pc \in Changing /\ f \in DOMAIN job[k].plan
    BY <2>1, DoneIsPlanned
  <2>3. \A l \in Jobs : f \notin job'[l].done
    BY <1>3, <1>4, <1>5, <1>9, <2>1, <2>2, OwnDone
  <2> QED
    BY <1>1, <2>3 DEF Was
<1>10. CASE renamed = {}
  <2>1. Alike
    BY <1>1, <1>8, <1>10 DEF Alike
  <2>2. ~current'
    BY <1>1, <1>2, <1>10
  <2>3. Promised'
    BY <1>1, <1>2, <1>5, <1>10, <2>1, <2>2, AlikePromised
  <2>4. \A k \in Jobs : JobPromises(k)'
    <3> SUFFICES ASSUME NEW k \in Jobs PROVE JobPromises(k)'
      OBVIOUS
    <3>1. CASE job[k].kind # "manual"
      BY <1>3, <1>4, <3>1, IdleKept DEF Changing
    <3>2. CASE job[k].kind = "manual"
      BY <1>3, <1>5, <2>1, <3>2, AlikePromises DEF SamePlan, Promising
    <3> QED
      BY <3>1, <3>2
  <2> QED
    BY <1>7, <2>3, <2>4 DEF AllKept, Tracked, Promising
<1>11. CASE renamed # {}
  <2>1. PICK c \in Jobs : job[c].kind # "manual" /\ job[c].pc \in Changing
    <3>1. PICK f \in renamed : TRUE
      BY <1>11
    <3> QED
      BY <1>2, <3>1, DoneIsPlanned
  <2>2. \A k \in Jobs : job[k].kind = "manual" /\ job[k].pc \in Changing => overlap
    BY <2>1 DEF LockInv
  <2>3. \A k \in Jobs : JobPromises(k)'
    <3> SUFFICES ASSUME NEW k \in Jobs PROVE JobPromises(k)'
      OBVIOUS
    <3>1. CASE job[k].kind # "manual"
      BY <1>3, <1>4, <3>1, IdleKept DEF Changing
    <3>2. CASE job[k].kind = "manual" /\ job[k].pc \notin Changing
      BY <1>3, <3>2 DEF JobPromises
    <3>3. CASE job[k].kind = "manual" /\ job[k].pc \in Changing
      <4>1. job'[k] = job[k] /\ overlap' /\ overlap
        BY <1>1, <1>3, <2>2, <3>3
      <4>2. CASE IsKeenetic(files)
        <5>1. "servers" \in DOMAIN job'[k].plan =>
                LinesOf(job'[k].plan["servers"].section, job'[k].saw)
          BY <1>5, <3>3, <4>1 DEF Promising, JobPromises
        <5> QED
          BY <1>1, <4>1, <4>2, <5>1 DEF JobPromises
      <4>3. CASE ~IsKeenetic(files)
        BY <1>1, <1>7, <3>3, <4>1, <4>3, ManualPromises
      <4> QED
        BY <4>2, <4>3
    <3> QED
      BY <3>1, <3>2, <3>3
  <2>4. Promised'
    <3>1. Unknown(begun, files') /\ DOMAIN files' = DOMAIN files /\ overlap' = overlap
      BY <1>1, <1>2, <1>11
    <3>2. ~IsKeenetic(files) \/ ~overlap =>
            Was'[Place] = IF \E k \in begun : Place \in job[k].done THEN files'[Place]
                          ELSE Was[Place]
      BY <1>1, <1>2, <1>8, <1>9, PlaceIs
    <3> QED
      BY <1>1, <1>2, <1>5, <3>1, <3>2, UnknownPromised
  <2> QED
    BY <1>7, <2>3, <2>4 DEF AllKept, Tracked, Promising
<1> QED
  BY <1>10, <1>11

LEMMA KeptInvariance == Spec => []AllKept
<1>1. Sound /\ LockInv /\ Typing /\ AllKept /\ [Next]_vars => AllKept'
  <2> SUFFICES ASSUME Sound, LockInv, Typing, AllKept, [Next]_vars PROVE AllKept'
    OBVIOUS
  <2>1. CASE Load \/ LoaderDownloads \/ Reload \/ UNCHANGED vars
    BY <2>1, LoaderStaysKept
  <2>2. CASE ServerRestart
    BY <2>2, RestartStaysKept
  <2>3. ASSUME NEW j \in Jobs, Request(j) PROVE AllKept'
    BY <2>3, RequestStaysKept
  <2>4. ASSUME NEW j \in Jobs, Step(j) PROVE AllKept'
    BY <2>4, QuietStepStaysKept, NothingToDoStaysKept, MakePlanStaysKept, WriteFileStaysKept,
       WriteFailsStaysKept, ReplaceFileStaysKept, ReplaceFailsStaysKept, DoneStaysKept,
       VerifyFailsStaysKept, RestoreStaysKept, RestoreFailsStaysKept DEF Step
  <2> QED
    BY <2>1, <2>2, <2>3, <2>4 DEF Next
<1> QED
  BY <1>1, InitKept, SoundInvariance, LockInvariance, TypingInvariance, PTL DEF Spec

LEMMA QuietWas == Typing /\ Quiet => Was = files
<1> SUFFICES ASSUME Typing, Quiet PROVE Was = files
  OBVIOUS
<1>1. \A k \in Jobs : job[k].done = {}
  BY DoneIsPlanned DEF Quiet
<1>2. \A f \in DOMAIN files : Was[f] = files[f]
  BY <1>1, WasIs
<1>3. files = [f \in DOMAIN files |-> files[f]]
  <2>1. files \in KeeneticFiles \/ files \in OpenWrtFiles
    BY DEF Typing, FilesTyped, RouterSets
  <2> QED
    BY <2>1 DEF KeeneticFiles, OpenWrtFiles
<1> QED
  BY <1>2, <1>3, WasIs, SameFiles

\* Sites and game ports are those the router was last said to have, whichever jobs, lists
\* of hosts, failures and restarts came in between (template.go:81-112, nodes.go:142-212,
\* domains.go:280-320): with any number of jobs, and beside manual mode as far as the
\* property says.
THEOREM PromisesAreKept == Spec => []SitesAndGamesKept
<1>1. Typing /\ AllKept => SitesAndGamesKept
  BY QuietWas DEF AllKept, Promised, SitesAndGamesKept
<1> QED
  BY <1>1, TypingInvariance, KeptInvariance, PTL

\* No rule leads to an outbound or a balancer that is not there (nodes.go:275-291,
\* domains.go:297-310, template.go:103-108).
THEOREM RulesMatchNodes == Spec => []BalancerMatchesNodes
<1>1. Typing /\ AllKept => BalancerMatchesNodes
  BY QuietWas DEF AllKept, Promised, BalancerMatchesNodes
<1> QED
  BY <1>1, TypingInvariance, KeptInvariance, PTL

\* When a change of servers.conf has been made with the list that is in memory, the lines
\* of every category are those of that list (domains.go:451-485).
THEOREM NoStaleLine == Spec => []LinesAreCurrent
<1>1. Typing /\ AllKept => LinesAreCurrent
  BY QuietWas DEF AllKept, Promised, LinesAreCurrent, LinesOf
<1> QED
  BY <1>1, TypingInvariance, KeptInvariance, PTL
=============================================================================
