# Verification of router-toggle

router-toggle lets the owner of home routers (Keenetic with xkeen, OpenWrt with
xray) switch a few things on them: game ports, the VPN, sites that go through
it, the nodes of a subscription. A server reaches the routers through reverse
SSH tunnels and edits their configuration files. What can go wrong is on the
way: an answer is lost, a restart fails half way, two jobs meet on one router,
a copy of a database row is old when it is used. These TLA+ modules model that
part of the code, TLC checks them on small instances and TLAPS proves the
safety properties for all parameters. `PROJECT.json` maps every definition to
the lines it stands for.

    tlc -config ApplyLossy.cfg ApplyPlan        # one run
    tlapm ApplyPlanProofs.tla                   # the proofs of one module

## Inventory

| component | code | state | operations | what makes it correct |
|---|---|---|---|---|
| applying a plan | `internal/router/apply.go`, `remotefile.go`, `controller.go` | the files of the router, `.rt-new`, `.rt-bak`; the lists `written`, `replaced` | `Apply`, `applyPlan`, `rollback` | all files or none, an old copy survives, the verdict is true, the service runs what is in the files |
| SSH connection | `internal/sshconn` | one connection, closed after a timeout | `Run`, `RunInput`, `Dial` | a command ends; after a timeout nothing more is sent |
| controllers | `keenetic.go`, `openwrt.go`, `nodes.go`, `domains.go`, `service.go` of `internal/router` | redirect rules, process, files | `Plan`, `ReadState`, `Restart`, `SetVPN`, `Reboot`, probes | a restart does not turn the VPN on; both game port files agree |
| locks and cooldown | `cmd/rt-server/config.go` | a channel per router, the time of the last reboot | `acquire`, `release`, `allow`, `mark` | one job per router, no leaked token, one reboot in ten minutes |
| handlers | `cmd/rt-server/main.go`, `domains.go`, `templates.go` | none of their own | status, apply, reboot, check, domains, templates, roll-outs, weekly refresh | order of lock, cooldown, connection, change, release |
| node synchronisation | `cmd/rt-server/sync.go` | a copy of the row | `syncRouter` and its four callers | the router ends up with the nodes of its subscription |
| choice of the main node | `sync.go`, `internal/nodes` | primary and preferred tag | `pickPrimary`, `Main`, `Backup` | margins, no flapping |
| subscription parser | `internal/nodes` | none | `Fetch`, `Parse`, `Only`, `Hash`, JSON for xray | unique tags |
| store | `internal/store` | SQLite rows, state cache, audit log | one UPDATE per setter | columns belong together |
| state cache, status | `main.go` `readStates`, `store.go`, the menu of `cmd/router-toggle` | last known state, what a screen shows | `CachePut`, `CacheGet`, status, press of a button | a fresh answer is true, an old value does not stay |
| user domains, templates | `router/domains.go`, `router/template.go` and their handlers | a section of a file, `templates_dir` | add, remove, weekly refresh, upload, roll out | the user's sites, game ports and balancers survive |
| geosite | `internal/geosite` | index of categories, `dlc.dat` | download, `Load`, `Expand`, `Search` | lines are valid and those of the index |
| health checks, probes | `router/service.go`, `router/probe.go`, `sync.go` | a port, a file and an xray on the router | the probe script | tells of its own node, leaves nothing behind |
| authentication | `internal/auth`, `resolve` of `main.go` | failures per address | `Blocked`, `Fail`, `Reset` | a block holds and ends |
| notifications | `internal/notify` | time of the last message per key | `Send` | a lasting failure is told again |
| client, CLI, manual mode | `cmd/router-toggle`, `internal/client` | codes in a local file | menus, HTTP calls, `Apply` without the server | remembers only codes that work |
| texts, deployment | `internal/api`, `deploy` | none | none | not modelled |

They interact through three things: the files of a router (every change, the
manual mode and the probes), the row of a router in the store (synchronisation,
administration), and the lock of a router, which orders changes made through the
server but not reads, dry runs, health checks or manual mode.

The hard behaviours are partial effects of shell commands and lost answers,
rollback that itself fails, restarts of the server and reboots of the router in
the middle of a change, waiting for a lock with a copy of a row in hand, and
writes that bypass the lock. The list with lines is under `hazards` in
`PROJECT.json`.

## Modules

### ApplyPlan, AtomicChange

`ApplyPlan` is one router and any number of runs of `applyPlan`, one after
another. A command over SSH is one step with two or three outcomes:

* the router answers with status 0: the step named after the function
  (`Write`, `Check`, `Replace`, `Restart`, `Verify`, `Restore`, ...);
* the router answers with another status (`Refused`): the command may have had a
  part of its effect, e.g. `cp` of `cp -p path path.rt-bak && mv path.rt-new path`;
* `Unanswered` (constant `Lossy`): any part of the effect, up to all of it, has
  taken place, `Client.run` closed the connection after `commandTimeout`;
* `Unreachable`: the connection was gone, nothing happens on the router.

`First(f, S)` walks the plan in order. `Return` is the deferred cleanup of the
`.rt-new` files: `written` holds the files still to be removed, and is the list
of the code minus those. The variables `before`, `svc0` are history.

The service is `"up"`, `"off"` (no redirect rules) or `"down"` (rules, but no
process). The constant `Guarded` chooses between the two kinds of restart in the
code: `Keenetic.Restart` and `OpenWrt.Restart` look for redirect rules first and
do nothing when there are none; OpenWrt's `RestartProxy` and `RestartDNS` are
unconditional. `HalfRestarted` are the states a failed restart can leave: xkeen
stops before it starts, `nft flush` runs before `rc.local`.

Status 0 of a restart does not always mean that the files are in force.
`OpenWrt.Restart` answers with the status of the last command of `rc.local`, so that
a rule that nft refused or an xray that did not start goes unnoticed: `Confirms` is
FALSE for it. The other restarts end with a look at the process (`pidof`), which on
a router where a probe runs may be the xray of the probe: `Probed`. `Unnoticed` are
the states that pass for a restart under these two constants. The read-back
(`Verify`) reads the files and sees none of it.

A run that makes no plan, that finds files which contradict each other, or whose
empty plan is followed by a state that cannot be read, ends in `PlanFails`: an error
that has touched nothing.

The process can end at any step (`Crash`), the router can start again at any
step (`RouterReboot`; `handleReboot` lets go of the lock two seconds before the
router goes down), and between runs the VPN is switched (`SwitchVPN`).

`AtomicChange` is what a change promises: the value moves from old to wanted in
one step and the verdict tells which; only E-13 and an abandoned request leave
files in between. `ImplementsAtomicChange` substitutes the files when no run is
in progress, and the old ones during a run.

### RouterLocks

The lock of every router, the cooldown, and the handlers that change routers:
a request for one router, a roll-out over all of them (`handleTemplateApply`,
`handleSync`, `syncAll`, `refreshDomains`), a reboot. Time passes in ticks; a
waiting handler gives up after `LockWait` of them. `booted`, `unknown` and
`tooSoon` are history: when the router really took a reboot, and whether the
server knows of it. It does not if the answer was lost (the mark is set after
the answer, main.go:459) or if it was restarted since (the marks are in memory).
`RebootsAreSpaced` is about known reboots, because the code gives no more than
that; the comment at main.go:420 reads as if it did.

### Subscription, Nodes, NodeSelect

`Subscription` is `Parse` without the texts: a list of links, each with a host
label and whether it has the mark of `Only`, becomes a list of tags. Equal labels
get a suffix from the constant function `Suffixed`, which is injective but may
meet a label: `fi`, `fi`, `fi-2` give two nodes the tag `fi-2`. `TagsDiffer` says
that this is the only way. `Nodes` has the pure part of the choice: `Main`,
`Backup`, `PickPrimary` over a list of tags and the speeds of a subset of them (a
missing key of the Go map is 0; speeds are integers, so 1.3 is 13/10).
`NodeSelect` applies it again and again while the subscription and the preference
change. `MCRouter` has a host called like the renaming of another.

### Probes, MCRouter

`Probes`: the shell script of `probe.go` line by line, run by overlapping health
checks and measurements, each of which first tells every other xray to end. A kill
is a signal: an xray that listens goes on doing so for some time (`dying`), and while
it does, it satisfies the wait for the port, answers for the next node and keeps a new
xray from the port. `XrayEnds` is the end of it. A script may be ended by the router;
`have` changes under it when a synchronisation runs. History: `alone` says that a
script has met no other one, `clear` besides that no xray of an earlier script still
listened when it started its own. `LoneProbesAreTrue` is about the clear ones: the
code does not wait for the old xray to be gone, and a probe that meets one can give
the answer of another node.

`MCRouter` runs `RouterLocks`, `NodeSelect` and `Probes`. They share no state, so a
behaviour takes the steps of one of them (`part`) and the others rest: the product
of their state spaces would show nothing more. The fairness of the locks asks for
actions that are not enabled while they rest.

### NodeSync, MCNodeSync

One router, its row, its subscription in the panel, the goroutine of `syncLoop`
(`Loop`) and requests (`Handlers`). `job[h].rc` is the copy of the row every
caller passes to `syncRouter`. Steps are the points where the code reads or
writes shared state: fetch (which decides on "same"), acquire, connect, measure,
`SetPrimary`, apply, `SetNodesHash`. A dry run without measurement takes no lock.
`Conf(set)` stands for `set.Hash()` and for what the files hold, because both
are determined by the nodes and the main one. `ApplyNodes` is one step here;
`ApplyPlan` shows that it behaves like one when it does not end in E-13, which
leaves `Mixed`. `MCNodeSync` gives values to the answers of the panel.

### RouterFiles, Changes, MCChanges

`RouterFiles` has no state: it is what every plan makes of the files it has read.
Of a file it keeps what changes tell apart, e.g. of `05_routing.json` the template
it came from, whether the udp rule has the game ports, the user's entries, which
rules name the balancer and which nodes the balancer has. Every `Plan...` operator
is the editing of one Go function; `Changed` is the list of changes with different
contents, `Verified` of `Changes` its read-back.

`Changes` is every job that changes these files, at the same time: game ports,
sites, roll-out of a template, nodes, weekly refresh, under the lock of the
router; manual mode, a second process without the lock and with the same
`.rt-new` and `.rt-bak`; and beside them what plans are made from on the server,
the index with its loader and the template with its upload, written to a `.tmp`
that two uploads share. `applyPlan` is shortened to write, replace, verify,
restore, with failures the router reports; `ApplyPlan` has the lost answers.
History: `promised` is what the answers given so far say about sites and game
ports, `doubt` which of it a cut off or unrestored change has left open (`Unknown`:
of the sites only those a change that was cut off was to make may take the place of
the old ones, anything else still breaks the promise),
`overlap` and `clash` whether manual mode or a second upload came between,
`current` whether nothing has replaced the index since the last change of the
lines. `MCChanges` has one site, one category with a version that has a host
dnsmasq cannot take, two templates and two nodes.

### Access, Status, Notices, MCPanel

`Access`: `resolve` in two steps (`LetIn` is `Blocked`, then the code is looked at
with `Fail` or `Reset`), other clients in between; the registration of a router,
which looks for its port long before the row is inserted; and what the command
line client remembers of a code after its one or two questions. Some answers
come before the code is looked at (too old, blocked) and count as success for the
client; `seen` tells them apart. Observed on the way, and modelled as it is: when
only the second question of `check` fails, an administrator's entry is dropped.
`LimiterRestart` empties the limiter, which is in memory only, and cuts off what the
server was doing for clients.

`Status`: `readStates` reads and caches one value after the other without the
lock, changes take the lock and cache their value, a screen shows answers and its
buttons send the opposite. The router also changes by itself (a reboot turns the
VPN on) and by hand. `seen` is the history of a request: every value the router
had meanwhile.

`Notices`: marks by key, delivery by a goroutine that may lose the message, the
empty key that is never held back, and a restart that forgets the marks.

These three share no state either, and `MCPanel` composes them like `MCRouter`.

## Runs

| run | shows | bounds | states |
|---|---|---|---|
| `apply_checks` | atomic, true verdicts, checks first, service back after E-12, the inductive invariant | 2 files, contents good/good/refused by the remote check, crashes, unconditional restart, no lost answers | 1 200 000 |
| `apply_lossy` | old content kept, no third content, VPN stays off, success is in force, runs end | 2 files, contents good/good/rejected by `Validate`, lost answers, crashes, reboots, guarded restart that looks for the process | 600 000 |
| `router` | exclusion, tokens, cooldown, termination; tags, margins, no flapping, backup; probes | 2 routers, 2 handlers, 2 ticks each; 3 links, 2 hosts, 5 tags, speeds 0, 10, 12, 13, 20; 2 scripts, 2 nodes of which one works | 485 000 |
| `changes` | sites, game ports, balancers kept; lines valid and current; templates whole | 2 jobs at a time, 3 in all (a choice in manual mode counts twice), 1 failed restore or restart | 1 280 000 |
| `panel` | codes, blocks, fresh answers, cache, messages | 2 clients at 2 addresses, 3 failures, 2 ticks; 2 screens, 2 values; 2 keys | 166 000 |
| `sync_converges` | the router gets its nodes in the end | 2 nodes, 1 request at a time beside the nightly loop, 2 disturbances | 360 000 |
| `apply_lost_rename` | finding: E-12 with a new file in place | as above | |
| `apply_half_restart` | finding: E-12 with the VPN gone | | |
| `apply_nothing_to_change` | finding: success without the restart that a crash prevented | | |
| `apply_rules_missing` | finding: success although rules or process are missing, where the restart is `rc.local` | | |
| `sync_dry_race` | finding: `nodes_hash` of nodes that are not on the router | | |
| `sync_preference` | finding: the preferred node is left without a measurement | | |

Why the bounds are enough. No plan in the code has more than two files (two:
game ports and nodes on Keenetic, keenetic.go:77 and nodes.go:172; one: everything
on OpenWrt, the domains and the templates), and two are needed for a rename that
fails after another one succeeded. Two contents suffice for old and new, a third
for one the checks reject. Two handlers suffice to compete for a lock, two routers
for a roll-out that waits for one while nothing of the other is held. Lists of
three nodes distinguish main, preferred and another. `Budget` bounds requests,
changes of the panel, failures and restarts in NodeSync; nightly synchronisations
and weeks are unbounded.

In `changes` three jobs are needed for one that prepares a case (sites, nodes) and
two that meet in it, one fault for a restart or a failed restore between any two
steps. `SYMMETRY` is over jobs, which are interchangeable. The `VIEW` leaves out
the `.rt-new` and `.rt-bak` that nobody reads before they are written again:
`RestoreFails` and `Restore` read the backups of `done`, `ReplaceFile` the
`.rt-new` of `todo` after its own run has written it, and `ReplaceFails` may
happen whether or not a `.rt-new` is there. So what is left out are the `.rt-new` of a
run that was stopped, which the next run overwrites in `WriteFile` before it renames, and
the `.rt-bak` of a run that is over, which the next run makes anew with each rename.

In `panel` two clients are enough for a request that is let in while another one
begins or lifts a block; two failures of three are not yet a block and the third
is. Two values show a status whose second read is later than a change. In `router`
two scripts are all that two concurrent checks need to end each other, and their
xrays leave enough that are ending.

`CHECK_DEADLOCK FALSE` is set for two modules that really stop: a router without
subscription when the budget is spent (NodeSync), and jobs when the bounds are used
up (Changes).

Several properties except a harm that the code does not prevent. None of them says
anything about these cases, and the hazards in `PROJECT.json` say so:

* `SitesAndGamesKept` and `BalancerMatchesNodes` do not hold on a Keenetic after
  manual mode met a job of the server (`overlap`): one file has everything there.
* `BalancerMatchesNodes`, and the game ports in `SitesAndGamesKept`, leave open what a
  run that was cut off between two files, or could not be put back, has left
  (`doubt`), until the next change of the same kind.
* `LinesAreCurrent` is about lists built after the index they are compared with
  (`current`). A template rolled out before `dlc.dat` is loaded empties the
  categories, and reports success; these empty lines are the current ones.
* `TemplateIsWhole` is about one upload at a time (`clash`).
* `RememberedCodesWork` is about codes the server has looked at (`seen`).
* `BlockHolds` ends with the memory of the server.
* `LoneProbesAreTrue` is about probes that meet neither another script nor an xray that
  is still ending (`clear`).
* `OkMeansInForce` is about restarts that look for the process, while no probe answers
  for it (`Confirms`, `~Probed`).

Every property of a passing run is shown to be able to fail: the operators
introduced by "Mutant of" replace the definition after them one at a time
(`mutants` in `PROJECT.json`).

## Fairness

Weak fairness only, and only for what the code itself drives: the goroutine of
a request takes its next step (every command is answered or given up after
`commandTimeout`, the wait for a lock ends after `lockWait`), time passes,
`syncLoop` comes back every day and a week ends. There is no fairness on
acquiring a lock, on requests, on failures or on the panel: a handler may lose
the race for a lock for ever and is still answered.

`Converges` is `[]<>InSync`: in an execution the budget of disturbances is spent
at some time, and from then on nights bring the router back. It relies on the
weekly measurement: it is the only nightly path that does not trust
`nodes_hash` (sync.go:299). The mutant without it stays out of sync for ever.

`BlockEnds` needs time only (`Tick`): clients may ask as often as they like.
`CacheCatchesUp` needs that requests go on (`Progress`), that the router rests from
some time on and that some screen is answered for ever; both are premises of the
property, not fairness. `FailuresAreToldAgain` needs time and a goroutine that
ends, delivered or not; that the failure keeps being reported is its premise.
`Changes` and `Probes` have no liveness properties and no fairness.

## Proofs

Proved for every value of the constants, under the named assumptions of the
modules:

| module | theorems |
|---|---|
| `ApplyPlanProofs` | `TypeCorrect`, `OldContentIsKept`, `NoThirdContentInPlace`, `ChecksPrecedeRenames`, `VerdictIsTrue`, `RollbackIsTrue`, `VPNStaysOff`, `SuccessIsInForce`, `RollbackRunsAgain`, `RefinesAtomicChange` |
| `RouterLocksProofs` | `LocksTypes`, `MutualExclusion`, `CooldownHolds`, `RebootSpacing` |
| `NodesProofs` | lemmas on `Main`, `Backup`, `Best` and `PickPrimary` for the next two |
| `NodeSelectProofs` | `RenamedTagsDiffer`, `SelectTypes`, `BackupDiffers`, `ChoiceIsGood`, `ChoiceIsStable`, `SwitchesHaveMargin` |
| `NodeSyncProofs` | `TypeCorrect`, `MeasuredNodes`, `HashDescribes` |
| `ChangesProofs` | `TypeCorrect`, `NoInvalidLine`, `NoTornTemplate`, `PromisesAreKept`, `RulesMatchNodes`, `NoStaleLine` |
| `RouterProofs` | `RouterTypes`, `RouterPartsRun`; `LoneProbes`, `NothingStays` (Probes) |
| `PanelProofs` | `TypeCorrect`, `PartsRun`; `RoutersAreUnique`, `RememberedCodes`, `BlocksHold` (Access), `FreshAnswers` (Status) |

Every invariant and every action property of a passing run is stated by one of
them. Five theorems need a hypothesis on the switches of the model, and for each a
run shows that it is needed or the code says why:

| theorem | hypothesis | without it |
|---|---|---|
| `RollbackIsTrue`, `RefinesAtomicChange` | `~Lossy`: no command that was carried out counts as failed | `apply_lost_rename`: E-12 with a new file in place |
| `SuccessIsInForce` | `Confirms`, `~Probed`: a restart looks for the process, and finds that of the service | `apply_rules_missing` |
| `RollbackRunsAgain` | `~Lossy`, `~Guarded`, `~Reboots`, `~Probed` | `apply_half_restart` |
| `HashDescribes` | no request that synchronises without the lock (`"dry"`, `"sub"`, `"auto"` are not in `Kinds`), `~Failures`, `~Crashes` | `sync_dry_race` for the first; a rollback that fails leaves other nodes than the hash names, and a restart may come between `ApplyNodes` and `SetNodesHash` (sync.go:353-374) |

### ApplyPlan

`ApplyPlanProofs` proves, for any number of files, any contents and checks, and
any combination of `Guarded`, `Confirms`, `Probed`, `Lossy`, `Crashes`, `Reboots`, that `IInv` is
inductive (`Invariance`), and from it `TypeCorrect`, `OldContentIsKept`,
`NoThirdContentInPlace`, `ChecksPrecedeRenames` and `VerdictIsTrue`.

None of the invariants is inductive alone. That the old content is in the file or
in its backup is disturbed by `Renamed` (the backup is overwritten) and
`PutBack` (the file is). The first is harmless because a file that has been
written but not replaced still holds its old content, the second because the
backup of a replaced file is that old content (`FilesInv`). `Books` says which of
the lists of the run are equal, included or empty at which point, `ChecksInv`
what has been checked: between the write of a file and its check it is the last
one written, so a file before it in the plan has passed. `VerdictInv` is the
rest. `StepKeeps` joins one lemma per action of `Next` (`WriteKeeps`, ...).

The three action properties about the service need `SvcInv` beside `IInv`: up to
the restart the service is as the run found it, unless the router has started
again, which costs the run its connection; at the read-back, with a connection,
it runs on the files in place or was off before. `RefinesAtomicChange` takes the
actions of `ApplyPlan` one by one: each is a step of `AtomicChange` under the
refinement mapping or leaves its variables alone. The fairness half of
`ImplementsAtomicChange` is left to TLC.

### RouterLocks

`RouterLocksProofs` proves mutual exclusion together with "the token is gone
exactly while somebody holds it", for any sets of routers and handlers
(`MutualExclusion`); that a cooldown in force was earned (`CooldownHolds`); and
that reboots are spaced (`RebootSpacing`). For the last one `Spacing` adds that
the mark is as old as the reboot where the server knows of it, and that a handler
past `allow` still finds it expired: it holds the token, so nobody else can have
marked it since.

### Nodes, NodeSelect, NodeSync

The choice of a node needs arithmetic that the definitions hide behind `CHOOSE`: a
list of n nodes has a fastest one (`GreatestValue`), each node has a place among
the marked ones (`Ranks`). Both come from one fact, that a set of naturals has a
least element (`LeastElement`), which `WFMin` of the library gives without
induction. `RenamedTagsDiffer` then says that two tags of `Parse` are equal only
if a label is a renaming, because the counts of equal labels differ and `Suffixed`
is injective. `Choosing` adds to the types that after a measurement the main node
is what `PickPrimary` made of these speeds and some earlier node; the properties
follow from `PickPrimary` being stable and never clearly beaten (`PickTwice`,
`PickIsGood`).

`TypeCorrect` of `NodeSyncProofs` needs `Typing`: a handler that is past its fetch
works on a list the panel may return, so that a hash written at the end is a hash
of such a list. `MeasuredNodes` adds that the node a measurement is about to store is
one of that list: `ChoiceFacts` says so of `PickPrimary`, and no other step changes
what a handler has measured.
`HashDescribes` rests on `Described`. A handler between `connect` and the end holds
the lock (`Honest`); at `sethash` the files are those it is about to describe;
and while nobody is at `sethash`, `nodes_hash` is empty or describes the files.
The steps that could break this are `Apply` and `SetNodesHash`, and the lock keeps
every other handler away from both.

### Changes

Four invariants, each of which rests on the ones before.

`Sound` says of every content in place, beside the files (if there is one), in a
backup a run in progress may restore, and in the plan of every job, that it may be
in place: no line dnsmasq cannot read, no template cut short unless two uploads
met. Nothing about the lock is needed, so manual mode and restarts of the server
are covered. A plan is sound because `Refused` checks the lines it would write
(`MakePlanKept`) and because only a roll-out changes the template a file came
from (`PlansKeep`).

`LockInv` says who may change files at a time: the job of the server that holds
the token, and manual mode beside it, which is what `overlap` records. `Typing`
is `TypeOK` with the types of plans and of the files a job left beside the real
ones.

`SitesAndGamesKept`, `BalancerMatchesNodes` and `LinesAreCurrent` speak of the
moments between changes (`Quiet`), so the invariant has to say what they mean
during one. `Was` is what the files would be if every change in progress were put
back: the backup where a rename was done, the file elsewhere. `Goal(j)` is what
job j will have made of `Was` when it is done. `AllKept` has three parts:
`Promised` states the properties of `Was`; `Promising` relates `Goal(j)` to `Was`
(a job that adds a site promises the sites of `Was` and that one, a roll-out
the same sites, and so on); `Tracked` says how far job j is with each path of
its plan, for the paths that only one job at a time can change (`Watched`). Every
step keeps `Was`: a rename moves the content from the file to the backup, a
rollback moves it back, another job works on other paths. Only `Done` replaces
`Was`, by `Goal(j)`, and at that moment `promised` becomes what the job promised. A
run that ends with an unknown result, or a server that restarts, makes of `Was` what
the files hold, with `doubt` about ports and nodes; the sites are in one file
(`Place`), so that they are those of `Was` or of `Goal(j)` (`HalfWay`), and one of
these two is what `Unknown` lets be promised. The lemmas on plans (`GamesPlan`,
`DomainsPlan`, `NodesPlan`, `TemplatePlan`) show that what each kind of change
plans from the files does what it promises; `WantedFits` joins them.

### The panel

`PanelProofs` has an invariant for each part, and `PartsRun`: a behaviour of the
run `panel` is a behaviour of every part, so what is proved of `AccessSpec`,
`StatusSpec` and `NoticesSpec` holds in it. `TypeCorrect` is the three together.
`RouterPartsRun` and `RouterTypes` of `RouterProofs` are the same for the run
`router`.

Access: `Asking` makes the request on the server and the state of the client agree
on the question, which `RememberedCodes` needs to know what an answer is about.
`BlocksHold` is an action property: `Counting` bounds the counters, and each
action that could unblock early is a reset by a known code that was let in.
`Bounded` keeps a counter below the number of failures that blocks, and a proxy on
the server without one.

Status: `Watching` says that what was read so far, and what the router is now, is
in the history of each request; every step of anybody that changes the router adds
to that history. `Locking` says that the lock belongs to the one change under way
and that no answer has more values than there are. It needs that the free lock is
no screen, which `ScreensAssumption` states.

### Probes

In `RouterProofs`, `Lone` gives a script that met no other one the file, and every
xray but those that were told to end; `Clear` says that a clear script finds none of
those either, because nobody is told to end before its own cleaning up. `Owned` gives
what is on the router to a script that will still clean up, unless one was killed, and
a lone script restores that. `OneListens` is the port, which an xray that is ending
still holds.

### Only model-checked

Liveness, which is out of the prover's reach: `RunEnds`, `EveryRequestEnds`,
`Converges`, `BlockEnds`, `CacheCatchesUp`, `FailuresAreToldAgain`, and the fairness
half of `ImplementsAtomicChange`. What the code is shown not to do (the expected
violations) is checked by definition.

## Not modelled

* `handleRename`, `handleRouterCode`, `handleRouterOwner`, the audit log, the
  search of categories, the owners' reports: one read or one UPDATE each, with
  nothing that depends on the order.
* Texts: vless links, JSON for xray, YAML, the protobuf decoder of `dlc.dat`,
  diffs and messages. Sequential parsers and generators with unit tests; the
  models have what the code reads back from them. Which domains are valid is the
  constant `Invalid`.
* A command that runs on after its timeout and takes effect in the next run: the
  effects of `ApplyPlan` are immediate.
* Redirect rules after a restart that ends with `pidof`: a process that is found
  counts as a service in force (`Confirms`), because the scripts of xkeen are not part
  of the repository. How long a probe's xray answers for the service is not modelled
  either: with `Probed` it may at any restart.
* Host keys, access codes as cryptography, HTTP, configuration files at start-up,
  the update check, the deployment scripts.

`PROJECT.json` has a line on each under `components`, and the reason for each
hazard without a property under `hazards`.
