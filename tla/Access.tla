------------------------------- MODULE Access -------------------------------
(***************************************************************************)
(* Who may talk to the server: the limiter of wrong codes (internal/auth), *)
(* resolve and the registration of routers (cmd/rt-server/main.go), and    *)
(* the codes the command line client remembers (cmd/router-toggle).        *)
(*                                                                         *)
(* resolve is two steps: Blocked, and the look at the code with Fail or    *)
(* Reset; the requests of other clients come in between.  A client asks    *)
(* one thing at a time.  Adding a router looks for its port, connects to   *)
(* it, which is slow, and inserts the row.                                 *)
(*                                                                         *)
(* The entries of a configuration file do not depend on each other: a      *)
(* client here is one of them.  The names say router or administrator.     *)
(*                                                                         *)
(* Time is counted from the first failure and to the end of the block: age *)
(* and left, in ticks.                                                     *)
(***************************************************************************)
EXTENDS Naturals, Sequences, FiniteSets

CONSTANTS
  Clients,    \* command line clients
  Addresses,  \* where requests come from
  Local,      \* of these the address of a proxy on the server itself
  Ports,      \* tunnel ports; each has a code of its own
  Registered, \* the router known at first
  Admin,      \* the code of the administrator
  Wrong,      \* codes that open nothing
  MaxFails, Window,  \* maxFails; blockFor and failsExpire
  Nobody      \* no counter, no entry

Codes == Ports \cup Wrong \cup {Admin}

ASSUME AccessAssumption ==
  /\ Local \in Addresses
  /\ Registered \in Ports
  /\ Admin \notin Ports \cup Wrong
  /\ Ports \cap Wrong = {}
  /\ MaxFails \in Nat \ {0, 1}
  /\ Window \in Nat \ {0}
  /\ Nobody \notin [n : Nat, age : Nat, left : 0..Window]

VARIABLES
  address,  \* where the requests of each client come from
  rows,     \* the ports of the routers table, in the order of their ids
  fails,    \* Limiter.fails
  call,     \* the request of each client on the server
  cli,      \* what each client is doing, and with which code
  entry     \* the entry in the configuration file of each client

accessVars == <<address, rows, fails, call, cli, entry>>

NoCall == [at |-> "none", path |-> "none", port |-> Registered]
Menu == [at |-> "menu", code |-> Admin]

Counters == [n : 0..(MaxFails - 1), age : 0..(Window + 1), left : 0..Window]
\* Whether the code was looked at when the entry was saved is history.
EntryOf == [code : Codes, name : {"", "router", "admin"}, seen : BOOLEAN]

AccessTypeOK ==
  /\ address \in [Clients -> Addresses]
  /\ rows \in Seq(Ports)
  /\ fails \in [Addresses -> Counters \cup {Nobody}]
  /\ call \in [Clients -> [at : {"none", "arrived", "let in", "connect", "cut"},
                           path : {"none", "status", "routers", "add"}, port : Ports]]
  /\ cli \in [Clients -> [at : {"menu", "status", "routers", "add"}, code : Codes]]
  /\ entry \in [Clients -> EntryOf \cup {Nobody}]
  /\ \A c \in Clients : (cli[c].at = "menu") = (call[c].at = "none")
  /\ fails[Local] = Nobody

\* A client starts with nothing, or with a code of the old format, without a name.
AccessInit ==
  /\ address \in [Clients -> Addresses]
  /\ rows = <<Registered>>
  /\ fails = [a \in Addresses |-> Nobody]
  /\ call = [c \in Clients |-> NoCall]
  /\ cli = [c \in Clients |-> Menu]
  /\ entry \in [Clients -> {[code |-> k, name |-> "", seen |-> TRUE] : k \in Codes} \cup {Nobody}]

Known(code) == code = Admin \/ \E i \in DOMAIN rows : rows[i] = code

-----------------------------------------------------------------------------
(* The limiter.                                                            *)

Expired(counter) == counter.age > Window
Blocked(a) == fails[a] # Nobody /\ fails[a].left > 0

\* Mutant of Fail: a counter that stands at zero is begun anew.
FailAfresh(a) ==
  fails' = [fails EXCEPT ![a] =
    IF @ = Nobody \/ Expired(@) \/ @.n = 0 THEN [n |-> 1, age |-> 0, left |-> 0]
    ELSE IF @.n + 1 >= MaxFails THEN [n |-> 0, age |-> 0, left |-> Window]
    ELSE [n |-> @.n + 1, age |-> @.age, left |-> @.left]]

Fail(a) ==
  fails' = [fails EXCEPT ![a] =
    IF @ = Nobody \/ Expired(@) THEN [n |-> 1, age |-> 0, left |-> 0]
    ELSE IF @.n + 1 >= MaxFails THEN [n |-> 0, age |-> 0, left |-> Window]
    ELSE [n |-> @.n + 1, age |-> @.age, left |-> @.left]]

Reset(a) == fails' = [fails EXCEPT ![a] = Nobody]

\* A proxy is not blocked, its answer is delayed.
Failed(c) == IF address[c] = Local THEN UNCHANGED fails ELSE Fail(address[c])

Tick ==
  /\ fails' = [a \in Addresses |->
       IF fails[a] = Nobody THEN Nobody
       ELSE [fails[a] EXCEPT !.age = IF @ > Window THEN @ ELSE @ + 1,
                             !.left = IF @ = 0 THEN 0 ELSE @ - 1]]
  /\ UNCHANGED <<address, rows, call, cli, entry>>

-----------------------------------------------------------------------------
(* The client.                                                             *)

Ask(c, path, code, port) ==
  /\ call' = [call EXCEPT ![c] = [at |-> "arrived", path |-> path, port |-> port]]
  /\ cli' = [cli EXCEPT ![c] = [at |-> path, code |-> code]]

Back(c) ==
  /\ call' = [call EXCEPT ![c] = NoCall]
  /\ cli' = [cli EXCEPT ![c] = Menu]

\* addEntry, of a client that has no entry yet.
AddEntry(c) ==
  /\ cli[c].at = "menu"
  /\ entry[c] = Nobody
  /\ \E code \in Codes : Ask(c, "status", code, Registered)
  /\ UNCHANGED <<rows, fails, entry>>

\* resolveEntries asks about an entry without a name at every start.
ResolveEntry(c) ==
  /\ cli[c].at = "menu"
  /\ entry[c] # Nobody
  /\ entry[c].name = ""
  /\ Ask(c, "status", entry[c].code, Registered)
  /\ UNCHANGED <<rows, fails, entry>>

\* addRouter, from the menu of the administrator.
AddRouter(c) ==
  /\ cli[c].at = "menu"
  /\ entry[c] # Nobody
  /\ entry[c].name = "admin"
  /\ \E port \in Ports : Ask(c, "add", entry[c].code, port)
  /\ UNCHANGED <<rows, fails, entry>>

\* -reset.
ResetConfig(c) ==
  /\ cli[c].at = "menu"
  /\ entry[c] # Nobody
  /\ entry' = [entry EXCEPT ![c] = Nobody]
  /\ UNCHANGED <<rows, fails, call, cli>>

Save(c, name, seen) ==
  entry' = [entry EXCEPT ![c] = [code |-> cli[c].code, name |-> name, seen |-> seen]]

\* Mutant of Conclude: an error of the second question is as good as none.
ConcludeAdmin(c, answer) ==
  CASE cli[c].at = "status" /\ answer = "ok" -> Save(c, "router", TRUE) /\ Back(c)
    [] cli[c].at = "status" /\ answer = "bad" ->
         Ask(c, "routers", cli[c].code, Registered) /\ UNCHANGED entry
    [] cli[c].at = "routers" -> Save(c, "admin", TRUE) /\ Back(c)
    [] cli[c].at = "add" \/ (cli[c].at = "status" /\ answer = "lost") ->
         Back(c) /\ UNCHANGED entry
    [] OTHER -> Save(c, "router", answer \in {"ok", "offline"}) /\ Back(c)

\* check, and what addEntry and resolveEntries make of it: a bad code may be the
\* administrator's; any other error of the server leaves the code a router's.
Conclude(c, answer) ==
  CASE cli[c].at = "status" /\ answer = "ok" -> Save(c, "router", TRUE) /\ Back(c)
    [] cli[c].at = "status" /\ answer = "bad" ->
         Ask(c, "routers", cli[c].code, Registered) /\ UNCHANGED entry
    [] cli[c].at = "routers" /\ answer = "ok" -> Save(c, "admin", TRUE) /\ Back(c)
    [] cli[c].at = "routers" /\ answer # "ok" ->
         entry' = [entry EXCEPT ![c] = Nobody] /\ Back(c)
    [] cli[c].at = "add" \/ (cli[c].at = "status" /\ answer = "lost") ->
         Back(c) /\ UNCHANGED entry
    [] OTHER -> Save(c, "router", answer \in {"ok", "offline"}) /\ Back(c)

-----------------------------------------------------------------------------
(* The server.                                                             *)

\* Before resolve: a client that is too old.
Outdated(c) ==
  /\ call[c].at = "arrived"
  /\ Conclude(c, "outdated")
  /\ UNCHANGED <<rows, fails>>

\* The connection breaks before the request is looked at or after; a router is
\* added all the same, which its client then does not hear.
Breaks(c) ==
  /\ \/ call[c].at \in {"arrived", "cut"} /\ UNCHANGED fails
     \/ call[c].at = "let in" /\ ~Known(cli[c].code) /\ Failed(c)
     \/ call[c].at = "let in" /\ Known(cli[c].code) /\ call[c].path # "add" /\ Reset(address[c])
  /\ Conclude(c, "lost")
  /\ UNCHANGED rows

\* Limiter.Blocked, which forgets a counter that has expired.
LetIn(c) ==
  /\ call[c].at = "arrived"
  /\ ~Blocked(address[c])
  /\ call' = [call EXCEPT ![c].at = "let in"]
  /\ LET a == address[c]
     IN  fails' = [fails EXCEPT ![a] = IF @ # Nobody /\ Expired(@) THEN Nobody ELSE @]
  /\ UNCHANGED <<rows, cli, entry>>

\* Mutant of TooManyAttempts: asking while blocked is one more failure.
TooManyAttemptsCounted(c) ==
  /\ call[c].at = "arrived"
  /\ Blocked(address[c])
  /\ fails' = [fails EXCEPT ![address[c]].left = Window]
  /\ Conclude(c, "blocked")
  /\ UNCHANGED rows

TooManyAttempts(c) ==
  /\ call[c].at = "arrived"
  /\ Blocked(address[c])
  /\ Conclude(c, "blocked")
  /\ UNCHANGED <<rows, fails>>

BadCode(c) ==
  /\ call[c].at = "let in"
  /\ ~Known(cli[c].code)
  /\ Failed(c)
  /\ Conclude(c, "bad")
  /\ UNCHANGED rows

\* The administrator asks for router 0, which is none; a client may not list routers.
Resolved(c) ==
  /\ call[c].at = "let in"
  /\ Known(cli[c].code)
  /\ call[c].path # "add"
  /\ Reset(address[c])
  /\ \/ (call[c].path = "routers") = (cli[c].code = Admin) /\ Conclude(c, "ok")
     \/ (call[c].path = "routers") # (cli[c].code = Admin) /\ Conclude(c, "bad")
     \/ call[c].path = "status" /\ cli[c].code # Admin /\ Conclude(c, "offline")
  /\ UNCHANGED rows

\* handleAddRouter: only the administrator may; the port is looked up before the
\* connection is made.
LookUpPort(c) ==
  /\ call[c].at = "let in"
  /\ Known(cli[c].code)
  /\ call[c].path = "add"
  /\ Reset(address[c])
  /\ IF cli[c].code # Admin \/ Known(call[c].port) THEN Conclude(c, "refused")
     ELSE call' = [call EXCEPT ![c].at = "connect"] /\ UNCHANGED <<cli, entry>>
  /\ UNCHANGED rows

RouterRefuses(c) ==
  /\ call[c].at = "connect"
  /\ Conclude(c, "refused")
  /\ UNCHANGED <<rows, fails>>

\* Mutant of InsertRow: the table does not ask for a new port.
InsertRowAgain(c) ==
  /\ call[c].at = "connect"
  /\ rows' = Append(rows, call[c].port)
  /\ Conclude(c, "ok")
  /\ UNCHANGED fails

\* tunnel_port is UNIQUE: the second insert fails.
InsertRow(c) ==
  /\ call[c].at = "connect"
  /\ \/ ~Known(call[c].port) /\ rows' = Append(rows, call[c].port) /\ Conclude(c, "ok")
     \/ Known(call[c].port) /\ UNCHANGED rows /\ Conclude(c, "internal")
  /\ UNCHANGED fails

\* A restarted server has an empty limiter; what it was doing for clients is gone.
LimiterRestart ==
  /\ fails' = [a \in Addresses |-> Nobody]
  /\ call' = [c \in Clients |->
       IF call[c].at = "none" THEN call[c] ELSE [call[c] EXCEPT !.at = "cut"]]
  /\ UNCHANGED <<rows, cli, entry>>

AccessNext ==
  /\ \/ \E c \in Clients :
          \/ AddEntry(c) \/ ResolveEntry(c) \/ AddRouter(c) \/ ResetConfig(c)
          \/ Outdated(c) \/ Breaks(c) \/ LetIn(c) \/ TooManyAttempts(c) \/ BadCode(c)
          \/ Resolved(c) \/ LookUpPort(c) \/ RouterRefuses(c) \/ InsertRow(c)
     \/ Tick \/ LimiterRestart
  /\ UNCHANGED address

AccessSpec == AccessInit /\ [][AccessNext]_accessVars /\ WF_accessVars(Tick)

-----------------------------------------------------------------------------
(* Properties.                                                             *)

\* A code the server has looked at is remembered as what it is: a router's only if
\* it opens a router, the administrator's only if it is (cmd/router-toggle/main.go:
\* 183-202, main.go:617-623).  A wrong code is remembered only when the server
\* answered something else before it looked, as when an address is blocked: two
\* questions, two failures, make up each wrong code.
RememberedCodesWork ==
  \A c \in Clients :
    entry[c] # Nobody /\ entry[c].name # "" /\ entry[c].seen =>
      (entry[c].name = "admin") = (entry[c].code = Admin) /\ Known(entry[c].code)

\* A block is lifted early only by a right code that was let in before it, or with the
\* server, whose limiter is in memory (auth.go:64-77); neither the wrong codes still
\* being looked at nor later requests shorten it (main.go:597-611, auth.go:79-115).
BlockHolds ==
  [][\A a \in Addresses :
       Blocked(a) /\ fails[a].left > 1 /\ ~Blocked(a)' =>
         \/ \E c \in Clients : address[c] = a /\ call[c].at = "let in" /\ Known(cli[c].code)
         \/ LimiterRestart]_accessVars

\* Each code opens one router, although a port is looked up long before it is
\* inserted (main.go:239-251, store.go:48).
OneRouterPerCode == \A i, k \in DOMAIN rows : rows[i] = rows[k] => i = k

\* A block ends, even if clients go on asking: refused requests do not count
\* (auth.go:79-110).
BlockEnds == \A a \in Addresses : Blocked(a) ~> ~Blocked(a)
=============================================================================
