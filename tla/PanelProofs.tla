----------------------------- MODULE PanelProofs -----------------------------
(***************************************************************************)
(* The parts around a change, for any clients, codes, screens, operations  *)
(* and failures.  Each part has its invariant; all of them together are    *)
(* the types of the run.                                                   *)
(***************************************************************************)
EXTENDS MCPanel, FiniteSetTheorems, TLAPS

-----------------------------------------------------------------------------
(***************************************************************************)
(* Access: one router per code, what clients remember of a code, and how a *)
(* block can end early.                                                    *)
(***************************************************************************)

\* What the three proofs need of the types.  The state of a client and its request
\* agree on the question.
Asking ==
  /\ address \in [Clients -> Addresses]
  /\ rows \in Seq(Ports)
  /\ call \in [Clients -> [at : {"none", "arrived", "let in", "connect", "cut"},
                           path : {"none", "status", "routers", "add"}, port : Ports]]
  /\ cli \in [Clients -> [at : {"menu", "status", "routers", "add"}, code : Codes]]
  /\ entry \in [Clients -> EntryOf \cup {Nobody}]
  /\ \A c \in Clients :
       call[c].at # "none" => call[c].path = cli[c].at /\ cli[c].at # "menu"
  /\ \A c \in Clients : call[c].at = "connect" => call[c].path = "add"

LEMMA InitAsking == AccessInit => Asking
<1> SUFFICES ASSUME AccessInit PROVE Asking
  OBVIOUS
<1>1. rows \in Seq(Ports)
  <2>1. <<Registered>> \in Seq(Ports)
    BY AccessAssumption
  <2> QED
    BY <2>1 DEF AccessInit
<1>2. NoCall \in [at : {"none", "arrived", "let in", "connect", "cut"},
                  path : {"none", "status", "routers", "add"}, port : Ports]
  BY AccessAssumption DEF NoCall
<1>3. Menu \in [at : {"menu", "status", "routers", "add"}, code : Codes]
  BY DEF Menu, Codes
<1>4. entry \in [Clients -> EntryOf \cup {Nobody}]
  <2>1. \A k \in Codes : [code |-> k, name |-> "", seen |-> TRUE] \in EntryOf
    BY DEF EntryOf
  <2> QED
    BY <2>1 DEF AccessInit
<1>5. \A c \in Clients : call[c].at = "none"
  BY DEF AccessInit, NoCall
<1> QED
  BY <1>1, <1>2, <1>3, <1>4, <1>5 DEF AccessInit, Asking

Answers == {"ok", "bad", "offline", "outdated", "lost", "blocked", "refused", "internal"}

LEMMA ConcludeKeeps ==
  ASSUME Asking, NEW c \in Clients, NEW answer \in Answers, Conclude(c, answer),
         address' = address, rows' \in Seq(Ports)
  PROVE  Asking'
<1>1. cli[c].code \in Codes /\ cli[c].at \in {"menu", "status", "routers", "add"}
  BY DEF Asking
<1>2. CASE Back(c) /\ entry' \in [Clients -> EntryOf \cup {Nobody}]
  BY <1>2, AccessAssumption DEF Back, Asking, NoCall, Menu, Codes
<1>3. CASE Ask(c, "routers", cli[c].code, Registered) /\ entry' = entry
  BY <1>1, <1>3, AccessAssumption DEF Ask, Asking
<1>4. ASSUME NEW name \in {"router", "admin"}, NEW told \in BOOLEAN, Save(c, name, told)
      PROVE  entry' \in [Clients -> EntryOf \cup {Nobody}]
  <2>1. [code |-> cli[c].code, name |-> name, seen |-> told] \in EntryOf
    BY <1>1 DEF EntryOf
  <2> QED
    BY <2>1, <1>4 DEF Save, Asking
<1>5. ASSUME entry' = [entry EXCEPT ![c] = Nobody]
      PROVE  entry' \in [Clients -> EntryOf \cup {Nobody}]
  BY <1>5 DEF Asking
<1>6. entry' = entry => entry' \in [Clients -> EntryOf \cup {Nobody}]
  BY DEF Asking
<1>7. \/ \E name \in {"router", "admin"}, told \in BOOLEAN : Save(c, name, told) /\ Back(c)
      \/ Ask(c, "routers", cli[c].code, Registered) /\ entry' = entry
      \/ entry' = [entry EXCEPT ![c] = Nobody] /\ Back(c)
      \/ Back(c) /\ entry' = entry
  <2>1. CASE cli[c].at = "status" /\ answer \in {"ok", "bad"}
    <3>1. answer = "ok" => Save(c, "router", TRUE) /\ Back(c)
      BY <2>1 DEF Conclude
    <3>2. answer = "bad" => Ask(c, "routers", cli[c].code, Registered) /\ entry' = entry
      BY <2>1 DEF Conclude
    <3> QED
      BY <2>1, <3>1, <3>2
  <2>2. CASE cli[c].at = "routers"
    <3>1. answer = "ok" => Save(c, "admin", TRUE) /\ Back(c)
      BY <2>2 DEF Conclude
    <3>2. answer # "ok" => entry' = [entry EXCEPT ![c] = Nobody] /\ Back(c)
      BY <2>2 DEF Conclude
    <3> QED
      BY <3>1, <3>2
  <2>3. CASE cli[c].at \notin {"routers"} /\ ~(cli[c].at = "status" /\ answer \in {"ok", "bad"})
    <3>1. cli[c].at = "add" \/ (cli[c].at = "status" /\ answer = "lost") =>
            Back(c) /\ entry' = entry
      BY <2>3 DEF Conclude
    <3>2. ~(cli[c].at = "add" \/ (cli[c].at = "status" /\ answer = "lost")) =>
            Save(c, "router", answer \in {"ok", "offline"}) /\ Back(c)
      BY <2>3 DEF Conclude
    <3>3. (answer \in {"ok", "offline"}) \in BOOLEAN
      OBVIOUS
    <3> QED
      BY <3>1, <3>2, <3>3
  <2> QED
    BY <2>1, <2>2, <2>3
<1> QED
  BY <1>2, <1>3, <1>4, <1>5, <1>6, <1>7

\* Every step of the system keeps the types.
LEMMA StepAsking == Asking /\ [AccessNext]_accessVars => Asking'
<1> SUFFICES ASSUME Asking, [AccessNext]_accessVars
             PROVE  Asking'
  OBVIOUS
<1>1. CASE UNCHANGED accessVars
  BY <1>1 DEF accessVars, Asking
<1>2. ASSUME NEW c \in Clients, address' = address,
             \/ AddEntry(c) \/ ResolveEntry(c) \/ AddRouter(c) \/ ResetConfig(c)
             \/ Outdated(c) \/ Breaks(c) \/ LetIn(c) \/ TooManyAttempts(c) \/ BadCode(c)
             \/ Resolved(c) \/ LookUpPort(c) \/ RouterRefuses(c) \/ InsertRow(c)
      PROVE  Asking'
  <2>1. CASE AddEntry(c) \/ ResolveEntry(c) \/ AddRouter(c)
    <3>1. PICK path \in {"status", "routers", "add"}, code \in Codes, port \in Ports :
            Ask(c, path, code, port)
      <4>1. entry[c] # Nobody => entry[c].code \in Codes
        BY DEF Asking, EntryOf
      <4> QED
        BY <2>1, <4>1, AccessAssumption DEF AddEntry, ResolveEntry, AddRouter
    <3>2. rows' = rows /\ entry' = entry
      BY <2>1 DEF AddEntry, ResolveEntry, AddRouter
    <3> QED
      BY <1>2, <3>1, <3>2 DEF Ask, Asking
  <2>2. CASE ResetConfig(c)
    BY <1>2, <2>2 DEF ResetConfig, Asking
  <2>3. CASE LetIn(c)
    BY <1>2, <2>3 DEF LetIn, Asking
  <2>4. CASE LookUpPort(c) /\ ~(cli[c].code # Admin \/ Known(call[c].port))
    <3>1. /\ call' = [call EXCEPT ![c].at = "connect"]
          /\ call[c].at = "let in" /\ call[c].path = "add"
          /\ cli' = cli /\ entry' = entry /\ rows' = rows
      BY <2>4 DEF LookUpPort
    <3> QED
      BY <1>2, <3>1 DEF Asking
  <2>5. rows' \in Seq(Ports)
    <3>1. CASE InsertRow(c)
      <4>1. call[c].port \in Ports /\ rows \in Seq(Ports)
        BY DEF Asking
      <4>2. Append(rows, call[c].port) \in Seq(Ports)
        BY <4>1
      <4> QED
        BY <3>1, <4>1, <4>2 DEF InsertRow
    <3>2. CASE ~InsertRow(c)
      <4>1. rows' = rows
        BY <1>2, <3>2 DEF AddEntry, ResolveEntry, AddRouter, ResetConfig, Outdated, Breaks,
             LetIn, TooManyAttempts, BadCode, Resolved, LookUpPort, RouterRefuses
      <4> QED
        BY <4>1 DEF Asking
    <3> QED
      BY <3>1, <3>2
  <2>6. ASSUME NEW answer \in Answers, Conclude(c, answer)
        PROVE  Asking'
    BY <1>2, <2>5, <2>6, ConcludeKeeps
  <2>7. CASE Outdated(c) \/ Breaks(c) \/ TooManyAttempts(c) \/ BadCode(c)
    <3>1. \E answer \in {"outdated", "lost", "blocked", "bad"} : Conclude(c, answer)
      BY <2>7 DEF Outdated, Breaks, TooManyAttempts, BadCode
    <3> QED
      BY <2>6, <3>1 DEF Answers
  <2>8. CASE Resolved(c) \/ RouterRefuses(c) \/ InsertRow(c)
    <3>1. \E answer \in Answers : Conclude(c, answer)
      BY <2>8 DEF Resolved, RouterRefuses, InsertRow, Answers
    <3> QED
      BY <2>6, <3>1
  <2>9. CASE LookUpPort(c) /\ (cli[c].code # Admin \/ Known(call[c].port))
    BY <2>6, <2>9 DEF LookUpPort, Answers
  <2> QED
    BY <1>2, <2>1, <2>2, <2>3, <2>4, <2>7, <2>8, <2>9
<1>3. CASE Tick /\ address' = address
  BY <1>3 DEF Tick, Asking
<1>4. CASE LimiterRestart /\ address' = address
  <2>1. \A c \in Clients :
          /\ call'[c] = IF call[c].at = "none" THEN call[c] ELSE [call[c] EXCEPT !.at = "cut"]
          /\ call[c] \in [at : {"none", "arrived", "let in", "connect", "cut"},
                         path : {"none", "status", "routers", "add"}, port : Ports]
    BY <1>4 DEF LimiterRestart, Asking
  <2>2. \A c \in Clients :
          /\ call'[c] \in [at : {"none", "arrived", "let in", "connect", "cut"},
                          path : {"none", "status", "routers", "add"}, port : Ports]
          /\ call'[c].path = call[c].path /\ call'[c].at \in {"none", "cut"}
          /\ call'[c].at # "none" => call[c].at # "none"
    BY <2>1
  <2>3. call' = [c \in Clients |-> call'[c]] /\ UNCHANGED <<rows, cli, entry>>
    BY <1>4 DEF LimiterRestart
  <2> QED
    BY <1>4, <2>2, <2>3 DEF Asking
<1> QED
  BY <1>1, <1>2, <1>3, <1>4 DEF AccessNext

\* A request asks what its client does, only one that adds a router connects to it, and
\* every entry of the limiter is one it can have made (cmd/router-toggle/main.go:183-202,
\* auth.go:79-115).
THEOREM AskingInvariance == AccessSpec => []Asking
<1>1. AccessInit => Asking
  BY InitAsking
<1>2. Asking /\ [AccessNext]_accessVars => Asking'
  BY StepAsking
<1> QED
  BY <1>1, <1>2, PTL DEF AccessSpec

-----------------------------------------------------------------------------
(* One router for each code.                                               *)

\* The rows stay as they are, or get one more at the end, with a port they did not have.
LEMMA RowsAreAdded ==
  ASSUME Asking, [AccessNext]_accessVars
  PROVE  \/ rows' = rows
         \/ \E port \in Ports : ~Known(port) /\ rows' = Append(rows, port)
<1>1. CASE UNCHANGED accessVars
  BY <1>1 DEF accessVars
<1>2. ASSUME NEW c \in Clients, InsertRow(c)
      PROVE  \/ rows' = rows
             \/ \E port \in Ports : ~Known(port) /\ rows' = Append(rows, port)
  BY <1>2 DEF InsertRow, Asking
<1>3. CASE AccessNext /\ ~(\E c \in Clients : InsertRow(c))
  BY <1>3 DEF AccessNext, AddEntry, ResolveEntry, AddRouter, ResetConfig, Outdated, Breaks,
       LetIn, TooManyAttempts, BadCode, Resolved, LookUpPort, RouterRefuses, Tick,
       LimiterRestart
<1> QED
  BY <1>1, <1>2, <1>3

\* Each code opens one router, whatever registrations are in progress
\* (main.go:239-251, store.go:48).
THEOREM RoutersAreUnique == AccessSpec => []OneRouterPerCode
<1>1. AccessInit => OneRouterPerCode
  <2>1. \A i, k \in DOMAIN <<Registered>> : i = k
    OBVIOUS
  <2> QED
    BY <2>1 DEF AccessInit, OneRouterPerCode
<1>2. ASSUME Asking, [AccessNext]_accessVars, OneRouterPerCode
      PROVE  OneRouterPerCode'
  <2>1. CASE rows' = rows
    BY <1>2, <2>1 DEF OneRouterPerCode
  <2>2. ASSUME NEW port \in Ports, ~Known(port), rows' = Append(rows, port)
        PROVE  OneRouterPerCode'
    <3>1. rows \in Seq(Ports)
      BY <1>2 DEF Asking
    <3>2. \A i \in DOMAIN rows : rows[i] # port
      BY <2>2 DEF Known
    <3>3. \A i \in DOMAIN rows' :
            (i \in DOMAIN rows /\ rows'[i] = rows[i]) \/ (i = Len(rows) + 1 /\ rows'[i] = port)
      BY <2>2, <3>1
    <3>4. \A i, k \in DOMAIN rows : rows[i] = rows[k] => i = k
      BY <1>2 DEF OneRouterPerCode
    <3>5. ASSUME NEW i \in DOMAIN rows', NEW k \in DOMAIN rows', rows'[i] = rows'[k]
          PROVE  i = k
      BY <3>2, <3>3, <3>4, <3>5
    <3> QED
      BY <3>5 DEF OneRouterPerCode
  <2> QED
    BY <1>2, <2>1, <2>2, RowsAreAdded
<1> QED
  BY <1>1, <1>2, AskingInvariance, PTL DEF AccessSpec

-----------------------------------------------------------------------------
(* What clients remember.                                                  *)

\* An entry is kept, dropped, or saved: with the name the code deserves if the
\* server has looked at it.
LEMMA EntriesChange ==
  ASSUME Asking, NEW c \in Clients,
         \/ AddEntry(c) \/ ResolveEntry(c) \/ AddRouter(c) \/ ResetConfig(c)
         \/ Outdated(c) \/ Breaks(c) \/ LetIn(c) \/ TooManyAttempts(c) \/ BadCode(c)
         \/ Resolved(c) \/ LookUpPort(c) \/ RouterRefuses(c) \/ InsertRow(c)
  PROVE  \/ entry' = entry
         \/ entry' = [entry EXCEPT ![c] = Nobody]
         \/ \E name \in {"router", "admin"}, told \in BOOLEAN :
              /\ Save(c, name, told)
              /\ told => Known(cli[c].code) /\ (name = "admin") = (cli[c].code = Admin)
<1> DEFINE Right == \/ entry' = entry
                    \/ entry' = [entry EXCEPT ![c] = Nobody]
                    \/ \E name \in {"router", "admin"}, told \in BOOLEAN :
                         /\ Save(c, name, told)
                         /\ told => Known(cli[c].code) /\ (name = "admin") = (cli[c].code = Admin)
<1>0. call[c].at # "none" => call[c].path = cli[c].at /\ cli[c].at \in {"status", "routers", "add"}
  BY DEF Asking
<1>1. ASSUME NEW answer \in {"outdated", "lost", "blocked", "bad", "refused", "internal"},
             Conclude(c, answer), call[c].at # "none"
      PROVE  Right
  <2>1. CASE cli[c].at = "status" /\ answer = "bad"
    BY <1>1, <2>1 DEF Conclude
  <2>2. CASE cli[c].at = "routers"
    BY <1>1, <2>2 DEF Conclude
  <2>3. CASE cli[c].at = "add" \/ (cli[c].at = "status" /\ answer = "lost")
    BY <1>1, <2>3 DEF Conclude
  <2>4. CASE cli[c].at = "status" /\ answer \notin {"bad", "lost"}
    <3>1. Save(c, "router", answer \in {"ok", "offline"})
      BY <1>1, <2>4 DEF Conclude
    <3>2. (answer \in {"ok", "offline"}) = FALSE
      BY <1>1
    <3> QED
      BY <3>1, <3>2
  <2> QED
    BY <1>0, <1>1, <2>1, <2>2, <2>3, <2>4
<1>2. CASE Resolved(c)
  <2>1. CASE cli[c].at = "status" /\ cli[c].code # Admin
    <3>1. Save(c, "router", TRUE)
      <4>1. Conclude(c, "ok") \/ Conclude(c, "offline")
        BY <1>0, <1>2, <2>1 DEF Resolved
      <4>2. ("offline" \in {"ok", "offline"}) = TRUE
        OBVIOUS
      <4> QED
        BY <2>1, <4>1, <4>2 DEF Conclude
    <3> QED
      BY <1>2, <2>1, <3>1 DEF Resolved
  <2>2. CASE cli[c].at = "status" /\ cli[c].code = Admin
    <3>1. Conclude(c, "bad")
      BY <1>0, <1>2, <2>2 DEF Resolved
    <3> QED
      BY <1>0, <1>1, <1>2, <3>1 DEF Resolved
  <2>3. CASE cli[c].at = "routers" /\ cli[c].code = Admin
    <3>1. Conclude(c, "ok")
      BY <1>0, <1>2, <2>3 DEF Resolved
    <3>2. Save(c, "admin", TRUE)
      BY <2>3, <3>1 DEF Conclude
    <3> QED
      BY <1>2, <2>3, <3>2 DEF Resolved
  <2>4. CASE cli[c].at = "routers" /\ cli[c].code # Admin
    <3>1. Conclude(c, "bad")
      BY <1>0, <1>2, <2>4 DEF Resolved
    <3> QED
      BY <1>0, <1>1, <1>2, <3>1 DEF Resolved
  <2> QED
    BY <1>0, <1>2, <2>1, <2>2, <2>3, <2>4 DEF Resolved
<1>3. CASE InsertRow(c)
  <2>1. cli[c].at = "add"
    BY <1>0, <1>3 DEF InsertRow, Asking
  <2>2. \E answer \in {"ok", "internal"} : Conclude(c, answer)
    BY <1>3 DEF InsertRow
  <2> QED
    BY <2>1, <2>2 DEF Conclude
<1>4. CASE Outdated(c) \/ Breaks(c) \/ TooManyAttempts(c) \/ BadCode(c) \/ RouterRefuses(c)
  <2>1. \E answer \in {"outdated", "lost", "blocked", "bad", "refused"} : Conclude(c, answer)
    BY <1>4 DEF Outdated, Breaks, TooManyAttempts, BadCode, RouterRefuses
  <2>2. call[c].at # "none"
    BY <1>4 DEF Outdated, Breaks, TooManyAttempts, BadCode, RouterRefuses
  <2> QED
    BY <1>1, <2>1, <2>2
<1>5. CASE LookUpPort(c)
  <2>1. Conclude(c, "refused") \/ entry' = entry
    BY <1>5 DEF LookUpPort
  <2>2. call[c].at # "none"
    BY <1>5 DEF LookUpPort
  <2> QED
    BY <1>1, <2>1, <2>2
<1>6. CASE AddEntry(c) \/ ResolveEntry(c) \/ AddRouter(c) \/ ResetConfig(c) \/ LetIn(c)
  BY <1>6 DEF AddEntry, ResolveEntry, AddRouter, ResetConfig, LetIn
<1> QED
  BY <1>2, <1>3, <1>4, <1>5, <1>6

\* RememberedCodesWork of one client.
Remembers(c) ==
  entry[c] # Nobody /\ entry[c].name # "" /\ entry[c].seen =>
    (entry[c].name = "admin") = (entry[c].code = Admin) /\ Known(entry[c].code)

\* A code the server has looked at is remembered as what it is: a router's opens a
\* router, the administrator's is his (cmd/router-toggle/main.go:183-202, main.go:617-623).
\* An entry that was saved on an answer given before any look, as to a blocked address
\* or to a client that is too old, is not claimed to open anything.
THEOREM RememberedCodes == AccessSpec => []RememberedCodesWork
<1>1. AccessInit => RememberedCodesWork
  <2>1. ASSUME AccessInit, NEW c \in Clients, entry[c] # Nobody
        PROVE  entry[c].name = ""
    <3>1. PICK k \in Codes : entry[c] = [code |-> k, name |-> "", seen |-> TRUE]
      BY <2>1 DEF AccessInit
    <3>2. [code |-> k, name |-> "", seen |-> TRUE].name = ""
      OBVIOUS
    <3> QED
      BY <3>1, <3>2
  <2> QED
    BY <2>1 DEF RememberedCodesWork
<1>2. ASSUME Asking, [AccessNext]_accessVars, RememberedCodesWork
      PROVE  RememberedCodesWork'
  <2>1. \A code \in Codes : Known(code) => Known(code)'
    <3>1. CASE rows' = rows
      BY <3>1 DEF Known
    <3>2. ASSUME NEW port \in Ports, rows' = Append(rows, port)
          PROVE  \A i \in DOMAIN rows : i \in DOMAIN rows' /\ rows'[i] = rows[i]
      <4>1. rows \in Seq(Ports)
        BY <1>2 DEF Asking
      <4> QED
        BY <3>2, <4>1
    <3>3. CASE \E port \in Ports : rows' = Append(rows, port)
      BY <3>2, <3>3 DEF Known
    <3> QED
      BY <1>2, <3>1, <3>3, RowsAreAdded
  <2>2. CASE entry' = entry
    BY <1>2, <2>1, <2>2 DEF RememberedCodesWork, Asking, EntryOf
  <2>3. ASSUME NEW c \in Clients, entry' = [entry EXCEPT ![c] = Nobody]
        PROVE  RememberedCodesWork'
    BY <1>2, <2>1, <2>3 DEF RememberedCodesWork, Asking, EntryOf
  <2>4. ASSUME NEW c \in Clients, NEW name \in {"router", "admin"}, NEW told \in BOOLEAN,
               Save(c, name, told),
               told => Known(cli[c].code) /\ (name = "admin") = (cli[c].code = Admin)
        PROVE  RememberedCodesWork'
    <3>1. cli[c].code \in Codes
      BY <1>2 DEF Asking
    <3>2. /\ entry'[c] = [code |-> cli[c].code, name |-> name, seen |-> told]
          /\ \A d \in Clients \ {c} : entry'[d] = entry[d]
      BY <1>2, <2>4 DEF Save, Asking
    <3>3. \A d \in Clients \ {c} : entry[d] # Nobody => entry[d].code \in Codes
      BY <1>2 DEF Asking, EntryOf
    <3>4. ASSUME NEW d \in Clients \ {c}
          PROVE  Remembers(d)'
      <4>1. Remembers(d)
        BY <1>2 DEF RememberedCodesWork, Remembers
      <4> QED
        BY <2>1, <3>2, <3>3, <4>1 DEF Remembers
    <3>5. Remembers(c)'
      <4>1. entry'[c].name = name /\ entry'[c].seen = told /\ entry'[c].code = cli[c].code
        BY <3>2
      <4>2. \A code \in Codes : code = cli[c].code /\ told => Known(code)'
        BY <2>1, <2>4
      <4>3. told => (entry'[c].name = "admin") = (entry'[c].code = Admin)
        BY <2>4, <4>1
      <4>4. told => Known(entry[c].code)'
        BY <3>1, <4>1, <4>2 DEF Known
      <4> QED
        BY <4>1, <4>3, <4>4 DEF Remembers
    <3> QED
      BY <3>4, <3>5 DEF RememberedCodesWork, Remembers
  <2>5. CASE UNCHANGED accessVars \/ Tick \/ LimiterRestart
    BY <2>2, <2>5 DEF accessVars, Tick, LimiterRestart
  <2> QED
    BY <1>2, <2>2, <2>3, <2>4, <2>5, EntriesChange DEF AccessNext
<1> QED
  BY <1>1, <1>2, AskingInvariance, PTL DEF AccessSpec

-----------------------------------------------------------------------------
(* The block of an address.                                                *)

CounterOf == [n : Nat, age : Nat, left : 0..Window]

\* A counter that blocks has not expired: the block and its age were begun together.
Counting ==
  /\ fails \in [Addresses -> CounterOf \cup {Nobody}]
  /\ \A a \in Addresses : fails[a] # Nobody /\ fails[a].left > 0 =>
       fails[a].age + fails[a].left <= Window

\* How a step treats the counter of an address.
Kept(a) == fails'[a] = fails[a]
Aged(a) ==
  /\ fails[a] \in CounterOf
  /\ fails'[a] \in CounterOf
  /\ fails'[a].age \in {fails[a].age, fails[a].age + 1}
  /\ fails'[a].left = IF fails[a].left = 0 THEN 0 ELSE fails[a].left - 1
Begun(a) ==
  /\ fails[a] = Nobody \/ Expired(fails[a])
  /\ fails'[a] = [n |-> 1, age |-> 0, left |-> 0]
Closed(a) == fails'[a] = [n |-> 0, age |-> 0, left |-> Window]
Counted(a) ==
  /\ fails[a] \in CounterOf
  /\ fails'[a] \in CounterOf
  /\ fails'[a].age = fails[a].age
  /\ fails'[a].left = fails[a].left
Forgotten(a) == fails'[a] = Nobody /\ (fails[a] = Nobody \/ Expired(fails[a]))
Opened(a) ==
  /\ fails'[a] = Nobody
  /\ \/ \E c \in Clients : address[c] = a /\ call[c].at = "let in" /\ Known(cli[c].code)
     \/ LimiterRestart

LEMMA FailCounts ==
  ASSUME Counting, NEW a \in Addresses, Fail(a)
  PROVE  /\ fails' = [b \in Addresses |-> fails'[b]]
         /\ Begun(a) \/ Closed(a) \/ Counted(a)
         /\ \A b \in Addresses \ {a} : Kept(b)
<1>1. fails = [b \in Addresses |-> fails[b]]
  BY DEF Counting
<1>2. /\ fails' = [b \in Addresses |-> fails'[b]]
      /\ \A b \in Addresses \ {a} : Kept(b)
  BY <1>1 DEF Fail, Kept
<1>3. CASE fails[a] = Nobody \/ Expired(fails[a])
  <2>1. fails'[a] = [n |-> 1, age |-> 0, left |-> 0]
    BY <1>1, <1>3 DEF Fail
  <2> QED
    BY <1>2, <1>3, <2>1 DEF Begun
<1>4. CASE ~(fails[a] = Nobody \/ Expired(fails[a])) /\ fails[a].n + 1 >= MaxFails
  <2>1. fails'[a] = [n |-> 0, age |-> 0, left |-> Window]
    BY <1>1, <1>4 DEF Fail
  <2> QED
    BY <1>2, <2>1 DEF Closed
<1>5. CASE ~(fails[a] = Nobody \/ Expired(fails[a])) /\ ~(fails[a].n + 1 >= MaxFails)
  <2>1. fails[a] \in CounterOf
    BY <1>5 DEF Counting
  <2>2. fails'[a] = [n |-> fails[a].n + 1, age |-> fails[a].age, left |-> fails[a].left]
    BY <1>1, <1>5 DEF Fail
  <2> QED
    BY <1>2, <2>1, <2>2 DEF Counted, CounterOf
<1> QED
  BY <1>2, <1>3, <1>4, <1>5

LEMMA CountersChange ==
  ASSUME Asking, Counting, [AccessNext]_accessVars
  PROVE  /\ fails' = [a \in Addresses |-> fails'[a]]
         /\ \A a \in Addresses :
              \/ Kept(a) \/ Aged(a) \/ Begun(a) \/ Closed(a) \/ Counted(a)
              \/ Forgotten(a) \/ Opened(a)
<1> DEFINE Changed ==
      /\ fails' = [a \in Addresses |-> fails'[a]]
      /\ \A a \in Addresses :
           \/ Kept(a) \/ Aged(a) \/ Begun(a) \/ Closed(a) \/ Counted(a)
           \/ Forgotten(a) \/ Opened(a)
<1>0. /\ fails = [a \in Addresses |-> fails[a]]
      /\ \A c \in Clients : address[c] \in Addresses
  BY DEF Asking, Counting
<1>1. CASE fails' = fails
  BY <1>0, <1>1 DEF Kept
<1>2. CASE Tick
  <2>1. fails' = [a \in Addresses |-> fails'[a]]
    BY <1>2 DEF Tick
  <2>2. ASSUME NEW a \in Addresses
        PROVE  Kept(a) \/ Aged(a)
    <3>1. CASE fails[a] = Nobody
      BY <1>2, <3>1 DEF Tick, Kept
    <3>2. CASE fails[a] # Nobody
      <4>1. fails[a] \in CounterOf
        BY <3>2 DEF Counting
      <4>2. fails'[a] = [fails[a] EXCEPT !.age = IF @ > Window THEN @ ELSE @ + 1,
                                         !.left = IF @ = 0 THEN 0 ELSE @ - 1]
        BY <1>2, <3>2 DEF Tick
      <4>3. /\ fails'[a].n = fails[a].n
            /\ fails'[a].age = IF fails[a].age > Window THEN fails[a].age ELSE fails[a].age + 1
            /\ fails'[a].left = IF fails[a].left = 0 THEN 0 ELSE fails[a].left - 1
            /\ fails'[a] = [n |-> fails'[a].n, age |-> fails'[a].age, left |-> fails'[a].left]
        BY <4>1, <4>2 DEF CounterOf
      <4>4. fails'[a].n \in Nat /\ fails'[a].age \in Nat /\ fails'[a].left \in 0..Window
        BY <4>1, <4>3, AccessAssumption DEF CounterOf
      <4> QED
        BY <4>1, <4>3, <4>4 DEF Aged, CounterOf
    <3> QED
      BY <3>1, <3>2
  <2> QED
    BY <2>1, <2>2
<1>3. ASSUME NEW c \in Clients, Failed(c)
      PROVE  Changed
  BY <1>0, <1>1, <1>3, FailCounts DEF Failed
<1>4. ASSUME NEW c \in Clients, Reset(address[c]), call[c].at = "let in", Known(cli[c].code)
      PROVE  Changed
  BY <1>0, <1>4 DEF Reset, Kept, Opened
<1>5. ASSUME NEW c \in Clients, LetIn(c)
      PROVE  Changed
  BY <1>0, <1>5 DEF LetIn, Kept, Forgotten
<1>6. ASSUME NEW c \in Clients, BadCode(c) \/ Breaks(c) \/ Resolved(c) \/ LookUpPort(c)
      PROVE  Changed
  BY <1>1, <1>3, <1>4, <1>6 DEF BadCode, Breaks, Resolved, LookUpPort
<1>7. ASSUME NEW c \in Clients,
             \/ AddEntry(c) \/ ResolveEntry(c) \/ AddRouter(c) \/ ResetConfig(c)
             \/ Outdated(c) \/ TooManyAttempts(c) \/ RouterRefuses(c) \/ InsertRow(c)
      PROVE  fails' = fails
  BY <1>7 DEF AddEntry, ResolveEntry, AddRouter, ResetConfig, Outdated, TooManyAttempts,
       RouterRefuses, InsertRow
<1>8. CASE UNCHANGED accessVars
  BY <1>1, <1>8 DEF accessVars
<1>9. CASE LimiterRestart
  <2>1. /\ fails' = [a \in Addresses |-> fails'[a]]
        /\ \A a \in Addresses : fails'[a] = Nobody
    BY <1>9 DEF LimiterRestart
  <2> QED
    BY <1>9, <2>1 DEF Opened
<1> QED
  BY <1>1, <1>2, <1>5, <1>6, <1>7, <1>8, <1>9 DEF AccessNext

LEMMA StepCounting ==
  ASSUME Asking, Counting, [AccessNext]_accessVars
  PROVE  Counting'
<1> DEFINE Fine(counter) ==
      counter # Nobody =>
        /\ counter \in CounterOf
        /\ counter.left > 0 => counter.age + counter.left <= Window
<1>1. ASSUME NEW a \in Addresses
      PROVE  Fine(fails'[a])
  <2>1. Fine(fails[a])
    BY DEF Counting
  <2>2. CASE Kept(a) \/ Forgotten(a) \/ Opened(a)
    BY <2>1, <2>2 DEF Kept, Forgotten, Opened
  <2>3. CASE Aged(a)
    <3>1. fails[a] # Nobody
      BY <2>3, AccessAssumption DEF Aged, CounterOf
    <3> QED
      BY <2>1, <2>3, <3>1, AccessAssumption DEF Aged, CounterOf
  <2>4. CASE Begun(a) \/ Closed(a)
    BY <2>4, AccessAssumption DEF Begun, Closed, CounterOf
  <2>5. CASE Counted(a)
    <3>1. fails[a] # Nobody
      BY <2>5, AccessAssumption DEF Counted, CounterOf
    <3> QED
      BY <2>1, <2>5, <3>1 DEF Counted
  <2> QED
    BY <2>2, <2>3, <2>4, <2>5, CountersChange
<1>2. fails' = [a \in Addresses |-> fails'[a]]
  BY CountersChange
<1> QED
  BY <1>1, <1>2 DEF Counting

\* A block ends early only when a right code that was let in before it is looked at, or
\* with the server (main.go:597-611, auth.go:64-115).
THEOREM BlocksHold == AccessSpec => BlockHolds
<1>1. AccessInit => Counting
  BY DEF AccessInit, Counting
<1>2. Asking /\ Counting /\ [AccessNext]_accessVars => Counting'
  BY StepCounting
<1>3. ASSUME Asking, Counting, [AccessNext]_accessVars, NEW a \in Addresses,
             Blocked(a), fails[a].left > 1, ~Blocked(a)'
      PROVE  \/ \E c \in Clients :
                  address[c] = a /\ call[c].at = "let in" /\ Known(cli[c].code)
             \/ LimiterRestart
  <2>1. /\ fails[a] # Nobody
        /\ fails[a] \in CounterOf
        /\ fails[a].age + fails[a].left <= Window
    BY <1>3 DEF Counting, Blocked
  <2>2. ~Expired(fails[a])
    BY <1>3, <2>1, AccessAssumption DEF Expired, CounterOf
  <2>3. fails'[a] = Nobody \/ ~(fails'[a].left > 0)
    BY <1>3 DEF Blocked
  <2>4. ~(fails'[a] \in CounterOf /\ fails'[a].left > 0)
    BY <2>3, AccessAssumption DEF CounterOf
  <2>5. ~Kept(a) /\ ~Counted(a)
    BY <1>3, <2>1, <2>4, AccessAssumption DEF Kept, Counted, CounterOf
  <2>6. ~Aged(a)
    BY <1>3, <2>1, <2>4 DEF Aged, CounterOf
  <2>7. ~Closed(a)
    <3>1. [n |-> 0, age |-> 0, left |-> Window] \in CounterOf
      BY AccessAssumption DEF CounterOf
    <3>2. [n |-> 0, age |-> 0, left |-> Window].left > 0
      BY AccessAssumption
    <3> QED
      BY <2>4, <3>1, <3>2 DEF Closed
  <2> QED
    BY <2>1, <2>2, <2>5, <2>6, <2>7, CountersChange, <1>3 DEF Begun, Forgotten, Opened
<1>4. Asking /\ Counting /\ [AccessNext]_accessVars =>
        [\A a \in Addresses :
           Blocked(a) /\ fails[a].left > 1 /\ ~Blocked(a)' =>
             \/ \E c \in Clients :
                  address[c] = a /\ call[c].at = "let in" /\ Known(cli[c].code)
             \/ LimiterRestart]_accessVars
  BY <1>3
<1> QED
  BY <1>1, <1>2, <1>4, AskingInvariance, PTL DEF AccessSpec, BlockHolds

-----------------------------------------------------------------------------
(* The types of Access.                                                    *)

\* Counters stay below the number of failures that blocks, and a client has a request
\* on the server exactly while it is not in its menu.
Bounded ==
  /\ fails \in [Addresses -> Counters \cup {Nobody}]
  /\ fails[Local] = Nobody
AtRest(c) == (cli[c].at = "menu") = (call[c].at = "none")

LEMMA CounterFacts ==
  /\ Nobody \notin Counters
  /\ [n |-> 1, age |-> 0, left |-> 0] \in Counters
  /\ [n |-> 0, age |-> 0, left |-> Window] \in Counters
  /\ \A k \in Counters : /\ k.n \in 0..(MaxFails - 1) /\ k.age \in 0..(Window + 1)
                         /\ k.left \in 0..Window
  /\ Local \in Addresses
<1>1. Counters \subseteq [n : Nat, age : Nat, left : 0..Window]
  BY AccessAssumption DEF Counters
<1>2. 1 \in 0..(MaxFails - 1) /\ 0 \in 0..(MaxFails - 1) /\ 0 \in 0..(Window + 1)
      /\ 0 \in 0..Window /\ Window \in 0..Window
  BY AccessAssumption
<1>3. Nobody \notin Counters /\ Local \in Addresses
  BY <1>1, AccessAssumption
<1> QED
  BY <1>2, <1>3 DEF Counters

LEMMA FailBounded ==
  ASSUME Bounded, NEW a \in Addresses, a # Local, Fail(a)
  PROVE  Bounded'
<1>1. CASE fails[a] = Nobody \/ Expired(fails[a])
  <2>1. fails' = [fails EXCEPT ![a] = [n |-> 1, age |-> 0, left |-> 0]]
    BY <1>1 DEF Fail, Bounded
  <2> QED
    BY <2>1, CounterFacts DEF Bounded
<1>2. CASE ~(fails[a] = Nobody \/ Expired(fails[a])) /\ fails[a].n + 1 >= MaxFails
  <2>1. fails' = [fails EXCEPT ![a] = [n |-> 0, age |-> 0, left |-> Window]]
    BY <1>2 DEF Fail, Bounded
  <2> QED
    BY <2>1, CounterFacts DEF Bounded
<1>3. CASE ~(fails[a] = Nobody \/ Expired(fails[a])) /\ ~(fails[a].n + 1 >= MaxFails)
  <2> DEFINE new == [n |-> fails[a].n + 1, age |-> fails[a].age, left |-> fails[a].left]
  <2>1. fails' = [fails EXCEPT ![a] = new]
    BY <1>3 DEF Fail, Bounded
  <2>2. fails[a] \in Counters
    BY <1>3 DEF Bounded
  <2>3. fails[a].n + 1 \in 0..(MaxFails - 1)
    BY <1>3, <2>2, CounterFacts, AccessAssumption
  <2>4. new \in Counters
    BY <2>2, <2>3, CounterFacts DEF Counters
  <2> HIDE DEF new
  <2> QED
    BY <2>1, <2>4, CounterFacts DEF Bounded
<1> QED
  BY <1>1, <1>2, <1>3

LEMMA StepBounded ==
  ASSUME Asking, Bounded, [AccessNext]_accessVars
  PROVE  Bounded'
<1>0. \A c \in Clients : address[c] \in Addresses
  BY DEF Asking
<1>1. CASE fails' = fails
  BY <1>1 DEF Bounded
<1>2. CASE Tick
  <2>1. ASSUME NEW a \in Addresses PROVE fails'[a] \in Counters \cup {Nobody}
    <3>1. CASE fails[a] = Nobody
      BY <1>2, <2>1, <3>1 DEF Tick
    <3>2. CASE fails[a] # Nobody
      <4>1. fails[a] \in Counters
        BY <2>1, <3>2 DEF Bounded
      <4>2. fails'[a] = [fails[a] EXCEPT !.age = IF @ > Window THEN @ ELSE @ + 1,
                                         !.left = IF @ = 0 THEN 0 ELSE @ - 1]
        BY <1>2, <2>1, <3>2 DEF Tick
      <4> DEFINE age == IF fails[a].age > Window THEN fails[a].age ELSE fails[a].age + 1
                 left == IF fails[a].left = 0 THEN 0 ELSE fails[a].left - 1
      <4>3. fails'[a] = [n |-> fails[a].n, age |-> age, left |-> left]
        BY <4>1, <4>2 DEF Counters
      <4>4. fails[a].n \in 0..(MaxFails - 1) /\ age \in 0..(Window + 1) /\ left \in 0..Window
        BY <4>1, CounterFacts, AccessAssumption
      <4> HIDE DEF age, left
      <4> QED
        BY <4>3, <4>4 DEF Counters
    <3> QED
      BY <3>1, <3>2
  <2>2. fails' = [a \in Addresses |-> fails'[a]] /\ fails'[Local] = Nobody
    BY <1>2, CounterFacts DEF Tick, Bounded
  <2> QED
    BY <2>1, <2>2 DEF Bounded
<1>3. ASSUME NEW c \in Clients, Failed(c)
      PROVE  Bounded'
  BY <1>0, <1>1, <1>3, FailBounded DEF Failed
<1>4. ASSUME NEW c \in Clients, Reset(address[c])
      PROVE  Bounded'
  BY <1>4, CounterFacts DEF Reset, Bounded
<1>5. ASSUME NEW c \in Clients, LetIn(c)
      PROVE  Bounded'
  <2>1. fails' = [fails EXCEPT ![address[c]] = Nobody] \/ fails' = fails
    <3>1. fails = [a \in Addresses |-> fails[a]]
      BY DEF Bounded
    <3> QED
      BY <1>0, <1>5, <3>1 DEF LetIn
  <2> QED
    BY <1>1, <2>1, CounterFacts DEF Bounded
<1>6. ASSUME NEW c \in Clients, BadCode(c) \/ Breaks(c) \/ Resolved(c) \/ LookUpPort(c)
      PROVE  Bounded'
  BY <1>1, <1>3, <1>4, <1>6 DEF BadCode, Breaks, Resolved, LookUpPort
<1>7. ASSUME NEW c \in Clients,
             \/ AddEntry(c) \/ ResolveEntry(c) \/ AddRouter(c) \/ ResetConfig(c)
             \/ Outdated(c) \/ TooManyAttempts(c) \/ RouterRefuses(c) \/ InsertRow(c)
      PROVE  fails' = fails
  BY <1>7 DEF AddEntry, ResolveEntry, AddRouter, ResetConfig, Outdated, TooManyAttempts,
       RouterRefuses, InsertRow
<1>8. CASE UNCHANGED accessVars
  BY <1>1, <1>8 DEF accessVars
<1>9. CASE LimiterRestart
  BY <1>9, CounterFacts DEF LimiterRestart, Bounded
<1> QED
  BY <1>1, <1>2, <1>5, <1>6, <1>7, <1>8, <1>9 DEF AccessNext

\* A client and its request change together.
LEMMA RequestsChange ==
  ASSUME Asking, NEW c \in Clients,
         \/ AddEntry(c) \/ ResolveEntry(c) \/ AddRouter(c) \/ ResetConfig(c)
         \/ Outdated(c) \/ Breaks(c) \/ LetIn(c) \/ TooManyAttempts(c) \/ BadCode(c)
         \/ Resolved(c) \/ LookUpPort(c) \/ RouterRefuses(c) \/ InsertRow(c)
  PROVE  \/ \E path \in {"status", "routers", "add"} : \E code, port : Ask(c, path, code, port)
         \/ Back(c)
         \/ /\ call[c].at # "none" /\ cli' = cli
            /\ \E at \in {"let in", "connect"} : call' = [call EXCEPT ![c].at = at]
         \/ UNCHANGED <<call, cli>>
<1> DEFINE Goal ==
      \/ \E path \in {"status", "routers", "add"} : \E code, port : Ask(c, path, code, port)
      \/ Back(c)
      \/ /\ call[c].at # "none" /\ cli' = cli
         /\ \E at \in {"let in", "connect"} : call' = [call EXCEPT ![c].at = at]
      \/ UNCHANGED <<call, cli>>
<1>1. ASSUME NEW answer \in Answers, Conclude(c, answer)
      PROVE  Goal
  <2>1. cli[c].at \in {"menu", "status", "routers", "add"}
    BY DEF Asking
  <2>2. CASE cli[c].at = "status" /\ answer = "bad"
    BY <1>1, <2>2 DEF Conclude
  <2>3. CASE ~(cli[c].at = "status" /\ answer = "bad")
    BY <1>1, <2>1, <2>3 DEF Conclude
  <2> QED
    BY <2>2, <2>3
<1>2. CASE AddEntry(c) \/ ResolveEntry(c) \/ AddRouter(c)
  BY <1>2 DEF AddEntry, ResolveEntry, AddRouter
<1>3. CASE ResetConfig(c)
  BY <1>3 DEF ResetConfig
<1>4. CASE LetIn(c)
  BY <1>4 DEF LetIn
<1>5. CASE LookUpPort(c)
  BY <1>1, <1>5 DEF LookUpPort, Answers
<1>6. CASE Outdated(c) \/ Breaks(c) \/ TooManyAttempts(c) \/ BadCode(c)
  <2>1. \E answer \in {"outdated", "lost", "blocked", "bad"} : Conclude(c, answer)
    BY <1>6 DEF Outdated, Breaks, TooManyAttempts, BadCode
  <2> QED
    BY <1>1, <2>1 DEF Answers
<1>7. CASE Resolved(c) \/ RouterRefuses(c) \/ InsertRow(c)
  <2>1. \E answer \in Answers : Conclude(c, answer)
    BY <1>7 DEF Resolved, RouterRefuses, InsertRow, Answers
  <2> QED
    BY <1>1, <2>1
<1> QED
  BY <1>2, <1>3, <1>4, <1>5, <1>6, <1>7

LEMMA StepAtRest ==
  ASSUME Asking, \A c \in Clients : AtRest(c), [AccessNext]_accessVars
  PROVE  (\A c \in Clients : AtRest(c))'
<1>1. call = [c \in Clients |-> call[c]] /\ cli = [c \in Clients |-> cli[c]]
  BY DEF Asking
<1>2. CASE UNCHANGED <<call, cli>>
  BY <1>2 DEF AtRest
<1>3. ASSUME NEW c \in Clients,
             \/ AddEntry(c) \/ ResolveEntry(c) \/ AddRouter(c) \/ ResetConfig(c)
             \/ Outdated(c) \/ Breaks(c) \/ LetIn(c) \/ TooManyAttempts(c) \/ BadCode(c)
             \/ Resolved(c) \/ LookUpPort(c) \/ RouterRefuses(c) \/ InsertRow(c)
      PROVE  (\A d \in Clients : AtRest(d))'
  <2>1. CASE \E path \in {"status", "routers", "add"} : \E code, port : Ask(c, path, code, port)
    <3>1. PICK path \in {"status", "routers", "add"} : \E code, port : Ask(c, path, code, port)
      BY <2>1
    <3>2. PICK code, port : Ask(c, path, code, port)
      BY <3>1
    <3>3. /\ call'[c].at = "arrived" /\ cli'[c].at = path
          /\ \A d \in Clients \ {c} : call'[d] = call[d] /\ cli'[d] = cli[d]
      BY <1>1, <3>2 DEF Ask
    <3>4. AtRest(c)'
      BY <3>3 DEF AtRest
    <3> QED
      BY <3>3, <3>4 DEF AtRest
  <2>2. CASE Back(c)
    BY <1>1, <2>2 DEF Back, NoCall, Menu, AtRest
  <2>3. CASE /\ call[c].at # "none" /\ cli' = cli
             /\ \E at \in {"let in", "connect"} : call' = [call EXCEPT ![c].at = at]
    <3>1. PICK at \in {"let in", "connect"} : call' = [call EXCEPT ![c].at = at]
      BY <2>3
    <3>2. call'[c].at = at /\ \A d \in Clients \ {c} : call'[d] = call[d]
      <4>1. call[c] \in [at : {"none", "arrived", "let in", "connect", "cut"},
                         path : {"none", "status", "routers", "add"}, port : Ports]
        BY DEF Asking
      <4>2. call'[c] = [call[c] EXCEPT !.at = at]
        BY <1>1, <3>1
      <4> QED
        BY <1>1, <3>1, <4>1, <4>2
    <3>3. AtRest(c)'
      <4>1. cli[c].at # "menu"
        BY <2>3 DEF AtRest
      <4> QED
        BY <2>3, <3>1, <3>2, <4>1 DEF AtRest
    <3> QED
      BY <2>3, <3>2, <3>3 DEF AtRest
  <2> QED
    BY <1>2, <1>3, <2>1, <2>2, <2>3, RequestsChange
<1>4. CASE Tick
  BY <1>2, <1>4 DEF Tick
<1>5. CASE UNCHANGED accessVars
  BY <1>2, <1>5 DEF accessVars
<1>6. CASE LimiterRestart
  <2>1. ASSUME NEW c \in Clients PROVE AtRest(c)'
    <3>1. /\ call[c] \in [at : {"none", "arrived", "let in", "connect", "cut"},
                         path : {"none", "status", "routers", "add"}, port : Ports]
          /\ call'[c] = IF call[c].at = "none" THEN call[c] ELSE [call[c] EXCEPT !.at = "cut"]
          /\ cli' = cli
      BY <1>6 DEF LimiterRestart, Asking
    <3>2. (call'[c].at = "none") = (call[c].at = "none")
      BY <3>1
    <3> QED
      BY <3>1, <3>2 DEF AtRest
  <2> QED
    BY <2>1
<1> QED
  BY <1>3, <1>4, <1>5, <1>6 DEF AccessNext

\* A counter never reaches the number of failures at which it blocks, the proxy on the
\* server has none, and a client that shows its menu has no request on the server
\* (main.go:597-611, auth.go:79-115).
THEOREM AccessTypes == AccessSpec => []AccessTypeOK
<1>1. AccessInit => Bounded /\ \A c \in Clients : AtRest(c)
  <2> SUFFICES ASSUME AccessInit PROVE Bounded /\ \A c \in Clients : AtRest(c)
    OBVIOUS
  <2>1. Bounded
    BY CounterFacts DEF AccessInit, Bounded
  <2>2. ASSUME NEW c \in Clients PROVE AtRest(c)
    <3>1. cli[c].at = "menu" /\ call[c].at = "none"
      BY DEF AccessInit, NoCall, Menu
    <3> QED
      BY <3>1 DEF AtRest
  <2> QED
    BY <2>1, <2>2
<1>2. Asking /\ (Bounded /\ \A c \in Clients : AtRest(c)) /\ [AccessNext]_accessVars =>
        (Bounded /\ \A c \in Clients : AtRest(c))'
  BY StepBounded, StepAtRest
<1>3. Asking /\ (Bounded /\ \A c \in Clients : AtRest(c)) => AccessTypeOK
  BY DEF Asking, Bounded, AtRest, AccessTypeOK
<1> QED
  BY <1>1, <1>2, <1>3, AskingInvariance, PTL DEF AccessSpec

-----------------------------------------------------------------------------
(***************************************************************************)
(* Status: an answer that is not marked stale shows nothing the router was *)
(* not while it was asked.                                                 *)
(***************************************************************************)

Requests == [at : {"none", "read", "put", "lock", "connect", "keep"},
             got : Seq(BOOLEAN), op : OpSet, value : BOOLEAN]

\* What was read so far, and what the router is, is in the history of the request.
Read(s) ==
  /\ req[s].at = "none" => req[s].got = <<>>
  /\ req[s].at \in {"read", "put"} =>
       /\ \A i \in DOMAIN req[s].got : i \in DOMAIN Ops /\ req[s].got[i] \in seen[s][Ops[i]]
       /\ \A op \in OpSet : real[op] \in seen[s][op]
       /\ req[s].at = "read" => Len(req[s].got) < Len(Ops)
       /\ req[s].at = "put" => Len(req[s].got) > 0

Watching ==
  /\ real \in States
  /\ cache \in [OpSet -> BOOLEAN \cup {Nothing}]
  /\ req \in [Screens -> Requests]
  /\ shown \in [Screens -> States \cup {Nothing}]
  /\ seen \in [Screens -> [OpSet -> SUBSET BOOLEAN]]
  /\ \A s \in Screens : Read(s)

LEMMA QuietFacts ==
  /\ Quiet \in Requests /\ Quiet.at = "none" /\ Quiet.got = <<>>
  /\ Unseen \in [OpSet -> SUBSET BOOLEAN]
<1>1. <<>> \in Seq(BOOLEAN)
  OBVIOUS
<1> QED
  BY <1>1, OpsAssumption DEF Quiet, Requests, Unseen

LEMMA OpsFacts == Len(Ops) \in Nat /\ Len(Ops) > 0 /\ DOMAIN Ops = 1..Len(Ops)
<1>1. PICK i \in DOMAIN Ops : Vpn = Ops[i]
  BY OpsAssumption DEF OpSet
<1> QED
  BY <1>1, OpsAssumption

LEMMA InitWatching == StatusInit => Watching
BY QuietFacts DEF StatusInit, Watching, Read, States

\* An answer ends the request of s and leaves the others alone.
LEMMA AnswerKeeps ==
  ASSUME Watching, NEW s \in Screens, NEW answer \in States \cup {Nothing}, Answer(s, answer),
         real' = real, cache' \in [OpSet -> BOOLEAN \cup {Nothing}]
  PROVE  Watching'
<1>1. /\ req' \in [Screens -> Requests]
      /\ shown' \in [Screens -> States \cup {Nothing}]
      /\ seen' \in [Screens -> [OpSet -> SUBSET BOOLEAN]]
      /\ req'[s].at = "none" /\ req'[s].got = <<>>
      /\ \A t \in Screens \ {s} : req'[t] = req[t] /\ seen'[t] = seen[t]
  BY QuietFacts DEF Answer, Watching
<1>2. ASSUME NEW t \in Screens
      PROVE  Read(t)'
  BY <1>1 DEF Watching, Read
<1> QED
  BY <1>1, <1>2 DEF Watching

\* The router changes under the requests.
LEMMA BecomesKeeps ==
  ASSUME Watching, NEW r \in States, Becomes(r),
         cache' = cache, shown' \in [Screens -> States \cup {Nothing}],
         req' \in [Screens -> Requests],
         \A t \in Screens : req'[t] = req[t] \/ req'[t] = Quiet \/ req'[t].at = "keep"
  PROVE  Watching'
<1>1. /\ real' = r
      /\ \A t \in Screens :
           /\ req[t].at \in {"read", "put"} =>
                seen'[t] = [op \in OpSet |-> seen[t][op] \cup {r[op]}]
           /\ req[t].at \notin {"read", "put"} => seen'[t] = Unseen
      /\ seen' = [t \in Screens |-> seen'[t]]
  BY DEF Becomes
<1>2. \A t \in Screens : seen'[t] \in [OpSet -> SUBSET BOOLEAN]
  BY <1>1, QuietFacts DEF Watching, States
<1>3. ASSUME NEW t \in Screens
      PROVE  Read(t)'
  <2>1. CASE req'[t] = Quiet \/ req'[t].at = "keep" \/ (req'[t] = req[t] /\ req[t].at \notin {"read", "put"})
    BY <2>1, QuietFacts DEF Read, Watching
  <2>2. CASE req'[t] = req[t] /\ req[t].at \in {"read", "put"}
    <3>1. seen'[t] = [op \in OpSet |-> seen[t][op] \cup {r[op]}]
      BY <1>1, <2>2
    <3>2. \A i \in DOMAIN Ops : Ops[i] \in OpSet
      BY DEF OpSet
    <3> QED
      BY <1>1, <2>2, <3>1, <3>2 DEF Watching, Read
  <2> QED
    BY <2>1, <2>2
<1> QED
  BY <1>1, <1>2, <1>3 DEF Watching

LEMMA StepWatching == Watching /\ [StatusNext]_statusVars => Watching'
<1> SUFFICES ASSUME Watching, [StatusNext]_statusVars PROVE Watching'
  OBVIOUS
<1>1. ASSUME NEW s \in Screens, AskStatus(s)
      PROVE  Watching'
  <2>1. /\ req' = [req EXCEPT ![s].at = "read"]
        /\ seen' = [seen EXCEPT ![s] = [op \in OpSet |-> {real[op]}]]
        /\ shown' = [shown EXCEPT ![s] = Nothing]
        /\ real' = real /\ cache' = cache
        /\ req[s].at = "none"
    BY <1>1 DEF AskStatus, Goes
  <2>2. [op \in OpSet |-> {real[op]}] \in [OpSet -> SUBSET BOOLEAN]
    BY DEF Watching, States
  <2>3. Read(s)'
    BY <2>1, <2>2, OpsFacts DEF Watching, Read, Requests
  <2>4. \A t \in Screens \ {s} : Read(t)'
    BY <2>1 DEF Watching, Read
  <2> QED
    BY <2>1, <2>2, <2>3, <2>4 DEF Watching, Requests
<1>2. ASSUME NEW s \in Screens, ReadOp(s)
      PROVE  Watching'
  <2> DEFINE n == Len(req[s].got) + 1
             got == Append(req[s].got, real[Ops[n]])
  <2>1. /\ req[s] \in Requests /\ req[s].at = "read"
        /\ req' = [req EXCEPT ![s].at = "put", ![s].got = got]
        /\ UNCHANGED <<real, cache, shown, seen>>
    BY <1>2 DEF ReadOp, Watching
  <2>2. /\ req[s].got \in Seq(BOOLEAN) /\ n \in 1..Len(Ops) /\ Ops[n] \in OpSet
        /\ real[Ops[n]] \in BOOLEAN
        /\ real[Ops[n]] \in seen[s][Ops[n]]
    <3>1. n \in DOMAIN Ops
      BY <2>1, OpsFacts DEF Watching, Read, Requests
    <3>2. Ops[n] \in OpSet
      BY <3>1 DEF OpSet
    <3> QED
      BY <2>1, <3>1, <3>2, OpsFacts DEF Watching, Read, Requests, States
  <2>3. /\ got \in Seq(BOOLEAN) /\ Len(got) = n /\ DOMAIN got = 1..n
        /\ \A i \in DOMAIN got : \/ i \in DOMAIN req[s].got /\ got[i] = req[s].got[i]
                                 \/ i = n /\ got[i] = real[Ops[n]]
    BY <2>2
  <2> HIDE DEF got, n
  <2>4. /\ req'[s].at = "put" /\ req'[s].got = got /\ req'[s] \in Requests
        /\ \A t \in Screens \ {s} : req'[t] = req[t]
        /\ req' \in [Screens -> Requests]
    BY <2>1, <2>3 DEF Watching, Requests
  <2>5. Read(s)'
    <3>1. \A i \in DOMAIN req[s].got : i \in DOMAIN Ops /\ req[s].got[i] \in seen[s][Ops[i]]
      BY <2>1 DEF Watching, Read
    <3>2. \A i \in DOMAIN got : i \in DOMAIN Ops /\ got[i] \in seen[s][Ops[i]]
      BY <2>2, <2>3, <3>1, OpsFacts
    <3>3. \A op \in OpSet : real[op] \in seen[s][op]
      BY <2>1 DEF Watching, Read
    <3>4. n > 0
      BY <2>2, OpsFacts
    <3> QED
      BY <2>1, <2>3, <2>4, <3>2, <3>3, <3>4 DEF Read
  <2>6. \A t \in Screens \ {s} : Read(t)'
    BY <2>1, <2>4 DEF Watching, Read
  <2> QED
    BY <2>1, <2>4, <2>5, <2>6 DEF Watching
<1>3. ASSUME NEW s \in Screens, PutRead(s)
      PROVE  Watching'
  <2>1. /\ req[s] \in Requests /\ req[s].got \in Seq(BOOLEAN) /\ req[s].at = "put"
        /\ Len(req[s].got) > 0
        /\ \A i \in DOMAIN req[s].got : i \in DOMAIN Ops
    BY <1>3 DEF PutRead, Watching, Requests, Read
  <2>2. cache' \in [OpSet -> BOOLEAN \cup {Nothing}]
    <3>1. Len(req[s].got) \in DOMAIN req[s].got
      BY <2>1
    <3>2. req[s].got[Len(req[s].got)] \in BOOLEAN
      BY <2>1, <3>1
    <3> QED
      BY <1>3, <3>2 DEF PutRead, CachePut, Watching
  <2>3. CASE Len(req[s].got) < Len(Ops)
    <3>1. /\ req' = [req EXCEPT ![s].at = "read"]
          /\ UNCHANGED <<real, shown, seen>>
      BY <1>3, <2>3 DEF PutRead, Goes
    <3>2. Read(s)'
      BY <2>1, <2>3, <3>1 DEF Watching, Read, Requests
    <3>3. \A t \in Screens \ {s} : Read(t)'
      BY <3>1 DEF Watching, Read
    <3> QED
      BY <2>2, <3>1, <3>2, <3>3 DEF Watching, Requests
  <2>4. CASE ~(Len(req[s].got) < Len(Ops))
    <3> DEFINE answer == [op \in OpSet |-> req[s].got[CHOOSE i \in DOMAIN Ops : Ops[i] = op]]
    <3>1. Answer(s, answer) /\ real' = real
      BY <1>3, <2>4 DEF PutRead
    <3>2. \A op \in OpSet : (CHOOSE i \in DOMAIN Ops : Ops[i] = op) \in DOMAIN req[s].got
      <4>1. \A op \in OpSet : (CHOOSE i \in DOMAIN Ops : Ops[i] = op) \in DOMAIN Ops
        BY DEF OpSet
      <4>2. DOMAIN Ops \subseteq DOMAIN req[s].got
        BY <2>1, <2>4, OpsFacts
      <4> QED
        BY <4>1, <4>2
    <3>3. answer \in States
      <4>1. \A i \in DOMAIN req[s].got : req[s].got[i] \in BOOLEAN
        BY <2>1
      <4> QED
        BY <3>2, <4>1 DEF States
    <3> QED
      BY <2>2, <3>1, <3>3, AnswerKeeps
  <2> QED
    BY <2>3, <2>4
<1>4. ASSUME NEW s \in Screens, Offline(s)
      PROVE  Watching'
  <2>1. Cached => cache \in States
    BY DEF Cached, Watching, States
  <2>2. PICK answer \in States \cup {Nothing} : Answer(s, answer)
    BY <1>4, <2>1 DEF Offline
  <2> QED
    BY <1>4, <2>2, AnswerKeeps DEF Offline, Watching
<1>5. ASSUME NEW s \in Screens, Unexpected(s) \/ Busy(s) \/ Keep(s)
      PROVE  Watching'
  <2>1. Answer(s, Nothing) /\ real' = real
    BY <1>5 DEF Unexpected, Busy, Keep
  <2>2. cache' \in [OpSet -> BOOLEAN \cup {Nothing}]
    BY <1>5 DEF Unexpected, Busy, Keep, CachePut, Watching, Requests
  <2> QED
    BY <2>1, <2>2, AnswerKeeps
<1>6. ASSUME NEW s \in Screens, Press(s) \/ Acquire(s)
      PROVE  Watching'
  <2>1. /\ req' \in [Screens -> Requests]
        /\ req'[s].at \in {"lock", "connect"}
        /\ \A t \in Screens \ {s} : req'[t] = req[t]
    <3>1. CASE Press(s)
      <4>1. PICK op \in OpSet :
              req' = [req EXCEPT ![s] = [at |-> "lock", got |-> <<>>, op |-> op, value |-> ~shown[s][op]]]
        BY <3>1 DEF Press
      <4>2. <<>> \in Seq(BOOLEAN) /\ (~shown[s][op]) \in BOOLEAN
        <5>1. shown[s] \in States
          BY <3>1 DEF Press, Watching
        <5>2. shown[s][op] \in BOOLEAN
          BY <5>1 DEF States
        <5>3. (~shown[s][op]) \in BOOLEAN
          BY <5>2, Zenon
        <5> QED
          BY <5>3
      <4>3. [at |-> "lock", got |-> <<>>, op |-> op, value |-> ~shown[s][op]] \in Requests
        BY <4>2 DEF Requests
      <4> QED
        BY <4>1, <4>3 DEF Watching
    <3>2. CASE Acquire(s)
      BY <3>2 DEF Acquire, Goes, Watching, Requests
    <3> QED
      BY <1>6, <3>1, <3>2
  <2>2. /\ UNCHANGED <<real, cache, seen>>
        /\ shown' \in [Screens -> States \cup {Nothing}]
    BY <1>6 DEF Press, Acquire, Watching
  <2>3. \A t \in Screens : Read(t)'
    BY <2>1, <2>2 DEF Watching, Read
  <2> QED
    BY <2>1, <2>2, <2>3 DEF Watching
<1>7. ASSUME NEW s \in Screens, Change(s) \/ ChangeFails(s)
      PROVE  Watching'
  <2>1. PICK r \in States : Becomes(r)
    BY <1>7 DEF Change, ChangeFails, Watching, Requests, States
  <2>2. /\ req' \in [Screens -> Requests]
        /\ \A t \in Screens : req'[t] = req[t] \/ req'[t] = Quiet \/ req'[t].at = "keep"
    <3>1. CASE Change(s)
      <4>1. req' = [req EXCEPT ![s].at = "keep"]
        BY <3>1 DEF Change, Goes
      <4> QED
        BY <4>1 DEF Watching, Requests
    <3>2. CASE ChangeFails(s)
      <4>1. req' = [req EXCEPT ![s] = Quiet]
        BY <3>2 DEF ChangeFails
      <4> QED
        BY <4>1, QuietFacts DEF Watching
    <3> QED
      BY <1>7, <3>1, <3>2
  <2> QED
    BY <1>7, <2>1, <2>2, BecomesKeeps DEF Change, ChangeFails, Watching
<1>8. CASE Reboots \/ ByHand
  <2>1. PICK r \in States : Becomes(r)
    BY <1>8 DEF Reboots, ByHand, Watching, States
  <2> QED
    BY <1>8, <2>1, BecomesKeeps DEF Reboots, ByHand, Watching
<1>9. CASE StatusServerRestart
  BY <1>9, QuietFacts DEF StatusServerRestart, Watching, Read
<1>10. CASE UNCHANGED statusVars
  BY <1>10 DEF statusVars, Watching, Read
<1> QED
  BY <1>1, <1>2, <1>3, <1>4, <1>5, <1>6, <1>7, <1>8, <1>9, <1>10 DEF StatusNext, Progress

\* Each value of an answer that is not marked stale was the router's while the request
\* ran, whoever changes the router or the cache meanwhile (main.go:656-688).
THEOREM FreshAnswers == StatusSpec => FreshAnswersAreTrue
<1>1. ASSUME Watching, StatusNext, NEW s \in Screens, Answered(s), NEW op \in OpSet
      PROVE  shown'[s][op] \in seen[s][op]
  <2>1. PutRead(s)
    <3>1. ~StatusServerRestart
      BY <1>1 DEF StatusServerRestart, Answered
    <3>2. ~Reboots /\ ~ByHand
      BY <1>1 DEF Reboots, ByHand, Answered
    <3>3. PICK t \in Screens : AskStatus(t) \/ Press(t) \/ Progress(t)
      BY <1>1, <3>1, <3>2 DEF StatusNext
    <3>4. ASSUME t # s
          PROVE  req'[s] = req[s]
      <4>1. CASE AskStatus(t) \/ Acquire(t) \/ Change(t)
        BY <1>1, <3>4, <4>1 DEF AskStatus, Acquire, Change, Goes, Watching
      <4>2. CASE Press(t)
        BY <1>1, <3>4, <4>2 DEF Press, Watching
      <4>3. CASE ReadOp(t)
        BY <1>1, <3>4, <4>3 DEF ReadOp, Watching
      <4>4. CASE PutRead(t)
        BY <1>1, <3>4, <4>4 DEF PutRead, Goes, Answer, Watching
      <4>5. CASE Offline(t) \/ Unexpected(t) \/ Busy(t) \/ Keep(t)
        BY <1>1, <3>4, <4>5 DEF Offline, Unexpected, Busy, Keep, Answer, Watching
      <4>6. CASE ChangeFails(t)
        BY <1>1, <3>4, <4>6 DEF ChangeFails, Watching
      <4> QED
        BY <3>3, <4>1, <4>2, <4>3, <4>4, <4>5, <4>6 DEF Progress
    <3>5. t = s
      BY <1>1, <3>4 DEF Answered
    <3> QED
      BY <1>1, <3>3, <3>5 DEF Answered, AskStatus, Press, Progress, ReadOp, Offline, Unexpected,
           Acquire, Busy, Change, ChangeFails, Keep
  <2>2. /\ req[s] \in Requests /\ req[s].at = "put"
        /\ \A i \in DOMAIN req[s].got : i \in DOMAIN Ops /\ req[s].got[i] \in seen[s][Ops[i]]
    BY <1>1, <2>1 DEF PutRead, Watching, Read
  <2>3. req[s].got \in Seq(BOOLEAN)
    BY <2>2 DEF Requests
  <2>4. ~(Len(req[s].got) < Len(Ops))
    <3>1. ASSUME Goes(s, "read")
          PROVE  FALSE
      <4>1. req'[s].at = "read"
        BY <1>1, <2>2, <3>1 DEF Goes, Watching, Requests
      <4> QED
        BY <1>1, <4>1 DEF Answered
    <3> QED
      BY <2>1, <3>1 DEF PutRead
  <2>5. shown'[s] = [o \in OpSet |-> req[s].got[CHOOSE i \in DOMAIN Ops : Ops[i] = o]]
    BY <1>1, <2>1, <2>4 DEF PutRead, Answer, Watching
  <2>6. PICK i \in DOMAIN Ops : Ops[i] = op /\ shown'[s][op] = req[s].got[i]
    <3>1. /\ (CHOOSE i \in DOMAIN Ops : Ops[i] = op) \in DOMAIN Ops
          /\ Ops[CHOOSE i \in DOMAIN Ops : Ops[i] = op] = op
      BY DEF OpSet
    <3> QED
      BY <2>5, <3>1
  <2>7. i \in DOMAIN req[s].got
    BY <2>2, <2>3, <2>4, OpsFacts
  <2> QED
    BY <2>2, <2>6, <2>7
<1>2. Watching /\ [StatusNext]_statusVars =>
        [\A s \in Screens : Answered(s) =>
           \A op \in OpSet : shown'[s][op] \in seen[s][op]]_statusVars
  BY <1>1
<1> QED
  BY <1>2, InitWatching, StepWatching, PTL DEF StatusSpec, FreshAnswersAreTrue

-----------------------------------------------------------------------------
(* The types of Status.                                                    *)

HasLock == {"connect", "keep"}

\* The lock belongs to the one change that is under way.
Held ==
  /\ holder \in Screens \cup {Nothing}
  /\ \A s \in Screens : (req[s].at \in HasLock) = (holder = s)

\* A request has read no more values than there are.
Fits(r) == /\ Len(r.got) <= Len(Ops)
           /\ r.at \notin {"read", "put"} => r.got = <<>>

Locking == Held /\ \A s \in Screens : Fits(req[s])

LEMMA QuietFits == Fits(Quiet) /\ Quiet.at \notin HasLock
BY OpsFacts DEF Quiet, Fits, HasLock

\* A request changes, and what it does fits the lock.
LEMMA OneScreen ==
  ASSUME Watching, Locking, NEW s \in Screens, NEW q, req' = [req EXCEPT ![s] = q], Fits(q),
         \/ holder' = holder /\ (q.at \in HasLock <=> req[s].at \in HasLock)
         \/ holder = Nothing /\ holder' = s /\ q.at \in HasLock
         \/ req[s].at \in HasLock /\ holder' = Nothing /\ q.at \notin HasLock
  PROVE  Locking'
<1>1. /\ req'[s] = q
      /\ \A t \in Screens \ {s} : req'[t] = req[t]
  BY DEF Watching
<1>2. \A t \in Screens : (req[t].at \in HasLock) = (holder = t) /\ t # Nothing
  BY ScreensAssumption DEF Locking, Held
<1>3. (req'[s].at \in HasLock) = (holder' = s)
  <2>1. q.at \in HasLock <=> holder' = s
    BY <1>2
  <2> QED
    BY <1>1, <2>1
<1>4. ASSUME NEW t \in Screens \ {s} PROVE (req'[t].at \in HasLock) = (holder' = t)
  <2>1. holder' = t <=> holder = t
    BY <1>2
  <2> QED
    BY <1>1, <1>2, <2>1
<1>5. ASSUME NEW t \in Screens PROVE Fits(req[t])'
  <2>1. Fits(req[t])
    BY DEF Locking
  <2>2. req'[t] = q \/ req'[t] = req[t]
    BY <1>1
  <2> QED
    BY <2>1, <2>2 DEF Fits
<1>6. holder' \in Screens \cup {Nothing}
  BY DEF Locking, Held
<1> QED
  BY <1>3, <1>4, <1>5, <1>6 DEF Locking, Held

\* A request goes on with what it has read.
LEMMA ScreenGoes ==
  ASSUME Watching, Locking, NEW s \in Screens, NEW at, Goes(s, at),
         req[s].at \in {"read", "put"} <=> at \in {"read", "put"},
         \/ holder' = holder /\ (at \in HasLock <=> req[s].at \in HasLock)
         \/ holder = Nothing /\ holder' = s /\ at \in HasLock
  PROVE  Locking'
<1> DEFINE q == [req[s] EXCEPT !.at = at]
<1>1. req[s] \in Requests /\ req' = [req EXCEPT ![s] = q]
  BY DEF Watching, Goes
<1>2. q.at = at /\ q.got = req[s].got
  BY <1>1 DEF Requests
<1>3. Fits(q)
  <2> HIDE DEF q
  <2> QED
    BY <1>2 DEF Locking, Fits
<1> HIDE DEF q
<1> QED
  BY <1>1, <1>2, <1>3, OneScreen

LEMMA ScreenAnswers ==
  ASSUME Watching, Locking, NEW s \in Screens, req' = [req EXCEPT ![s] = Quiet],
         \/ holder' = holder /\ req[s].at \notin HasLock
         \/ holder' = Nothing /\ req[s].at \in HasLock
  PROVE  Locking'
BY QuietFits, OneScreen

LEMMA StepLocking ==
  ASSUME Watching, Locking, [StatusNext]_statusVars
  PROVE  Locking'
<1>1. ASSUME UNCHANGED <<holder, req>> PROVE Locking'
  BY <1>1 DEF Locking, Held, Fits
<1>2. ASSUME NEW s \in Screens, AskStatus(s) PROVE Locking'
  <2> DEFINE q == [req[s] EXCEPT !.at = "read"]
  <2>1. req[s] \in Requests /\ req' = [req EXCEPT ![s] = q] /\ holder' = holder
    BY <1>2 DEF Watching, AskStatus, Goes
  <2>2. q.at = "read" /\ q.got = req[s].got /\ req[s].at = "none"
    BY <1>2, <2>1 DEF Requests, AskStatus
  <2>3. Fits(q)
    <3> HIDE DEF q
    <3> QED
      BY <2>2 DEF Locking, Fits
  <2> HIDE DEF q
  <2>4. q.at \notin HasLock /\ req[s].at \notin HasLock
    BY <2>2 DEF HasLock
  <2> QED
    BY <2>1, <2>3, <2>4, OneScreen
<1>3. ASSUME NEW s \in Screens, ReadOp(s) PROVE Locking'
  <2> DEFINE got == Append(req[s].got, real[Ops[Len(req[s].got) + 1]])
             q == [req[s] EXCEPT !.at = "put", !.got = got]
  <2>1. req[s] \in Requests /\ req' = [req EXCEPT ![s] = q] /\ holder' = holder
    BY <1>3 DEF Watching, ReadOp
  <2>2. req[s].at = "read" /\ Len(req[s].got) < Len(Ops)
    BY <1>3 DEF ReadOp, Watching, Read
  <2>3. q.at = "put" /\ q.got = got
    BY <2>1 DEF Requests
  <2>4. Len(got) <= Len(Ops)
    <3>1. req[s].got \in Seq(BOOLEAN)
      BY <2>1 DEF Requests
    <3>2. Len(got) = Len(req[s].got) + 1 /\ Len(req[s].got) \in Nat
      BY <3>1
    <3> QED
      BY <2>2, <3>2, OpsFacts
  <2> HIDE DEF got, q
  <2>5. Fits(q)
    BY <2>3, <2>4 DEF Fits
  <2>6. q.at \notin HasLock /\ req[s].at \notin HasLock
    BY <2>2, <2>3 DEF HasLock
  <2> QED
    BY <2>1, <2>5, <2>6, OneScreen
<1>4. ASSUME NEW s \in Screens, PutRead(s) PROVE Locking'
  <2>1. req[s].at = "put" /\ holder' = holder
    BY <1>4 DEF PutRead
  <2>2. req[s].at \notin HasLock /\ "read" \notin HasLock
    BY <2>1 DEF HasLock
  <2>3. Goes(s, "read") \/ req' = [req EXCEPT ![s] = Quiet]
    BY <1>4 DEF PutRead, Answer
  <2> QED
    BY <2>1, <2>2, <2>3, ScreenGoes, ScreenAnswers
<1>5. ASSUME NEW s \in Screens, Offline(s) \/ Unexpected(s) \/ Busy(s) PROVE Locking'
  <2>1. /\ req' = [req EXCEPT ![s] = Quiet] /\ holder' = holder
        /\ req[s].at \in {"read", "lock"}
    BY <1>5 DEF Offline, Unexpected, Busy, Answer
  <2>2. req[s].at \notin HasLock
    BY <2>1 DEF HasLock
  <2> QED
    BY <2>1, <2>2, ScreenAnswers
<1>6. ASSUME NEW s \in Screens, Press(s) PROVE Locking'
  <2>1. PICK op \in OpSet :
          req' = [req EXCEPT ![s] =
                    [at |-> "lock", got |-> <<>>, op |-> op, value |-> ~shown[s][op]]]
    BY <1>6 DEF Press
  <2>2. holder' = holder /\ req[s].at = "none"
    BY <1>6 DEF Press
  <2> DEFINE q == [at |-> "lock", got |-> <<>>, op |-> op, value |-> ~shown[s][op]]
  <2>3. Fits(q) /\ q.at \notin HasLock /\ req[s].at \notin HasLock
    BY <2>2, OpsFacts DEF Fits, HasLock
  <2> HIDE DEF q
  <2> QED
    BY <2>1, <2>2, <2>3, OneScreen DEF q
<1>7. ASSUME NEW s \in Screens, Acquire(s) PROVE Locking'
  <2>1. Goes(s, "connect") /\ req[s].at = "lock" /\ holder = Nothing /\ holder' = s
    BY <1>7 DEF Acquire
  <2>2. "connect" \in HasLock
    BY DEF HasLock
  <2> QED
    BY <2>1, <2>2, ScreenGoes
<1>8. ASSUME NEW s \in Screens, Change(s) PROVE Locking'
  <2>1. Goes(s, "keep") /\ req[s].at = "connect" /\ holder' = holder
    BY <1>8 DEF Change
  <2>2. "connect" \in HasLock /\ "keep" \in HasLock
    BY DEF HasLock
  <2> QED
    BY <2>1, <2>2, ScreenGoes
<1>9. ASSUME NEW s \in Screens, ChangeFails(s) \/ Keep(s) PROVE Locking'
  <2>1. /\ req' = [req EXCEPT ![s] = Quiet] /\ holder' = Nothing
        /\ req[s].at \in {"connect", "keep"}
    BY <1>9 DEF ChangeFails, Keep, Answer
  <2> QED
    BY <2>1, ScreenAnswers DEF HasLock
<1>10. CASE StatusServerRestart
  <2>1. holder' = Nothing /\ \A s \in Screens : req'[s] = Quiet /\ s # Nothing
    BY <1>10, ScreensAssumption DEF StatusServerRestart
  <2> QED
    BY <2>1, QuietFits DEF Locking, Held, Fits
<1>11. CASE Reboots \/ ByHand \/ UNCHANGED statusVars
  BY <1>1, <1>11 DEF Reboots, ByHand, statusVars
<1> QED
  BY <1>2, <1>3, <1>4, <1>5, <1>6, <1>7, <1>8, <1>9, <1>10, <1>11 DEF StatusNext, Progress

\* The lock of a router is held exactly by the change that is under way, and no answer
\* has more values than statusOps (main.go:383, main.go:656-688).
THEOREM StatusTypes == StatusSpec => []StatusTypeOK
<1> DEFINE Gots == {<<>>} \cup UNION {[1..n -> BOOLEAN] : n \in DOMAIN Ops}
<1>1. StatusInit => Locking
  <2> SUFFICES ASSUME StatusInit PROVE Locking
    OBVIOUS
  <2>1. holder = Nothing /\ \A s \in Screens : req[s] = Quiet /\ s # Nothing
    BY ScreensAssumption DEF StatusInit
  <2> QED
    BY <2>1, QuietFits DEF Locking, Held
<1>2. Watching /\ Locking /\ [StatusNext]_statusVars => Locking'
  BY StepLocking
<1>3. Watching /\ Locking => StatusTypeOK
  <2> SUFFICES ASSUME Watching, Locking PROVE StatusTypeOK
    OBVIOUS
  <2>1. ASSUME NEW s \in Screens PROVE req[s].got \in Gots
    <3>1. req[s].got \in Seq(BOOLEAN)
      BY DEF Watching, Requests
    <3>2. Len(req[s].got) \in Nat /\ req[s].got \in [1..Len(req[s].got) -> BOOLEAN]
      BY <3>1
    <3>3. Len(req[s].got) <= Len(Ops)
      BY DEF Locking, Fits
    <3>4. CASE Len(req[s].got) = 0
      BY <3>1, <3>4
    <3>5. CASE Len(req[s].got) > 0
      BY <3>2, <3>3, <3>5, OpsFacts
    <3> QED
      BY <3>2, <3>4, <3>5
  <2>2. req \in [Screens -> [at : {"none", "read", "put", "lock", "connect", "keep"},
                             got : Gots, op : OpSet, value : BOOLEAN]]
    <3> HIDE DEF Gots
    <3>1. ASSUME NEW s \in Screens
          PROVE  req[s] \in [at : {"none", "read", "put", "lock", "connect", "keep"},
                             got : Gots, op : OpSet, value : BOOLEAN]
      <4>1. req[s] \in Requests
        BY DEF Watching
      <4> QED
        BY <2>1, <4>1 DEF Requests
    <3> QED
      BY <3>1 DEF Watching
  <2> QED
    BY <2>2 DEF Watching, Locking, Held, HasLock, StatusTypeOK
<1>4. StatusInit => Watching
  BY InitWatching
<1>5. Watching /\ [StatusNext]_statusVars => Watching'
  BY StepWatching
<1> QED
  BY <1>1, <1>2, <1>3, <1>4, <1>5, PTL DEF StatusSpec

-----------------------------------------------------------------------------
(***************************************************************************)
(* Notices, and the parts together.                                        *)
(***************************************************************************)

LEMMA StepNotices == NoticesTypeOK /\ [NoticesNext]_noticesVars => NoticesTypeOK'
<1> SUFFICES ASSUME NoticesTypeOK, [NoticesNext]_noticesVars PROVE NoticesTypeOK'
  OBVIOUS
<1>1. 0 \in 0..Repeat
  BY NoticesAssumption
<1>2. ASSUME NEW k \in Keys, Report(k) PROVE NoticesTypeOK'
  <2>1. /\ \/ UNCHANGED <<sent, posted>>
           \/ sent' = [sent EXCEPT ![k] = 0] /\ posted' = posted \cup {k}
        /\ failed' = k
    BY <1>2 DEF Report, Throttled
  <2> QED
    BY <1>1, <2>1 DEF NoticesTypeOK
<1>3. CASE ReportUrgent
  BY <1>3 DEF ReportUrgent, NoticesTypeOK
<1>4. ASSUME NEW k \in Keys \cup {Urgent}, Leaves(k) PROVE NoticesTypeOK'
  BY <1>4 DEF Leaves, NoticesTypeOK
<1>5. CASE TimePasses
  <2>1. ASSUME NEW k \in Keys, sent[k] \notin {Unsent, Repeat} PROVE sent[k] + 1 \in 0..Repeat
    <3>1. sent[k] \in 0..Repeat
      BY <2>1 DEF NoticesTypeOK
    <3> QED
      BY <2>1, <3>1, NoticesAssumption
  <2> QED
    BY <1>5, <2>1 DEF TimePasses, NoticesTypeOK
<1>6. CASE NoticesRestart
  BY <1>6 DEF NoticesRestart, NoticesTypeOK
<1>7. CASE UNCHANGED noticesVars
  BY <1>7 DEF noticesVars, NoticesTypeOK
<1> QED
  BY <1>2, <1>3, <1>4, <1>5, <1>6, <1>7 DEF NoticesNext

\* The age of a mark never goes beyond repeatAfter, and what is on its way has a key
\* (notify.go:41-59).
THEOREM NoticesTypes == NoticesSpec => []NoticesTypeOK
<1>1. NoticesInit => NoticesTypeOK
  BY NoticesAssumption DEF NoticesInit, NoticesTypeOK
<1> QED
  BY <1>1, StepNotices, PTL DEF NoticesSpec

\* A behaviour of the run is one of each part: what is proved of the parts alone holds
\* in it, and what is checked in it says something of each part.
THEOREM PartsRun == Spec => AccessSpec /\ StatusSpec /\ NoticesSpec
<1>1. Init => AccessInit /\ StatusInit /\ NoticesInit
  BY DEF Init
<1>2. [Next]_panelVars =>
        [AccessNext]_accessVars /\ [StatusNext]_statusVars /\ [NoticesNext]_noticesVars
  BY DEF Next, panelVars
<1> QED
  BY <1>1, <1>2, PTL DEF Spec, AccessSpec, StatusSpec, NoticesSpec

\* Every value of the three parts stays in its type: the lock is the change's under way,
\* and counters stay below what blocks.
THEOREM TypeCorrect == Spec => []TypeOK
<1>1. Init => part \in {"access", "status", "notices"}
  BY DEF Init
<1>2. part \in {"access", "status", "notices"} /\ [Next]_panelVars =>
        (part \in {"access", "status", "notices"})'
  BY DEF Next, panelVars
<1>3. /\ part \in {"access", "status", "notices"}
      /\ AccessTypeOK /\ StatusTypeOK /\ NoticesTypeOK
      => TypeOK
  BY DEF TypeOK
<1> QED
  BY <1>1, <1>2, <1>3, PartsRun, AccessTypes, StatusTypes, NoticesTypes, PTL DEF Spec
=============================================================================
