---------------------------- MODULE KeyProvisioning ----------------------------
(***************************************************************************)
(* hub/server/provision.js with the handlers of hub/server/routes.js that  *)
(* reach it and the authentication of hub/server/ssh.js: the credentials   *)
(* the hub keeps for a server, the hub's keys in authorized_keys of the    *)
(* server's host, and the requests that change them.  Nothing in the hub   *)
(* keeps two requests on one server apart.                                 *)
(*                                                                         *)
(* A command is sent, takes effect on the host and is answered at three    *)
(* different moments; a handler goes on with the row it read at its start. *)
(***************************************************************************)
EXTENDS Naturals, FiniteSets

CONSTANTS
  Servers,    \* rows of the table servers; several may be on one host
  Hosts,
  HostOf,     \* server -> its host
  Within,     \* server -> the servers whose key comments contain its own
  Passwords,
  None,       \* no value
  MaxOps,     \* bound: requests that reach a host
  MaxChanges, \* bound: passwords changed or typed outside these requests
  MaxFaults   \* bound: lost sessions, failed commands, restarts of the hub

ASSUME HostsAssumption ==
  /\ HostOf \in [Servers -> Hosts]
  /\ Within \in [Servers -> SUBSET Servers]
  /\ \A s \in Servers : s \in Within[s]
ASSUME KeyBoundsAssumption ==
  MaxOps \in Nat /\ MaxChanges \in Nat /\ MaxFaults \in Nat

Ops  == 1..MaxOps
Keys == 0..MaxOps \* key 0 of a server is from before, others are made by requests

\* auth_type, secret_enc, password_enc, key_installed, password_verified_at.
RowTypes == [auth: {"password", "key"}, secret: Passwords \cup Keys,
             fallback: Passwords \cup {None}, installed: BOOLEAN,
             verified: BOOLEAN]

ASSUME PasswordsAssumption ==
  /\ Passwords \cap Nat = {} /\ None \notin Passwords \cup Nat
  /\ None \notin RowTypes

VARIABLES
  rows,       \* server -> its credentials in the table servers, or None
  password,   \* host -> the password that it accepts
  past,       \* host -> the passwords that it accepts or has accepted
  authorized, \* host -> the hub's lines in authorized_keys
  ops,        \* request -> its local variables
  started,    \* requests so far
  changes,    \* what has been spent of MaxChanges
  faults      \* what has been spent of MaxFaults

hosts == <<password, past, authorized>>
vars  == <<rows, hosts, ops, started, changes, faults>>

Line(s, k) == [server |-> s, key |-> k]

PasswordRow(p) == [auth |-> "password", secret |-> p, fallback |-> p,
                   installed |-> FALSE, verified |-> FALSE]
KeyRow(k, p) == [auth |-> "key", secret |-> k, fallback |-> p,
                 installed |-> TRUE, verified |-> p # None]

NoOp == [kind |-> "none", server |-> None, row |-> None, password |-> None,
         pc |-> "none", answer |-> "none", outcome |-> "none",
         still |-> TRUE, alone |-> TRUE]

\* A server is not known yet, or has been given a key, with or without a
\* fallback password.
Init ==
  /\ password \in [Hosts -> Passwords]
  /\ past = [h \in Hosts |-> {password[h]}]
  /\ rows \in [Servers -> {None, KeyRow(0, None)}
                          \cup {KeyRow(0, p) : p \in Passwords}]
  /\ \A s \in Servers :
       rows[s] # None => rows[s].fallback \in {None, password[HostOf[s]]}
  /\ authorized = [h \in Hosts |->
       {Line(s, 0) : s \in {t \in Servers : HostOf[t] = h /\ rows[t] # None}}]
  /\ ops = [o \in Ops |-> NoOp]
  /\ started = 0 /\ changes = 0 /\ faults = 0

Fault  == faults < MaxFaults /\ faults' = faults + 1
Change == changes < MaxChanges /\ changes' = changes + 1

Host(o)   == HostOf[ops[o].server]
Live(o)   == ops[o].pc \notin {"none", "done"}
IsKeyServer(v) == v.auth = "key" /\ v.installed

-----------------------------------------------------------------------------
(* Requests.                                                               *)

\* `still` and `alone` are not in the code: whether the host has kept its
\* password since this request began, and no other request met it there.
LiveOn(h) == {o \in Ops : Live(o) /\ Host(o) = h}
Meet(h)   == [o \in Ops |-> IF o \in LiveOn(h)
                            THEN [ops[o] EXCEPT !.alone = FALSE] ELSE ops[o]]

Begin(o, op) ==
  /\ o = started + 1 /\ o \in Ops /\ started' = o
  /\ LET h == HostOf[op.server]
     IN ops' = [Meet(h) EXCEPT ![o] = [op EXCEPT !.alone = LiveOn(h) = {}]]

Request(kind, s, row, p, pc) ==
  [NoOp EXCEPT !.kind = kind, !.server = s, !.row = row, !.password = p,
               !.pc = pc]

\* provision(), as far as its first command.  The password to be proved is the
\* fallback of a key server and the secret of another.
Provision(o, s, row) ==
  LET current == IF IsKeyServer(row) THEN row.fallback ELSE row.secret
  IN Begin(o, Request("provision", s, row, current,
                      IF current = None THEN "install" ELSE "verify"))

\* POST /servers.  The password is stored before anything is proved.
Create(o, s, p) ==
  /\ rows[s] = None
  /\ rows' = [rows EXCEPT ![s] = PasswordRow(p)]
  /\ Provision(o, s, PasswordRow(p))
  /\ UNCHANGED <<hosts, changes, faults>>

\* POST /servers/:id/key/reinstall.
Reinstall(o, s) ==
  /\ rows[s] # None
  /\ Provision(o, s, rows[s])
  /\ UNCHANGED <<rows, hosts, changes, faults>>

\* POST /servers/:id/key/delete.  Without a stored password it is refused.
RemoveKey(o, s) ==
  /\ rows[s] # None /\ rows[s].fallback # None
  /\ Begin(o, Request("remove", s, rows[s], rows[s].fallback, "verify"))
  /\ UNCHANGED <<rows, hosts, changes, faults>>

\* PUT /servers/:id/fallback-password, of any server.  PUT /servers/:id with a
\* secret is the same when a key is installed.
OfferPassword(o, s, p) ==
  /\ rows[s] # None
  /\ Begin(o, Request("offer", s, rows[s], p, "verify"))
  /\ UNCHANGED <<rows, hosts, changes, faults>>

\* PUT /servers/:id with a secret, when no key is installed: stored unproved.
TypeSecret(s, p) ==
  /\ rows[s] # None /\ ~rows[s].installed /\ Change
  /\ rows' = [rows EXCEPT ![s].auth = "password", ![s].secret = p]
  /\ ops' = Meet(HostOf[s])
  /\ UNCHANGED <<hosts, started, faults>>

\* DELETE /servers/:id/fallback-password.
DropFallback(s) ==
  /\ rows[s] # None
  /\ rows' = [rows EXCEPT ![s].fallback = None, ![s].verified = FALSE]
  /\ ops' = Meet(HostOf[s])
  /\ UNCHANGED <<hosts, started, changes, faults>>

\* Somebody runs passwd on the host.
ChangePassword(h, p) ==
  /\ p # password[h] /\ Change
  /\ password' = [password EXCEPT ![h] = p]
  /\ past' = [past EXCEPT ![h] = @ \cup {p}]
  /\ ops' = [o \in Ops |-> IF Live(o) /\ Host(o) = h
                           THEN [ops[o] EXCEPT !.still = FALSE] ELSE ops[o]]
  /\ UNCHANGED <<rows, authorized, started, faults>>

-----------------------------------------------------------------------------
(* The host's part in a request.                                           *)

Answered(o, yes) == ops' = [ops EXCEPT ![o].answer = IF yes THEN "yes" ELSE "no"]

\* One session: it does its work and says so, its reply is lost, or it fails.
Session(o, accepted, effect) ==
  \/ /\ accepted /\ authorized' = effect /\ UNCHANGED faults /\ Answered(o, TRUE)
  \/ /\ accepted /\ authorized' = effect /\ Fault /\ Answered(o, FALSE)
  \/ /\ IF accepted THEN Fault ELSE UNCHANGED faults
     /\ UNCHANGED authorized /\ Answered(o, FALSE)

\* grep -vF of the comment drops every line that contains it.
Purged(h, s) == {l \in authorized[h] : l.server \notin Within[s]}

\* Stages A and D: password authentication only.
TryPassword(o) ==
  /\ ops[o].pc \in {"verify", "recheck"}
  /\ Session(o, ops[o].password = password[Host(o)], authorized)

\* What stage B presents, and it presents it as a password.
Bootstrap(op) == IF IsKeyServer(op.row) THEN op.row.secret ELSE op.password

\* Stage B: earlier lines are dropped, then the new one is appended; the
\* second may fail alone.
InstallLine(o) ==
  LET h == Host(o)  s == ops[o].server
      accepted == Bootstrap(ops[o]) = password[h]
  IN /\ ops[o].pc = "install"
     /\ \/ Session(o, accepted,
             [authorized EXCEPT ![h] = Purged(h, s) \cup {Line(s, o)}])
        \/ /\ accepted /\ Fault /\ Answered(o, FALSE)
           /\ authorized' = [authorized EXCEPT ![h] = Purged(h, s)]

\* Stage C: authentication with the new key only.
TryKey(o) ==
  /\ ops[o].pc = "keycheck"
  /\ Session(o, Line(ops[o].server, o) \in authorized[Host(o)], authorized)

\* The secret of the row that was read is presented as a key.
RemoveLine(o) ==
  LET h == Host(o)  s == ops[o].server
  IN /\ ops[o].pc = "unlink"
     /\ Session(o, Line(s, ops[o].row.secret) \in authorized[h],
                [authorized EXCEPT ![h] = Purged(h, s)])

Serve(o) ==
  /\ ops[o].answer = "none"
  /\ TryPassword(o) \/ InstallLine(o) \/ TryKey(o) \/ RemoveLine(o)
  /\ UNCHANGED <<rows, password, past, started, changes>>

-----------------------------------------------------------------------------
(* The hub's part: what it does with an answer.                            *)

GoOn(o, pc) == ops' = [ops EXCEPT ![o].pc = pc, ![o].answer = "none"]
Ended(op, outcome) ==
  [NoOp EXCEPT !.kind = op.kind, !.pc = "done", !.outcome = outcome]
End(o, outcome) == ops' = [ops EXCEPT ![o] = Ended(@, outcome)]

Answer(o, pc, yes) ==
  /\ ops[o].pc = pc /\ ops[o].answer = IF yes THEN "yes" ELSE "no"
  /\ UNCHANGED <<hosts, started, changes>>

\* After stage A: the key is made, which may fail.
PasswordProved(o) ==
  /\ Answer(o, "verify", TRUE) /\ ops[o].kind = "provision"
  /\ \/ GoOn(o, "install") /\ UNCHANGED faults
     \/ End(o, "failed") /\ Fault
  /\ UNCHANGED rows

\* removeKey: a password remains, so the key may go.
RemovalAllowed(o) ==
  /\ Answer(o, "verify", TRUE) /\ ops[o].kind = "remove"
  /\ GoOn(o, "unlink") /\ UNCHANGED <<rows, faults>>

\* Mutant of StoreFallback: it does not look at the answer.
StoreUnproved(o) ==
  /\ \E yes \in BOOLEAN : Answer(o, "verify", yes)
  /\ ops[o].kind = "offer"
  /\ rows' = [rows EXCEPT ![ops[o].server].fallback = ops[o].password,
                          ![ops[o].server].verified = TRUE]
  /\ End(o, "ok") /\ UNCHANGED faults

StoreFallback(o) ==
  /\ Answer(o, "verify", TRUE) /\ ops[o].kind = "offer"
  /\ rows' = [rows EXCEPT ![ops[o].server].fallback = ops[o].password,
                          ![ops[o].server].verified = TRUE]
  /\ End(o, "ok") /\ UNCHANGED faults

LineInstalled(o) ==
  /\ Answer(o, "install", TRUE) /\ GoOn(o, "keycheck")
  /\ UNCHANGED <<rows, faults>>

\* Mutant of SwitchToKey: the password is cleared once the key works.
SwitchWithoutFallback(o) ==
  LET s == ops[o].server IN
  /\ Answer(o, "keycheck", TRUE)
  /\ rows' = [rows EXCEPT ![s] = [@ EXCEPT !.auth = "key", !.secret = o,
                                           !.installed = TRUE, !.fallback = None]]
  /\ IF ops[o].password = None THEN End(o, "ok") ELSE GoOn(o, "recheck")
  /\ UNCHANGED faults

\* The row switches to the key; the password that was proved is kept.
SwitchToKey(o) ==
  LET s == ops[o].server  p == ops[o].password IN
  /\ Answer(o, "keycheck", TRUE)
  /\ rows' = [rows EXCEPT ![s] = [@ EXCEPT !.auth = "key", !.secret = o,
                !.installed = TRUE, !.fallback = IF p = None THEN @ ELSE p]]
  /\ IF p = None THEN End(o, "ok") ELSE GoOn(o, "recheck")
  /\ UNCHANGED faults

PasswordStillWorks(o) ==
  /\ Answer(o, "recheck", TRUE)
  /\ rows' = [rows EXCEPT ![ops[o].server].verified = TRUE]
  /\ End(o, "ok") /\ UNCHANGED faults

\* removeKey, whatever became of the line: the password that was read at the
\* start is the secret again.
BackToPassword(o) ==
  LET s == ops[o].server IN
  /\ \E yes \in BOOLEAN : Answer(o, "unlink", yes)
  /\ rows' = [rows EXCEPT ![s] = [@ EXCEPT !.auth = "password",
                !.secret = ops[o].row.fallback, !.fallback = None,
                !.installed = FALSE]]
  /\ End(o, "ok") /\ UNCHANGED faults

\* Every other "no" ends the request and changes nothing.
GiveUp(o) ==
  /\ \E pc \in {"verify", "install", "keycheck", "recheck"} :
       /\ Answer(o, pc, FALSE)
       /\ End(o, CASE pc = "recheck" -> "review"
                   [] pc = "verify" /\ ops[o].kind = "remove" -> "blocked"
                   [] OTHER -> "failed")
  /\ UNCHANGED <<rows, faults>>

Restart ==
  /\ Fault /\ \E o \in Ops : Live(o)
  /\ ops' = [o \in Ops |-> IF Live(o) THEN Ended(ops[o], "failed") ELSE ops[o]]
  /\ UNCHANGED <<rows, hosts, started, changes>>

StepOf(o) ==
  \/ Serve(o)
  \/ PasswordProved(o) \/ RemovalAllowed(o) \/ StoreFallback(o)
  \/ LineInstalled(o) \/ SwitchToKey(o) \/ PasswordStillWorks(o)
  \/ BackToPassword(o) \/ GiveUp(o)

RequestOf(o, s) ==
  \/ Reinstall(o, s) \/ RemoveKey(o, s)
  \/ \E p \in Passwords : Create(o, s, p) \/ OfferPassword(o, s, p)

Next ==
  \/ \E o \in Ops, s \in Servers : RequestOf(o, s)
  \/ \E s \in Servers : DropFallback(s)
  \/ \E s \in Servers, p \in Passwords : TypeSecret(s, p)
  \/ \E h \in Hosts, p \in Passwords : ChangePassword(h, p)
  \/ \E o \in Ops : StepOf(o)
  \/ Restart

Spec == Init /\ [][Next]_vars

-----------------------------------------------------------------------------
(* Properties.                                                             *)

OpTypes ==
  [kind: {"none", "provision", "remove", "offer"},
   server: Servers \cup {None}, row: RowTypes \cup {None},
   password: Passwords \cup {None},
   pc: {"none", "verify", "install", "keycheck", "recheck", "unlink", "done"},
   answer: {"none", "yes", "no"},
   outcome: {"none", "ok", "failed", "blocked", "review"},
   still: BOOLEAN, alone: BOOLEAN]

\* Every variable has its type; a row says "key" when it holds one, and both
\* marks of a key go together, whatever requests interleave.
KeyTypeOK ==
  /\ rows \in [Servers -> RowTypes \cup {None}]
  /\ password \in [Hosts -> Passwords] /\ past \in [Hosts -> SUBSET Passwords]
  /\ authorized \in [Hosts -> SUBSET [server: Servers, key: Keys]]
  /\ ops \in [Ops -> OpTypes]
  /\ started \in 0..MaxOps /\ changes \in 0..MaxChanges /\ faults \in 0..MaxFaults
  /\ \A s \in Servers : rows[s] # None =>
       /\ rows[s].auth = "key" <=> rows[s].secret \in Keys
       /\ rows[s].auth = "key" <=> rows[s].installed

\* ssh.exec in the mode of the row: a rejected key is followed by the fallback.
WorkingFallback(s) == rows[s].fallback = password[HostOf[s]]
Reachable(s) ==
  /\ rows[s] # None
  /\ IF rows[s].auth = "key"
     THEN Line(s, rows[s].secret) \in authorized[HostOf[s]] \/ WorkingFallback(s)
     ELSE rows[s].secret = password[HostOf[s]]

\* A step of request o itself.
Acts(o) == ops'[o].pc # ops[o].pc \/ ops'[o].answer # ops[o].answer

\* provision.js: "at least one VERIFIED access method must survive any
\* operation".  No step of a provisioning, a removal of the key or a change of
\* the fallback makes a server unreachable that has a working fallback, however
\* many requests overlap, on the same host too, and whatever fails; nor its own
\* server, if no other request has met it.  The password of the host must not
\* have changed since the request began.
AccessSurvives ==
  [][\A o \in Ops, s \in Servers :
       Acts(o) /\ Live(o) /\ ops[o].still /\ Reachable(s)
       /\ (WorkingFallback(s) \/ (ops[o].alone /\ ops[o].server = s))
       => Reachable(s)']_vars

\* routes.js: "so the UI never claims a working fallback it does not have".  A
\* fallback that is shown as verified has been accepted by the host at some
\* time, although the mark and the password are written by different requests.
VerifiedWasAccepted ==
  \A s \in Servers :
    rows[s] # None /\ rows[s].verified /\ rows[s].fallback # None =>
      rows[s].fallback \in past[HostOf[s]]

\* provision.js: "On a key server the install runs over the existing key".  If
\* no session is lost, a reinstallation on a host that accepts the key does not
\* fail to install.
ReinstallUsesKey ==
  [][\A o \in Ops :
       ops[o].pc = "install" /\ ops'[o].outcome = "failed" /\ faults' = 0
       => Line(ops[o].server, ops[o].row.secret) \notin authorized[Host(o)]]_vars
=============================================================================
