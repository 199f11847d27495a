------------------------- MODULE KeyProvisioningProofs -------------------------
(***************************************************************************)
(* Theorems of KeyProvisioning, for any servers, hosts, comments, requests *)
(* and faults.                                                             *)
(***************************************************************************)
EXTENDS KeyProvisioning, TLAPS

LivePcs == {"verify", "install", "keycheck", "recheck", "unlink"}

\* The password of a request has been accepted by its host.
Proved(op) ==
  \/ op.pc = "verify" /\ op.answer = "yes"
  \/ op.pc = "install" /\ op.answer = "yes"
  \/ op.pc \in {"keycheck", "recheck", "unlink"}

\* A request under way is about a server that the hub has and works from a row
\* of it; a removal of the key is about the fallback of that row.
Formed(op) ==
  op.pc \in LivePcs =>
    /\ op.server \in Servers /\ op.row \in RowTypes
    /\ op.row.auth = "key" <=> op.row.secret \in Keys
    /\ op.row.auth = "key" <=> op.row.installed
    /\ op.kind = "provision" /\ ~IsKeyServer(op.row) =>
         op.password = op.row.secret
    /\ op.kind = "remove" => op.password = op.row.fallback
    /\ op.pc \in {"install", "keycheck", "recheck"} => op.kind = "provision"
    /\ op.pc = "unlink" => op.kind = "remove"

\* What a request knows of passwords: the one that it has proved was accepted
\* then, and is the host's if that has not changed since.
Knows(o) ==
  Live(o) =>
    /\ rows[ops[o].server] # None
    /\ Proved(ops[o]) =>
         /\ ops[o].password \in past[Host(o)]
         /\ ops[o].still => ops[o].password = password[Host(o)]
    /\ ops[o].pc = "recheck" =>
         rows[ops[o].server].fallback \in past[Host(o)] \cup {None}

\* A request that is alone still works from the row as it is.
Alone(o) ==
  Live(o) /\ ops[o].alone =>
    /\ LiveOn(Host(o)) = {o}
    /\ ops[o].pc # "recheck" => rows[ops[o].server] = ops[o].row

Counts == started <= MaxOps /\ \A o \in Ops : o > started => ops[o].pc = "none"

KeyInv ==
  /\ KeyTypeOK /\ Counts /\ VerifiedWasAccepted
  /\ \A h \in Hosts : password[h] \in past[h]
  /\ \A o \in Ops : Formed(ops[o]) /\ Knows(o) /\ Alone(o)

\* What a row may be.
Sound(v, h) ==
  /\ v \in RowTypes
  /\ v.auth = "key" <=> v.secret \in Keys
  /\ v.auth = "key" <=> v.installed
  /\ v.verified /\ v.fallback # None => v.fallback \in past[h]

LEMMA PcsAre ==
  ASSUME KeyInv, NEW o \in Ops
  PROVE  Live(o) <=> ops[o].pc \in LivePcs
  BY DEF KeyInv, KeyTypeOK, OpTypes, Live, LivePcs

LEMMA SortsApart ==
  /\ Keys \subseteq Nat /\ Keys \cap Passwords = {}
  /\ None \notin Passwords /\ None \notin Keys
  BY PasswordsAssumption, KeyBoundsAssumption DEF Keys

LEMMA RowsSound ==
  ASSUME KeyInv, NEW s \in Servers, rows[s] # None
  PROVE  Sound(rows[s], HostOf[s])
  BY DEF KeyInv, KeyTypeOK, VerifiedWasAccepted, Sound

\* A step of a request under way, which may write the row of its server.
LEMMA StepKeeps ==
  ASSUME KeyInv, NEW o \in Ops, Live(o), NEW op \in OpTypes,
         ops' = [ops EXCEPT ![o] = op],
         \/ op.pc = "done"
         \/ op.pc \in LivePcs /\ op.server = ops[o].server,
         Formed(op),
         UNCHANGED <<password, past, started, changes>>,
         authorized' \in [Hosts -> SUBSET [server: Servers, key: Keys]],
         Fault \/ UNCHANGED faults,
         NEW row, rows' = [rows EXCEPT ![ops[o].server] = row],
         Sound(row, Host(o)),
         \/ row = rows[ops[o].server]
         \/ row.fallback \in past[Host(o)] \cup {None},
         op.pc \in LivePcs =>
           /\ Proved(op) =>
                /\ op.password \in past[Host(o)]
                /\ op.still => op.password = password[Host(o)]
           /\ op.pc = "recheck" => row.fallback \in past[Host(o)] \cup {None}
           /\ op.alone => /\ ops[o].alone
                          /\ op.pc # "recheck" => row = op.row
  PROVE  KeyInv'
<1> DEFINE s == ops[o].server
           h == Host(o)
<1>1. /\ ops \in [Ops -> OpTypes] /\ rows \in [Servers -> RowTypes \cup {None}]
      /\ s \in Servers /\ h = HostOf[s] /\ h \in Hosts /\ ops[o].pc \in LivePcs
  BY HostsAssumption, PcsAre DEF KeyInv, KeyTypeOK, Formed, Host
<1>2. /\ rows' \in [Servers -> RowTypes \cup {None}] /\ rows'[s] = row
      /\ \A t \in Servers \ {s} : rows'[t] = rows[t]
      /\ row # None
  <2>1. row \in RowTypes
    BY DEF Sound
  <2>2. None \notin RowTypes
    BY PasswordsAssumption
  <2> QED BY <1>1, <2>1, <2>2
<1>3. /\ ops' \in [Ops -> OpTypes] /\ ops'[o] = op
      /\ \A q \in Ops \ {o} : ops'[q] = ops[q]
  BY <1>1
<1>4. faults' \in 0..MaxFaults
  BY KeyBoundsAssumption DEF KeyInv, KeyTypeOK, Fault
<1>5. KeyTypeOK'
  <2>1. \A t \in Servers : rows'[t] # None =>
          /\ rows'[t].auth = "key" <=> rows'[t].secret \in Keys
          /\ rows'[t].auth = "key" <=> rows'[t].installed
    BY <1>2 DEF Sound, KeyInv, KeyTypeOK
  <2> QED BY <1>2, <1>3, <1>4, <2>1 DEF KeyInv, KeyTypeOK
<1>6. Counts'
  BY <1>1, <1>3, PcsAre DEF KeyInv, Counts, Live
<1>7. VerifiedWasAccepted'
  BY <1>1, <1>2 DEF KeyInv, VerifiedWasAccepted, Sound
<1>8. \A q \in Ops : Live(q)' => Live(q) /\ ops'[q].server = ops[q].server
                                 /\ Host(q)' = Host(q)
  BY <1>3 DEF Live, Host
<1>9. ASSUME NEW q \in Ops
      PROVE  LiveOn(Host(q))' \subseteq LiveOn(Host(q)) \/ ~Live(q)'
  BY <1>8 DEF LiveOn
<1>10. ASSUME NEW q \in Ops \ {o}
       PROVE  Formed(ops[q])' /\ Knows(q)' /\ Alone(q)'
  <2>1. ops'[q] = ops[q] /\ Formed(ops[q])'
    BY <1>3 DEF KeyInv, Formed
  <2> SUFFICES ASSUME Live(q)' PROVE Knows(q)' /\ Alone(q)'
    BY <2>1 DEF Knows, Alone
  <2>2. /\ Live(q) /\ Host(q)' = Host(q) /\ ops[q].server \in Servers
        /\ Host(q) = HostOf[ops[q].server] /\ Knows(q) /\ Alone(q)
    BY <1>8, PcsAre DEF KeyInv, Formed, Host
  <2>3. Knows(q)'
    <3>1. rows'[ops[q].server] # None
      BY <1>2, <2>2 DEF Knows
    <3>2. ops[q].pc = "recheck" =>
            rows'[ops[q].server].fallback \in past[Host(q)] \cup {None}
      <4>1. CASE ops[q].server = s
        BY <1>1, <1>2, <2>2, <4>1 DEF Knows
      <4>2. CASE ops[q].server # s
        BY <1>2, <2>2, <4>2 DEF Knows
      <4> QED BY <4>1, <4>2
    <3> QED BY <2>1, <2>2, <3>1, <3>2 DEF Knows
  <2>4. Alone(q)'
    <3> SUFFICES ASSUME ops[q].alone PROVE Alone(q)'
      BY <2>1 DEF Alone
    <3>1. LiveOn(Host(q)) = {q}
      BY <2>2 DEF Alone
    <3>2. o \notin LiveOn(Host(q)) /\ ops[q].server # s
      BY <2>2, <3>1, <1>1 DEF LiveOn
    <3>3. LiveOn(Host(q))' = {q}
      BY <1>9, <2>2, <3>1 DEF LiveOn
    <3>4. rows'[ops[q].server] = rows[ops[q].server]
      BY <1>2, <2>2, <3>2
    <3> QED BY <2>1, <2>2, <3>3, <3>4 DEF Alone
  <2> QED BY <2>3, <2>4
<1>11. Formed(ops[o])' /\ Knows(o)' /\ Alone(o)'
  <2>1. Formed(ops[o])'
    BY <1>3 DEF Formed
  <2> SUFFICES ASSUME Live(o)' PROVE Knows(o)' /\ Alone(o)'
    BY <2>1 DEF Knows, Alone
  <2>2. op.pc \in LivePcs /\ op.server = s /\ Host(o)' = h
    BY <1>3, <1>8 DEF Live
  <2>3. Knows(o)'
    BY <1>1, <1>2, <1>3, <2>2 DEF Knows
  <2>4. Alone(o)'
    <3>1. op.alone => LiveOn(h)' = {o}
      BY <1>9, <2>2 DEF LiveOn, KeyInv, Alone
    <3> QED BY <1>2, <1>3, <2>2, <3>1 DEF Alone
  <2> QED BY <2>3, <2>4
<1>12. \A g \in Hosts : password'[g] \in past'[g]
  BY DEF KeyInv
<1>13. \A q \in Ops : Formed(ops[q])' /\ Knows(q)' /\ Alone(q)'
  BY <1>10, <1>11
<1> QED BY <1>5, <1>6, <1>7, <1>12, <1>13 DEF KeyInv

\* A step of a request under way that writes no row.
LEMMA QuietKeeps ==
  ASSUME KeyInv, NEW o \in Ops, Live(o), NEW op \in OpTypes,
         ops' = [ops EXCEPT ![o] = op],
         \/ op.pc = "done"
         \/ op.pc \in LivePcs /\ op.server = ops[o].server,
         Formed(op),
         UNCHANGED <<rows, password, past, started, changes>>,
         authorized' \in [Hosts -> SUBSET [server: Servers, key: Keys]],
         Fault \/ UNCHANGED faults,
         op.pc \in LivePcs =>
           /\ Proved(op) =>
                /\ op.password \in past[Host(o)]
                /\ op.still => op.password = password[Host(o)]
           /\ op.pc = "recheck" => ops[o].pc = "recheck"
           /\ op.alone => ops[o].alone
           /\ op.pc # "recheck" => ops[o].pc # "recheck" /\ op.row = ops[o].row
  PROVE  KeyInv'
<1> DEFINE s   == ops[o].server
           row == rows[s]
<1>1. /\ s \in Servers /\ Host(o) = HostOf[s] /\ row # None
      /\ rows \in [Servers -> RowTypes \cup {None}]
      /\ Knows(o) /\ Alone(o)
  BY PcsAre DEF KeyInv, KeyTypeOK, Formed, Knows, Host
<1>2. rows' = [rows EXCEPT ![s] = row]
  BY <1>1
<1>3. Sound(row, Host(o))
  BY <1>1, RowsSound
<1>4. op.pc \in LivePcs =>
        /\ op.pc = "recheck" => row.fallback \in past[Host(o)] \cup {None}
        /\ op.alone /\ op.pc # "recheck" => row = op.row
  BY <1>1 DEF Knows, Alone
<1> HIDE DEF row
<1> QED BY <1>2, <1>3, <1>4, StepKeeps DEF row

LEMMA EndedFormed ==
  ASSUME NEW op \in OpTypes,
         NEW outcome \in {"none", "ok", "failed", "blocked", "review"}
  PROVE  /\ Ended(op, outcome) \in OpTypes /\ Formed(Ended(op, outcome))
         /\ Ended(op, outcome).pc = "done"
<1> DEFINE e == Ended(op, outcome)
<1>1. NoOp \in OpTypes
  BY DEF NoOp, OpTypes
<1>2. op.kind \in {"none", "provision", "remove", "offer"}
  BY DEF OpTypes
<1> DEFINE a == [NoOp EXCEPT !.kind = op.kind]
           b == [a EXCEPT !.pc = "done"]
<1>3. a \in OpTypes
  BY <1>1, <1>2 DEF OpTypes
<1>4. e = [b EXCEPT !.outcome = outcome]
  BY DEF Ended
<1> HIDE DEF a
<1>5. b \in OpTypes /\ b.pc = "done"
  BY <1>3 DEF OpTypes
<1> HIDE DEF b, e
<1>6. e \in OpTypes /\ e.pc = "done"
  BY <1>4, <1>5 DEF OpTypes
<1>7. Formed(e)
  BY <1>6 DEF Formed, LivePcs
<1> QED BY <1>6, <1>7 DEF e

LEMMA AnsweredKeeps ==
  ASSUME KeyInv, NEW o \in Ops, Live(o), NEW yes \in BOOLEAN,
         Answered(o, yes),
         UNCHANGED <<rows, password, past, started, changes>>,
         authorized' \in [Hosts -> SUBSET [server: Servers, key: Keys]],
         Fault \/ UNCHANGED faults,
         yes /\ ops[o].pc \in {"verify", "install"} =>
           ops[o].password = password[Host(o)]
  PROVE  KeyInv'
<1> DEFINE op == [ops[o] EXCEPT !.answer = IF yes THEN "yes" ELSE "no"]
<1>1. /\ ops \in [Ops -> OpTypes] /\ ops[o] \in OpTypes /\ Formed(ops[o])
      /\ Knows(o) /\ ops[o].pc \in LivePcs
  BY PcsAre DEF KeyInv, KeyTypeOK
<1>2. /\ op \in OpTypes /\ ops' = [ops EXCEPT ![o] = op]
      /\ op.answer = IF yes THEN "yes" ELSE "no"
      /\ op.pc = ops[o].pc /\ op.server = ops[o].server /\ op.row = ops[o].row
      /\ op.kind = ops[o].kind /\ op.password = ops[o].password
      /\ op.still = ops[o].still /\ op.alone = ops[o].alone
  BY <1>1 DEF Answered, OpTypes
<1> HIDE DEF op
<1>3. Formed(op)
  BY <1>1, <1>2 DEF Formed
<1>4. Host(o) \in Hosts /\ password[Host(o)] \in past[Host(o)]
  BY <1>1, HostsAssumption DEF KeyInv, Formed, Host
<1>5. Proved(op) =>
        /\ op.password \in past[Host(o)]
        /\ op.still => op.password = password[Host(o)]
  BY <1>1, <1>2, <1>4 DEF Proved, Knows
<1> QED BY <1>1, <1>2, <1>3, <1>5, QuietKeeps

\* What a session does to authorized_keys, and what it answers.
LEMMA SessionKeeps ==
  ASSUME KeyInv, NEW o \in Ops, Live(o), NEW accepted \in BOOLEAN, NEW effect,
         accepted => effect \in [Hosts -> SUBSET [server: Servers, key: Keys]],
         Session(o, accepted, effect),
         UNCHANGED <<rows, password, past, started, changes>>,
         accepted /\ ops[o].pc \in {"verify", "install"} =>
           ops[o].password = password[Host(o)]
  PROVE  KeyInv'
<1>1. /\ authorized' \in [Hosts -> SUBSET [server: Servers, key: Keys]]
      /\ Fault \/ UNCHANGED faults
      /\ (Answered(o, TRUE) /\ accepted) \/ Answered(o, FALSE)
  BY DEF Session, KeyInv, KeyTypeOK
<1>2. CASE Answered(o, TRUE) /\ accepted
  BY <1>1, <1>2, AnsweredKeeps
<1>3. CASE Answered(o, FALSE)
  BY <1>1, <1>3, AnsweredKeeps
<1> QED BY <1>1, <1>2, <1>3

\* An installation that is accepted was made with the password.
LEMMA InstallNeedsPassword ==
  ASSUME KeyInv, NEW o \in Ops, ops[o].pc = "install",
         Bootstrap(ops[o]) = password[Host(o)]
  PROVE  /\ ops[o].password = password[Host(o)]
         /\ ~IsKeyServer(ops[o].row) /\ ops[o].password = ops[o].row.secret
<1>1. /\ ops[o].pc \in LivePcs /\ Formed(ops[o]) /\ ops[o].server \in Servers
      /\ ops[o].kind = "provision"
  BY DEF LivePcs, KeyInv, Formed
<1>2. password[Host(o)] \in Passwords
  BY <1>1, HostsAssumption DEF KeyInv, KeyTypeOK, Host
<1>3. ~IsKeyServer(ops[o].row)
  BY <1>1, <1>2, SortsApart DEF Bootstrap, IsKeyServer, Formed
<1> QED BY <1>1, <1>3 DEF Bootstrap, Formed

LEMMA LinesTyped ==
  ASSUME KeyInv, NEW h, NEW s
  PROVE  Purged(h, s) \subseteq authorized[h]
  BY DEF Purged

LEMMA ServeKeeps ==
  ASSUME KeyInv, NEW o \in Ops, Serve(o)
  PROVE  KeyInv'
<1> DEFINE h == Host(o)
           s == ops[o].server
<1>1. UNCHANGED <<rows, password, past, started, changes>>
  BY DEF Serve
<1>2. /\ Live(o) /\ s \in Servers /\ h \in Hosts
      /\ authorized \in [Hosts -> SUBSET [server: Servers, key: Keys]]
      /\ authorized[h] \in SUBSET [server: Servers, key: Keys]
  <2>1. ops[o].pc \in LivePcs
    BY DEF Serve, TryPassword, InstallLine, TryKey, RemoveLine, LivePcs
  <2>2. Live(o) /\ s \in Servers
    BY <2>1, PcsAre DEF KeyInv, Formed
  <2> QED BY <2>2, HostsAssumption DEF Host, KeyInv, KeyTypeOK
<1>3. CASE TryPassword(o)
  <2> DEFINE accepted == ops[o].password = password[h]
  <2>1. accepted \in BOOLEAN /\ Session(o, accepted, authorized)
    BY <1>3 DEF TryPassword
  <2>2. accepted => ops[o].password = password[Host(o)]
    OBVIOUS
  <2> HIDE DEF accepted
  <2> QED BY <1>1, <1>2, <2>1, <2>2, SessionKeeps
<1>4. CASE InstallLine(o)
  <2> DEFINE accepted == Bootstrap(ops[o]) = password[h]
             purged == [authorized EXCEPT ![h] = Purged(h, s)]
             effect == [authorized EXCEPT ![h] = Purged(h, s) \cup {Line(s, o)}]
  <2>1. ops[o].pc = "install" /\ accepted \in BOOLEAN
    BY <1>4 DEF InstallLine
  <2>2. \/ Session(o, accepted, effect)
        \/ Fault /\ Answered(o, FALSE) /\ authorized' = purged
    BY <1>4 DEF InstallLine
  <2>3. accepted => ops[o].password = password[Host(o)]
    BY <2>1, InstallNeedsPassword
  <2>4. Purged(h, s) \in SUBSET [server: Servers, key: Keys]
    BY <1>2, LinesTyped
  <2>5. Line(s, o) \in [server: Servers, key: Keys]
    BY <1>2, KeyBoundsAssumption DEF Line, Keys, Ops
  <2>6. purged \in [Hosts -> SUBSET [server: Servers, key: Keys]]
    BY <1>2, <2>4
  <2>7. effect \in [Hosts -> SUBSET [server: Servers, key: Keys]]
    BY <1>2, <2>4, <2>5
  <2> HIDE DEF accepted, purged, effect
  <2>8. CASE Session(o, accepted, effect)
    BY <1>1, <1>2, <2>1, <2>3, <2>7, <2>8, SessionKeeps
  <2>9. CASE Fault /\ Answered(o, FALSE) /\ authorized' = purged
    BY <1>1, <1>2, <2>6, <2>9, AnsweredKeeps
  <2> QED BY <2>2, <2>8, <2>9
<1>5. CASE TryKey(o)
  <2> DEFINE accepted == Line(s, o) \in authorized[h]
  <2>1. ops[o].pc = "keycheck" /\ accepted \in BOOLEAN
        /\ Session(o, accepted, authorized)
    BY <1>5 DEF TryKey
  <2> HIDE DEF accepted
  <2> QED BY <1>1, <1>2, <2>1, SessionKeeps
<1>6. CASE RemoveLine(o)
  <2> DEFINE accepted == Line(s, ops[o].row.secret) \in authorized[h]
             purged == [authorized EXCEPT ![h] = Purged(h, s)]
  <2>1. ops[o].pc = "unlink" /\ accepted \in BOOLEAN
        /\ Session(o, accepted, purged)
    BY <1>6 DEF RemoveLine
  <2>2. Purged(h, s) \in SUBSET [server: Servers, key: Keys]
    BY <1>2, LinesTyped
  <2>3. purged \in [Hosts -> SUBSET [server: Servers, key: Keys]]
    BY <1>2, <2>2
  <2> HIDE DEF accepted, purged
  <2> QED BY <1>1, <1>2, <2>1, <2>3, SessionKeeps
<1> QED BY <1>3, <1>4, <1>5, <1>6 DEF Serve

-----------------------------------------------------------------------------
(* The hub's part.                                                         *)

LEMMA EndKeeps ==
  ASSUME KeyInv, NEW o \in Ops, Live(o),
         NEW outcome \in {"ok", "failed", "blocked", "review"}, End(o, outcome),
         UNCHANGED <<rows, hosts, started, changes>>, Fault \/ UNCHANGED faults
  PROVE  KeyInv'
<1> DEFINE op == Ended(ops[o], outcome)
<1>1. ops[o] \in OpTypes /\ ops' = [ops EXCEPT ![o] = op]
  BY DEF KeyInv, KeyTypeOK, End
<1>2. op \in OpTypes /\ Formed(op) /\ op.pc = "done"
  BY <1>1, EndedFormed
<1>3. /\ UNCHANGED <<rows, password, past, started, changes>>
      /\ authorized' \in [Hosts -> SUBSET [server: Servers, key: Keys]]
  BY DEF hosts, KeyInv, KeyTypeOK
<1> HIDE DEF op
<1> QED BY <1>1, <1>2, <1>3, QuietKeeps DEF LivePcs

\* What a request is after it has gone on to its next command.
LEMMA GoesOn ==
  ASSUME KeyInv, NEW o \in Ops, NEW pc \in LivePcs
  PROVE  LET op == [ops[o] EXCEPT !.pc = pc, !.answer = "none"]
         IN /\ op \in OpTypes /\ op.pc = pc /\ op.answer = "none"
            /\ op.kind = ops[o].kind /\ op.server = ops[o].server
            /\ op.row = ops[o].row /\ op.password = ops[o].password
            /\ op.still = ops[o].still /\ op.alone = ops[o].alone
<1> DEFINE a == [ops[o] EXCEPT !.pc = pc]
           b == [a EXCEPT !.answer = "none"]
<1>1. ops[o] \in OpTypes
  BY DEF KeyInv, KeyTypeOK
<1>2. /\ a \in OpTypes /\ a.pc = pc
      /\ a.kind = ops[o].kind /\ a.server = ops[o].server
      /\ a.row = ops[o].row /\ a.password = ops[o].password
      /\ a.still = ops[o].still /\ a.alone = ops[o].alone
  BY <1>1 DEF OpTypes, LivePcs
<1>3. b = [ops[o] EXCEPT !.pc = pc, !.answer = "none"]
  OBVIOUS
<1> HIDE DEF a
<1>4. /\ b \in OpTypes /\ b.pc = pc /\ b.answer = "none"
      /\ b.kind = ops[o].kind /\ b.server = ops[o].server
      /\ b.row = ops[o].row /\ b.password = ops[o].password
      /\ b.still = ops[o].still /\ b.alone = ops[o].alone
  BY <1>2 DEF OpTypes
<1> QED BY <1>3, <1>4

LEMMA GoOnKeeps ==
  ASSUME KeyInv, NEW o \in Ops, Live(o), ops[o].pc # "recheck",
         NEW pc \in LivePcs \ {"recheck"}, GoOn(o, pc),
         UNCHANGED <<rows, hosts, started, changes, faults>>,
         pc \in {"install", "keycheck"} => ops[o].kind = "provision",
         pc = "unlink" => ops[o].kind = "remove",
         pc \in {"keycheck", "unlink"} => Proved(ops[o])
  PROVE  KeyInv'
<1> DEFINE op == [ops[o] EXCEPT !.pc = pc, !.answer = "none"]
<1>1. /\ op \in OpTypes /\ op.pc = pc /\ op.answer = "none"
      /\ op.kind = ops[o].kind /\ op.server = ops[o].server
      /\ op.row = ops[o].row /\ op.password = ops[o].password
      /\ op.still = ops[o].still /\ op.alone = ops[o].alone
  BY GoesOn
<1>2. ops' = [ops EXCEPT ![o] = op]
  BY DEF GoOn
<1> HIDE DEF op
<1>3. Formed(ops[o]) /\ Knows(o) /\ ops[o].pc \in LivePcs
  BY PcsAre DEF KeyInv
<1>4. Formed(op)
  BY <1>1, <1>3 DEF Formed
<1>5. Proved(op) =>
        /\ op.password \in past[Host(o)]
        /\ op.still => op.password = password[Host(o)]
  BY <1>1, <1>3 DEF Proved, Knows
<1>6. /\ UNCHANGED <<rows, password, past, started, changes>>
      /\ authorized' \in [Hosts -> SUBSET [server: Servers, key: Keys]]
      /\ UNCHANGED faults
  BY DEF hosts, KeyInv, KeyTypeOK
<1> QED BY <1>1, <1>2, <1>4, <1>5, <1>6, QuietKeeps

\* What the hub knows of a request at an answer.
LEMMA AnswerTells ==
  ASSUME KeyInv, NEW o \in Ops, NEW pc \in LivePcs, NEW yes \in BOOLEAN,
         Answer(o, pc, yes)
  PROVE  /\ Live(o) /\ ops[o].pc = pc
         /\ ops[o].answer = IF yes THEN "yes" ELSE "no"
         /\ ops[o].server \in Servers /\ Host(o) = HostOf[ops[o].server]
         /\ Host(o) \in Hosts /\ rows[ops[o].server] # None
         /\ rows[ops[o].server] \in RowTypes
         /\ Sound(rows[ops[o].server], Host(o))
         /\ past[Host(o)] \subseteq Passwords
         /\ UNCHANGED <<password, past, started, changes>>
         /\ authorized' \in [Hosts -> SUBSET [server: Servers, key: Keys]]
         /\ Formed(ops[o]) /\ Knows(o) /\ ops[o] \in OpTypes
<1>1. /\ ops[o].pc = pc /\ ops[o].answer = IF yes THEN "yes" ELSE "no"
      /\ UNCHANGED <<password, past, started, changes>>
      /\ authorized' \in [Hosts -> SUBSET [server: Servers, key: Keys]]
  BY DEF Answer, hosts, KeyInv, KeyTypeOK
<1>2. Live(o) /\ Formed(ops[o]) /\ Knows(o) /\ ops[o] \in OpTypes
  BY <1>1, PcsAre DEF KeyInv, KeyTypeOK
<1>3. /\ ops[o].server \in Servers /\ Host(o) = HostOf[ops[o].server]
      /\ Host(o) \in Hosts /\ rows[ops[o].server] # None
  BY <1>1, <1>2, HostsAssumption DEF Formed, Knows, Host
<1>4. /\ rows[ops[o].server] \in RowTypes /\ past[Host(o)] \subseteq Passwords
      /\ Sound(rows[ops[o].server], Host(o))
  BY <1>3, RowsSound DEF KeyInv, KeyTypeOK
<1> QED BY <1>1, <1>2, <1>3, <1>4

LEMMA ProvedKeeps ==
  ASSUME KeyInv, NEW o \in Ops, PasswordProved(o) \/ RemovalAllowed(o)
  PROVE  KeyInv'
<1>1. /\ Answer(o, "verify", TRUE) /\ UNCHANGED rows
      /\ ops[o].kind \in {"provision", "remove"}
  BY DEF PasswordProved, RemovalAllowed
<1>2. /\ Live(o) /\ ops[o].pc = "verify" /\ ops[o].answer = "yes"
      /\ Proved(ops[o]) /\ UNCHANGED <<hosts, started, changes>>
  BY <1>1, AnswerTells DEF LivePcs, Proved, Answer
<1>3. CASE PasswordProved(o)
  <2>1. ops[o].kind = "provision"
    BY <1>3 DEF PasswordProved
  <2>2. CASE GoOn(o, "install") /\ UNCHANGED faults
    <3>1. "install" \in LivePcs \ {"recheck"}
      BY DEF LivePcs
    <3> QED BY <1>1, <1>2, <2>1, <2>2, <3>1, GoOnKeeps
  <2>3. CASE End(o, "failed") /\ Fault
    BY <1>1, <1>2, <2>3, EndKeeps
  <2> QED BY <1>3, <2>2, <2>3 DEF PasswordProved
<1>4. CASE RemovalAllowed(o)
  <2>1. ops[o].kind = "remove" /\ GoOn(o, "unlink") /\ UNCHANGED faults
    BY <1>4 DEF RemovalAllowed
  <2>2. "unlink" \in LivePcs \ {"recheck"}
    BY DEF LivePcs
  <2> QED BY <1>1, <1>2, <2>1, <2>2, GoOnKeeps
<1> QED BY <1>3, <1>4

LEMMA LineInstalledKeeps ==
  ASSUME KeyInv, NEW o \in Ops, LineInstalled(o)
  PROVE  KeyInv'
<1>1. Answer(o, "install", TRUE) /\ GoOn(o, "keycheck") /\ UNCHANGED <<rows, faults>>
  BY DEF LineInstalled
<1>2. /\ Live(o) /\ ops[o].pc = "install" /\ Proved(ops[o])
      /\ UNCHANGED <<hosts, started, changes>> /\ ops[o].kind = "provision"
  BY <1>1, AnswerTells DEF LivePcs, Proved, Answer, Formed
<1>3. "keycheck" \in LivePcs \ {"recheck"}
  BY DEF LivePcs
<1> QED BY <1>1, <1>2, <1>3, GoOnKeeps

LEMMA GiveUpKeeps ==
  ASSUME KeyInv, NEW o \in Ops, GiveUp(o)
  PROVE  KeyInv'
<1>1. PICK pc \in {"verify", "install", "keycheck", "recheck"} :
        /\ Answer(o, pc, FALSE)
        /\ End(o, CASE pc = "recheck" -> "review"
                    [] pc = "verify" /\ ops[o].kind = "remove" -> "blocked"
                    [] OTHER -> "failed")
  BY DEF GiveUp
<1>2. PICK outcome \in {"failed", "blocked", "review"} : End(o, outcome)
  BY <1>1
<1>3. Live(o) /\ UNCHANGED <<rows, hosts, started, changes, faults>>
  BY <1>1, AnswerTells DEF LivePcs, Answer, GiveUp
<1> QED BY <1>2, <1>3, EndKeeps

\* A fallback that was proved is stored.
LEMMA StoreFallbackKeeps ==
  ASSUME KeyInv, NEW o \in Ops, StoreFallback(o)
  PROVE  KeyInv'
<1> DEFINE s    == ops[o].server
           p    == ops[o].password
           kept == [rows[s] EXCEPT !.fallback = p]
           row  == [kept EXCEPT !.verified = TRUE]
           op   == Ended(ops[o], "ok")
<1>1. Answer(o, "verify", TRUE) /\ End(o, "ok") /\ UNCHANGED faults
  BY DEF StoreFallback
<1>2. /\ Live(o) /\ ops[o].pc = "verify" /\ ops[o].answer = "yes"
      /\ ops[o] \in OpTypes /\ s \in Servers /\ Knows(o)
      /\ rows[s] \in RowTypes /\ Sound(rows[s], Host(o))
      /\ past[Host(o)] \subseteq Passwords
      /\ UNCHANGED <<password, past, started, changes>>
      /\ authorized' \in [Hosts -> SUBSET [server: Servers, key: Keys]]
  BY <1>1, AnswerTells DEF LivePcs
<1>3. p \in past[Host(o)]
  BY <1>2 DEF Knows, Proved
<1>4. rows' = [rows EXCEPT ![s] = row]
  <2>1. rows \in [Servers -> RowTypes \cup {None}]
    BY DEF KeyInv, KeyTypeOK
  <2>2. rows' = [rows EXCEPT ![s].fallback = p, ![s].verified = TRUE]
    BY DEF StoreFallback
  <2> QED BY <1>2, <2>1, <2>2
<1>5. /\ kept \in RowTypes /\ kept.auth = rows[s].auth
      /\ kept.secret = rows[s].secret /\ kept.installed = rows[s].installed
      /\ kept.fallback = p
  BY <1>2, <1>3 DEF RowTypes
<1> HIDE DEF kept
<1>6. /\ row \in RowTypes /\ row.auth = rows[s].auth
      /\ row.secret = rows[s].secret /\ row.installed = rows[s].installed
      /\ row.fallback = p
  BY <1>5 DEF RowTypes
<1> HIDE DEF row
<1>7. Sound(row, Host(o)) /\ row.fallback \in past[Host(o)] \cup {None}
  BY <1>2, <1>3, <1>6 DEF Sound
<1>8. op \in OpTypes /\ Formed(op) /\ op.pc = "done" /\ op.pc \notin LivePcs
  BY <1>2, EndedFormed DEF LivePcs
<1>9. ops' = [ops EXCEPT ![o] = op]
  BY <1>1 DEF End
<1> HIDE DEF op
<1> QED BY <1>1, <1>2, <1>4, <1>7, <1>8, <1>9, StepKeeps

\* The verified mark of a fallback that was proved, or has been dropped.
LEMMA PasswordStillWorksKeeps ==
  ASSUME KeyInv, NEW o \in Ops, PasswordStillWorks(o)
  PROVE  KeyInv'
<1> DEFINE s   == ops[o].server
           row == [rows[s] EXCEPT !.verified = TRUE]
           op  == Ended(ops[o], "ok")
<1>1. Answer(o, "recheck", TRUE) /\ End(o, "ok") /\ UNCHANGED faults
  BY DEF PasswordStillWorks
<1>2. /\ Live(o) /\ ops[o].pc = "recheck" /\ ops[o] \in OpTypes
      /\ s \in Servers /\ Knows(o)
      /\ rows[s] \in RowTypes /\ Sound(rows[s], Host(o))
      /\ UNCHANGED <<password, past, started, changes>>
      /\ authorized' \in [Hosts -> SUBSET [server: Servers, key: Keys]]
  BY <1>1, AnswerTells DEF LivePcs
<1>3. rows' = [rows EXCEPT ![s] = row]
  <2>1. rows \in [Servers -> RowTypes \cup {None}]
    BY DEF KeyInv, KeyTypeOK
  <2>2. rows' = [rows EXCEPT ![s].verified = TRUE]
    BY DEF PasswordStillWorks
  <2> QED BY <1>2, <2>1, <2>2
<1>4. /\ row \in RowTypes /\ row.auth = rows[s].auth
      /\ row.secret = rows[s].secret /\ row.installed = rows[s].installed
      /\ row.fallback = rows[s].fallback
  BY <1>2 DEF RowTypes
<1> HIDE DEF row
<1>5. rows[s].fallback \in past[Host(o)] \cup {None}
  BY <1>2 DEF Knows
<1>6. Sound(row, Host(o)) /\ row.fallback \in past[Host(o)] \cup {None}
  BY <1>2, <1>4, <1>5 DEF Sound
<1>7. op \in OpTypes /\ Formed(op) /\ op.pc = "done" /\ op.pc \notin LivePcs
  BY <1>2, EndedFormed DEF LivePcs
<1>8. ops' = [ops EXCEPT ![o] = op]
  BY <1>1 DEF End
<1> HIDE DEF op
<1> QED BY <1>1, <1>2, <1>3, <1>6, <1>7, <1>8, StepKeeps

\* After a removal the password that was proved is the secret.
LEMMA BackToPasswordKeeps ==
  ASSUME KeyInv, NEW o \in Ops, BackToPassword(o)
  PROVE  KeyInv'
<1> DEFINE s   == ops[o].server
           p   == ops[o].row.fallback
           row == [rows[s] EXCEPT !.auth = "password", !.secret = p,
                                  !.fallback = None, !.installed = FALSE]
           op  == Ended(ops[o], "ok")
<1>1. PICK yes \in BOOLEAN : Answer(o, "unlink", yes)
  BY DEF BackToPassword
<1>2. /\ Live(o) /\ ops[o].pc = "unlink" /\ ops[o] \in OpTypes
      /\ s \in Servers /\ Knows(o) /\ Formed(ops[o])
      /\ rows[s] \in RowTypes /\ Sound(rows[s], Host(o))
      /\ past[Host(o)] \subseteq Passwords
      /\ UNCHANGED <<password, past, started, changes>>
      /\ authorized' \in [Hosts -> SUBSET [server: Servers, key: Keys]]
  BY <1>1, AnswerTells DEF LivePcs
<1>3. p \in Passwords /\ p \notin Keys
  BY <1>2, SortsApart DEF Knows, Formed, Proved, LivePcs
<1>4. rows' = [rows EXCEPT ![s] = row]
  BY DEF BackToPassword
<1>5. /\ row \in RowTypes /\ row.auth = "password" /\ row.secret = p
      /\ row.installed = FALSE /\ row.fallback = None
  BY <1>2, <1>3 DEF RowTypes
<1> HIDE DEF row
<1>6. Sound(row, Host(o)) /\ row.fallback \in past[Host(o)] \cup {None}
  BY <1>3, <1>5 DEF Sound
<1>7. op \in OpTypes /\ Formed(op) /\ op.pc = "done" /\ op.pc \notin LivePcs
  BY <1>2, EndedFormed DEF LivePcs
<1>8. ops' = [ops EXCEPT ![o] = op] /\ UNCHANGED faults
  BY DEF BackToPassword, End
<1> HIDE DEF op
<1> QED BY <1>2, <1>4, <1>6, <1>7, <1>8, StepKeeps

\* A new key is trusted only after a password was proved.
LEMMA KeyAfterPassword ==
  ASSUME KeyInv, NEW o \in Ops, Answer(o, "keycheck", TRUE)
  PROVE  ops[o].password \in past[Host(o)] /\ ops[o].password # None
<1>1. ops[o].pc = "keycheck" /\ Live(o) /\ Knows(o)
      /\ past[Host(o)] \subseteq Passwords
  BY AnswerTells DEF LivePcs
<1> QED BY <1>1, SortsApart DEF Knows, Proved

LEMMA SwitchKeeps ==
  ASSUME KeyInv, NEW o \in Ops, SwitchToKey(o)
  PROVE  KeyInv'
<1> DEFINE s   == ops[o].server
           p   == ops[o].password
           row == [rows[s] EXCEPT !.auth = "key", !.secret = o,
                                  !.installed = TRUE, !.fallback = p]
           op  == [ops[o] EXCEPT !.pc = "recheck", !.answer = "none"]
<1>1. Answer(o, "keycheck", TRUE) /\ UNCHANGED faults
  BY DEF SwitchToKey
<1>2. /\ Live(o) /\ ops[o].pc = "keycheck" /\ ops[o] \in OpTypes
      /\ s \in Servers /\ Knows(o) /\ Formed(ops[o])
      /\ rows[s] \in RowTypes /\ Sound(rows[s], Host(o))
      /\ past[Host(o)] \subseteq Passwords
      /\ UNCHANGED <<password, past, started, changes>>
      /\ authorized' \in [Hosts -> SUBSET [server: Servers, key: Keys]]
  BY <1>1, AnswerTells DEF LivePcs
<1>3. p \in past[Host(o)] /\ p # None /\ p \in Passwords
  BY <1>1, <1>2, KeyAfterPassword
<1>4. rows' = [rows EXCEPT ![s] = row] /\ ops' = [ops EXCEPT ![o] = op]
  BY <1>3 DEF SwitchToKey, GoOn
<1>5. o \in Keys
  BY KeyBoundsAssumption DEF Ops, Keys
<1>6. /\ row \in RowTypes /\ row.auth = "key" /\ row.secret = o
      /\ row.installed = TRUE /\ row.fallback = p
  <2> DEFINE a == [rows[s] EXCEPT !.auth = "key", !.secret = o]
  <2>1. /\ a \in RowTypes /\ a.auth = "key" /\ a.secret = o
    BY <1>2, <1>5 DEF RowTypes
  <2>2. row = [a EXCEPT !.installed = TRUE, !.fallback = p]
    OBVIOUS
  <2> HIDE DEF a, row
  <2> QED BY <1>3, <2>1, <2>2 DEF RowTypes
<1> HIDE DEF row
<1>7. Sound(row, Host(o)) /\ row.fallback \in past[Host(o)] \cup {None}
  BY <1>3, <1>5, <1>6 DEF Sound
<1>8. "recheck" \in LivePcs
  BY DEF LivePcs
<1>9. /\ op \in OpTypes /\ op.pc = "recheck" /\ op.answer = "none"
      /\ op.kind = ops[o].kind /\ op.server = ops[o].server
      /\ op.row = ops[o].row /\ op.password = ops[o].password
      /\ op.still = ops[o].still /\ op.alone = ops[o].alone
  BY <1>8, GoesOn
<1> HIDE DEF op
<1>10. Formed(op)
  BY <1>2, <1>9 DEF Formed, LivePcs
<1>11. op.still => op.password = password[Host(o)]
  BY <1>2, <1>9 DEF Knows, Proved
<1> QED BY <1>1, <1>2, <1>3, <1>4, <1>7, <1>8, <1>9, <1>10, <1>11, StepKeeps

LEMMA StepOfKeeps ==
  ASSUME KeyInv, NEW o \in Ops, StepOf(o)
  PROVE  KeyInv'
  BY ServeKeeps, ProvedKeeps, StoreFallbackKeeps, LineInstalledKeeps,
     SwitchKeeps, PasswordStillWorksKeeps, BackToPasswordKeeps, GiveUpKeeps
     DEF StepOf

-----------------------------------------------------------------------------
(* New requests, and what happens beside them.                             *)

\* A request meets the others on its host.
LEMMA MeetTells ==
  ASSUME KeyInv, NEW h \in Hosts
  PROVE  /\ Meet(h) \in [Ops -> OpTypes]
         /\ \A q \in Ops :
              /\ Meet(h)[q].pc = ops[q].pc /\ Meet(h)[q].answer = ops[q].answer
              /\ Meet(h)[q].kind = ops[q].kind /\ Meet(h)[q].row = ops[q].row
              /\ Meet(h)[q].server = ops[q].server
              /\ Meet(h)[q].password = ops[q].password
              /\ Meet(h)[q].still = ops[q].still
              /\ q \in LiveOn(h) => ~Meet(h)[q].alone
              /\ q \notin LiveOn(h) => Meet(h)[q] = ops[q]
<1>1. ops \in [Ops -> OpTypes]
  BY DEF KeyInv, KeyTypeOK
<1>2. ASSUME NEW q \in Ops
      PROVE  /\ Meet(h)[q] \in OpTypes
             /\ Meet(h)[q].pc = ops[q].pc /\ Meet(h)[q].answer = ops[q].answer
             /\ Meet(h)[q].kind = ops[q].kind /\ Meet(h)[q].row = ops[q].row
             /\ Meet(h)[q].server = ops[q].server
             /\ Meet(h)[q].password = ops[q].password
             /\ Meet(h)[q].still = ops[q].still
             /\ q \in LiveOn(h) => ~Meet(h)[q].alone
             /\ q \notin LiveOn(h) => Meet(h)[q] = ops[q]
  <2> DEFINE op == [ops[q] EXCEPT !.alone = FALSE]
  <2>1. ops[q] \in OpTypes
    BY <1>1
  <2>2. op \in OpTypes /\ ~op.alone
    BY <2>1 DEF OpTypes
  <2>3. op.pc = ops[q].pc /\ op.answer = ops[q].answer /\ op.kind = ops[q].kind
    BY <2>1 DEF OpTypes
  <2>4. /\ op.row = ops[q].row /\ op.server = ops[q].server
        /\ op.password = ops[q].password /\ op.still = ops[q].still
    BY <2>1 DEF OpTypes
  <2>5. Meet(h)[q] = IF q \in LiveOn(h) THEN op ELSE ops[q]
    BY DEF Meet
  <2> HIDE DEF op
  <2> QED BY <2>1, <2>2, <2>3, <2>4, <2>5
<1>3. Meet(h) = [q \in Ops |-> Meet(h)[q]]
  BY DEF Meet
<1> QED BY <1>2, <1>3

\* What a request that has met another still is.
LEMMA MetKeeps ==
  ASSUME KeyInv, NEW h \in Hosts, NEW q \in Ops, ops'[q] = Meet(h)[q],
         UNCHANGED <<password, past>>,
         \A t \in Servers :
           /\ HostOf[t] # h => rows'[t] = rows[t]
           /\ rows[t] # None =>
                rows'[t] # None /\ rows'[t].fallback \in {None, rows[t].fallback},
         \A r \in Ops : Live(r)' => \/ Live(r) /\ Host(r)' = Host(r)
                                    \/ Host(r)' = h
  PROVE  Formed(ops[q])' /\ Knows(q)' /\ Alone(q)'
<1>1. /\ ops'[q].pc = ops[q].pc /\ ops'[q].answer = ops[q].answer
      /\ ops'[q].kind = ops[q].kind /\ ops'[q].row = ops[q].row
      /\ ops'[q].server = ops[q].server /\ ops'[q].password = ops[q].password
      /\ ops'[q].still = ops[q].still
      /\ q \in LiveOn(h) => ~ops'[q].alone
      /\ q \notin LiveOn(h) => ops'[q] = ops[q]
  BY MeetTells
<1>2. Formed(ops[q])'
  BY <1>1 DEF KeyInv, Formed
<1> SUFFICES ASSUME Live(q)' PROVE Knows(q)' /\ Alone(q)'
  BY <1>2 DEF Knows, Alone
<1>3. /\ Live(q) /\ Knows(q) /\ Alone(q) /\ ops[q].server \in Servers
      /\ Host(q) = HostOf[ops[q].server] /\ Host(q)' = Host(q)
  BY <1>1, PcsAre DEF Live, KeyInv, Formed, Host
<1>4. Knows(q)'
  BY <1>1, <1>3 DEF Knows, Proved
<1>5. Alone(q)'
  <2> SUFFICES ASSUME ops'[q].alone PROVE Alone(q)'
    BY DEF Alone
  <2>1. q \notin LiveOn(h) /\ ops'[q] = ops[q] /\ Host(q) # h
    BY <1>1, <1>3 DEF LiveOn
  <2>2. LiveOn(Host(q)) = {q}
    BY <1>3, <2>1 DEF Alone
  <2>3. LiveOn(Host(q))' = {q}
    BY <1>3, <2>1, <2>2 DEF LiveOn
  <2> QED BY <1>3, <2>1, <2>2, <2>3 DEF Alone
<1> QED BY <1>4, <1>5

\* A change of a row beside the requests.
LEMMA BesideKeeps ==
  ASSUME KeyInv, NEW s \in Servers, rows[s] # None,
         NEW row, rows' = [rows EXCEPT ![s] = row], Sound(row, HostOf[s]),
         row.fallback \in {None, rows[s].fallback},
         ops' = Meet(HostOf[s]), UNCHANGED <<hosts, started, faults>>,
         changes' \in 0..MaxChanges
  PROVE  KeyInv'
<1>1. /\ rows \in [Servers -> RowTypes \cup {None}] /\ HostOf[s] \in Hosts
      /\ rows'[s] = row /\ \A t \in Servers \ {s} : rows'[t] = rows[t]
      /\ row \in RowTypes /\ row # None
      /\ UNCHANGED <<password, past, authorized>>
  BY HostsAssumption, PasswordsAssumption DEF KeyInv, KeyTypeOK, Sound, hosts
<1>2. /\ ops' \in [Ops -> OpTypes]
      /\ \A q \in Ops : ops'[q].pc = ops[q].pc /\ ops'[q].server = ops[q].server
  BY <1>1, MeetTells
<1>3. KeyTypeOK'
  <2>1. \A t \in Servers : rows'[t] # None =>
          /\ rows'[t].auth = "key" <=> rows'[t].secret \in Keys
          /\ rows'[t].auth = "key" <=> rows'[t].installed
    BY <1>1 DEF Sound, KeyInv, KeyTypeOK
  <2>2. rows' \in [Servers -> RowTypes \cup {None}]
    BY <1>1
  <2> QED BY <1>1, <1>2, <2>1, <2>2 DEF KeyInv, KeyTypeOK
<1>4. Counts' /\ VerifiedWasAccepted'
  BY <1>1, <1>2 DEF KeyInv, Counts, VerifiedWasAccepted, Sound
<1>5. \A h \in Hosts : password'[h] \in past'[h]
  BY <1>1 DEF KeyInv
<1>6. ASSUME NEW q \in Ops PROVE Formed(ops[q])' /\ Knows(q)' /\ Alone(q)'
  <2>1. ops'[q] = Meet(HostOf[s])[q]
    OBVIOUS
  <2>2. \A r \in Ops : Live(r)' => Live(r) /\ Host(r)' = Host(r)
    BY <1>2 DEF Live, Host
  <2>3. \A t \in Servers :
          /\ HostOf[t] # HostOf[s] => rows'[t] = rows[t]
          /\ rows[t] # None =>
               rows'[t] # None /\ rows'[t].fallback \in {None, rows[t].fallback}
    BY <1>1
  <2> QED BY <1>1, <2>1, <2>2, <2>3, MetKeeps
<1> QED BY <1>3, <1>4, <1>5, <1>6 DEF KeyInv

\* A new request, from the row that it has read or, for a new server, written.
LEMMA BeginKeeps ==
  ASSUME KeyInv, NEW o \in Ops, NEW s \in Servers, NEW row,
         NEW op \in OpTypes, Begin(o, op),
         op.server = s, op.row = row, op.pc \in {"verify", "install"},
         op.answer = "none", Formed(op),
         Sound(row, HostOf[s]), rows[s] = None \/ rows[s] = row,
         rows' = [rows EXCEPT ![s] = row], UNCHANGED <<hosts, changes, faults>>
  PROVE  KeyInv'
<1> DEFINE h   == HostOf[s]
           new == [op EXCEPT !.alone = LiveOn(h) = {}]
<1>1. /\ o = started + 1 /\ started' = o
      /\ ops' = [Meet(h) EXCEPT ![o] = new]
  BY DEF Begin
<1>2. /\ new \in OpTypes /\ new.server = s /\ new.row = row /\ new.pc = op.pc
      /\ new.answer = "none" /\ new.kind = op.kind /\ new.password = op.password
      /\ new.alone <=> LiveOn(h) = {}
  BY DEF OpTypes
<1> HIDE DEF new
<1>3. /\ rows \in [Servers -> RowTypes \cup {None}] /\ h \in Hosts
      /\ rows'[s] = row /\ \A t \in Servers \ {s} : rows'[t] = rows[t]
      /\ row \in RowTypes /\ row # None
      /\ UNCHANGED <<password, past, authorized>>
  BY HostsAssumption, PasswordsAssumption DEF KeyInv, KeyTypeOK, Sound, hosts
<1>4. /\ ops' \in [Ops -> OpTypes] /\ ops'[o] = new
      /\ \A q \in Ops \ {o} : ops'[q] = Meet(h)[q]
      /\ \A q \in Ops \ {o} :
           ops'[q].pc = ops[q].pc /\ ops'[q].server = ops[q].server
  BY <1>1, <1>2, <1>3, MeetTells
<1>5. started' \in 0..MaxOps /\ Counts'
  BY <1>1, <1>4, KeyBoundsAssumption DEF KeyInv, KeyTypeOK, Counts, Ops
<1>6. KeyTypeOK'
  <2>1. \A t \in Servers : rows'[t] # None =>
          /\ rows'[t].auth = "key" <=> rows'[t].secret \in Keys
          /\ rows'[t].auth = "key" <=> rows'[t].installed
    BY <1>3 DEF Sound, KeyInv, KeyTypeOK
  <2>2. rows' \in [Servers -> RowTypes \cup {None}]
    BY <1>3
  <2> QED BY <1>3, <1>4, <1>5, <2>1, <2>2 DEF KeyInv, KeyTypeOK
<1>7. VerifiedWasAccepted'
  BY <1>3 DEF KeyInv, VerifiedWasAccepted, Sound
<1>8. \A g \in Hosts : password'[g] \in past'[g]
  BY <1>3 DEF KeyInv
<1>9. \A q \in Ops : Live(q)' => \/ q # o /\ Live(q) /\ Host(q)' = Host(q)
                                 \/ q = o /\ Host(q)' = h
  BY <1>2, <1>4 DEF Live, Host
<1>10. ASSUME NEW q \in Ops \ {o} PROVE Formed(ops[q])' /\ Knows(q)' /\ Alone(q)'
  <2>1. \A t \in Servers :
          /\ HostOf[t] # h => rows'[t] = rows[t]
          /\ rows[t] # None =>
               rows'[t] # None /\ rows'[t].fallback \in {None, rows[t].fallback}
    BY <1>3
  <2> QED BY <1>3, <1>4, <1>9, <2>1, MetKeeps
<1>11. Formed(ops[o])' /\ Knows(o)' /\ Alone(o)'
  <2>1. Formed(new)
    BY <1>2 DEF Formed
  <2>2. Formed(ops[o])'
    BY <1>4, <2>1 DEF Formed
  <2>3. Host(o)' = h
    BY <1>2, <1>4 DEF Host
  <2>4. ~Proved(new) /\ new.pc # "recheck"
    BY <1>2 DEF Proved
  <2>5. Knows(o)'
    BY <1>2, <1>3, <1>4, <2>4 DEF Knows, Proved
  <2>6. new.alone => LiveOn(h)' = {o} \/ ~Live(o)'
    BY <1>2, <1>9, <2>3 DEF LiveOn
  <2>7. Alone(o)'
    BY <1>2, <1>3, <1>4, <2>3, <2>6 DEF Alone
  <2> QED BY <2>2, <2>5, <2>7
<1>12. \A q \in Ops : Formed(ops[q])' /\ Knows(q)' /\ Alone(q)'
  BY <1>10, <1>11
<1> QED BY <1>5, <1>6, <1>7, <1>8, <1>12 DEF KeyInv

\* What a request is at its start.
LEMMA RequestIs ==
  ASSUME NEW kind \in {"provision", "remove", "offer"}, NEW s \in Servers,
         NEW row \in RowTypes, NEW p \in Passwords \cup {None},
         NEW pc \in {"verify", "install"}
  PROVE  LET op == Request(kind, s, row, p, pc)
         IN /\ op \in OpTypes /\ op.kind = kind /\ op.server = s
            /\ op.row = row /\ op.password = p /\ op.pc = pc
            /\ op.answer = "none"
<1> DEFINE op == Request(kind, s, row, p, pc)
           a  == [NoOp EXCEPT !.kind = kind]
           b  == [a EXCEPT !.server = s]
           c  == [b EXCEPT !.row = row]
           d  == [c EXCEPT !.password = p]
<1>1. a \in OpTypes /\ a.kind = kind /\ a.answer = "none"
  BY DEF NoOp, OpTypes
<1>2. op = [d EXCEPT !.pc = pc]
  BY DEF Request
<1> HIDE DEF a
<1>3. b \in OpTypes /\ b.kind = kind /\ b.answer = "none" /\ b.server = s
  BY <1>1 DEF OpTypes
<1> HIDE DEF b
<1>4. c \in OpTypes /\ c.kind = kind /\ c.answer = "none" /\ c.server = s
      /\ c.row = row
  BY <1>3 DEF OpTypes
<1> HIDE DEF c
<1>5. d \in OpTypes /\ d.kind = kind /\ d.answer = "none" /\ d.server = s
      /\ d.row = row /\ d.password = p
  BY <1>4 DEF OpTypes
<1> HIDE DEF d, op
<1>6. /\ op \in OpTypes /\ op.kind = kind /\ op.server = s
      /\ op.row = row /\ op.password = p /\ op.pc = pc /\ op.answer = "none"
  BY <1>2, <1>5 DEF OpTypes
<1> QED BY <1>6 DEF op

LEMMA ProvisionKeeps ==
  ASSUME KeyInv, NEW o \in Ops, NEW s \in Servers, NEW row,
         Provision(o, s, row), Sound(row, HostOf[s]),
         rows[s] = None \/ rows[s] = row,
         rows' = [rows EXCEPT ![s] = row], UNCHANGED <<hosts, changes, faults>>
  PROVE  KeyInv'
<1> DEFINE p  == IF IsKeyServer(row) THEN row.fallback ELSE row.secret
           pc == IF p = None THEN "install" ELSE "verify"
           op == Request("provision", s, row, p, pc)
<1>1. Begin(o, op)
  BY DEF Provision
<1>2. /\ row \in RowTypes /\ row.auth \in {"password", "key"}
      /\ row.installed \in BOOLEAN /\ row.fallback \in Passwords \cup {None}
      /\ row.secret \in Passwords \cup Keys
      /\ row.auth = "key" <=> row.secret \in Keys
      /\ row.auth = "key" <=> row.installed
  BY DEF Sound, RowTypes
<1>3. p \in Passwords \cup {None}
  BY <1>2 DEF IsKeyServer
<1>4. pc \in {"verify", "install"}
  OBVIOUS
<1>5. ~IsKeyServer(row) => p = row.secret
  OBVIOUS
<1> HIDE DEF p, pc
<1>6. /\ op \in OpTypes /\ op.kind = "provision" /\ op.server = s
      /\ op.row = row /\ op.password = p /\ op.pc = pc /\ op.answer = "none"
  BY <1>2, <1>3, <1>4, RequestIs
<1> HIDE DEF op
<1>7. Formed(op)
  BY <1>2, <1>4, <1>5, <1>6 DEF Formed
<1> QED BY <1>1, <1>4, <1>6, <1>7, BeginKeeps

LEMMA CreateKeeps ==
  ASSUME KeyInv, NEW o \in Ops, NEW s \in Servers, NEW p \in Passwords,
         Create(o, s, p)
  PROVE  KeyInv'
<1>1. /\ rows[s] = None /\ rows' = [rows EXCEPT ![s] = PasswordRow(p)]
      /\ Provision(o, s, PasswordRow(p)) /\ UNCHANGED <<hosts, changes, faults>>
  BY DEF Create
<1>2. Sound(PasswordRow(p), HostOf[s])
  BY SortsApart DEF PasswordRow, Sound, RowTypes
<1> HIDE DEF PasswordRow
<1> QED BY <1>1, <1>2, ProvisionKeeps

LEMMA ReinstallKeeps ==
  ASSUME KeyInv, NEW o \in Ops, NEW s \in Servers, Reinstall(o, s)
  PROVE  KeyInv'
<1> DEFINE row == rows[s]
<1>1. /\ row # None /\ Provision(o, s, row)
      /\ UNCHANGED <<rows, hosts, changes, faults>>
  BY DEF Reinstall
<1>2. Sound(row, HostOf[s])
  BY <1>1, RowsSound
<1>3. rows' = [rows EXCEPT ![s] = row]
  BY <1>1 DEF KeyInv, KeyTypeOK
<1>4. rows[s] = row /\ UNCHANGED <<hosts, changes, faults>>
  BY <1>1
<1> HIDE DEF row
<1> QED BY <1>1, <1>2, <1>3, <1>4, ProvisionKeeps

\* A request that proves a password first.
LEMMA VerifyKeeps ==
  ASSUME KeyInv, NEW o \in Ops, NEW s \in Servers,
         NEW kind \in {"remove", "offer"}, NEW p \in Passwords,
         rows[s] # None, kind = "remove" => p = rows[s].fallback,
         Begin(o, Request(kind, s, rows[s], p, "verify")),
         UNCHANGED <<rows, hosts, changes, faults>>
  PROVE  KeyInv'
<1> DEFINE row == rows[s]
           op  == Request(kind, s, row, p, "verify")
<1>1. Sound(row, HostOf[s])
  BY RowsSound
<1>2. rows' = [rows EXCEPT ![s] = row] /\ UNCHANGED <<hosts, changes, faults>>
      /\ rows[s] = row
  BY DEF KeyInv, KeyTypeOK
<1>3. kind = "remove" => p = row.fallback
  OBVIOUS
<1>4. Begin(o, op)
  OBVIOUS
<1> HIDE DEF row
<1>5. /\ row \in RowTypes
      /\ row.auth = "key" <=> row.secret \in Keys
      /\ row.auth = "key" <=> row.installed
  BY <1>1 DEF Sound
<1>6. /\ op \in OpTypes /\ op.kind = kind /\ op.server = s
      /\ op.row = row /\ op.password = p /\ op.pc = "verify"
      /\ op.answer = "none"
  BY <1>5, RequestIs
<1> HIDE DEF op
<1>7. Formed(op)
  BY <1>3, <1>5, <1>6 DEF Formed
<1> QED BY <1>1, <1>2, <1>4, <1>6, <1>7, BeginKeeps

LEMMA RequestKeeps ==
  ASSUME KeyInv, NEW o \in Ops, NEW s \in Servers, RequestOf(o, s)
  PROVE  KeyInv'
<1>1. CASE Reinstall(o, s)
  BY <1>1, ReinstallKeeps
<1>2. CASE RemoveKey(o, s)
  <2>1. rows[s] # None /\ rows[s].fallback \in Passwords
    BY <1>2 DEF RemoveKey, KeyInv, KeyTypeOK, RowTypes
  <2> QED BY <1>2, <2>1, VerifyKeeps DEF RemoveKey
<1>3. ASSUME NEW p \in Passwords, Create(o, s, p) PROVE KeyInv'
  BY <1>3, CreateKeeps
<1>4. ASSUME NEW p \in Passwords, OfferPassword(o, s, p) PROVE KeyInv'
  BY <1>4, VerifyKeeps DEF OfferPassword
<1> QED BY <1>1, <1>2, <1>3, <1>4 DEF RequestOf

LEMMA RowEditsKeep ==
  ASSUME KeyInv, NEW s \in Servers,
         DropFallback(s) \/ \E p \in Passwords : TypeSecret(s, p)
  PROVE  KeyInv'
<1>1. /\ rows \in [Servers -> RowTypes \cup {None}] /\ rows[s] # None
      /\ rows[s] \in RowTypes /\ Sound(rows[s], HostOf[s])
      /\ ops' = Meet(HostOf[s]) /\ UNCHANGED <<hosts, started, faults>>
  BY RowsSound DEF DropFallback, TypeSecret, KeyInv, KeyTypeOK
<1>2. CASE DropFallback(s)
  <2> DEFINE a   == [rows[s] EXCEPT !.fallback = None]
             row == [a EXCEPT !.verified = FALSE]
  <2>1. rows' = [rows EXCEPT ![s] = row] /\ changes' \in 0..MaxChanges
    BY <1>1, <1>2 DEF DropFallback, KeyInv, KeyTypeOK
  <2>2. /\ a \in RowTypes /\ a.auth = rows[s].auth /\ a.fallback = None
        /\ a.secret = rows[s].secret /\ a.installed = rows[s].installed
    BY <1>1 DEF RowTypes
  <2> HIDE DEF a
  <2>3. /\ row \in RowTypes /\ row.auth = rows[s].auth /\ row.fallback = None
        /\ row.secret = rows[s].secret /\ row.installed = rows[s].installed
    BY <2>2 DEF RowTypes
  <2> HIDE DEF row
  <2>4. Sound(row, HostOf[s])
    BY <1>1, <2>3 DEF Sound
  <2> QED BY <1>1, <2>1, <2>3, <2>4, BesideKeeps
<1>3. ASSUME NEW p \in Passwords, TypeSecret(s, p) PROVE KeyInv'
  <2> DEFINE a   == [rows[s] EXCEPT !.auth = "password"]
             row == [a EXCEPT !.secret = p]
  <2>1. /\ rows' = [rows EXCEPT ![s] = row] /\ ~rows[s].installed
    BY <1>1, <1>3 DEF TypeSecret
  <2>2. changes' \in 0..MaxChanges
    <3>1. changes \in 0..MaxChanges /\ changes < MaxChanges /\ changes' = changes + 1
      BY <1>3 DEF TypeSecret, Change, KeyInv, KeyTypeOK
    <3> QED BY <3>1, KeyBoundsAssumption
  <2>3. /\ a \in RowTypes /\ a.auth = "password"
        /\ a.fallback = rows[s].fallback
        /\ a.installed = rows[s].installed /\ a.verified = rows[s].verified
    BY <1>1 DEF RowTypes
  <2> HIDE DEF a
  <2>4. /\ row \in RowTypes /\ row.auth = "password" /\ row.secret = p
        /\ row.fallback = rows[s].fallback
        /\ row.installed = rows[s].installed /\ row.verified = rows[s].verified
    BY <2>3 DEF RowTypes
  <2> HIDE DEF row
  <2>5. Sound(row, HostOf[s])
    BY <1>1, <2>1, <2>4, SortsApart DEF Sound
  <2> QED BY <1>1, <2>1, <2>2, <2>4, <2>5, BesideKeeps
<1> QED BY <1>2, <1>3

\* The password of a host changes: what was accepted stays accepted once.
LEMMA ChangePasswordKeeps ==
  ASSUME KeyInv, NEW h \in Hosts, NEW p \in Passwords, ChangePassword(h, p)
  PROVE  KeyInv'
<1>1. /\ UNCHANGED <<rows, authorized, started, faults>>
      /\ password' = [password EXCEPT ![h] = p]
      /\ past' = [past EXCEPT ![h] = past[h] \cup {p}]
  BY DEF ChangePassword
<1>2. changes' \in 0..MaxChanges
  <2>1. changes \in 0..MaxChanges /\ changes < MaxChanges /\ changes' = changes + 1
    BY DEF ChangePassword, Change, KeyInv, KeyTypeOK
  <2> QED BY <2>1, KeyBoundsAssumption
<1>3. /\ password' \in [Hosts -> Passwords] /\ past' \in [Hosts -> SUBSET Passwords]
      /\ \A g \in Hosts : password'[g] \in past'[g] /\ past[g] \subseteq past'[g]
      /\ \A g \in Hosts \ {h} : password'[g] = password[g]
  BY <1>1 DEF KeyInv, KeyTypeOK
<1>4. ASSUME NEW q \in Ops
      PROVE  /\ ops'[q] \in OpTypes
             /\ ops'[q].pc = ops[q].pc /\ ops'[q].answer = ops[q].answer
             /\ ops'[q].kind = ops[q].kind /\ ops'[q].row = ops[q].row
             /\ ops'[q].server = ops[q].server
             /\ ops'[q].password = ops[q].password
             /\ ops'[q].alone = ops[q].alone
             /\ ops'[q].still => ops[q].still /\ ~(Live(q) /\ Host(q) = h)
  <2> DEFINE op == [ops[q] EXCEPT !.still = FALSE]
  <2>1. ops[q] \in OpTypes
    BY DEF KeyInv, KeyTypeOK
  <2>2. /\ op \in OpTypes /\ ~op.still
        /\ op.pc = ops[q].pc /\ op.answer = ops[q].answer
        /\ op.kind = ops[q].kind /\ op.row = ops[q].row
        /\ op.server = ops[q].server
        /\ op.password = ops[q].password /\ op.alone = ops[q].alone
    BY <2>1 DEF OpTypes
  <2>3. ops'[q] = IF Live(q) /\ Host(q) = h THEN op ELSE ops[q]
    BY DEF ChangePassword
  <2> HIDE DEF op
  <2> QED BY <2>1, <2>2, <2>3
<1>5. ops' \in [Ops -> OpTypes]
  <2>1. ops' = [q \in Ops |-> ops'[q]]
    BY DEF ChangePassword
  <2> QED BY <1>4, <2>1
<1>6. KeyTypeOK' /\ Counts' /\ VerifiedWasAccepted'
  <2>1. KeyTypeOK'
    BY <1>1, <1>2, <1>3, <1>5 DEF KeyInv, KeyTypeOK
  <2>2. Counts'
    BY <1>1, <1>4 DEF KeyInv, Counts
  <2>3. VerifiedWasAccepted'
    BY <1>1, <1>3, HostsAssumption DEF KeyInv, VerifiedWasAccepted
  <2> QED BY <2>1, <2>2, <2>3
<1>7. \A q \in Ops : (Live(q)' <=> Live(q)) /\ Host(q)' = Host(q)
  BY <1>4 DEF Live, Host
<1>8. ASSUME NEW q \in Ops PROVE Formed(ops[q])' /\ Knows(q)' /\ Alone(q)'
  <2>1. Formed(ops[q])'
    BY <1>4 DEF KeyInv, Formed
  <2> SUFFICES ASSUME Live(q)' PROVE Knows(q)' /\ Alone(q)'
    BY <2>1 DEF Knows, Alone
  <2>2. /\ Live(q) /\ Knows(q) /\ Alone(q) /\ Host(q)' = Host(q)
        /\ Host(q) \in Hosts
    BY <1>7, PcsAre, HostsAssumption DEF KeyInv, Formed, Host
  <2>3. Knows(q)'
    <3>1. Proved(ops[q])' <=> Proved(ops[q])
      BY <1>4 DEF Proved
    <3> QED BY <1>1, <1>3, <1>4, <2>2, <3>1 DEF Knows
  <2>4. LiveOn(Host(q))' = LiveOn(Host(q))
    BY <1>7, <2>2 DEF LiveOn
  <2> QED BY <1>1, <1>4, <2>2, <2>3, <2>4 DEF Alone
<1> QED BY <1>3, <1>6, <1>8 DEF KeyInv

LEMMA RestartKeeps ==
  ASSUME KeyInv, Restart
  PROVE  KeyInv'
<1>1. /\ UNCHANGED <<rows, password, past, authorized, started, changes>>
      /\ Fault
  BY DEF Restart, hosts
<1>2. faults' \in 0..MaxFaults
  <2>1. faults \in 0..MaxFaults /\ faults < MaxFaults /\ faults' = faults + 1
    BY <1>1 DEF Fault, KeyInv, KeyTypeOK
  <2> QED BY <2>1, KeyBoundsAssumption
<1>3. ASSUME NEW q \in Ops
      PROVE  ops'[q] \in OpTypes /\ ops'[q].pc \in {"none", "done"}
             /\ (ops[q].pc = "none" => ops'[q].pc = "none")
  <2>1. ops[q] \in OpTypes /\ ops'[q] = IF Live(q) THEN Ended(ops[q], "failed") ELSE ops[q]
    BY DEF Restart, KeyInv, KeyTypeOK
  <2>2. Ended(ops[q], "failed") \in OpTypes /\ Ended(ops[q], "failed").pc = "done"
    BY <2>1, EndedFormed
  <2> QED BY <2>1, <2>2 DEF Live
<1>4. ops' \in [Ops -> OpTypes]
  <2>1. ops' = [q \in Ops |-> ops'[q]]
    BY DEF Restart
  <2> QED BY <1>3, <2>1
<1>5. KeyTypeOK' /\ Counts' /\ VerifiedWasAccepted'
  BY <1>1, <1>2, <1>3, <1>4 DEF KeyInv, KeyTypeOK, Counts, VerifiedWasAccepted
<1>6. \A q \in Ops : Formed(ops[q])' /\ Knows(q)' /\ Alone(q)'
  BY <1>3 DEF Formed, LivePcs, Knows, Alone, Live
<1> QED BY <1>1, <1>5, <1>6 DEF KeyInv

LEMMA NextKeeps ==
  ASSUME KeyInv, [Next]_vars
  PROVE  KeyInv'
<1>1. CASE UNCHANGED vars
  <2>1. UNCHANGED <<rows, password, past, authorized, ops, started, changes, faults>>
    BY <1>1 DEF vars, hosts
  <2>2. KeyTypeOK' /\ Counts' /\ VerifiedWasAccepted'
    BY <2>1 DEF KeyInv, KeyTypeOK, Counts, VerifiedWasAccepted
  <2>3. \A q \in Ops : Formed(ops[q])' /\ Knows(q)' /\ Alone(q)'
    BY <2>1 DEF KeyInv, Formed, Knows, Proved, Alone, Live, Host, LiveOn
  <2> QED BY <2>1, <2>2, <2>3 DEF KeyInv
<1>2. ASSUME NEW o \in Ops, NEW s \in Servers, RequestOf(o, s) PROVE KeyInv'
  BY <1>2, RequestKeeps
<1>3. ASSUME NEW s \in Servers,
             DropFallback(s) \/ \E p \in Passwords : TypeSecret(s, p)
      PROVE  KeyInv'
  BY <1>3, RowEditsKeep
<1>4. ASSUME NEW h \in Hosts, NEW p \in Passwords, ChangePassword(h, p)
      PROVE  KeyInv'
  BY <1>4, ChangePasswordKeeps
<1>5. ASSUME NEW o \in Ops, StepOf(o) PROVE KeyInv'
  BY <1>5, StepOfKeeps
<1>6. CASE Restart
  BY <1>6, RestartKeeps
<1> QED BY <1>1, <1>2, <1>3, <1>4, <1>5, <1>6 DEF Next

LEMMA InitKeeps == Init => KeyInv
<1> SUFFICES ASSUME Init PROVE KeyInv
  OBVIOUS
<1>1. /\ password \in [Hosts -> Passwords]
      /\ past = [h \in Hosts |-> {password[h]}]
      /\ \A s \in Servers :
           /\ rows[s] \in {None, KeyRow(0, None)} \cup {KeyRow(0, p) : p \in Passwords}
           /\ rows[s] # None => rows[s].fallback \in {None, password[HostOf[s]]}
      /\ rows = [s \in Servers |-> rows[s]]
      /\ ops = [o \in Ops |-> NoOp]
      /\ started = 0 /\ changes = 0 /\ faults = 0
  BY Zenon DEF Init
<1>2. 0 \in Keys
  BY KeyBoundsAssumption DEF Keys
<1>3. ASSUME NEW p \in Passwords \cup {None}
      PROVE  /\ KeyRow(0, p) \in RowTypes /\ KeyRow(0, p).auth = "key"
             /\ KeyRow(0, p).secret = 0 /\ KeyRow(0, p).installed = TRUE
  BY <1>2 DEF KeyRow, RowTypes
<1>4. ASSUME NEW s \in Servers, rows[s] # None
      PROVE  /\ rows[s] \in RowTypes /\ rows[s].auth = "key"
             /\ rows[s].secret \in Keys /\ rows[s].installed
  <2>1. PICK p \in Passwords \cup {None} : rows[s] = KeyRow(0, p)
    BY <1>1, <1>4
  <2> QED BY <1>2, <1>3, <2>1
<1>5. authorized \in [Hosts -> SUBSET [server: Servers, key: Keys]]
  BY <1>2 DEF Init, Line
<1>6. NoOp \in OpTypes /\ NoOp.pc = "none"
  BY DEF NoOp, OpTypes
<1>7. KeyTypeOK
  <2>1. rows \in [Servers -> RowTypes \cup {None}]
    BY <1>1, <1>4
  <2>2. past \in [Hosts -> SUBSET Passwords] /\ ops \in [Ops -> OpTypes]
    BY <1>1, <1>6
  <2>3. started \in 0..MaxOps /\ changes \in 0..MaxChanges /\ faults \in 0..MaxFaults
    BY <1>1, KeyBoundsAssumption
  <2> QED BY <1>1, <1>4, <1>5, <2>1, <2>2, <2>3 DEF KeyTypeOK
<1>8. VerifiedWasAccepted
  BY <1>1, HostsAssumption DEF VerifiedWasAccepted
<1>9. Counts
  BY <1>1, <1>6, KeyBoundsAssumption DEF Counts
<1>10. \A o \in Ops : Formed(ops[o]) /\ Knows(o) /\ Alone(o)
  BY <1>1, <1>6 DEF Formed, Knows, Alone, Live, LivePcs
<1> QED BY <1>1, <1>7, <1>8, <1>9, <1>10 DEF KeyInv

\* The invariant behind the theorems: what every request knows of the rows and
\* of the passwords, at whatever moment the others act.
THEOREM KeyInvariant == Spec => []KeyInv
<1>1. KeyInv /\ [Next]_vars => KeyInv'
  BY NextKeeps
<1> QED BY <1>1, InitKeeps, PTL DEF Spec

\* Type correctness of the credentials, the keys on the hosts and the requests.
THEOREM KeyTypes == Spec => []KeyTypeOK
<1>1. KeyInv => KeyTypeOK
  BY DEF KeyInv
<1> QED BY <1>1, KeyInvariant, PTL

\* A fallback password that is marked as verified has been accepted by its host.
THEOREM VerifiedAccepted == Spec => []VerifiedWasAccepted
<1>1. KeyInv => VerifiedWasAccepted
  BY DEF KeyInv
<1> QED BY <1>1, KeyInvariant, PTL

-----------------------------------------------------------------------------
(* Access.                                                                 *)

\* The host's part of a request takes no way in from a server with a working
\* fallback, nor from the request's own server if it is alone.
LEMMA ServeSpares ==
  ASSUME KeyInv, NEW o \in Ops, NEW s \in Servers, Serve(o), Reachable(s),
         ops[o].still,
         WorkingFallback(s) \/ (ops[o].alone /\ ops[o].server = s)
  PROVE  Reachable(s)'
<1> DEFINE h == HostOf[s]
<1>1. UNCHANGED <<rows, password>> /\ rows[s] # None
  BY DEF Serve, Reachable
<1>2. CASE rows[s].auth # "key" \/ WorkingFallback(s)
  BY <1>1, <1>2 DEF Reachable, WorkingFallback
<1>3. CASE rows[s].auth = "key" /\ ~WorkingFallback(s)
  <2>1. ops[o].alone /\ ops[o].server = s /\ Host(o) = h
        /\ Line(s, rows[s].secret) \in authorized[h]
    BY <1>3 DEF Reachable, Host
  <2>2. /\ Live(o) /\ Formed(ops[o]) /\ Knows(o) /\ Alone(o) /\ h \in Hosts
        /\ ops[o].pc \in LivePcs /\ ops[o].answer = "none"
        /\ authorized \in [Hosts -> SUBSET [server: Servers, key: Keys]]
    <3>1. ops[o].pc \in LivePcs /\ ops[o].answer = "none"
      BY DEF Serve, TryPassword, InstallLine, TryKey, RemoveLine, LivePcs
    <3> QED BY <3>1, PcsAre, HostsAssumption DEF KeyInv, KeyTypeOK
  <2>3. CASE TryPassword(o) \/ TryKey(o)
    <3>1. UNCHANGED authorized
      BY <2>3 DEF TryPassword, TryKey, Session
    <3> QED BY <1>1, <1>3, <2>1, <3>1 DEF Reachable
  <2>4. CASE InstallLine(o)
    <3>1. ops[o].pc = "install" /\ rows[s] = ops[o].row
      BY <2>1, <2>2, <2>4 DEF InstallLine, Alone
    <3>2. IsKeyServer(ops[o].row)
      BY <1>3, <2>2, <3>1 DEF IsKeyServer, Formed
    <3>3. Bootstrap(ops[o]) # password[h]
      BY <2>1, <3>1, <3>2, InstallNeedsPassword
    <3>4. UNCHANGED authorized
      BY <2>1, <2>4, <3>3 DEF InstallLine, Session
    <3> QED BY <1>1, <1>3, <2>1, <3>4 DEF Reachable
  <2>5. CASE RemoveLine(o)
    <3>1. ops[o].pc = "unlink" /\ rows[s] = ops[o].row
      BY <2>1, <2>2, <2>5 DEF RemoveLine, Alone
    <3>2. ops[o].password = password[h] /\ ops[o].password = ops[o].row.fallback
      BY <2>1, <2>2, <3>1 DEF Knows, Proved, Formed
    <3> QED BY <1>3, <3>1, <3>2 DEF WorkingFallback
  <2> QED BY <2>3, <2>4, <2>5 DEF Serve
<1> QED BY <1>2, <1>3

\* Nor does what the hub makes of an answer.
LEMMA HubSpares ==
  ASSUME KeyInv, NEW o \in Ops, NEW s \in Servers, Reachable(s), ops[o].still,
         \/ PasswordProved(o) \/ RemovalAllowed(o) \/ StoreFallback(o)
         \/ LineInstalled(o) \/ SwitchToKey(o) \/ PasswordStillWorks(o)
         \/ BackToPassword(o) \/ GiveUp(o)
  PROVE  Reachable(s)'
<1> DEFINE t == ops[o].server
           p == ops[o].password
<1>1. PICK pc \in LivePcs, yes \in BOOLEAN : Answer(o, pc, yes)
  BY DEF PasswordProved, RemovalAllowed, StoreFallback, LineInstalled,
         SwitchToKey, PasswordStillWorks, BackToPassword, GiveUp, LivePcs
<1>2. /\ t \in Servers /\ Host(o) = HostOf[t] /\ Formed(ops[o]) /\ Knows(o)
      /\ rows[t] # None /\ rows[t] \in RowTypes /\ Live(o)
      /\ UNCHANGED <<password, authorized>>
      /\ rows \in [Servers -> RowTypes \cup {None}] /\ None \notin RowTypes
      /\ ops[o] \in OpTypes
  BY <1>1, AnswerTells, PasswordsAssumption DEF Answer, hosts, KeyInv, KeyTypeOK
<1>3. ASSUME rows'[s] = rows[s] PROVE Reachable(s)'
  BY <1>2, <1>3 DEF Reachable, WorkingFallback
<1>4. CASE PasswordProved(o) \/ RemovalAllowed(o) \/ LineInstalled(o) \/ GiveUp(o)
  BY <1>3, <1>4 DEF PasswordProved, RemovalAllowed, LineInstalled, GiveUp
<1>5. CASE StoreFallback(o)
  <2>1. Answer(o, "verify", TRUE)
    BY <1>5 DEF StoreFallback
  <2>2. p = password[HostOf[t]]
    BY <1>2, <2>1 DEF Answer, Knows, Proved
  <2>3. rows' = [rows EXCEPT ![t].fallback = p, ![t].verified = TRUE]
    BY <1>5 DEF StoreFallback
  <2>4. CASE s # t
    BY <1>2, <1>3, <2>3, <2>4
  <2>5. CASE s = t
    <3> DEFINE kept == [rows[t] EXCEPT !.fallback = p]
               row  == [kept EXCEPT !.verified = TRUE]
    <3>1. rows'[t] = row
      BY <1>2, <2>3
    <3>2. /\ kept \in RowTypes /\ kept.fallback = p
          /\ kept.auth = rows[t].auth /\ kept.secret = rows[t].secret
      BY <1>2 DEF RowTypes, OpTypes
    <3> HIDE DEF kept
    <3>3. /\ row \in RowTypes /\ row.fallback = p
          /\ row.auth = rows[t].auth /\ row.secret = rows[t].secret
      BY <3>2 DEF RowTypes
    <3> HIDE DEF row
    <3>4. rows'[s] # None /\ rows'[s].fallback = password'[HostOf[s]]
          /\ rows'[s].auth = rows[s].auth /\ rows'[s].secret = rows[s].secret
      BY <1>2, <2>2, <2>5, <3>1, <3>3
    <3> QED BY <1>2, <3>4 DEF Reachable, WorkingFallback
  <2> QED BY <2>4, <2>5
<1>6. CASE SwitchToKey(o)
  <2> DEFINE row == [rows[t] EXCEPT !.auth = "key", !.secret = o,
                                    !.installed = TRUE, !.fallback = p]
  <2>1. Answer(o, "keycheck", TRUE)
    BY <1>6 DEF SwitchToKey
  <2>2. p = password[HostOf[t]] /\ p # None
    BY <1>2, <2>1, KeyAfterPassword DEF Answer, Knows, Proved
  <2>3. rows' = [rows EXCEPT ![t] = row]
    BY <1>6, <2>2 DEF SwitchToKey
  <2>4. row.fallback = p /\ row.auth = "key" /\ row # None
    <3> DEFINE k == [rows[t] EXCEPT !.auth = "key", !.secret = o]
    <3>1. o \in Keys
      BY KeyBoundsAssumption DEF Keys, Ops
    <3>2. k \in RowTypes /\ k.auth = "key"
      BY <1>2, <3>1 DEF RowTypes
    <3>3. row = [k EXCEPT !.installed = TRUE, !.fallback = p]
      OBVIOUS
    <3>4. p \in Passwords \cup {None}
      BY <1>2 DEF OpTypes
    <3> HIDE DEF k, row, p
    <3>5. row \in RowTypes
      BY <3>2, <3>3, <3>4 DEF RowTypes
    <3>6. row.fallback = p /\ row.auth = "key"
      BY <3>2, <3>3 DEF RowTypes
    <3> QED BY <1>2, <3>5, <3>6
  <2> HIDE DEF row
  <2>5. CASE s # t
    BY <1>2, <1>3, <2>3, <2>5
  <2>6. CASE s = t
    <3>1. rows'[s] = row
      BY <1>2, <2>3, <2>6
    <3> QED BY <1>2, <2>2, <2>4, <2>6, <3>1 DEF Reachable, WorkingFallback
  <2> QED BY <2>5, <2>6
<1>7. CASE PasswordStillWorks(o)
  <2> DEFINE row == [rows[t] EXCEPT !.verified = TRUE]
  <2>1. rows' = [rows EXCEPT ![t] = row]
    BY <1>2, <1>7 DEF PasswordStillWorks
  <2>2. /\ row # None /\ row.fallback = rows[t].fallback
        /\ row.auth = rows[t].auth /\ row.secret = rows[t].secret
    <3>1. row \in RowTypes
      BY <1>2 DEF RowTypes
    <3> QED BY <1>2, <3>1 DEF RowTypes
  <2> HIDE DEF row
  <2>3. CASE s # t
    BY <1>2, <1>3, <2>1, <2>3
  <2>4. CASE s = t
    <3>1. rows'[s] = row
      BY <1>2, <2>1, <2>4
    <3> QED BY <1>2, <2>2, <2>4, <3>1 DEF Reachable, WorkingFallback
  <2> QED BY <2>3, <2>4
<1>8. CASE BackToPassword(o)
  <2> DEFINE q   == ops[o].row.fallback
             row == [rows[t] EXCEPT !.auth = "password", !.secret = q,
                                    !.fallback = None, !.installed = FALSE]
  <2>1. ops[o].pc = "unlink"
    BY <1>8 DEF BackToPassword, Answer
  <2>2. q = password[HostOf[t]] /\ q = p
    BY <1>2, <2>1 DEF Knows, Proved, Formed, LivePcs
  <2>3. rows' = [rows EXCEPT ![t] = row]
    BY <1>8 DEF BackToPassword
  <2>4. row.secret = q /\ row.auth = "password" /\ row # None
    <3> DEFINE k == [rows[t] EXCEPT !.auth = "password", !.secret = q]
    <3>1. q \in Passwords
      BY <1>2, <2>2, HostsAssumption DEF KeyInv, KeyTypeOK
    <3>2. k \in RowTypes /\ k.auth = "password" /\ k.secret = q
      BY <1>2, <3>1 DEF RowTypes
    <3>3. row = [k EXCEPT !.fallback = None, !.installed = FALSE]
      OBVIOUS
    <3> HIDE DEF k, row, q
    <3> QED BY <1>2, <3>2, <3>3 DEF RowTypes
  <2> HIDE DEF row
  <2>5. CASE s # t
    BY <1>2, <1>3, <2>3, <2>5
  <2>6. CASE s = t
    <3>1. rows'[s] = row
      BY <1>2, <2>3, <2>6
    <3> QED BY <1>2, <2>2, <2>4, <2>6, <3>1 DEF Reachable
  <2> QED BY <2>5, <2>6
<1> QED BY <1>4, <1>5, <1>6, <1>7, <1>8

\* A step that another request takes is not one of this.
LEMMA OwnSteps ==
  ASSUME KeyInv, NEW o \in Ops, Live(o), Acts(o), [Next]_vars
  PROVE  StepOf(o) \/ Restart
<1>1. ASSUME NEW q \in Ops, NEW s \in Servers, RequestOf(q, s) PROVE FALSE
  <2>1. PICK op : Begin(q, op) /\ op.server = s
    <3>1. PICK kind, row, p, pc : Begin(q, Request(kind, s, row, p, pc))
      <4>1. ASSUME NEW row, Provision(q, s, row)
            PROVE  \E kind, r, p, pc : Begin(q, Request(kind, s, r, p, pc))
        BY <4>1 DEF Provision
      <4>2. CASE RemoveKey(q, s)
        BY <4>2 DEF RemoveKey
      <4>3. ASSUME NEW p \in Passwords, OfferPassword(q, s, p)
            PROVE  \E kind, r, w, pc : Begin(q, Request(kind, s, r, w, pc))
        BY <4>3 DEF OfferPassword
      <4> QED BY <1>1, <4>1, <4>2, <4>3 DEF RequestOf, Create, Reinstall
    <3>2. Request(kind, s, row, p, pc).server = s
      BY DEF Request, NoOp
    <3> QED BY <3>1, <3>2
  <2>2. ops[q].pc = "none" /\ q # o
    BY <2>1 DEF Begin, KeyInv, Counts, Live, KeyTypeOK, Ops
  <2>3. HostOf[s] \in Hosts
    BY HostsAssumption
  <2>4. ops'[o] = Meet(HostOf[s])[o]
    BY <2>1, <2>2 DEF Begin, Meet
  <2>5. ops'[o].pc = ops[o].pc /\ ops'[o].answer = ops[o].answer
    BY <2>3, <2>4, MeetTells
  <2> QED BY <2>5 DEF Acts
<1>2. ASSUME NEW s \in Servers,
             DropFallback(s) \/ \E p \in Passwords : TypeSecret(s, p)
      PROVE  FALSE
  <2>1. ops' = Meet(HostOf[s]) /\ HostOf[s] \in Hosts
    BY <1>2, HostsAssumption DEF DropFallback, TypeSecret
  <2>2. ops'[o].pc = ops[o].pc /\ ops'[o].answer = ops[o].answer
    BY <2>1, MeetTells
  <2> QED BY <2>2 DEF Acts
<1>3. ASSUME NEW h \in Hosts, NEW p \in Passwords, ChangePassword(h, p)
      PROVE  FALSE
  <2>1. ops[o] \in OpTypes
    BY DEF KeyInv, KeyTypeOK
  <2>2. ops'[o] = ops[o] \/ ops'[o] = [ops[o] EXCEPT !.still = FALSE]
    BY <1>3 DEF ChangePassword
  <2>3. ops'[o].pc = ops[o].pc /\ ops'[o].answer = ops[o].answer
    BY <2>1, <2>2 DEF OpTypes
  <2> QED BY <2>3 DEF Acts
<1>4. ASSUME NEW q \in Ops \ {o}, StepOf(q) PROVE FALSE
  <2>1. ops'[o] = ops[o]
    BY <1>4 DEF StepOf, Serve, TryPassword, InstallLine, TryKey, RemoveLine,
       Session, Answered, PasswordProved, RemovalAllowed, StoreFallback,
       LineInstalled, SwitchToKey, PasswordStillWorks, BackToPassword, GiveUp,
       GoOn, End, KeyInv, KeyTypeOK
  <2> QED BY <2>1 DEF Acts
<1>5. ~UNCHANGED vars
  BY DEF Acts, vars
<1> QED BY <1>1, <1>2, <1>3, <1>4, <1>5 DEF Next

\* Access survives every request: whatever overlaps and whatever fails, a
\* server keeps a way in while the password of its host stays.
THEOREM AccessAlwaysSurvives == Spec => AccessSurvives
<1>1. ASSUME KeyInv, [Next]_vars
      PROVE  \A o \in Ops, s \in Servers :
               Acts(o) /\ Live(o) /\ ops[o].still /\ Reachable(s)
               /\ (WorkingFallback(s) \/ (ops[o].alone /\ ops[o].server = s))
               => Reachable(s)'
  <2> SUFFICES ASSUME NEW o \in Ops, NEW s \in Servers,
                      Acts(o), Live(o), ops[o].still, Reachable(s),
                      WorkingFallback(s) \/ (ops[o].alone /\ ops[o].server = s)
               PROVE  Reachable(s)'
    OBVIOUS
  <2>1. CASE StepOf(o)
    BY <1>1, <2>1, ServeSpares, HubSpares DEF StepOf
  <2>2. CASE Restart
    BY <2>2 DEF Restart, hosts, Reachable, WorkingFallback
  <2> QED BY <1>1, <2>1, <2>2, OwnSteps
<1>2. KeyInv /\ [Next]_vars =>
        [\A o \in Ops, s \in Servers :
           Acts(o) /\ Live(o) /\ ops[o].still /\ Reachable(s)
           /\ (WorkingFallback(s) \/ (ops[o].alone /\ ops[o].server = s))
           => Reachable(s)']_vars
  BY <1>1
<1> QED BY <1>2, KeyInvariant, PTL DEF Spec, AccessSurvives

=============================================================================
