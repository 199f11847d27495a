------------------------- MODULE PanelClientsProofs -------------------------
(***************************************************************************)
(* What the routes of a panel promise each other about its clients, for    *)
(* any routes, clients and bounds: no share link is older than the request *)
(* it answers, and requests that do not overlap leave the client of an     *)
(* ACTIVE route alone.                                                     *)
(*                                                                         *)
(* CredentialInv: what is cached, or seen and not yet cached, is no older  *)
(* than any request that may come to use it.  SerialInv: a client that a   *)
(* request is about to delete is attached to no other route.               *)
(***************************************************************************)
EXTENDS PanelClients, WellFoundedInduction, TLAPS

LEMMA MinIsLeast ==
  ASSUME NEW T \in SUBSET Nat, T # {}
  PROVE  Min(T) \in T /\ \A y \in T : Min(T) <= y
<1> DEFINE R == {ss \in Nat \X Nat : ss[1] < ss[2]}
<1>1. IsWellFoundedOn(R, Nat)
  BY NatLessThanWellFounded DEF OpToRel
<1>2. \A x, y \in T : <<y, x>> \notin R => x <= y
  OBVIOUS
<1> HIDE DEF R
<1>3. \E x \in T : \A y \in T : ~ (<<y, x>> \in R)
  BY <1>1, WFMin
<1>4. \E x \in T : \A y \in T : x <= y
  BY <1>2, <1>3
<1> QED BY <1>4 DEF Min

-----------------------------------------------------------------------------
ClientRecords == [exists : BOOLEAN, secret : Nat, attached : SUBSET Inbounds,
                  by : Routes \cup {"nobody", "people"}]
RowRecords ==
  [status : {"none", "RESERVED", "ACTIVE", "FAILED", "NEEDS_REVIEW", "deleted"}, mode : Modes,
   email : Emails, inbound : BOOLEAN, created : BOOLEAN, attached : BOOLEAN,
   link : Nat, floor : Nat]
TaskRecords ==
  [pc : {"none", "ask", "retry", "validate", "inbound", "client", "link", "undo", "undo inbound",
         "edit", "delete", "delete inbound"},
   email : Emails, made : SUBSET {"inbound", "created", "attached", "failure"}, seen : Nat,
   others : SUBSET (Inbounds \cup Unread), floor : Nat]

PanelTypes ==
  /\ clients \in [Emails -> ClientRecords] /\ secrets \in Nat
  /\ row \in [Routes -> RowRecords] /\ task \in [Routes -> TaskRecords]
  /\ cache \in [Emails -> Nat] /\ serial \in BOOLEAN

Gone(client) == ~client.exists /\ client.attached = {}
Known ==
  \A e \in Emails : IF clients[e].exists THEN clients[e].secret \in 1..secrets
                    ELSE Gone(clients[e])

(* A request meets no credential that is older than its floor: not on the  *)
(* panel, not in an answer, and not in the cache once it has asked.        *)
MeetsNewer ==
  \A r \in Routes :
    /\ task[r].floor <= secrets + 1
    /\ clients[Email(r)].exists => task[r].floor <= clients[Email(r)].secret
SawNewer ==
  \A r \in Routes : task[r].seen # NoSecret =>
    /\ task[r].floor # NoSecret
    /\ \A o \in Routes : Email(o) = Email(r) => task[o].floor <= task[r].seen
CachedNewer ==
  \A o \in Routes : task[o].pc # "ask" /\ cache[Email(o)] # NoSecret =>
    task[o].floor <= cache[Email(o)]
Unasked == {"none", "delete", "delete inbound"}
Begun ==
  \A r \in Routes : /\ task[r].pc = "none" => task[r] = NoTask
                    /\ task[r].pc \notin Unasked => task[r].floor # NoSecret

CredentialInv ==
  PanelTypes /\ Known /\ MeetsNewer /\ SawNewer /\ CachedNewer /\ Begun /\ LinkNotOlder

(* The panel in a step: a client goes, stays with its credential, or has   *)
(* the credential issued last.                                             *)
Turns ==
  /\ clients' \in [Emails -> ClientRecords] /\ secrets' \in {secrets, secrets + 1}
  /\ \A e \in Emails :
       \/ Gone(clients'[e])
       \/ /\ clients[e].exists /\ clients'[e].exists
          /\ clients'[e].secret = clients[e].secret
       \/ clients'[e].exists /\ clients'[e].secret = secrets + 1 /\ secrets' = secrets + 1

LEMMA TurnsKeep ==
  ASSUME PanelTypes, Known, MeetsNewer, Turns,
         \A r \in Routes : task'[r].floor = 0 \/ (task'[r].floor = task[r].floor /\ Email(r)' = Email(r)),
         \A r \in Routes : Email(r) \in Emails /\ Email(r)' \in Emails
  PROVE  Known' /\ MeetsNewer' /\ secrets' \in Nat
<1>1. secrets \in Nat /\ secrets' \in Nat /\ secrets <= secrets'
  BY DEF PanelTypes, Turns
<1>2. \A e \in Emails : clients[e].secret \in Nat /\ clients'[e].secret \in Nat
        /\ clients[e].exists \in BOOLEAN
  BY DEF PanelTypes, Turns, ClientRecords
<1>4. Known'
  BY <1>1, <1>2 DEF Known, Turns, Gone
<1>5. MeetsNewer'
  <2> SUFFICES ASSUME NEW r \in Routes
               PROVE  /\ task'[r].floor <= secrets' + 1
                      /\ clients'[Email(r)'].exists => task'[r].floor <= clients'[Email(r)'].secret
    BY DEF MeetsNewer
  <2>1. CASE task'[r].floor = 0
    <3>1. clients'[Email(r)'].secret \in Nat
      BY <1>2
    <3>2. \A n \in Nat : 0 <= n /\ 0 <= n + 1
      OBVIOUS
    <3>3. 0 <= clients'[Email(r)'].secret
      BY <3>1, <3>2
    <3>4. 0 <= secrets' + 1
      BY <1>1, <3>2
    <3> QED BY <2>1, <3>3, <3>4
  <2>2. CASE task'[r].floor = task[r].floor /\ Email(r)' = Email(r)
    <3> DEFINE e == Email(r)
    <3>1. e \in Emails /\ task[r].floor \in Nat /\ task[r].floor <= secrets + 1
          /\ (clients[e].exists => task[r].floor <= clients[e].secret)
      BY DEF PanelTypes, TaskRecords, MeetsNewer
    <3>2. Email(r)' = e /\ task'[r].floor = task[r].floor
      BY <2>2
    <3> HIDE DEF e
    <3>3. \/ Gone(clients'[e])
          \/ /\ clients[e].exists /\ clients'[e].exists
             /\ clients'[e].secret = clients[e].secret
          \/ clients'[e].exists /\ clients'[e].secret = secrets + 1
      BY <3>1 DEF Turns
    <3>4. task'[r].floor <= secrets' + 1
      BY <1>1, <3>1, <3>2
    <3>5. clients'[e].exists => task'[r].floor <= clients'[e].secret
      BY <1>1, <1>2, <3>1, <3>2, <3>3 DEF Gone
    <3> QED BY <3>2, <3>4, <3>5
  <2> QED BY <2>1, <2>2
<1> QED BY <1>1, <1>4, <1>5

(* A request goes on, or ends, with the floor it has and what it has seen, *)
(* unless it creates its client; the cache loses what it had, or gets what *)
(* was seen.                                                               *)
GoesOn(r) ==
  \/ task'[r] = NoTask
  \/ /\ task'[r].pc # "none" /\ task'[r].floor = task[r].floor
     /\ \/ task'[r].seen = task[r].seen
        \/ task'[r].seen = secrets + 1 /\ task[r].floor # NoSecret
     /\ task[r].pc = "ask" => task'[r].pc = "ask"
     /\ task'[r].pc \notin Unasked => task[r].pc \notin Unasked

LEMMA StepKeeps ==
  ASSUME CredentialInv, Turns, row' \in [Routes -> RowRecords], task' \in [Routes -> TaskRecords],
         cache' \in [Emails -> Nat], serial' = serial,
         \A r \in Routes : \/ task'[r] = NoTask
                           \/ Email(r)' = Email(r) /\ (GoesOn(r) \/ task'[r] = task[r]),
         \A e \in Emails : \/ cache'[e] \in {cache[e], NoSecret}
                           \/ \E r \in Routes : Email(r) = e /\ cache'[e] = task[r].seen,
         LinkNotOlder'
  PROVE  CredentialInv'
<1>1. NoTask.pc = "none" /\ NoTask.floor = 0 /\ NoTask.seen = 0
  BY DEF NoTask, NoSecret
<1>2. \A r \in Routes : /\ Email(r) \in Emails /\ Email(r)' \in Emails
                        /\ cache[Email(r)] \in Nat /\ cache'[Email(r)'] \in Nat
                        /\ cache'[Email(r)] \in Nat
  BY DEF CredentialInv, PanelTypes, TaskRecords, RowRecords, Email
<1>10. \A r \in Routes : /\ task[r].floor \in Nat /\ task[r].seen \in Nat
                         /\ task'[r].floor \in Nat /\ task'[r].seen \in Nat
  BY DEF CredentialInv, PanelTypes, TaskRecords
<1>3. \A r \in Routes : /\ task'[r].floor = 0 \/ (task'[r].floor = task[r].floor /\ Email(r)' = Email(r))
                        /\ task'[r].seen # 0 =>
                             /\ task'[r].floor = task[r].floor /\ Email(r)' = Email(r)
                             /\ \/ task'[r].seen = task[r].seen
                                \/ task'[r].seen = secrets + 1 /\ task[r].floor # 0
                        /\ task'[r].pc # "ask" /\ task'[r].floor # 0 => task[r].pc # "ask"
  BY <1>1 DEF GoesOn, NoSecret
<1>4. Known' /\ MeetsNewer' /\ secrets' \in Nat
  BY <1>2, <1>3, TurnsKeep DEF CredentialInv
<1>5. PanelTypes'
  BY <1>4 DEF Turns, CredentialInv, PanelTypes
<1>6. SawNewer'
  <2> SUFFICES ASSUME NEW r \in Routes, task'[r].seen # 0
               PROVE  /\ task'[r].floor # 0
                      /\ \A o \in Routes : Email(o)' = Email(r)' =>
                           task'[o].floor <= task'[r].seen
    BY DEF SawNewer, NoSecret
  <2>1. CASE task'[r].seen = task[r].seen
    <3>1. task'[r].floor = task[r].floor /\ Email(r)' = Email(r)
      BY <1>3
    <3>2. /\ task[r].floor # 0
          /\ \A o \in Routes : Email(o) = Email(r) => task[o].floor <= task[r].seen
      BY <2>1 DEF CredentialInv, SawNewer, NoSecret
    <3> QED BY <1>3, <1>10, <2>1, <3>1, <3>2
  <2>2. CASE task'[r].seen = secrets + 1 /\ task[r].floor # 0
    <3>1. secrets \in Nat /\ \A o \in Routes : task[o].floor <= secrets + 1
      BY DEF CredentialInv, PanelTypes, MeetsNewer
    <3> QED BY <1>3, <1>10, <2>2, <3>1
  <2> QED BY <1>3, <2>1, <2>2
<1>7. CachedNewer'
  <2> SUFFICES ASSUME NEW o \in Routes, task'[o].pc # "ask", cache'[Email(o)'] # 0
               PROVE  task'[o].floor <= cache'[Email(o)']
    BY DEF CachedNewer, NoSecret
  <2>1. CASE task'[o].floor = 0
    BY <1>2, <2>1
  <2>2. CASE task'[o].floor # 0
    <3>1. /\ task[o].pc # "ask" /\ task'[o].floor = task[o].floor /\ Email(o) \in Emails
          /\ Email(o)' = Email(o)
      BY <1>2, <1>3, <2>2
    <3>2. CASE cache'[Email(o)] = cache[Email(o)]
      BY <3>1, <3>2 DEF CredentialInv, CachedNewer, NoSecret
    <3>3. ASSUME NEW r \in Routes, Email(r) = Email(o), cache'[Email(o)] = task[r].seen
          PROVE  task'[o].floor <= cache'[Email(o)']
      BY <3>1, <3>3 DEF CredentialInv, SawNewer, NoSecret
    <3> QED BY <3>1, <3>2, <3>3 DEF NoSecret
  <2> QED BY <2>1, <2>2
<1>8. Begun'
  <2> SUFFICES ASSUME NEW r \in Routes
               PROVE  /\ task'[r].pc = "none" => task'[r] = NoTask
                      /\ task'[r].pc \notin Unasked => task'[r].floor # NoSecret
    BY DEF Begun
  <2>1. NoTask.pc \in Unasked
    BY <1>1 DEF Unasked
  <2> QED BY <2>1, <1>1 DEF CredentialInv, Begun, GoesOn
<1> QED BY <1>4, <1>5, <1>6, <1>7, <1>8 DEF CredentialInv

-----------------------------------------------------------------------------
(* Requests begin and ask.                                                 *)
Fits(f, r, e) ==
  /\ f \in Nat \ {0} /\ f <= secrets + 1
  /\ clients[e].exists => f <= clients[e].secret
  /\ \A o \in Routes \ {r} : Email(o) = e /\ task[o].seen # NoSecret => f <= task[o].seen

LEMMA FloorFits ==
  ASSUME CredentialInv, NEW r \in Routes, NEW e \in Emails
  PROVE  Fits(Floor(e), r, e)
<1> DEFINE now == IF clients[e].exists THEN clients[e].secret ELSE secrets + 1
           old == {task[o].floor : o \in {o \in Routes : task[o].floor # NoSecret /\ Email(o) = e}}
           T == {now} \cup old
<1>1. secrets \in Nat /\ clients[e].secret \in Nat /\ clients[e].exists \in BOOLEAN
  BY DEF CredentialInv, PanelTypes, ClientRecords
<1>2. now \in Nat \ {0} /\ now <= secrets + 1
  BY <1>1 DEF CredentialInv, Known
<1>3. \A o \in Routes : task[o].floor \in Nat /\ task[o].seen \in Nat
  BY DEF CredentialInv, PanelTypes, TaskRecords
<1>4. old \subseteq Nat \ {0}
  BY <1>3 DEF NoSecret
<1>5. T \in SUBSET Nat /\ T # {} /\ 0 \notin T /\ now \in T
  BY <1>2, <1>4
<1>6. Floor(e) = Min(T)
  BY DEF Floor
<1> HIDE DEF T
<1>7. Floor(e) \in T /\ \A y \in T : Floor(e) <= y
  BY <1>5, <1>6, MinIsLeast
<1>8. Floor(e) \in Nat \ {0} /\ Floor(e) <= now
  BY <1>5, <1>7
<1>9. ASSUME NEW o \in Routes, Email(o) = e, task[o].seen # NoSecret
      PROVE  Floor(e) <= task[o].seen
  <2>1. task[o].floor # NoSecret /\ task[o].floor <= task[o].seen
    BY <1>9 DEF CredentialInv, SawNewer
  <2>2. task[o].floor \in T
    BY <1>9, <2>1 DEF T
  <2>3. Floor(e) <= task[o].floor
    BY <1>7, <2>2
  <2> QED BY <1>3, <1>8, <2>1, <2>3
<1>10. clients[e].exists => Floor(e) <= clients[e].secret
  BY <1>8
<1>11. Floor(e) <= secrets + 1
  BY <1>1, <1>2, <1>8
<1> QED BY <1>8, <1>9, <1>10, <1>11 DEF Fits

LEMMA FloorOfTaskFits ==
  ASSUME CredentialInv, NEW r \in Routes, task[r].floor # 0
  PROVE  Fits(task[r].floor, r, Email(r))
<1>1. task[r].floor \in Nat \ {0}
  BY DEF CredentialInv, PanelTypes, TaskRecords
<1>2. /\ task[r].floor <= secrets + 1
      /\ clients[Email(r)].exists => task[r].floor <= clients[Email(r)].secret
  BY DEF CredentialInv, MeetsNewer
<1>3. \A o \in Routes \ {r} : Email(o) = Email(r) /\ task[o].seen # NoSecret =>
        task[r].floor <= task[o].seen
  BY DEF CredentialInv, SawNewer
<1> QED BY <1>1, <1>2, <1>3 DEF Fits

LEMMA AskKeeps ==
  ASSUME CredentialInv, NEW r \in Routes, NEW e \in Emails, NEW w \in TaskRecords, w.pc # "none",
         task' = [task EXCEPT ![r] = w], Fits(w.floor, r, e),
         e = IF w.pc = "edit" THEN w.email ELSE row[r].email,
         w.seen = IF clients[e].exists THEN clients[e].secret ELSE NoSecret,
         Ask(e), UNCHANGED <<clients, secrets, row, serial>>
  PROVE  CredentialInv'
<1>1. /\ \A o \in Routes : Email(o) \in Emails
      /\ clients \in [Emails -> ClientRecords] /\ secrets \in Nat
      /\ task \in [Routes -> TaskRecords] /\ cache \in [Emails -> Nat]
  BY DEF CredentialInv, PanelTypes, RowRecords, TaskRecords, Email
<1>2. /\ task'[r] = w /\ \A o \in Routes \ {r} : task'[o] = task[o]
      /\ task' \in [Routes -> TaskRecords]
  BY <1>1
<1>3. /\ cache'[e] = 0 /\ cache' \in [Emails -> Nat]
      /\ \A d \in Emails \ {e} : cache'[d] = cache[d]
  BY <1>1 DEF Ask, Dropped, NoSecret
<1>4. Email(r)' = e /\ \A o \in Routes \ {r} : Email(o)' = Email(o)
  BY <1>2 DEF Email
<1>5. PanelTypes'
  BY <1>2, <1>3 DEF CredentialInv, PanelTypes
<1>6. Known' /\ LinkNotOlder'
  BY DEF CredentialInv, Known, LinkNotOlder
<1>7. MeetsNewer'
  <2>1. w.floor <= secrets + 1 /\ (clients[e].exists => w.floor <= clients[e].secret)
    BY DEF Fits
  <2>2. \A o \in Routes \ {r} :
          /\ task[o].floor <= secrets + 1
          /\ clients[Email(o)].exists => task[o].floor <= clients[Email(o)].secret
    BY DEF CredentialInv, MeetsNewer
  <2> SUFFICES ASSUME NEW o \in Routes
               PROVE  /\ task'[o].floor <= secrets + 1
                      /\ clients[Email(o)'].exists => task'[o].floor <= clients[Email(o)'].secret
    BY DEF MeetsNewer
  <2>3. CASE o = r
    BY <1>2, <1>4, <2>1, <2>3
  <2>4. CASE o # r
    <3>1. Email(o)' = Email(o) /\ task'[o] = task[o]
      BY <1>2, <1>4, <2>4
    <3>2. /\ task[o].floor <= secrets + 1
          /\ clients[Email(o)].exists => task[o].floor <= clients[Email(o)].secret
      BY <2>2, <2>4
    <3> QED BY <3>1, <3>2
  <2> QED BY <2>3, <2>4
<1>8. CachedNewer'
  <2> SUFFICES ASSUME NEW o \in Routes, task'[o].pc # "ask", cache'[Email(o)'] # 0
               PROVE  task'[o].floor <= cache'[Email(o)']
    BY DEF CachedNewer, NoSecret
  <2>1. o # r
    BY <1>3, <1>4
  <2>2. task'[o] = task[o] /\ Email(o)' = Email(o) /\ Email(o) # e
    BY <1>2, <1>3, <1>4, <2>1
  <2>3. cache'[Email(o)'] = cache[Email(o)] /\ task[o].pc # "ask" /\ cache[Email(o)] # 0
    BY <1>1, <1>3, <2>2
  <2>4. task[o].floor <= cache[Email(o)]
    BY <2>3 DEF CredentialInv, CachedNewer, NoSecret
  <2> QED BY <2>2, <2>3, <2>4
<1>9. Begun'
  <2>1. w.floor # NoSecret
    BY DEF Fits, NoSecret
  <2> QED BY <1>2, <2>1 DEF CredentialInv, Begun
<1>10. SawNewer'
  <2> SUFFICES ASSUME NEW q \in Routes, task'[q].seen # 0
               PROVE  /\ task'[q].floor # 0
                      /\ \A o \in Routes : Email(o)' = Email(q)' => task'[o].floor <= task'[q].seen
    BY DEF SawNewer, NoSecret
  <2>1. CASE q = r
    <3>1. /\ w.seen = clients[e].secret /\ clients[e].exists /\ w.floor # 0
          /\ w.floor <= clients[e].secret
      BY <1>2, <2>1 DEF NoSecret, Fits
    <3>2. \A o \in Routes : Email(o) = e => task[o].floor <= clients[e].secret
      BY <3>1 DEF CredentialInv, MeetsNewer
    <3> QED BY <1>2, <1>4, <2>1, <3>1, <3>2
  <2>2. CASE q # r
    <3>1. task'[q] = task[q] /\ task[q].seen # 0 /\ Email(q)' = Email(q)
      BY <1>2, <1>4, <2>2
    <3>2. /\ task[q].floor # 0
          /\ \A o \in Routes : Email(o) = Email(q) => task[o].floor <= task[q].seen
      BY <3>1 DEF CredentialInv, SawNewer, NoSecret
    <3>3. Email(q) = e => w.floor <= task[q].seen
      BY <2>2, <3>1 DEF Fits, NoSecret
    <3> QED BY <1>2, <1>4, <3>1, <3>2, <3>3
  <2> QED BY <2>1, <2>2
<1> QED BY <1>5, <1>6, <1>7, <1>8, <1>9, <1>10 DEF CredentialInv

-----------------------------------------------------------------------------
(* The calls that change a client.                                         *)
LEMMA AbsentIsRecord == Absent \in ClientRecords /\ ~Absent.exists /\ Absent.attached = {}
                         /\ Gone(Absent)
BY DEF Absent, ClientRecords, NoSecret, Gone

LEMMA StaysTurn ==
  ASSUME CredentialInv, UNCHANGED <<clients, secrets>>
  PROVE  Turns
BY DEF CredentialInv, PanelTypes, Known, Turns

LEMMA DeleteTurns ==
  ASSUME CredentialInv, NEW e \in Emails, Delete(e), UNCHANGED secrets
  PROVE  Turns
<1>1. clients \in [Emails -> ClientRecords]
  BY DEF CredentialInv, PanelTypes
<1>2. /\ clients' \in [Emails -> ClientRecords] /\ clients'[e] = Absent
      /\ \A d \in Emails \ {e} : clients'[d] = clients[d]
  BY <1>1, AbsentIsRecord DEF Delete
<1> QED BY <1>2, AbsentIsRecord DEF CredentialInv, Known, Turns, Gone

(* Attachments come and go; a client that is not there has none.           *)
LEMMA LosesNothing ==
  ASSUME CredentialInv, NEW d \in Emails, NEW i
  PROVE  LET c == [clients[d] EXCEPT !.attached = @ \ {i}]
         IN  /\ c \in ClientRecords /\ c.exists = clients[d].exists /\ c.secret = clients[d].secret
             /\ c.attached = clients[d].attached \ {i}
             /\ ~clients[d].exists => Gone(c)
<1>1. clients[d] \in ClientRecords
  BY DEF CredentialInv, PanelTypes
<1> DEFINE some == clients[d].attached \ {i}
           c == [clients[d] EXCEPT !.attached = some]
<1>2. some \in SUBSET Inbounds
  BY <1>1 DEF ClientRecords
<1>3. ~clients[d].exists => some = {}
  BY DEF CredentialInv, Known, Gone
<1> HIDE DEF some
<1>4. /\ c \in ClientRecords /\ c.exists = clients[d].exists /\ c.secret = clients[d].secret
      /\ c.attached = some
  BY <1>1, <1>2 DEF ClientRecords
<1> QED BY <1>3, <1>4 DEF some, Gone

LEMMA DetachTurns ==
  ASSUME CredentialInv, NEW e \in Emails, NEW i, Detach(e, i), UNCHANGED secrets
  PROVE  Turns
<1> DEFINE c == [clients[e] EXCEPT !.attached = @ \ {i}]
<1>1. /\ c \in ClientRecords /\ c.exists = clients[e].exists /\ c.secret = clients[e].secret
      /\ ~clients[e].exists => Gone(c)
  BY LosesNothing
<1>2. clients \in [Emails -> ClientRecords] /\ clients' = [clients EXCEPT ![e] = c]
  BY DEF CredentialInv, PanelTypes, Detach
<1> HIDE DEF c
<1>3. /\ clients' \in [Emails -> ClientRecords] /\ clients'[e] = c
      /\ \A d \in Emails \ {e} : clients'[d] = clients[d]
  BY <1>1, <1>2
<1> QED BY <1>1, <1>3 DEF CredentialInv, Known, Turns, Gone

LEMMA DeleteInboundTurns ==
  ASSUME CredentialInv, NEW i, DeleteInbound(i), UNCHANGED secrets
  PROVE  Turns
<1>1. \A d \in Emails : /\ clients'[d] \in ClientRecords /\ clients'[d].exists = clients[d].exists
                        /\ clients'[d].secret = clients[d].secret
                        /\ ~clients[d].exists => Gone(clients'[d])
  BY LosesNothing DEF DeleteInbound
<1>2. clients' \in [Emails -> ClientRecords]
  BY <1>1 DEF DeleteInbound
<1> QED BY <1>1, <1>2 DEF Turns, CredentialInv, PanelTypes, ClientRecords

LEMMA AttachTurns ==
  ASSUME CredentialInv, NEW e \in Emails, NEW i \in Inbounds, clients[e].exists, Attach(e, i),
         UNCHANGED secrets
  PROVE  Turns
<1> DEFINE c == [clients[e] EXCEPT !.attached = @ \cup {i}]
<1>1. clients \in [Emails -> ClientRecords] /\ clients' = [clients EXCEPT ![e] = c]
  BY DEF CredentialInv, PanelTypes, Attach
<1>2. /\ c \in ClientRecords /\ c.exists = clients[e].exists /\ c.secret = clients[e].secret
  BY <1>1 DEF ClientRecords
<1> HIDE DEF c
<1>3. /\ clients' \in [Emails -> ClientRecords] /\ clients'[e] = c
      /\ \A d \in Emails \ {e} : clients'[d] = clients[d]
  BY <1>1, <1>2
<1> QED BY <1>2, <1>3 DEF CredentialInv, Known, Turns, Gone

LEMMA CreateTurns ==
  ASSUME CredentialInv, NEW e \in Emails, NEW i \in Inbounds,
         NEW by \in Routes \cup {"people"}, CreateClient(e, i, by)
  PROVE  Turns
<1> DEFINE c == [exists |-> TRUE, secret |-> secrets + 1, attached |-> {i}, by |-> by]
<1>1. /\ clients \in [Emails -> ClientRecords] /\ clients' = [clients EXCEPT ![e] = c]
      /\ secrets \in Nat /\ secrets' = secrets + 1
  BY DEF CredentialInv, PanelTypes, CreateClient
<1>2. c \in ClientRecords /\ c.exists /\ c.secret = secrets + 1
  BY <1>1 DEF ClientRecords
<1> HIDE DEF c
<1>3. /\ clients' \in [Emails -> ClientRecords] /\ clients'[e] = c
      /\ \A d \in Emails \ {e} : clients'[d] = clients[d]
  BY <1>1, <1>2
<1> QED BY <1>1, <1>2, <1>3 DEF CredentialInv, Known, Turns, Gone

LEMMA HandKeeps ==
  ASSUME CredentialInv, NEW e \in Emails, PanelHand(e)
  PROVE  CredentialInv'
<1>1. UNCHANGED <<row, task, cache, serial>>
  BY DEF PanelHand
<1>2. Turns
  <2>1. CASE CreateClient(e, "own", "people")
    BY <2>1, CreateTurns DEF Inbounds
  <2>2. CASE clients[e].exists /\ Delete(e) /\ UNCHANGED secrets
    BY <2>2, DeleteTurns
  <2>3. CASE clients[e].exists /\ Attach(e, "own") /\ UNCHANGED secrets
    BY <2>3, AttachTurns DEF Inbounds
  <2>4. CASE clients[e].exists /\ secrets' = secrets + 1
               /\ clients' = [clients EXCEPT ![e].secret = secrets + 1]
    <3> DEFINE c == [clients[e] EXCEPT !.secret = secrets + 1]
    <3>1. clients \in [Emails -> ClientRecords] /\ clients' = [clients EXCEPT ![e] = c]
          /\ secrets + 1 \in Nat
      BY <2>4 DEF CredentialInv, PanelTypes
    <3>2. c \in ClientRecords /\ c.exists = clients[e].exists /\ c.secret = secrets + 1
      BY <3>1 DEF ClientRecords
    <3> HIDE DEF c
    <3>3. /\ clients' \in [Emails -> ClientRecords] /\ clients'[e] = c
          /\ \A d \in Emails \ {e} : clients'[d] = clients[d]
      BY <3>1, <3>2
    <3> QED BY <2>4, <3>2, <3>3 DEF CredentialInv, Known, Turns, Gone
  <2> QED BY <2>1, <2>2, <2>3, <2>4 DEF PanelHand
<1>3. /\ row \in [Routes -> RowRecords] /\ task \in [Routes -> TaskRecords]
      /\ cache \in [Emails -> Nat] /\ LinkNotOlder
  BY DEF CredentialInv, PanelTypes
<1>4. LinkNotOlder' /\ \A r \in Routes : Email(r)' = Email(r)
  BY <1>1, <1>3 DEF LinkNotOlder, Email
<1> QED BY <1>1, <1>2, <1>3, <1>4, StepKeeps

(* A request that goes on, or ends.                                        *)
LEMMA RequestKeeps ==
  ASSUME CredentialInv, Turns, NEW r \in Routes, NEW w \in TaskRecords, NEW x \in RowRecords,
         task' = [task EXCEPT ![r] = w], row' = [row EXCEPT ![r] = x], serial' = serial,
         \/ w = NoTask
         \/ /\ w.pc # "none" /\ w.floor = task[r].floor
            /\ w.seen = task[r].seen \/ (w.seen = secrets + 1 /\ task[r].pc = "client")
            /\ task[r].pc # "ask" /\ (w.pc \notin Unasked => task[r].pc \notin Unasked)
            /\ x.email = row[r].email /\ w.pc # "edit" /\ task[r].pc # "edit",
         x.status = "ACTIVE" => x.link >= x.floor,
         cache' = cache \/ Capture(Email(r), task[r].seen)
  PROVE  CredentialInv'
<1>1. /\ row \in [Routes -> RowRecords] /\ task \in [Routes -> TaskRecords]
      /\ cache \in [Emails -> Nat] /\ LinkNotOlder /\ Email(r) \in Emails
  BY DEF CredentialInv, PanelTypes, RowRecords, TaskRecords, Email
<1>2. /\ row' \in [Routes -> RowRecords] /\ row'[r] = x
      /\ \A o \in Routes \ {r} : row'[o] = row[o]
  BY <1>1
<1>3. /\ task' \in [Routes -> TaskRecords] /\ task'[r] = w
      /\ \A o \in Routes \ {r} : task'[o] = task[o]
  BY <1>1
<1>4. LinkNotOlder'
  BY <1>1, <1>2 DEF LinkNotOlder
<1>5. \A o \in Routes : \/ task'[o] = NoTask
                        \/ Email(o)' = Email(o) /\ (GoesOn(o) \/ task'[o] = task[o])
  <2>1. task[r].pc = "client" => task[r].floor # NoSecret
    BY DEF CredentialInv, Begun, Unasked
  <2>2. \A o \in Routes \ {r} : Email(o)' = Email(o) /\ task'[o] = task[o]
    BY <1>2, <1>3 DEF Email
  <2>3. task'[r] = NoTask \/ (Email(r)' = Email(r) /\ GoesOn(r))
    <3>1. CASE w # NoTask
      <4>1. Email(r)' = Email(r)
        BY <1>2, <1>3, <3>1 DEF Email
      <4>2. GoesOn(r)
        BY <1>3, <2>1, <3>1 DEF GoesOn
      <4> QED BY <4>1, <4>2
    <3> QED BY <1>3, <3>1
  <2> QED BY <2>2, <2>3
<1>6. task[r].seen \in Nat
  BY <1>1 DEF TaskRecords
<1>7. /\ cache' \in [Emails -> Nat]
      /\ \A e \in Emails : \/ cache'[e] \in {cache[e], NoSecret}
                           \/ \E o \in Routes : Email(o) = e /\ cache'[e] = task[o].seen
  <2>1. CASE cache' = cache
    BY <1>1, <2>1
  <2>2. CASE cache' = Dropped(Email(r))
    BY <1>1, <2>2 DEF Dropped, NoSecret
  <2>3. CASE cache' = [Dropped(Email(r)) EXCEPT ![Email(r)] = task[r].seen]
    <3>1. /\ cache' \in [Emails -> Nat] /\ cache'[Email(r)] = task[r].seen
          /\ \A e \in Emails \ {Email(r)} : cache'[e] = cache[e]
      BY <1>1, <1>6, <2>3 DEF Dropped, NoSecret
    <3> QED BY <3>1
  <2> QED BY <2>1, <2>2, <2>3 DEF Capture
<1> QED BY <1>2, <1>3, <1>4, <1>5, <1>7, StepKeeps

-----------------------------------------------------------------------------
(* The steps of a request.                                                 *)
Pcs == {"ask", "retry", "validate", "inbound", "client", "link", "undo", "undo inbound",
        "edit", "delete", "delete inbound"}

LEMMA RecordsOf ==
  ASSUME PanelTypes, NEW r \in Routes
  PROVE  /\ row[r] \in RowRecords /\ task[r] \in TaskRecords /\ Email(r) \in Emails
         /\ row' = row => row' = [row EXCEPT ![r] = row[r]]
BY DEF PanelTypes, RowRecords, TaskRecords, Email

LEMMA NoTaskIsRecord == NoTask \in TaskRecords /\ NoTask.pc = "none" /\ NoTask.floor = 0 /\ NoTask.seen = 0
<1>1. Someone \in Emails
  BY PanelAssumption DEF Someone
<1> QED BY <1>1 DEF NoTask, TaskRecords, NoSecret

LEMMA PcOnly ==
  ASSUME NEW task0 \in TaskRecords, NEW pc \in Pcs
  PROVE  LET w == [task0 EXCEPT !.pc = pc]
         IN  /\ w \in TaskRecords /\ w.pc = pc /\ w.floor = task0.floor /\ w.seen = task0.seen
             /\ w.made = task0.made /\ w.others = task0.others /\ w.email = task0.email
BY DEF TaskRecords, Pcs

(* A new row has a client, whose requests it has now to reckon with.       *)
LEMMA StartRunKeeps ==
  ASSUME CredentialInv, NEW r \in Routes, NEW e \in Emails, NEW mode \in Modes,
         StartRun(r, e, mode)
  PROVE  CredentialInv'
<1> DEFINE a == [row[r] EXCEPT !.status = "RESERVED"]
           b == [a EXCEPT !.email = e]
           x == [b EXCEPT !.mode = mode]
           u == [NoTask EXCEPT !.pc = "ask"]
           w == [u EXCEPT !.floor = Floor(e)]
<1>1. /\ row' = [row EXCEPT ![r] = x] /\ task' = [task EXCEPT ![r] = w]
      /\ UNCHANGED <<clients, secrets, cache, serial>>
  BY DEF StartRun
<1>2. /\ row \in [Routes -> RowRecords] /\ row[r] \in RowRecords
      /\ task \in [Routes -> TaskRecords]
  BY RecordsOf DEF CredentialInv, PanelTypes
<1>3. a \in RowRecords /\ a.status = "RESERVED"
  BY <1>2 DEF RowRecords
<1> HIDE DEF a
<1>4. b \in RowRecords /\ b.status = "RESERVED" /\ b.email = e
  BY <1>3 DEF RowRecords
<1> HIDE DEF b
<1>5. x \in RowRecords /\ x.status = "RESERVED" /\ x.email = e
  BY <1>4 DEF RowRecords
<1> HIDE DEF x
<1>6. Fits(Floor(e), r, e)
  BY FloorFits
<1>7. Floor(e) \in Nat
  BY <1>6 DEF Fits
<1>8. u \in TaskRecords /\ u.pc = "ask" /\ u.seen = 0
  BY NoTaskIsRecord DEF TaskRecords
<1> HIDE DEF u
<1>9. w \in TaskRecords /\ w.pc = "ask" /\ w.seen = 0 /\ w.floor = Floor(e)
  BY <1>7, <1>8 DEF TaskRecords
<1> HIDE DEF w
<1>11. /\ task' \in [Routes -> TaskRecords] /\ task'[r] = w
       /\ \A o \in Routes \ {r} : task'[o] = task[o]
  BY <1>1, <1>2, <1>9
<1>10. /\ row' \in [Routes -> RowRecords] /\ Email(r)' = e
       /\ \A o \in Routes \ {r} : row'[o] = row[o] /\ Email(o)' = Email(o)
  <2>1. row' \in [Routes -> RowRecords] /\ row'[r] = x /\ \A o \in Routes \ {r} : row'[o] = row[o]
    BY <1>1, <1>2, <1>5
  <2> QED BY <1>5, <1>9, <1>11, <2>1 DEF Email
<1>12. PanelTypes' /\ Known'
  BY <1>1, <1>10, <1>11 DEF CredentialInv, PanelTypes, Known
<1>13. LinkNotOlder' /\ Begun'
  <2>1. row'[r] = x
    BY <1>1, <1>2
  <2>2. Floor(e) # NoSecret
    BY <1>6 DEF Fits, NoSecret
  <2> QED BY <1>5, <1>9, <1>10, <1>11, <2>1, <2>2 DEF CredentialInv, LinkNotOlder, Begun
<1>14. MeetsNewer'
  <2>1. w.floor <= secrets + 1 /\ (clients[e].exists => w.floor <= clients[e].secret)
    BY <1>6, <1>9 DEF Fits
  <2>2. \A o \in Routes \ {r} :
          /\ task[o].floor <= secrets + 1
          /\ clients[Email(o)].exists => task[o].floor <= clients[Email(o)].secret
    BY DEF CredentialInv, MeetsNewer
  <2> SUFFICES ASSUME NEW o \in Routes
               PROVE  /\ task'[o].floor <= secrets + 1
                      /\ clients[Email(o)'].exists => task'[o].floor <= clients[Email(o)'].secret
    BY <1>1 DEF MeetsNewer
  <2>3. CASE o = r
    BY <1>10, <1>11, <2>1, <2>3
  <2>4. CASE o # r
    <3>1. Email(o)' = Email(o) /\ task'[o] = task[o]
      BY <1>10, <1>11, <2>4
    <3>2. /\ task[o].floor <= secrets + 1
          /\ clients[Email(o)].exists => task[o].floor <= clients[Email(o)].secret
      BY <2>2, <2>4
    <3> QED BY <3>1, <3>2
  <2> QED BY <2>3, <2>4
<1>15. CachedNewer'
  <2>1. \A o \in Routes \ {r} : task[o].pc # "ask" /\ cache[Email(o)] # NoSecret =>
          task[o].floor <= cache[Email(o)]
    BY DEF CredentialInv, CachedNewer
  <2> QED BY <1>1, <1>9, <1>10, <1>11, <2>1 DEF CachedNewer
<1>16. SawNewer'
  <2> SUFFICES ASSUME NEW q \in Routes, task'[q].seen # 0
               PROVE  /\ task'[q].floor # 0
                      /\ \A o \in Routes : Email(o)' = Email(q)' => task'[o].floor <= task'[q].seen
    BY DEF SawNewer, NoSecret
  <2>1. q # r /\ task'[q] = task[q] /\ task[q].seen # 0 /\ Email(q)' = Email(q)
    BY <1>9, <1>10, <1>11
  <2>2. /\ task[q].floor # 0
        /\ \A o \in Routes : Email(o) = Email(q) => task[o].floor <= task[q].seen
    BY <2>1 DEF CredentialInv, SawNewer, NoSecret
  <2>3. Email(q) = e => w.floor <= task[q].seen
    BY <1>6, <1>9, <2>1 DEF Fits, NoSecret
  <2> QED BY <1>10, <1>11, <2>1, <2>2, <2>3
<1> QED BY <1>12, <1>13, <1>14, <1>15, <1>16 DEF CredentialInv

(* The steps that ask the panel about the client.                          *)
LEMMA AskingKeeps ==
  ASSUME CredentialInv, NEW r \in Routes, NEW e \in Emails, NEW pc \in Pcs,
         NEW task0 \in TaskRecords, Asking(r, e, pc, task0), Fits(task0.floor, r, e),
         e = IF pc = "edit" THEN task0.email ELSE row[r].email,
         UNCHANGED <<clients, secrets, row, serial>>
  PROVE  CredentialInv'
<1> DEFINE seen == IF clients[e].exists THEN clients[e].secret ELSE NoSecret
           u == [task0 EXCEPT !.pc = pc]
           w == [u EXCEPT !.seen = seen]
<1>1. task' = [task EXCEPT ![r] = w] /\ Ask(e)
  BY DEF Asking
<1>2. seen \in Nat
  <2>1. clients[e] \in ClientRecords
    BY DEF CredentialInv, PanelTypes
  <2> QED BY <2>1 DEF ClientRecords, NoSecret
<1> HIDE DEF seen
<1>3. u \in TaskRecords /\ u.pc = pc /\ u.floor = task0.floor /\ u.email = task0.email
  BY PcOnly
<1> HIDE DEF u
<1>4. /\ w \in TaskRecords /\ w.pc # "none" /\ w.floor = task0.floor /\ w.seen = seen
      /\ w.pc = pc /\ w.email = task0.email
  BY <1>2, <1>3 DEF TaskRecords, Pcs
<1> HIDE DEF w
<1>5. Fits(w.floor, r, e) /\ e = IF w.pc = "edit" THEN w.email ELSE row[r].email
  BY <1>4
<1>6. w.seen = IF clients[e].exists THEN clients[e].secret ELSE NoSecret
  BY <1>4 DEF seen
<1> QED BY <1>1, <1>4, <1>5, <1>6, AskKeeps

LEMMA NewRequest ==
  ASSUME NEW f \in Nat, NEW others \in SUBSET (Inbounds \cup Unread), NEW e \in Emails
  PROVE  /\ [NoTask EXCEPT !.floor = f] \in TaskRecords
         /\ [NoTask EXCEPT !.floor = f].floor = f
         /\ [NoTask EXCEPT !.floor = f, !.others = others] \in TaskRecords
         /\ [NoTask EXCEPT !.floor = f, !.others = others].floor = f
         /\ [NoTask EXCEPT !.email = e, !.floor = f] \in TaskRecords
         /\ [NoTask EXCEPT !.email = e, !.floor = f].floor = f
         /\ [NoTask EXCEPT !.email = e, !.floor = f].email = e
<1> DEFINE x == [NoTask EXCEPT !.floor = f]
           w == [x EXCEPT !.others = others]
           y == [NoTask EXCEPT !.email = e]
           z == [y EXCEPT !.floor = f]
<1>1. x \in TaskRecords /\ x.floor = f
  BY NoTaskIsRecord DEF TaskRecords
<1>2. y \in TaskRecords /\ y.email = e
  BY NoTaskIsRecord DEF TaskRecords
<1> HIDE DEF x, y
<1>3. w \in TaskRecords /\ w.floor = f
  BY <1>1 DEF TaskRecords
<1>4. z \in TaskRecords /\ z.floor = f /\ z.email = e
  BY <1>2 DEF TaskRecords
<1> QED BY <1>1, <1>3, <1>4 DEF x, y

LEMMA AsksKeep ==
  ASSUME CredentialInv, NEW r \in Routes,
         \/ RetryAsks(r) \/ PreflightAsks(r) \/ DeleteAsks(r)
         \/ \E e \in Emails : EditAsks(r, e)
  PROVE  CredentialInv'
<1>1. Email(r) \in Emails /\ task[r] \in TaskRecords
  BY RecordsOf DEF CredentialInv
<1>2. Fits(Floor(Email(r)), r, Email(r)) /\ Floor(Email(r)) \in Nat
  BY <1>1, FloorFits DEF Fits
<1> DEFINE t0 == [NoTask EXCEPT !.floor = Floor(Email(r))]
<1>3. t0 \in TaskRecords /\ t0.floor = Floor(Email(r))
  BY <1>1, <1>2, NewRequest
<1>8. task[r].pc # "edit" => Email(r) = row[r].email
  BY DEF Email
<1>4. CASE RetryAsks(r)
  <2>1. /\ Asking(r, Email(r), "retry", t0) /\ UNCHANGED <<clients, secrets, row, serial>>
        /\ task[r].pc = "none"
    BY <1>4 DEF RetryAsks, Starts
  <2>2. Email(r) = row[r].email
    BY <1>8, <2>1
  <2> HIDE DEF t0
  <2>3. Fits(t0.floor, r, Email(r)) /\ "retry" \in Pcs
    BY <1>2, <1>3 DEF Pcs
  <2> QED BY <1>1, <1>3, <2>1, <2>2, <2>3, AskingKeeps
<1>5. ASSUME NEW e \in Emails, EditAsks(r, e) PROVE CredentialInv'
  <2> DEFINE t1 == [NoTask EXCEPT !.email = e, !.floor = Floor(e)]
  <2>1. Asking(r, e, "edit", t1) /\ UNCHANGED <<clients, secrets, row, serial>>
    BY <1>5 DEF EditAsks
  <2>2. Fits(Floor(e), r, e) /\ Floor(e) \in Nat
    BY FloorFits DEF Fits
  <2>3. t1 \in TaskRecords /\ t1.floor = Floor(e) /\ t1.email = e
    BY <2>2, NewRequest
  <2> HIDE DEF t1
  <2>4. Fits(t1.floor, r, e) /\ "edit" \in Pcs
    BY <2>2, <2>3 DEF Pcs
  <2> QED BY <2>1, <2>3, <2>4, AskingKeeps
<1>6. CASE PreflightAsks(r)
  <2>1. /\ Asking(r, Email(r), "validate", task[r]) /\ UNCHANGED <<clients, secrets, row, serial>>
        /\ task[r].pc = "ask"
    BY <1>6 DEF PreflightAsks
  <2>2. task[r].floor # 0
    BY <1>6 DEF PreflightAsks, CredentialInv, Begun, Unasked, NoSecret
  <2>3. Email(r) = row[r].email /\ "validate" \in Pcs
    BY <1>8, <2>1 DEF Pcs
  <2>4. Fits(task[r].floor, r, Email(r))
    BY <2>2, FloorOfTaskFits
  <2> QED BY <1>1, <2>1, <2>3, <2>4, AskingKeeps
<1>7. CASE DeleteAsks(r)
  <2>1. UNCHANGED <<clients, secrets, row, serial>> /\ task[r].pc = "none"
    BY <1>7 DEF DeleteAsks, Starts
  <2>2. CASE ~row[r].created
    <3> DEFINE w == [task[r] EXCEPT !.pc = "delete"]
    <3>1. w \in TaskRecords /\ w.pc = "delete" /\ w.floor = task[r].floor /\ w.seen = task[r].seen
      BY <1>1, PcOnly DEF Pcs
    <3>2. task' = [task EXCEPT ![r] = w] /\ cache' = cache
      BY <1>7, <2>2 DEF DeleteAsks, Go
    <3> HIDE DEF w
    <3>3. row[r] \in RowRecords /\ row' = [row EXCEPT ![r] = row[r]]
      BY <2>1, RecordsOf DEF CredentialInv
    <3>4. Turns /\ (row[r].status = "ACTIVE" => row[r].link >= row[r].floor)
      BY <2>1, StaysTurn DEF CredentialInv, LinkNotOlder
    <3>5. w.pc \in Unasked
      BY <3>1 DEF Unasked
    <3> QED BY <2>1, <3>1, <3>2, <3>3, <3>4, <3>5, RequestKeeps
  <2>3. CASE row[r].created
    <3>1. PICK others \in {Record(r).attached \ {r}, Unread} :
            Asking(r, Email(r), "delete", [NoTask EXCEPT !.floor = Floor(Email(r)), !.others = others])
      BY <1>7, <2>3 DEF DeleteAsks
    <3> DEFINE t1 == [NoTask EXCEPT !.floor = Floor(Email(r)), !.others = others]
    <3>2. clients[Email(r)] \in ClientRecords
      BY <1>1 DEF CredentialInv, PanelTypes
    <3>3. others \in SUBSET (Inbounds \cup Unread)
      BY <3>2 DEF Record, ClientRecords
    <3>4. t1 \in TaskRecords /\ t1.floor = Floor(Email(r))
      BY <1>1, <1>2, <3>3, NewRequest
    <3>5. Asking(r, Email(r), "delete", t1)
      BY <3>1
    <3> HIDE DEF t1
    <3>6. Email(r) = row[r].email /\ "delete" \in Pcs /\ Fits(t1.floor, r, Email(r))
      BY <1>2, <1>8, <2>1, <3>4 DEF Pcs
    <3> QED BY <1>1, <2>1, <3>4, <3>5, <3>6, AskingKeeps
  <2> QED BY <2>2, <2>3, <1>1 DEF CredentialInv, PanelTypes, RowRecords
<1> QED BY <1>4, <1>5, <1>6, <1>7

LEMMA RetryGoesOnKeeps ==
  ASSUME CredentialInv, NEW r \in Routes, RetryGoesOn(r)
  PROVE  CredentialInv'
<1>1. /\ task[r].pc = "retry" /\ Capture(Email(r), task[r].seen)
      /\ UNCHANGED <<clients, secrets, serial>>
  BY DEF RetryGoesOn
<1>2. Turns /\ row[r] \in RowRecords /\ task[r] \in TaskRecords
      /\ (row' = row => row' = [row EXCEPT ![r] = row[r]])
      /\ (row[r].status = "ACTIVE" => row[r].link >= row[r].floor)
  BY <1>1, StaysTurn, RecordsOf DEF CredentialInv, LinkNotOlder
<1>3. CASE task' = [task EXCEPT ![r] = NoTask] /\ UNCHANGED row
  BY <1>1, <1>2, <1>3, NoTaskIsRecord, RequestKeeps
<1>4. CASE Go(r, "ask") /\ row' = [row EXCEPT ![r].status = "RESERVED", ![r].inbound = FALSE]
  <2> DEFINE a == [row[r] EXCEPT !.status = "RESERVED"]
             x == [a EXCEPT !.inbound = FALSE]
             w == [task[r] EXCEPT !.pc = "ask"]
  <2>1. row' = [row EXCEPT ![r] = x] /\ task' = [task EXCEPT ![r] = w]
    BY <1>4 DEF Go
  <2>2. a \in RowRecords /\ a.status = "RESERVED" /\ a.email = row[r].email
    BY <1>2 DEF RowRecords
  <2> HIDE DEF a
  <2>3. x \in RowRecords /\ x.status = "RESERVED" /\ x.email = row[r].email
    BY <2>2 DEF RowRecords
  <2> HIDE DEF x
  <2>4. w \in TaskRecords /\ w.pc = "ask" /\ w.floor = task[r].floor /\ w.seen = task[r].seen
    BY <1>2, PcOnly DEF Pcs
  <2> HIDE DEF w
  <2> QED BY <1>1, <1>2, <2>1, <2>3, <2>4, RequestKeeps DEF Unasked
<1> QED BY <1>3, <1>4 DEF RetryGoesOn

(* The request's own steps that leave the row's client columns alone.      *)
LEMMA PlainKeeps ==
  ASSUME CredentialInv, Turns, NEW r \in Routes, NEW pc \in Pcs \ {"ask", "retry", "edit"},
         NEW x \in RowRecords, Go(r, pc), task[r].pc \notin {"ask", "edit"},
         pc = "delete inbound" \/ task[r].pc \notin Unasked,
         row' = [row EXCEPT ![r] = x], x.email = row[r].email,
         x.status = "ACTIVE" => x.link >= x.floor, serial' = serial,
         cache' = cache \/ Capture(Email(r), task[r].seen)
  PROVE  CredentialInv'
<1> DEFINE w == [task[r] EXCEPT !.pc = pc]
<1>1. task[r] \in TaskRecords
  BY RecordsOf DEF CredentialInv
<1>2. /\ w \in TaskRecords /\ w.pc = pc /\ w.floor = task[r].floor /\ w.seen = task[r].seen
      /\ task' = [task EXCEPT ![r] = w]
  BY <1>1, PcOnly DEF Go
<1> HIDE DEF w
<1>3. pc # "none" /\ "delete inbound" \in Unasked
  BY DEF Pcs, Unasked
<1> QED BY <1>2, <1>3, RequestKeeps

LEMMA RowStays ==
  ASSUME CredentialInv, NEW r \in Routes
  PROVE  /\ row[r] \in RowRecords /\ (row' = row => row' = [row EXCEPT ![r] = row[r]])
         /\ row[r].status = "ACTIVE" => row[r].link >= row[r].floor
BY RecordsOf DEF CredentialInv, LinkNotOlder

(* A row whose status, or one flag, changes.                               *)
LEMMA StatusOnly ==
  ASSUME CredentialInv, NEW r \in Routes,
         NEW status \in {"RESERVED", "FAILED", "NEEDS_REVIEW", "deleted"}
  PROVE  LET x == [row[r] EXCEPT !.status = status]
         IN  /\ x \in RowRecords /\ x.email = row[r].email /\ x.status # "ACTIVE"
<1>1. row[r] \in RowRecords
  BY RowStays
<1> QED BY <1>1 DEF RowRecords

LEMMA FlagOnly ==
  ASSUME CredentialInv, NEW r \in Routes, NEW flag \in BOOLEAN, NEW mode \in Modes,
         NEW x \in {[row[r] EXCEPT !.created = flag], [row[r] EXCEPT !.attached = flag],
                    [row[r] EXCEPT !.inbound = flag], [row[r] EXCEPT !.mode = mode]}
  PROVE  x \in RowRecords /\ x.email = row[r].email /\ (x.status = "ACTIVE" => x.link >= x.floor)
<1>1. row[r] \in RowRecords /\ (row[r].status = "ACTIVE" => row[r].link >= row[r].floor)
  BY RowStays
<1>2. /\ x \in RowRecords /\ x.email = row[r].email
      /\ x.status = row[r].status /\ x.link = row[r].link /\ x.floor = row[r].floor
  BY <1>1 DEF RowRecords
<1> QED BY <1>1, <1>2

LEMMA PreflightKeeps ==
  ASSUME CredentialInv, NEW r \in Routes, PreflightValidates(r)
  PROVE  CredentialInv'
<1>1. /\ task[r].pc = "validate" /\ Capture(Email(r), task[r].seen) /\ Turns
      /\ serial' = serial
  BY StaysTurn DEF PreflightValidates
<1>2. CASE Go(r, "inbound") /\ UNCHANGED row
  BY <1>1, <1>2, RowStays, PlainKeeps DEF Pcs, Unasked
<1>3. CASE row' = [row EXCEPT ![r].status = "FAILED"] /\ task' = [task EXCEPT ![r] = NoTask]
  <2> DEFINE x == [row[r] EXCEPT !.status = "FAILED"]
  <2>1. x \in RowRecords /\ x.email = row[r].email /\ x.status # "ACTIVE"
    BY StatusOnly
  <2>2. row' = [row EXCEPT ![r] = x]
    BY <1>3
  <2> HIDE DEF x
  <2> QED BY <1>1, <1>3, <2>1, <2>2, NoTaskIsRecord, RequestKeeps
<1> QED BY <1>2, <1>3 DEF PreflightValidates

LEMMA AddInboundKeeps ==
  ASSUME CredentialInv, NEW r \in Routes, AddInbound(r)
  PROVE  CredentialInv'
<1>1. task[r].pc = "inbound" /\ Turns /\ serial' = serial /\ cache' = cache
  BY StaysTurn DEF AddInbound
<1>2. CASE Go(r, "undo") /\ UNCHANGED row
  BY <1>1, <1>2, RowStays, PlainKeeps DEF Pcs, Unasked
<1>3. CASE row' = [row EXCEPT ![r].inbound = TRUE]
             /\ task' = [task EXCEPT ![r].pc = "client", ![r].made = {"inbound"}]
  <2> DEFINE x == [row[r] EXCEPT !.inbound = TRUE]
             y == [task[r] EXCEPT !.pc = "client"]
             w == [y EXCEPT !.made = {"inbound"}]
  <2>1. x \in RowRecords /\ x.email = row[r].email /\ (x.status = "ACTIVE" => x.link >= x.floor)
    BY FlagOnly DEF Modes
  <2>2. row' = [row EXCEPT ![r] = x] /\ task' = [task EXCEPT ![r] = w]
    BY <1>3
  <2> HIDE DEF x
  <2>3. task[r] \in TaskRecords
    BY RecordsOf DEF CredentialInv
  <2>4. y \in TaskRecords /\ y.pc = "client" /\ y.floor = task[r].floor /\ y.seen = task[r].seen
    BY <2>3, PcOnly DEF Pcs
  <2> HIDE DEF y
  <2>5. w \in TaskRecords /\ w.pc = "client" /\ w.floor = task[r].floor /\ w.seen = task[r].seen
    BY <2>4 DEF TaskRecords
  <2> HIDE DEF w
  <2> QED BY <1>1, <2>1, <2>2, <2>5, RequestKeeps DEF Unasked
<1> QED BY <1>2, <1>3 DEF AddInbound

LEMMA UseClientKeeps ==
  ASSUME CredentialInv, NEW r \in Routes, UseClient(r)
  PROVE  CredentialInv'
<1> DEFINE e == Email(r)
<1>1. /\ task[r].pc = "client" /\ serial' = serial /\ cache' = cache
      /\ e \in Emails /\ r \in Inbounds /\ clients[e].exists \in BOOLEAN
  BY RecordsOf DEF UseClient, CredentialInv, PanelTypes, ClientRecords, Inbounds
<1>2. Turns
  <2>1. CASE UNCHANGED <<clients, secrets>>
    BY <2>1, StaysTurn
  <2>2. CASE clients[e].exists /\ Attach(e, r) /\ UNCHANGED secrets
    BY <1>1, <2>2, AttachTurns
  <2>3. CASE CreateClient(e, r, r)
    BY <1>1, <2>3, CreateTurns
  <2> QED BY <1>1, <2>1, <2>2, <2>3 DEF UseClient
<1>3. CASE Go(r, "undo") /\ UNCHANGED row
  BY <1>1, <1>2, <1>3, RowStays, PlainKeeps DEF Pcs, Unasked
<1>4. ASSUME NEW what \in {"created", "attached"}, Acknowledged(r, what),
             what = "created" => secrets' = secrets + 1
      PROVE  CredentialInv'
  <2> DEFINE a == [row[r] EXCEPT !.created = what = "created"]
             x == [a EXCEPT !.attached = what = "attached"]
             made == task[r].made \cup {what}
             seen == IF what = "created" THEN secrets + 1 ELSE task[r].seen
             y == [task[r] EXCEPT !.pc = "link"]
             z == [y EXCEPT !.made = made]
             w == [z EXCEPT !.seen = seen]
  <2>1. row' = [row EXCEPT ![r] = x] /\ task' = [task EXCEPT ![r] = w]
    BY <1>4 DEF Acknowledged
  <2>2. /\ row[r] \in RowRecords /\ task[r] \in TaskRecords /\ "link" \in Pcs
        /\ row[r].status = "ACTIVE" => row[r].link >= row[r].floor
    BY RecordsOf, RowStays DEF Pcs, CredentialInv
  <2>3. /\ a \in RowRecords /\ a.email = row[r].email /\ a.status = row[r].status
        /\ a.link = row[r].link /\ a.floor = row[r].floor
    BY <2>2 DEF RowRecords
  <2> HIDE DEF a
  <2>4. /\ x \in RowRecords /\ x.email = row[r].email /\ x.status = row[r].status
        /\ x.link = row[r].link /\ x.floor = row[r].floor
    BY <2>3 DEF RowRecords
  <2> HIDE DEF x
  <2>5. made \in SUBSET {"inbound", "created", "attached", "failure"}
    BY <2>2 DEF TaskRecords
  <2> HIDE DEF made
  <2>7. y \in TaskRecords /\ y.pc = "link" /\ y.floor = task[r].floor /\ y.seen = task[r].seen
    BY <2>2, PcOnly
  <2> HIDE DEF y
  <2>8. z \in TaskRecords /\ z.pc = "link" /\ z.floor = task[r].floor
    BY <2>5, <2>7 DEF TaskRecords
  <2> HIDE DEF z
  <2>9. seen \in Nat /\ (seen = task[r].seen \/ seen = secrets + 1)
    <3>1. secrets \in Nat
      BY DEF CredentialInv, PanelTypes
    <3>2. task[r].seen \in Nat
      BY <2>2 DEF TaskRecords
    <3> QED BY <3>1, <3>2
  <2> HIDE DEF seen
  <2>6. /\ w \in TaskRecords /\ w.pc = "link" /\ w.floor = task[r].floor
        /\ w.seen = task[r].seen \/ w.seen = secrets + 1
    BY <2>8, <2>9 DEF TaskRecords
  <2> HIDE DEF w
  <2> QED BY <1>1, <1>2, <2>1, <2>2, <2>4, <2>6, RequestKeeps DEF Unasked
<1>5. \/ Go(r, "undo") /\ UNCHANGED row
      \/ Acknowledged(r, "attached")
      \/ Acknowledged(r, "created") /\ secrets' = secrets + 1
  BY DEF UseClient, CreateClient
<1> QED BY <1>3, <1>4, <1>5

(* A client that is attached is there, and so is its credential.           *)
LEMMA CredentialsAreNewer ==
  ASSUME CredentialInv, NEW r \in Routes, task[r].pc = "link", r \in Record(r).attached,
         NEW secret \in Credentials(r)
  PROVE  secret \in Nat /\ secret >= task[r].floor
<1>1. /\ clients[Email(r)] \in ClientRecords /\ cache[Email(r)] \in Nat /\ task[r].floor \in Nat
      /\ Email(r) \in Emails
  BY RecordsOf DEF CredentialInv, PanelTypes, TaskRecords
<1>2. clients[Email(r)].exists
  BY <1>1 DEF CredentialInv, Known, Gone, Record
<1>3. Record(r).secret \in Nat /\ Record(r).secret >= task[r].floor
  BY <1>1, <1>2 DEF CredentialInv, MeetsNewer, Record, ClientRecords
<1>4. cache[Email(r)] # NoSecret => cache[Email(r)] >= task[r].floor
  BY <1>1 DEF CredentialInv, CachedNewer
<1>5. /\ task[r].seen \in Nat
      /\ task[r].seen # NoSecret => task[r].seen >= task[r].floor
  BY RecordsOf DEF CredentialInv, SawNewer, PanelTypes, TaskRecords
<1> QED BY <1>1, <1>3, <1>4, <1>5 DEF Credentials, CreatedByRun

LEMMA ActivateKeeps ==
  ASSUME CredentialInv, NEW r \in Routes, Activate(r)
  PROVE  CredentialInv'
<1>1. /\ task[r].pc = "link" /\ Turns /\ serial' = serial
      /\ cache' = cache \/ Capture(Email(r), task[r].seen)
  BY StaysTurn DEF Activate, Capture
<1>2. CASE Go(r, "undo") /\ UNCHANGED row
  BY <1>1, <1>2, RowStays, PlainKeeps DEF Pcs, Unasked
<1>3. ASSUME r \in Record(r).attached, NEW secret \in Credentials(r),
             row' = [row EXCEPT ![r].status = "ACTIVE", ![r].link = secret,
                                ![r].floor = task[r].floor],
             task' = [task EXCEPT ![r] = NoTask]
      PROVE  CredentialInv'
  <2> DEFINE a == [row[r] EXCEPT !.status = "ACTIVE"]
             b == [a EXCEPT !.link = secret]
             x == [b EXCEPT !.floor = task[r].floor]
  <2>1. row' = [row EXCEPT ![r] = x]
    BY <1>3
  <2>2. secret \in Nat /\ secret >= task[r].floor /\ row[r] \in RowRecords /\ task[r].floor \in Nat
    BY <1>1, <1>3, CredentialsAreNewer, RecordsOf DEF CredentialInv, TaskRecords
  <2>3. a \in RowRecords /\ a.email = row[r].email
    BY <2>2 DEF RowRecords
  <2> HIDE DEF a
  <2>4. b \in RowRecords /\ b.email = row[r].email /\ b.link = secret
    BY <2>2, <2>3 DEF RowRecords
  <2> HIDE DEF b
  <2>5. x \in RowRecords /\ x.email = row[r].email /\ x.link = secret /\ x.floor = task[r].floor
    BY <2>2, <2>4 DEF RowRecords
  <2> HIDE DEF x
  <2> QED BY <1>1, <1>3, <2>1, <2>2, <2>5, NoTaskIsRecord, RequestKeeps
<1> QED BY <1>2, <1>3 DEF Activate

LEMMA UndoKeeps ==
  ASSUME CredentialInv, NEW r \in Routes, UndoClient(r) \/ UndoInbound(r)
  PROVE  CredentialInv'
<1>1. serial' = serial /\ cache' = cache /\ UNCHANGED secrets /\ Email(r) \in Emails
  BY RecordsOf DEF UndoClient, UndoInbound, CredentialInv
<1>2. Turns
  <2>1. CASE UNCHANGED clients
    BY <1>1, <2>1, StaysTurn
  <2>2. CASE Delete(Email(r))
    BY <1>1, <2>2, DeleteTurns
  <2>3. CASE Detach(Email(r), r)
    BY <1>1, <2>3, DetachTurns
  <2>4. CASE DeleteInbound(r)
    BY <1>1, <2>4, DeleteInboundTurns
  <2> QED BY <2>1, <2>2, <2>3, <2>4 DEF UndoClient, UndoInbound
<1>3. CASE UndoClient(r)
  <2>1. task[r].pc = "undo" /\ Go(r, "undo inbound") /\ row' = row
    BY <1>3 DEF UndoClient
  <2> QED BY <1>1, <1>2, <2>1, RowStays, PlainKeeps DEF Pcs, Unasked
<1>4. CASE UndoInbound(r)
  <2> DEFINE a == [row[r] EXCEPT !.status = "FAILED"]
             built == "inbound" \in task[r].made
             x == [a EXCEPT !.inbound = built]
  <2>1. row' = [row EXCEPT ![r] = x] /\ task' = [task EXCEPT ![r] = NoTask]
    BY <1>4 DEF UndoInbound
  <2>4. built \in BOOLEAN
    OBVIOUS
  <2> HIDE DEF built
  <2>2. a \in RowRecords /\ a.email = row[r].email /\ a.status # "ACTIVE"
    BY StatusOnly
  <2> HIDE DEF a
  <2>3. x \in RowRecords /\ x.email = row[r].email /\ x.status # "ACTIVE"
    BY <2>2, <2>4 DEF RowRecords
  <2> HIDE DEF x
  <2> QED BY <1>1, <1>2, <2>1, <2>3, NoTaskIsRecord, RequestKeeps
<1> QED BY <1>3, <1>4

LEMMA EditWritesKeeps ==
  ASSUME CredentialInv, NEW r \in Routes, NEW mode \in Modes, EditWrites(r, mode)
  PROVE  CredentialInv'
<1>1. /\ Turns /\ serial' = serial /\ Capture(Email(r), task[r].seen)
      /\ task' = [task EXCEPT ![r] = NoTask]
  BY StaysTurn DEF EditWrites
<1>2. CASE row' = row
  BY <1>1, <1>2, RowStays, NoTaskIsRecord, RequestKeeps
<1>3. CASE row' = [row EXCEPT ![r].mode = mode, ![r].email = task[r].email]
  <2> DEFINE a == [row[r] EXCEPT !.mode = mode]
             x == [a EXCEPT !.email = task[r].email]
  <2>1. a \in RowRecords /\ (a.status = "ACTIVE" => a.link >= a.floor)
    BY FlagOnly
  <2>2. row' = [row EXCEPT ![r] = x]
    BY <1>3
  <2>3. task[r].email \in Emails
    BY RecordsOf DEF CredentialInv, TaskRecords
  <2> HIDE DEF a
  <2>4. x \in RowRecords /\ x.status = a.status /\ x.link = a.link /\ x.floor = a.floor
    BY <2>1, <2>3 DEF RowRecords
  <2>5. x \in RowRecords /\ (x.status = "ACTIVE" => x.link >= x.floor)
    BY <2>1, <2>4
  <2> HIDE DEF x
  <2> QED BY <1>1, <2>2, <2>5, NoTaskIsRecord, RequestKeeps
<1> QED BY <1>2, <1>3 DEF EditWrites

LEMMA DeleteKeeps ==
  ASSUME CredentialInv, NEW r \in Routes, DeleteRemovesClient(r) \/ DeleteEnds(r)
  PROVE  CredentialInv'
<1>1. serial' = serial /\ UNCHANGED secrets /\ Email(r) \in Emails
      /\ (cache' = cache \/ Capture(Email(r), task[r].seen))
  BY RecordsOf DEF DeleteRemovesClient, DeleteEnds, CredentialInv
<1>2. Turns
  <2>1. CASE UNCHANGED clients
    BY <1>1, <2>1, StaysTurn
  <2>2. CASE Delete(Email(r))
    BY <1>1, <2>2, DeleteTurns
  <2>3. CASE Detach(Email(r), r)
    BY <1>1, <2>3, DetachTurns
  <2>4. CASE DeleteInbound(r)
    BY <1>1, <2>4, DeleteInboundTurns
  <2> QED BY <2>1, <2>2, <2>3, <2>4 DEF DeleteRemovesClient, DeleteEnds, DeleteClient
<1>3. CASE DeleteRemovesClient(r)
  <2>1. PICK x \in RowRecords : row' = [row EXCEPT ![r] = x] /\ x.email = row[r].email
                                 /\ (x.status = "ACTIVE" => x.link >= x.floor)
    <3>1. (~Record(r).exists) \in BOOLEAN
      BY <1>1 DEF Record, CredentialInv, PanelTypes, ClientRecords
    <3>2. CASE row' = row
      BY <3>2, RowStays
    <3>3. ASSUME NEW flag \in BOOLEAN, row' = [row EXCEPT ![r].created = flag]
          PROVE  \E x \in RowRecords : row' = [row EXCEPT ![r] = x] /\ x.email = row[r].email
                                         /\ (x.status = "ACTIVE" => x.link >= x.floor)
      <4> DEFINE x == [row[r] EXCEPT !.created = flag]
      <4>1. row' = [row EXCEPT ![r] = x]
        BY <3>3
      <4>2. x \in RowRecords /\ x.email = row[r].email /\ (x.status = "ACTIVE" => x.link >= x.floor)
        BY FlagOnly DEF Modes
      <4> QED BY <4>1, <4>2
    <3>4. ASSUME row' = [row EXCEPT ![r].attached = FALSE]
          PROVE  \E x \in RowRecords : row' = [row EXCEPT ![r] = x] /\ x.email = row[r].email
                                         /\ (x.status = "ACTIVE" => x.link >= x.floor)
      <4> DEFINE x == [row[r] EXCEPT !.attached = FALSE]
      <4>1. row' = [row EXCEPT ![r] = x]
        BY <3>4
      <4>2. x \in RowRecords /\ x.email = row[r].email /\ (x.status = "ACTIVE" => x.link >= x.floor)
        BY FlagOnly DEF Modes
      <4> QED BY <4>1, <4>2
    <3> QED BY <1>3, <3>1, <3>2, <3>3, <3>4 DEF DeleteRemovesClient, DeleteClient
  <2>2. task[r].pc = "delete"
    BY <1>3 DEF DeleteRemovesClient
  <2>3. CASE Go(r, "delete inbound")
    BY <1>1, <1>2, <2>1, <2>2, <2>3, PlainKeeps DEF Pcs, Unasked
  <2>4. CASE task' = [task EXCEPT ![r].pc = "delete inbound", ![r].made = {"failure"}]
    <3> DEFINE y == [task[r] EXCEPT !.pc = "delete inbound"]
               w == [y EXCEPT !.made = {"failure"}]
    <3>1. task' = [task EXCEPT ![r] = w]
      BY <2>4
    <3>2. /\ y \in TaskRecords /\ y.pc = "delete inbound" /\ y.floor = task[r].floor
          /\ y.seen = task[r].seen
      BY RecordsOf, PcOnly DEF Pcs, CredentialInv
    <3> HIDE DEF y
    <3>3. /\ w \in TaskRecords /\ w.pc = "delete inbound" /\ w.floor = task[r].floor
          /\ w.seen = task[r].seen
      BY <3>2 DEF TaskRecords
    <3> HIDE DEF w
    <3> QED BY <1>1, <1>2, <2>1, <2>2, <3>1, <3>3, RequestKeeps DEF Unasked
  <2> QED BY <1>3, <2>3, <2>4 DEF DeleteRemovesClient
<1>4. CASE DeleteEnds(r)
  <2>1. PICK status \in {"NEEDS_REVIEW", "deleted"} :
          row' = [row EXCEPT ![r].status = status] /\ task' = [task EXCEPT ![r] = NoTask]
    BY <1>4 DEF DeleteEnds
  <2> DEFINE x == [row[r] EXCEPT !.status = status]
  <2>2. x \in RowRecords /\ x.email = row[r].email /\ x.status # "ACTIVE"
    BY StatusOnly
  <2>3. row' = [row EXCEPT ![r] = x] /\ task' = [task EXCEPT ![r] = NoTask]
    BY <2>1
  <2> HIDE DEF x
  <2> QED BY <1>1, <1>2, <2>2, <2>3, NoTaskIsRecord, RequestKeeps
<1> QED BY <1>3, <1>4

LEMMA CredentialKeeps == CredentialInv /\ [Next]_vars => CredentialInv'
<1> SUFFICES ASSUME CredentialInv, [Next]_vars PROVE CredentialInv'
  OBVIOUS
<1>1. CASE UNCHANGED vars
  <2>1. UNCHANGED <<clients, secrets, row, task, cache, serial>>
    BY <1>1 DEF vars
  <2> QED BY <2>1 DEF CredentialInv, PanelTypes, Known, MeetsNewer, SawNewer, CachedNewer, Begun,
                      LinkNotOlder, Email
<1> QED BY <1>1, HandKeeps, StartRunKeeps, AsksKeep, RetryGoesOnKeeps, PreflightKeeps,
           AddInboundKeeps, UseClientKeeps, ActivateKeeps, UndoKeeps, EditWritesKeeps,
           DeleteKeeps DEF Next

LEMMA CredentialStarts == Init => CredentialInv
<1> SUFFICES ASSUME Init PROVE CredentialInv
  OBVIOUS
<1>1. PICK some \in SUBSET Emails :
        clients = [e \in Emails |-> IF e \notin some THEN Absent
                     ELSE [exists |-> TRUE, secret |-> 1, attached |-> {}, by |-> "people"]]
  BY DEF Init
<1>2. /\ clients \in [Emails -> ClientRecords] /\ secrets = 1
      /\ Known
  BY <1>1, AbsentIsRecord DEF Init, ClientRecords, Known
<1>3. \A r \in Routes : /\ row[r] \in RowRecords /\ row[r].status = "none"
  <2>1. Someone \in Emails
    BY PanelAssumption DEF Someone
  <2> QED BY <2>1 DEF Init, RowRecords, Modes, NoSecret
<1>4. row \in [Routes -> RowRecords]
  BY <1>3 DEF Init
<1>5. /\ task \in [Routes -> TaskRecords]
      /\ \A r \in Routes : task[r] = NoTask
  BY NoTaskIsRecord DEF Init
<1>6. cache \in [Emails -> Nat] /\ serial \in BOOLEAN
  BY DEF Init, NoSecret
<1>10. \A r \in Routes : Email(r) \in Emails
  BY <1>3, <1>5 DEF Email, RowRecords, TaskRecords
<1>7. \A r \in Routes : clients[Email(r)].secret \in Nat
  BY <1>2, <1>10 DEF ClientRecords
<1>8. MeetsNewer /\ SawNewer /\ CachedNewer /\ Begun
  <2>1. MeetsNewer
    BY <1>2, <1>5, <1>7, NoTaskIsRecord DEF MeetsNewer
  <2>2. SawNewer /\ Begun
    BY <1>5, NoTaskIsRecord DEF SawNewer, Begun, Unasked, NoSecret
  <2>3. CachedNewer
    <3>1. \A o \in Routes : cache[Email(o)] = NoSecret
      BY <1>10 DEF Init
    <3> QED BY <3>1 DEF CachedNewer
  <2> QED BY <2>1, <2>2, <2>3
<1>9. LinkNotOlder
  BY <1>3 DEF LinkNotOlder
<1> QED BY <1>2, <1>4, <1>5, <1>6, <1>8, <1>9 DEF CredentialInv, PanelTypes

(* No share link carries a credential that the client had given up before  *)
(* the request that it answers, and those it overlapped, began.            *)
THEOREM LinksAreNotOlder == Spec => []LinkNotOlder
<1>1. CredentialInv => LinkNotOlder
  BY DEF CredentialInv
<1> QED BY <1>1, CredentialStarts, CredentialKeeps, PTL DEF Spec

-----------------------------------------------------------------------------
(* Requests that do not overlap.  The client that a run has created, or    *)
(* that a deletion was told nobody else uses, is no other route's.         *)
Doomed(r) ==
  \/ "created" \in task[r].made
  \/ task[r].pc = "delete" /\ row[r].created /\ task[r].others = {}

SerialInv ==
  serial =>
    /\ \A q, o \in Routes : task[q].pc # "none" /\ task[o].pc # "none" => q = o
    /\ \A o \in Routes : Doomed(o) => Record(o).attached \subseteq {o, "own"}

RequestStep(r) ==
  \/ \E e \in Emails, mode \in Modes : StartRun(r, e, mode)
  \/ RetryAsks(r) \/ RetryGoesOn(r) \/ PreflightAsks(r) \/ PreflightValidates(r)
  \/ AddInbound(r) \/ UseClient(r) \/ Activate(r) \/ UndoClient(r) \/ UndoInbound(r)
  \/ (\E e \in Emails : EditAsks(r, e)) \/ (\E mode \in Modes : EditWrites(r, mode))
  \/ DeleteAsks(r) \/ DeleteRemovesClient(r) \/ DeleteEnds(r)

LEMMA OthersStay ==
  ASSUME CredentialInv, NEW r \in Routes, RequestStep(r)
  PROVE  /\ \A o \in Routes \ {r} : task'[o] = task[o] /\ row'[o] = row[o]
         /\ serial' = serial /\ hands' = hands
<1>1. task \in [Routes -> TaskRecords] /\ row \in [Routes -> RowRecords]
  BY DEF CredentialInv, PanelTypes
<1>2. \A o \in Routes \ {r} : task'[o] = task[o]
  <2>1. CASE \/ \E e \in Emails, mode \in Modes : StartRun(r, e, mode)
             \/ RetryAsks(r) \/ RetryGoesOn(r) \/ PreflightAsks(r) \/ PreflightValidates(r)
    BY <1>1, <2>1 DEF StartRun, RetryAsks, Asking, RetryGoesOn, PreflightAsks,
                      PreflightValidates, Go
  <2>2. CASE AddInbound(r) \/ UseClient(r) \/ Activate(r) \/ UndoClient(r) \/ UndoInbound(r)
    BY <1>1, <2>2 DEF AddInbound, UseClient, Acknowledged, Activate, UndoClient, UndoInbound, Go
  <2>3. CASE \/ (\E e \in Emails : EditAsks(r, e)) \/ (\E mode \in Modes : EditWrites(r, mode))
             \/ DeleteAsks(r) \/ DeleteRemovesClient(r) \/ DeleteEnds(r)
    BY <1>1, <2>3 DEF EditAsks, Asking, EditWrites, DeleteAsks, DeleteRemovesClient, DeleteEnds, Go
  <2> QED BY <2>1, <2>2, <2>3 DEF RequestStep
<1>3. \A o \in Routes \ {r} : row'[o] = row[o]
  <2>1. CASE \/ \E e \in Emails, mode \in Modes : StartRun(r, e, mode)
             \/ RetryAsks(r) \/ RetryGoesOn(r) \/ PreflightAsks(r) \/ PreflightValidates(r)
    BY <1>1, <2>1 DEF StartRun, RetryAsks, RetryGoesOn, PreflightAsks, PreflightValidates
  <2>2. CASE AddInbound(r) \/ UseClient(r) \/ Activate(r) \/ UndoClient(r) \/ UndoInbound(r)
    BY <1>1, <2>2 DEF AddInbound, UseClient, Acknowledged, Activate, UndoClient, UndoInbound
  <2>3. CASE \/ (\E e \in Emails : EditAsks(r, e)) \/ (\E mode \in Modes : EditWrites(r, mode))
             \/ DeleteAsks(r) \/ DeleteRemovesClient(r) \/ DeleteEnds(r)
    BY <1>1, <2>3 DEF EditAsks, EditWrites, DeleteAsks, DeleteRemovesClient, DeleteClient, DeleteEnds
  <2> QED BY <2>1, <2>2, <2>3 DEF RequestStep
<1>4. serial' = serial /\ hands' = hands
  BY DEF RequestStep, StartRun, RetryAsks, RetryGoesOn, PreflightAsks, PreflightValidates,
         AddInbound, UseClient, Activate, UndoClient, UndoInbound, EditAsks, EditWrites,
         DeleteAsks, DeleteRemovesClient, DeleteEnds
<1> QED BY <1>2, <1>3, <1>4

(* A request that begins or goes on is the only one.                       *)
LEMMA OnlyOne ==
  ASSUME CredentialInv, SerialInv, serial, NEW r \in Routes, RequestStep(r)
  PROVE  \A o \in Routes \ {r} : task[o] = NoTask
<1>1. \/ task[r].pc # "none" \/ \A o \in Routes : task[o].pc = "none"
  BY DEF RequestStep, StartRun, Starts, RetryAsks, RetryGoesOn, PreflightAsks,
         PreflightValidates, AddInbound, UseClient, Activate, UndoClient, UndoInbound, EditAsks,
         EditWrites, DeleteAsks, DeleteRemovesClient, DeleteEnds
<1>2. \A o \in Routes \ {r} : task[o].pc = "none"
  BY <1>1 DEF SerialInv
<1> QED BY <1>2 DEF CredentialInv, Begun

LEMMA NoTaskDoomsNobody == NoTask.made = {} /\ NoTask.pc = "none"
BY DEF NoTask

LEMMA SerialStep ==
  ASSUME CredentialInv, SerialInv, NEW r \in Routes, RequestStep(r),
         serial /\ Doomed(r)' => Record(r)'.attached \subseteq {r, "own"}
  PROVE  SerialInv'
<1> SUFFICES ASSUME serial
             PROVE  /\ \A q, o \in Routes : task'[q].pc # "none" /\ task'[o].pc # "none" => q = o
                    /\ \A o \in Routes : Doomed(o)' => Record(o)'.attached \subseteq {o, "own"}
  BY OthersStay DEF SerialInv
<1>1. \A o \in Routes \ {r} : task'[o] = NoTask
  BY OnlyOne, OthersStay
<1>2. \A o \in Routes \ {r} : ~Doomed(o)'
  BY <1>1, NoTaskDoomsNobody DEF Doomed
<1> QED BY <1>1, <1>2, NoTaskDoomsNobody

(* Attachments are taken away; only UseClient adds the route's own.        *)
LEMMA Shrinks ==
  ASSUME CredentialInv, NEW r \in Routes, RequestStep(r), ~UseClient(r), NEW d \in Emails
  PROVE  clients'[d].attached \subseteq clients[d].attached
<1>1. clients \in [Emails -> ClientRecords] /\ Email(r) \in Emails
  BY RecordsOf DEF CredentialInv, PanelTypes
<1>2. CASE UNCHANGED clients
  BY <1>2
<1>3. CASE Delete(Email(r))
  BY <1>1, <1>3, AbsentIsRecord DEF Delete
<1>4. ASSUME NEW i, Detach(Email(r), i)
      PROVE  clients'[d].attached \subseteq clients[d].attached
  <2> DEFINE c == [clients[Email(r)] EXCEPT !.attached = @ \ {i}]
  <2>1. c.attached = clients[Email(r)].attached \ {i}
    BY <1>1, LosesNothing
  <2>2. clients' = [clients EXCEPT ![Email(r)] = c]
    BY <1>4 DEF Detach
  <2> HIDE DEF c
  <2> QED BY <1>1, <2>1, <2>2
<1>5. ASSUME NEW i, DeleteInbound(i)
      PROVE  clients'[d].attached \subseteq clients[d].attached
  <2>1. clients'[d] = [clients[d] EXCEPT !.attached = @ \ {i}]
    BY <1>5 DEF DeleteInbound
  <2> QED BY <2>1, LosesNothing
<1> QED BY <1>2, <1>3, <1>4, <1>5
        DEF RequestStep, StartRun, RetryAsks, RetryGoesOn, PreflightAsks, PreflightValidates,
            AddInbound, Activate, UndoClient, UndoInbound, EditAsks, EditWrites, DeleteAsks,
            DeleteRemovesClient, DeleteClient, DeleteEnds

(* Elsewhere than in UseClient and DeleteAsks nothing more is created or   *)
(* about to be deleted.                                                    *)
LEMMA NewTask ==
  ASSUME NEW task0 \in TaskRecords, NEW pc \in Pcs, NEW x \in Nat
  PROVE  [task0 EXCEPT !.pc = pc, !.seen = x].made = task0.made
         /\ [task0 EXCEPT !.pc = pc, !.seen = x].pc = pc
         /\ [task0 EXCEPT !.pc = pc, !.seen = x].others = task0.others
BY DEF TaskRecords, Pcs

LEMMA Answer ==
  ASSUME CredentialInv, NEW r \in Routes, NEW e \in Emails, NEW task0 \in TaskRecords,
         NEW pc \in Pcs, Asking(r, e, pc, task0)
  PROVE  task'[r].made = task0.made /\ task'[r].pc = pc /\ task'[r].others = task0.others
<1> DEFINE x == IF clients[e].exists THEN clients[e].secret ELSE NoSecret
<1>1. task \in [Routes -> TaskRecords] /\ clients[e] \in ClientRecords
  BY DEF CredentialInv, PanelTypes
<1>2. x \in Nat
  BY <1>1 DEF ClientRecords, NoSecret
<1>3. task'[r] = [task0 EXCEPT !.pc = pc, !.seen = x]
  BY <1>1 DEF Asking
<1> HIDE DEF x
<1> QED BY <1>2, <1>3, NewTask

LEMMA NothingMore ==
  ASSUME CredentialInv, NEW r \in Routes, RequestStep(r), ~UseClient(r), ~DeleteAsks(r),
         Doomed(r)'
  PROVE  "created" \in task[r].made /\ Email(r)' = Email(r)
<1>1. /\ task \in [Routes -> TaskRecords] /\ row \in [Routes -> RowRecords]
      /\ task[r] \in TaskRecords /\ row[r] \in RowRecords /\ Email(r) \in Emails
  BY RecordsOf DEF CredentialInv, PanelTypes
<1>2. ASSUME NEW pc \in Pcs \ {"delete", "edit"}, Go(r, pc), task[r].pc # "edit",
             row'[r].email = row[r].email
      PROVE  "created" \in task[r].made /\ Email(r)' = Email(r)
  <2> DEFINE w == [task[r] EXCEPT !.pc = pc]
  <2>1. w.made = task[r].made /\ w.pc = pc
    BY <1>1, PcOnly
  <2>2. task'[r] = w
    BY <1>1, <1>2 DEF Go
  <2> HIDE DEF w
  <2>3. "created" \in task[r].made
    BY <2>1, <2>2 DEF Doomed
  <2>4. Email(r)' = Email(r)
    BY <1>2, <2>1, <2>2 DEF Email
  <2> QED BY <2>3, <2>4
<1>3. task'[r] # NoTask
  BY NoTaskDoomsNobody DEF Doomed
<1>4. ASSUME NEW f \in Nat, Asking(r, Email(r), "retry", [NoTask EXCEPT !.floor = f])
      PROVE  FALSE
  <2> DEFINE w == [NoTask EXCEPT !.floor = f]
  <2>1. w \in TaskRecords /\ w.made = {}
    BY <1>1, <1>4, NewRequest DEF NoTask
  <2> HIDE DEF w
  <2>2. task'[r].made = {} /\ task'[r].pc = "retry"
    BY <1>1, <1>4, <2>1, Answer DEF w, Pcs
  <2> QED BY <2>2 DEF Doomed
<1>5. \A e \in Emails : Floor(e) \in Nat
  BY FloorFits DEF Fits
<1>14. ASSUME NEW e \in Emails, EditAsks(r, e)
       PROVE  FALSE
  <2> DEFINE w == [NoTask EXCEPT !.email = e, !.floor = Floor(e)]
  <2>1. w \in TaskRecords /\ w.made = {}
    BY <1>5, NewRequest DEF NoTask
  <2>2. Asking(r, e, "edit", w)
    BY <1>14 DEF EditAsks
  <2> HIDE DEF w
  <2>3. task'[r].made = {} /\ task'[r].pc = "edit"
    BY <2>1, <2>2, Answer DEF Pcs
  <2> QED BY <2>3 DEF Doomed
<1>6. CASE RetryAsks(r) \/ \E e \in Emails : EditAsks(r, e)
  BY <1>1, <1>4, <1>5, <1>6, <1>14 DEF RetryAsks
<1>7. ASSUME NEW e \in Emails, NEW mode \in Modes, StartRun(r, e, mode)
      PROVE  FALSE
  <2>1. task'[r] = [NoTask EXCEPT !.pc = "ask", !.floor = Floor(e)]
    BY <1>1, <1>7 DEF StartRun
  <2>2. task'[r].made = {} /\ task'[r].pc = "ask"
    BY <2>1 DEF NoTask
  <2> QED BY <2>2 DEF Doomed
<1>8. CASE PreflightAsks(r)
  <2>1. task'[r].made = task[r].made /\ task'[r].pc = "validate"
    BY <1>1, <1>8, Answer DEF PreflightAsks, Pcs
  <2>2. task[r].pc = "ask" /\ row' = row
    BY <1>8 DEF PreflightAsks
  <2>3. Email(r)' = Email(r)
    BY <2>1, <2>2 DEF Email
  <2> QED BY <2>1, <2>3 DEF Doomed
<1>9. CASE AddInbound(r)
  <2>1. CASE Go(r, "undo") /\ row' = row
    <3>1. task[r].pc = "inbound"
      BY <1>9 DEF AddInbound
    <3> QED BY <1>2, <2>1, <3>1 DEF Pcs
  <2>2. CASE task' = [task EXCEPT ![r].pc = "client", ![r].made = {"inbound"}]
    <3>1. task'[r].made = {"inbound"} /\ task'[r].pc = "client"
      BY <1>1, <2>2 DEF TaskRecords
    <3> QED BY <3>1 DEF Doomed
  <2> QED BY <1>9, <2>1, <2>2 DEF AddInbound
<1>10. CASE RetryGoesOn(r) \/ PreflightValidates(r)
  <2>1. \/ Go(r, "ask") /\ row' = [row EXCEPT ![r].status = "RESERVED", ![r].inbound = FALSE]
        \/ Go(r, "inbound") /\ row' = row
    BY <1>1, <1>3, <1>10 DEF RetryGoesOn, PreflightValidates
  <2>2. row'[r].email = row[r].email
    BY <1>1, <2>1 DEF RowRecords
  <2>3. task[r].pc # "edit"
    BY <1>10 DEF RetryGoesOn, PreflightValidates
  <2> QED BY <1>2, <2>1, <2>2, <2>3 DEF Pcs
<1>11. CASE Activate(r) \/ UndoClient(r)
  <2>1. (Go(r, "undo") \/ Go(r, "undo inbound")) /\ row' = row
    BY <1>1, <1>3, <1>11 DEF Activate, UndoClient
  <2>2. task[r].pc # "edit"
    BY <1>11 DEF Activate, UndoClient
  <2> QED BY <1>2, <2>1, <2>2 DEF Pcs
<1>12. CASE UndoInbound(r) \/ DeleteEnds(r) \/ \E mode \in Modes : EditWrites(r, mode)
  BY <1>1, <1>3, <1>12 DEF UndoInbound, DeleteEnds, EditWrites
<1>13. CASE DeleteRemovesClient(r)
  <2>1. CASE task' = [task EXCEPT ![r].pc = "delete inbound", ![r].made = {"failure"}]
    <3>1. task'[r].made = {"failure"} /\ task'[r].pc = "delete inbound"
      BY <1>1, <2>1 DEF TaskRecords
    <3> QED BY <3>1 DEF Doomed
  <2>2. CASE Go(r, "delete inbound")
    <3>1. row'[r].email = row[r].email
      BY <1>1, <1>13 DEF DeleteRemovesClient, DeleteClient, RowRecords
    <3>2. task[r].pc = "delete"
      BY <1>13 DEF DeleteRemovesClient
    <3> QED BY <1>2, <2>2, <3>1, <3>2 DEF Pcs
  <2> QED BY <1>13, <2>1, <2>2 DEF DeleteRemovesClient
<1> QED BY <1>6, <1>7, <1>8, <1>9, <1>10, <1>11, <1>12, <1>13 DEF RequestStep

(* A deletion is told who is attached; a run creates a client that was not *)
(* there, or attaches itself to one that it has not created.               *)
LEMMA DeletionKnows ==
  ASSUME CredentialInv, NEW r \in Routes, DeleteAsks(r), Doomed(r)'
  PROVE  Record(r)'.attached \subseteq {r}
<1>1. /\ task \in [Routes -> TaskRecords] /\ Email(r) \in Emails /\ task[r] \in TaskRecords
      /\ clients \in [Emails -> ClientRecords]
  BY RecordsOf DEF CredentialInv, PanelTypes
<1>2. row' = row /\ clients' = clients /\ task[r] = NoTask
  BY DEF DeleteAsks, Starts, CredentialInv, Begun
<1>3. row[r].created
  <2>1. CASE Go(r, "delete")
    <3> DEFINE w == [task[r] EXCEPT !.pc = "delete"]
    <3>1. w.made = {}
      BY <1>1, <1>2, PcOnly, NoTaskDoomsNobody DEF Pcs
    <3>2. task'[r] = w
      BY <1>1, <2>1 DEF Go
    <3> HIDE DEF w
    <3> QED BY <1>2, <3>1, <3>2 DEF Doomed
  <2> QED BY <2>1 DEF DeleteAsks
<1>4. PICK others \in {Record(r).attached \ {r}, Unread} :
        Asking(r, Email(r), "delete", [NoTask EXCEPT !.floor = Floor(Email(r)), !.others = others])
  BY <1>3 DEF DeleteAsks
<1>5. others \in SUBSET (Inbounds \cup Unread) /\ Floor(Email(r)) \in Nat
  BY <1>1, FloorFits DEF Record, ClientRecords, Fits
<1> DEFINE a == [NoTask EXCEPT !.floor = Floor(Email(r))]
           w == [NoTask EXCEPT !.floor = Floor(Email(r)), !.others = others]
<1>6. w \in TaskRecords /\ w.made = {} /\ w.others = others
  <2>1. a \in TaskRecords /\ a.made = {}
    BY <1>1, <1>5, NewRequest, NoTaskDoomsNobody DEF NoTask
  <2>2. w = [a EXCEPT !.others = others]
    OBVIOUS
  <2>3. w \in TaskRecords
    BY <1>1, <1>5, NewRequest
  <2> HIDE DEF a, w
  <2> QED BY <2>1, <2>2, <2>3 DEF TaskRecords
<1> HIDE DEF w
<1>7. task'[r].made = {} /\ task'[r].others = others /\ task'[r].pc = "delete"
  BY <1>1, <1>4, <1>6, Answer DEF w, Pcs
<1>8. others = {}
  BY <1>7 DEF Doomed
<1>9. Record(r).attached \ {r} = {}
  BY <1>4, <1>8 DEF Unread
<1>10. Email(r)' = Email(r)
  BY <1>2, <1>7, NoTaskDoomsNobody DEF Email
<1> QED BY <1>2, <1>9, <1>10 DEF Record

LEMMA UseKnows ==
  ASSUME CredentialInv, SerialInv, serial, NEW r \in Routes, UseClient(r), Doomed(r)'
  PROVE  Record(r)'.attached \subseteq {r, "own"}
<1> DEFINE e == Email(r)
<1>1. /\ task \in [Routes -> TaskRecords] /\ row \in [Routes -> RowRecords]
      /\ task[r] \in TaskRecords /\ row[r] \in RowRecords /\ e \in Emails
      /\ clients \in [Emails -> ClientRecords]
  BY RecordsOf DEF CredentialInv, PanelTypes
<1>2. row'[r].email = e
  BY <1>1 DEF UseClient, Acknowledged, RowRecords, Email
<1>3. Record(r)' = clients'[e]
  <2>1. task'[r].pc \in {"undo", "link"}
    <3>1. CASE Go(r, "undo")
      BY <1>1, <3>1 DEF Go, TaskRecords
    <3>2. ASSUME NEW what, Acknowledged(r, what) PROVE task'[r].pc \in {"undo", "link"}
      BY <1>1, <3>2 DEF Acknowledged, TaskRecords
    <3> QED BY <3>1, <3>2 DEF UseClient
  <2> QED BY <1>2, <2>1 DEF Record, Email
<1>4. CASE clients' = [clients EXCEPT ![e] = [exists |-> TRUE, secret |-> secrets + 1,
                                              attached |-> {r}, by |-> r]]
  BY <1>1, <1>3, <1>4
<1>5. ASSUME "created" \in task[r].made
      PROVE  Record(r).attached \subseteq {r, "own"}
  BY <1>5 DEF SerialInv, Doomed
<1>6. ASSUME clients' = clients, Go(r, "undo")
      PROVE  Record(r)'.attached \subseteq {r, "own"}
  <2> DEFINE w == [task[r] EXCEPT !.pc = "undo"]
  <2>1. w.made = task[r].made /\ w.pc = "undo"
    BY <1>1, PcOnly DEF Pcs
  <2>2. task'[r] = w
    BY <1>1, <1>6 DEF Go
  <2> HIDE DEF w
  <2>3. "created" \in task[r].made
    BY <2>1, <2>2 DEF Doomed
  <2> QED BY <1>3, <1>5, <1>6, <2>3 DEF Record
<1>7. CASE Attach(e, r) /\ row[r].mode = "existing"
  <2>1. clients'[e].attached = clients[e].attached \cup {r}
    BY <1>1, <1>7 DEF Attach, ClientRecords
  <2>2. "created" \in task[r].made
    <3>1. CASE Go(r, "undo")
      <4> DEFINE w == [task[r] EXCEPT !.pc = "undo"]
      <4>1. w.made = task[r].made /\ w.pc = "undo"
        BY <1>1, PcOnly DEF Pcs
      <4>2. task'[r] = w
        BY <1>1, <3>1 DEF Go
      <4> HIDE DEF w
      <4> QED BY <4>1, <4>2 DEF Doomed
    <3>2. CASE Acknowledged(r, "attached")
      <4>1. task'[r].made = task[r].made \cup {"attached"} /\ task'[r].pc = "link"
        BY <1>1, <3>2 DEF Acknowledged, TaskRecords
      <4> QED BY <4>1 DEF Doomed
    <3> QED BY <1>7, <3>1, <3>2 DEF UseClient
  <2> QED BY <1>3, <1>5, <2>1, <2>2 DEF Record
<1> QED BY <1>4, <1>6, <1>7 DEF UseClient, CreateClient

LEMMA RequestsStaySerial ==
  ASSUME CredentialInv, SerialInv, NEW r \in Routes, RequestStep(r)
  PROVE  SerialInv'
<1>1. ASSUME serial, Doomed(r)'
      PROVE  Record(r)'.attached \subseteq {r, "own"}
  <2>1. CASE UseClient(r)
    BY <1>1, <2>1, UseKnows
  <2>2. CASE DeleteAsks(r)
    BY <1>1, <2>2, DeletionKnows
  <2>3. CASE ~UseClient(r) /\ ~DeleteAsks(r)
    <3>1. "created" \in task[r].made /\ Email(r)' = Email(r) /\ Email(r) \in Emails
      BY <1>1, <2>3, NothingMore, RecordsOf DEF CredentialInv
    <3>2. Record(r).attached \subseteq {r, "own"}
      BY <1>1, <3>1 DEF SerialInv, Doomed
    <3>3. clients'[Email(r)].attached \subseteq clients[Email(r)].attached
      BY <2>3, <3>1, Shrinks
    <3> QED BY <3>1, <3>2, <3>3 DEF Record
  <2> QED BY <2>1, <2>2, <2>3
<1> QED BY <1>1, SerialStep

(* What the people on the panel do to a client.                            *)
LEMMA HandsStaySerial ==
  ASSUME CredentialInv, SerialInv, NEW e \in Emails, PanelHand(e)
  PROVE  SerialInv'
<1>1. clients \in [Emails -> ClientRecords] /\ \A r \in Routes : Email(r) \in Emails
  BY RecordsOf DEF CredentialInv, PanelTypes
<1>2. row' = row /\ task' = task /\ serial' = serial
  BY DEF PanelHand
<1>3. \A d \in Emails : clients'[d].attached \subseteq clients[d].attached \cup {"own"}
  <2>1. CASE CreateClient(e, "own", "people")
    BY <1>1, <2>1 DEF CreateClient
  <2>2. CASE Delete(e)
    BY <1>1, <2>2, AbsentIsRecord DEF Delete
  <2>3. CASE Attach(e, "own")
    <3>1. clients'[e].attached = clients[e].attached \cup {"own"}
      BY <1>1, <2>3 DEF Attach, ClientRecords
    <3>2. \A d \in Emails \ {e} : clients'[d] = clients[d]
      BY <1>1, <2>3 DEF Attach
    <3> QED BY <3>1, <3>2
  <2>4. CASE clients' = [clients EXCEPT ![e].secret = secrets + 1]
    <3>1. clients'[e].attached = clients[e].attached
      BY <1>1, <2>4 DEF ClientRecords
    <3>2. \A d \in Emails \ {e} : clients'[d] = clients[d]
      BY <1>1, <2>4
    <3> QED BY <3>1, <3>2
  <2> QED BY <2>1, <2>2, <2>3, <2>4 DEF PanelHand
<1>4. \A o \in Routes : Record(o)' = clients'[Email(o)]
  BY <1>2 DEF Record, Email
<1>5. \A o \in Routes : Doomed(o)' = Doomed(o)
  BY <1>2 DEF Doomed
<1> QED BY <1>1, <1>2, <1>3, <1>4, <1>5 DEF SerialInv, Record

LEMMA SerialKeeps == CredentialInv /\ SerialInv /\ [Next]_vars => SerialInv'
<1> SUFFICES ASSUME CredentialInv, SerialInv, [Next]_vars PROVE SerialInv'
  OBVIOUS
<1>1. CASE UNCHANGED vars
  <2>1. UNCHANGED <<clients, row, task, serial>>
    BY <1>1 DEF vars
  <2> QED BY <2>1 DEF SerialInv, Doomed, Record, Email
<1>2. ASSUME NEW e \in Emails, PanelHand(e) PROVE SerialInv'
  BY <1>2, HandsStaySerial
<1>3. ASSUME NEW r \in Routes, RequestStep(r) PROVE SerialInv'
  BY <1>3, RequestsStaySerial
<1>4. Next => (\E e \in Emails : PanelHand(e)) \/ \E r \in Routes : RequestStep(r)
  BY DEF Next, RequestStep
<1> QED BY <1>1, <1>2, <1>3, <1>4

LEMMA SerialStarts == Init => SerialInv
<1> SUFFICES ASSUME Init PROVE SerialInv
  OBVIOUS
<1>1. \A r \in Routes : task[r].pc = "none" /\ task[r].made = {}
  BY NoTaskDoomsNobody DEF Init
<1> QED BY <1>1 DEF SerialInv, Doomed

-----------------------------------------------------------------------------
(* What a request of another route does to a client that serves r: it is   *)
(* not deleted, and r stays attached.                                      *)
LEMMA ServesOn ==
  ASSUME CredentialInv, SerialInv, serial, NEW r \in Routes, NEW o \in Routes \ {r},
         RequestStep(o), Serves(r), \A q \in Routes : task[q].others # Unread
  PROVE  Serves(r)'
<1> DEFINE e == Email(r)
           f == Email(o)
<1>1. /\ clients \in [Emails -> ClientRecords] /\ e \in Emails /\ f \in Emails
      /\ clients[e].exists /\ r \in clients[e].attached /\ row[r].status = "ACTIVE"
  BY RecordsOf DEF CredentialInv, PanelTypes, Serves, Record
<1>2. row'[r] = row[r]
  BY OthersStay
<1>3. ASSUME Doomed(o) PROVE f # e
  <2>1. clients[f].attached \subseteq {o, "own"}
    BY <1>3 DEF SerialInv, Record
  <2> QED BY <1>1, <2>1, PanelAssumption
<1> HIDE DEF e, f
<1>4. clients'[e].exists /\ r \in clients'[e].attached
  <2>1. CASE UNCHANGED clients
    BY <1>1, <2>1
  <2>2. CASE Delete(f) /\ f # e
    BY <1>1, <2>2 DEF Delete
  <2>3. CASE Detach(f, o)
    <3> DEFINE c == [clients[f] EXCEPT !.attached = @ \ {o}]
    <3>1. c.attached = clients[f].attached \ {o} /\ c.exists = clients[f].exists
      BY <1>1 DEF ClientRecords
    <3>2. clients' = [clients EXCEPT ![f] = c]
      BY <2>3 DEF Detach
    <3> HIDE DEF c
    <3> QED BY <1>1, <3>1, <3>2
  <2>4. CASE DeleteInbound(o)
    <3>1. clients'[e] = [clients[e] EXCEPT !.attached = @ \ {o}]
      BY <1>1, <2>4 DEF DeleteInbound
    <3> QED BY <1>1, <3>1 DEF ClientRecords
  <2>5. CASE Attach(f, o)
    <3> DEFINE c == [clients[f] EXCEPT !.attached = @ \cup {o}]
    <3>1. c.attached = clients[f].attached \cup {o} /\ c.exists = clients[f].exists
      BY <1>1 DEF ClientRecords
    <3>2. clients' = [clients EXCEPT ![f] = c]
      BY <2>5 DEF Attach
    <3> HIDE DEF c
    <3> QED BY <1>1, <3>1, <3>2
  <2>6. CASE CreateClient(f, o, o) /\ ~clients[f].exists
    BY <1>1, <2>6 DEF CreateClient
  <2>7. CASE Delete(f) /\ Doomed(o)
    BY <1>3, <2>2, <2>7
  <2>8. CASE UseClient(o)
    <3>1. Modes = {"new", "existing"} /\ clients[f].exists \in BOOLEAN
      BY <1>1 DEF Modes, ClientRecords
    <3> QED BY <2>1, <2>5, <2>6, <2>8, <3>1 DEF UseClient, f
  <2>9. CASE UndoClient(o)
    BY <2>1, <2>3, <2>7, <2>9 DEF UndoClient, Doomed, f
  <2>10. CASE DeleteRemovesClient(o)
    <3>1. row[o].created /\ ~OthersUse(o) => Doomed(o)
      BY <2>10 DEF DeleteRemovesClient, OthersUse, Doomed
    <3> QED BY <2>1, <2>3, <2>7, <2>10, <3>1 DEF DeleteRemovesClient, DeleteClient, f
  <2>11. CASE UndoInbound(o) \/ DeleteEnds(o)
    BY <2>1, <2>4, <2>11 DEF UndoInbound, DeleteEnds
  <2>12. CASE \/ \E d \in Emails, mode \in Modes : StartRun(o, d, mode)
              \/ RetryAsks(o) \/ RetryGoesOn(o) \/ PreflightAsks(o) \/ PreflightValidates(o)
              \/ AddInbound(o) \/ Activate(o)
              \/ (\E d \in Emails : EditAsks(o, d)) \/ (\E mode \in Modes : EditWrites(o, mode)) \/ DeleteAsks(o)
    BY <2>1, <2>12 DEF StartRun, RetryAsks, RetryGoesOn, PreflightAsks, PreflightValidates,
                       AddInbound, Activate, EditAsks, EditWrites, DeleteAsks
  <2> QED BY <2>8, <2>9, <2>10, <2>11, <2>12 DEF RequestStep
<1>5. Email(r)' = e
  <2>1. task'[r] = task[r]
    BY OthersStay
  <2> QED BY <1>2, <2>1 DEF Email, e
<1> QED BY <1>1, <1>2, <1>4, <1>5 DEF Serves, Record

LEMMA DeletionAsks ==
  ASSUME CredentialInv, NEW r \in Routes, DeleteAsks(r)
  PROVE  task'[r].pc = "delete"
<1>1. /\ task \in [Routes -> TaskRecords] /\ Email(r) \in Emails /\ task[r] \in TaskRecords
      /\ clients \in [Emails -> ClientRecords]
  BY RecordsOf DEF CredentialInv, PanelTypes
<1>2. CASE Go(r, "delete")
  BY <1>1, <1>2 DEF Go, TaskRecords
<1>3. ASSUME NEW others \in {Record(r).attached \ {r}, Unread},
             Asking(r, Email(r), "delete", [NoTask EXCEPT !.floor = Floor(Email(r)), !.others = others])
      PROVE  task'[r].pc = "delete"
  <2> DEFINE w == [NoTask EXCEPT !.floor = Floor(Email(r)), !.others = others]
  <2>1. others \in SUBSET (Inbounds \cup Unread) /\ Floor(Email(r)) \in Nat
    BY <1>1, FloorFits DEF Record, ClientRecords, Fits
  <2>2. w \in TaskRecords
    BY <1>1, <2>1, NewRequest
  <2> HIDE DEF w
  <2> QED BY <1>1, <1>3, <2>2, Answer DEF w, Pcs
<1> QED BY <1>2, <1>3 DEF DeleteAsks

(* A request of the route itself begins without touching its client.       *)
LEMMA BeginsGently ==
  ASSUME CredentialInv, NEW r \in Routes, RequestStep(r), task[r].pc = "none", Serves(r)
  PROVE  Serves(r)'
<1>1. DeleteAsks(r)
  BY DEF RequestStep, StartRun, RetryAsks, RetryGoesOn, PreflightAsks, PreflightValidates,
         AddInbound, UseClient, Activate, UndoClient, UndoInbound, EditAsks, EditWrites,
         DeleteRemovesClient, DeleteEnds, Serves
<1>2. UNCHANGED <<row, clients>>
  BY <1>1 DEF DeleteAsks
<1>3. task'[r].pc = "delete"
  BY <1>1, DeletionAsks
<1>4. Email(r)' = Email(r)
  BY <1>2, <1>3 DEF Email
<1> QED BY <1>2, <1>4 DEF Serves, Record

(* While requests do not overlap, what the hub does for one route takes    *)
(* the client of no other ACTIVE route away, the deletion excepted that    *)
(* could not read who else uses it.                                        *)
THEOREM OthersAlwaysKeepTheirClient == Spec => OthersKeepTheirClient
<1> DEFINE A == serial /\ hands' = hands =>
                  \A r \in Routes :
                    Serves(r) /\ ~Serves(r)' =>
                      \/ task[r].pc # "none"
                      \/ \E o \in Routes : task[o].others = Unread
<1>1. CredentialInv /\ SerialInv /\ hands \in Nat /\ [Next]_vars => [A]_vars
  <2> SUFFICES ASSUME CredentialInv, SerialInv, hands \in Nat, Next, serial, hands' = hands,
                      NEW r \in Routes, Serves(r), task[r].pc = "none",
                      \A o \in Routes : task[o].others # Unread
               PROVE  Serves(r)'
    OBVIOUS
  <2>1. PICK o \in Routes : RequestStep(o)
    <3>1. \A e \in Emails : ~PanelHand(e)
      <4> SUFFICES ASSUME NEW e \in Emails, PanelHand(e) PROVE FALSE
        OBVIOUS
      <4>1. hands' = hands + 1
        BY DEF PanelHand
      <4> QED BY <4>1
    <3> QED BY <3>1 DEF Next, RequestStep
  <2>2. CASE o = r
    BY <2>1, <2>2, BeginsGently
  <2>3. CASE o # r
    BY <2>1, <2>3, ServesOn
  <2> QED BY <2>2, <2>3
<1>2. Init => CredentialInv /\ SerialInv /\ hands \in Nat
  <2>1. Init => hands \in Nat
    BY DEF Init
  <2> QED BY <2>1, CredentialStarts, SerialStarts
<1>3. CredentialInv /\ SerialInv /\ hands \in Nat /\ [Next]_vars
        => (CredentialInv /\ SerialInv /\ hands \in Nat)'
  <2> SUFFICES ASSUME CredentialInv, SerialInv, hands \in Nat, [Next]_vars
               PROVE  hands' \in Nat
    BY CredentialKeeps, SerialKeeps
  <2>1. ASSUME NEW e \in Emails, PanelHand(e) PROVE hands' \in Nat
    BY <2>1 DEF PanelHand
  <2>2. ASSUME NEW r \in Routes, RequestStep(r) PROVE hands' \in Nat
    BY <2>2, OthersStay
  <2> QED BY <2>1, <2>2 DEF Next, RequestStep, vars
<1> QED BY <1>1, <1>2, <1>3, PTL DEF Spec, OthersKeepTheirClient
=============================================================================
