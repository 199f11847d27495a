---------------------------- MODULE PanelClients ----------------------------
(***************************************************************************)
(* The global clients of a 3x-ui panel and the routes that use them:       *)
(* hub/server/route-orchestrator.js (the client's part of a run, of its    *)
(* rollback, of an edit and of a deletion),                                *)
(* route-credential-fastpath.js (where the credential of the share link    *)
(* comes from) and xui.js (the calls).                                     *)
(*                                                                         *)
(* A client is an e-mail address on the panel with a credential and the    *)
(* inbounds it is attached to; it outlives the routes.  People work on the *)
(* panel too.  The inbound of a route is named by the route; the one of    *)
(* the people by "own".  The ports, peers and nodes of a route are the     *)
(* business of RouteLifecycle.  A panel whose clients are embedded in the  *)
(* inbounds has no global client, and is left out.                         *)
(***************************************************************************)
EXTENDS Naturals, FiniteSets, FiniteSetsExt

CONSTANTS
  Routes, Emails,
  MaxHands,    \* bound: steps of people on the panel
  MaxFaults,   \* bound: calls that fail, or whose reply is lost
  MaxRuns      \* bound: runs of all routes

ASSUME PanelAssumption ==
  /\ "own" \notin Routes /\ Emails # {}
  /\ MaxHands \in Nat /\ MaxFaults \in Nat /\ MaxRuns \in Nat

Inbounds == Routes \cup {"own"}
Modes    == {"new", "existing"}
NoSecret == 0
Unread   == {"could not be read"}

VARIABLES
  clients,   \* email -> its record on the panel
  secrets,   \* how many credentials have been issued: they are numbered
  inbounds,  \* the inbounds of routes on the panel
  row,       \* route -> the columns about its client
  task,      \* route -> the run, the edit or the deletion that is under way
  cache,     \* email -> the credential captured from /clients/get
  serial,    \* in this behaviour the requests on the panel do not overlap
  hands, faults, started

vars == <<clients, secrets, inbounds, row, task, cache, serial, hands, faults, started>>

Absent == [exists |-> FALSE, secret |-> NoSecret, attached |-> {}, by |-> "nobody"]
Someone == CHOOSE e \in Emails : TRUE
NoTask == [pc |-> "none", email |-> Someone, made |-> {}, seen |-> NoSecret, others |-> {},
           floor |-> NoSecret]

Init ==
  /\ secrets = 1
  /\ \E some \in SUBSET Emails :
       clients = [e \in Emails |-> IF e \notin some THEN Absent
                    ELSE [exists |-> TRUE, secret |-> 1, attached |-> {}, by |-> "people"]]
  /\ inbounds = {}
  /\ row = [r \in Routes |-> [status |-> "none", mode |-> "new", email |-> Someone,
                              inbound |-> FALSE, created |-> FALSE, attached |-> FALSE,
                              link |-> NoSecret, floor |-> NoSecret]]
  /\ task = [r \in Routes |-> NoTask]
  /\ cache = [e \in Emails |-> NoSecret]
  /\ serial \in BOOLEAN /\ hands = 0 /\ faults = 0 /\ started = 0

(* The client a route is about: its row's, or the one an edit asks for.    *)
Email(r)  == IF task[r].pc = "edit" THEN task[r].email ELSE row[r].email
Record(r) == clients[Email(r)]

Go(r, pc)   == task' = [task EXCEPT ![r].pc = pc]
Fault       == faults < MaxFaults /\ faults' = faults + 1
NoFault     == UNCHANGED faults
Starts(r)   == task[r].pc = "none" /\ (serial => \A o \in Routes : task[o].pc = "none")

-----------------------------------------------------------------------------
(* xui.js: the calls that change a client.  A client that is not there     *)
(* cannot be attached, detached or deleted; one that is cannot be created. *)
Attach(e, i) == clients' = [clients EXCEPT ![e].attached = @ \cup {i}]
Detach(e, i) == clients' = [clients EXCEPT ![e].attached = @ \ {i}]
Delete(e)    == clients' = [clients EXCEPT ![e] = Absent]
CreateClient(e, i, by) ==
  /\ secrets' = secrets + 1
  /\ clients' = [clients EXCEPT ![e] = [exists |-> TRUE, secret |-> secrets + 1,
                                        attached |-> {i}, by |-> by]]

(* deleteInbound takes the attachments of the inbound with it.             *)
DeleteInbound(i) ==
  /\ inbounds' = inbounds \ {i}
  /\ clients' = [e \in Emails |-> [clients[e] EXCEPT !.attached = @ \ {i}]]

(* getFirstClassClient as decorateCredentialCapture wraps it.  The cached  *)
(* credential is dropped when the request leaves ...  Mutant: it is kept.  *)
Kept(e)    == cache
Dropped(e) == [cache EXCEPT ![e] = NoSecret]
Ask(e)     == cache' = Dropped(e)

(* ... and the reply's is put in its place when it comes; a panel may keep *)
(* the credential to itself.                                               *)
Capture(e, secret) ==
  \/ cache' = [Dropped(e) EXCEPT ![e] = secret]
  \/ cache' = Dropped(e)

-----------------------------------------------------------------------------
(* People on the panel: a client is created, removed, attached to their    *)
(* own inbound, or given another credential.                               *)
PanelHand(e) ==
  /\ hands < MaxHands /\ hands' = hands + 1
  /\ \/ ~clients[e].exists /\ CreateClient(e, "own", "people")
     \/ /\ clients[e].exists
        /\ \/ Delete(e) /\ UNCHANGED secrets
           \/ Attach(e, "own") /\ UNCHANGED secrets
           \/ /\ secrets' = secrets + 1
              /\ clients' = [clients EXCEPT ![e].secret = secrets + 1]
  /\ UNCHANGED <<inbounds, row, task, cache, faults, serial, started>>

-----------------------------------------------------------------------------
(* floor is history: the oldest credential of the client that a request,   *)
(* or one that was in progress when it began, can have met.                *)
Floor(e) ==
  Min({IF clients[e].exists THEN clients[e].secret ELSE secrets + 1}
      \cup {task[o].floor : o \in {o \in Routes : task[o].floor # NoSecret /\ Email(o) = e}})

(* A request of the route asks the panel about a client: seen is the       *)
(* answer.                                                                 *)
Asking(r, e, pc, task0) ==
  /\ Ask(e)
  /\ task' = [task EXCEPT ![r] = [task0 EXCEPT !.pc = pc,
                 !.seen = IF clients[e].exists THEN clients[e].secret ELSE NoSecret]]

(* A new row: the client's name and its mode are the operator's.           *)
StartRun(r, e, mode) ==
  /\ Starts(r) /\ started < MaxRuns /\ started' = started + 1
  /\ row[r].status = "none"
  /\ row'  = [row EXCEPT ![r].status = "RESERVED", ![r].email = e, ![r].mode = mode]
  /\ task' = [task EXCEPT ![r] = [NoTask EXCEPT !.pc = "ask", !.floor = Floor(e)]]
  /\ UNCHANGED <<clients, secrets, inbounds, cache, hands, faults, serial>>

(* prepareForRetry: its reconcile asks about the client too, and stops at  *)
(* an inbound that is still there; the row keeps its flags.                *)
RetryAsks(r) ==
  /\ Starts(r) /\ started < MaxRuns /\ started' = started + 1
  /\ row[r].status = "FAILED"
  /\ Asking(r, Email(r), "retry", [NoTask EXCEPT !.floor = Floor(Email(r))])
  /\ UNCHANGED <<clients, secrets, inbounds, row, hands, faults, serial>>

RetryGoesOn(r) ==
  /\ task[r].pc = "retry"
  /\ Capture(Email(r), task[r].seen)
  /\ IF r \in inbounds THEN task' = [task EXCEPT ![r] = NoTask] /\ UNCHANGED row
     ELSE Go(r, "ask") /\ row' = [row EXCEPT ![r].status = "RESERVED", ![r].inbound = FALSE]
  /\ UNCHANGED <<clients, secrets, inbounds, hands, faults, serial, started>>

(* client_preflight: the read leaves and is answered by the panel ...      *)
PreflightAsks(r) ==
  /\ task[r].pc = "ask"
  /\ Asking(r, Email(r), "validate", task[r])
  /\ UNCHANGED <<clients, secrets, inbounds, row, hands, faults, serial, started>>

(* ... and its answer is validated: the client to be used exists, the one  *)
(* to be created does not.  A run that ends here has built nothing, and    *)
(* startProvisioning marks the row.                                        *)
PreflightValidates(r) ==
  /\ task[r].pc = "validate"
  /\ Capture(Email(r), task[r].seen)
  /\ IF (row[r].mode = "existing") = (task[r].seen # NoSecret)
     THEN Go(r, "inbound") /\ UNCHANGED row
     ELSE /\ row'  = [row EXCEPT ![r].status = "FAILED"]
          /\ task' = [task EXCEPT ![r] = NoTask]
  /\ UNCHANGED <<clients, secrets, inbounds, hands, faults, serial, started>>

(* inbound_add, acknowledged, refused, or done with its reply lost.        *)
AddInbound(r) ==
  /\ task[r].pc = "inbound"
  /\ \/ /\ NoFault /\ inbounds' = inbounds \cup {r}
        /\ row'  = [row EXCEPT ![r].inbound = TRUE]
        /\ task' = [task EXCEPT ![r].pc = "client", ![r].made = {"inbound"}]
     \/ /\ Fault /\ inbounds' \in {inbounds, inbounds \cup {r}}
        /\ Go(r, "undo") /\ UNCHANGED row
  /\ UNCHANGED <<clients, secrets, cache, hands, serial, started>>

(* client_attach or client_create: the flags of the row are written once   *)
(* the panel has acknowledged.  It refuses without a fault when the client *)
(* is gone, or there already.  What the run knows of a client it has       *)
(* created is the credential it has given it.                              *)
Acknowledged(r, what) ==
  /\ row'  = [row EXCEPT ![r].created = what = "created", ![r].attached = what = "attached"]
  /\ task' = [task EXCEPT ![r].pc = "link", ![r].made = @ \cup {what},
                          ![r].seen = IF what = "created" THEN secrets' ELSE @]

UseClient(r) ==
  LET e == Email(r) IN
  /\ task[r].pc = "client"
  /\ IF (row[r].mode = "existing") # clients[e].exists
     THEN Go(r, "undo") /\ UNCHANGED <<clients, secrets, row, faults>>
     ELSE \/ /\ IF row[r].mode = "existing" THEN Attach(e, r) /\ UNCHANGED secrets
                ELSE CreateClient(e, r, r)
             /\ \/ NoFault /\ Acknowledged(r, IF row[r].mode = "existing" THEN "attached" ELSE "created")
                \/ Fault /\ Go(r, "undo") /\ UNCHANGED row
          \/ Fault /\ Go(r, "undo") /\ UNCHANGED <<clients, secrets, row>>
  /\ UNCHANGED <<inbounds, cache, hands, serial, started>>

(* resolveClientCredential, fast path: the credential this run has made,   *)
(* the captured one (used once, and only from the same session with the    *)
(* panel, for two minutes), or what the inbound says.                      *)
CreatedByRun(r) == "created" \in task[r].made /\ task[r].seen # NoSecret
Credentials(r) ==
  IF CreatedByRun(r) THEN {task[r].seen}
  ELSE IF cache[Email(r)] # NoSecret THEN {cache[Email(r)], Record(r).secret}
  ELSE {Record(r).secret}

(* link_fetch, validateRuntime and the final transaction.  The inbound has *)
(* no credential for a client that is not attached; without a fault the    *)
(* validation passes when the client is attached.                          *)
Activate(r) ==
  LET attached == r \in Record(r).attached IN
  /\ task[r].pc = "link"
  /\ cache' = IF CreatedByRun(r) THEN cache ELSE Dropped(Email(r))
  /\ \/ /\ attached /\ NoFault
        /\ \E secret \in Credentials(r) :
             row' = [row EXCEPT ![r].status = "ACTIVE", ![r].link = secret,
                                ![r].floor = task[r].floor]
        /\ task' = [task EXCEPT ![r] = NoTask]
     \/ (IF attached THEN Fault ELSE NoFault) /\ Go(r, "undo") /\ UNCHANGED row
  /\ UNCHANGED <<clients, secrets, inbounds, hands, serial, started>>

-----------------------------------------------------------------------------
(* rollback: a client the run has created is deleted, one it has attached  *)
(* is detached; what is gone already counts as removed, and a failing step *)
(* stops nothing.                                                          *)
UndoClient(r) ==
  /\ task[r].pc = "undo"
  /\ \/ "created" \in task[r].made /\ Delete(Email(r)) /\ NoFault
     \/ "attached" \in task[r].made /\ Detach(Email(r), r) /\ NoFault
     \/ task[r].made \cap {"created", "attached"} # {} /\ Fault /\ UNCHANGED clients
     \/ task[r].made \cap {"created", "attached"} = {} /\ NoFault /\ UNCHANGED clients
  /\ Go(r, "undo inbound")
  /\ UNCHANGED <<secrets, inbounds, row, cache, hands, serial, started>>

(* ... then the inbound, and the row is FAILED with the flags it had.      *)
UndoInbound(r) ==
  /\ task[r].pc = "undo inbound"
  /\ \/ "inbound" \in task[r].made /\ DeleteInbound(r) /\ NoFault
     \/ "inbound" \in task[r].made /\ Fault /\ UNCHANGED <<clients, inbounds>>
     \/ "inbound" \notin task[r].made /\ NoFault /\ UNCHANGED <<clients, inbounds>>
  /\ row'  = [row EXCEPT ![r].status = "FAILED", ![r].inbound = "inbound" \in task[r].made]
  /\ task' = [task EXCEPT ![r] = NoTask]
  /\ UNCHANGED <<secrets, cache, hands, serial, started>>

-----------------------------------------------------------------------------
(* editRoute, the client of a row that is not ACTIVE: the panel is asked   *)
(* about the client named, as in the preflight, and the flags stay.        *)
EditAsks(r, e) ==
  /\ Starts(r) /\ row[r].status \in {"FAILED", "NEEDS_REVIEW"}
  /\ Asking(r, e, "edit", [NoTask EXCEPT !.email = e, !.floor = Floor(e)])
  /\ UNCHANGED <<clients, secrets, inbounds, row, hands, faults, serial, started>>

EditWrites(r, mode) ==
  /\ task[r].pc = "edit"
  /\ Capture(Email(r), task[r].seen)
  /\ row' = IF (mode = "existing") = (task[r].seen # NoSecret)
            THEN [row EXCEPT ![r].mode = mode, ![r].email = task[r].email] ELSE row
  /\ task' = [task EXCEPT ![r] = NoTask]
  /\ UNCHANGED <<clients, secrets, inbounds, hands, faults, serial, started>>

-----------------------------------------------------------------------------
(* deleteRoute.  For a client the row says the route has created, the      *)
(* panel is asked who else uses it; a read that fails counts as nobody.    *)
DeleteAsks(r) ==
  /\ Starts(r) /\ row[r].status \in {"ACTIVE", "FAILED", "NEEDS_REVIEW"}
  /\ IF ~row[r].created THEN Go(r, "delete") /\ NoFault /\ UNCHANGED cache
     ELSE \E others \in {Record(r).attached \ {r}, Unread} :
            /\ Asking(r, Email(r), "delete", [NoTask EXCEPT !.floor = Floor(Email(r)), !.others = others])
            /\ IF others = Unread THEN Fault ELSE NoFault
  /\ UNCHANGED <<clients, secrets, inbounds, row, hands, serial, started>>

OthersUse(r) == task[r].others \notin {{}, Unread}

(* The client: deleted, or detached when it is shared or was attached.     *)
(* Mutant: what the panel said is not used.                                *)
DeleteClientAlways(r) ==
  IF row[r].created
  THEN Delete(Email(r)) /\ row' = [row EXCEPT ![r].created = ~Record(r).exists]
  ELSE IF row[r].attached /\ row[r].inbound
  THEN Detach(Email(r), r) /\ row' = [row EXCEPT ![r].attached = FALSE]
  ELSE UNCHANGED <<clients, row>>

DeleteClient(r) ==
  IF row[r].created /\ ~OthersUse(r)
  THEN Delete(Email(r)) /\ row' = [row EXCEPT ![r].created = ~Record(r).exists]
  ELSE IF (row[r].created \/ row[r].attached) /\ row[r].inbound
  THEN Detach(Email(r), r) /\ row' = [row EXCEPT ![r].attached = FALSE]
  ELSE UNCHANGED <<clients, row>>

(* A call that fails is recorded; an inspection before it that fails is    *)
(* taken for absence.                                                      *)
DeleteRemovesClient(r) ==
  /\ task[r].pc = "delete"
  /\ IF row[r].created /\ task[r].others # Unread THEN Capture(Email(r), task[r].seen)
     ELSE UNCHANGED cache
  /\ \/ DeleteClient(r) /\ NoFault /\ Go(r, "delete inbound")
     \/ Fault /\ UNCHANGED <<clients, row>>
        /\ task' = [task EXCEPT ![r].pc = "delete inbound", ![r].made = {"failure"}]
     \/ Fault /\ UNCHANGED clients /\ Go(r, "delete inbound")
        /\ row[r].attached /\ ~row[r].created /\ row' = [row EXCEPT ![r].attached = FALSE]
  /\ UNCHANGED <<secrets, inbounds, hands, serial, started>>

(* ... then the inbound, and the row: deleted, or NEEDS_REVIEW when a step *)
(* failed.  An inspection that fails counts as absence: no failure is      *)
(* recorded and the inbound stays.                                         *)
DeleteEnds(r) ==
  /\ task[r].pc = "delete inbound"
  /\ \E failed \in BOOLEAN :
       /\ \/ row[r].inbound /\ DeleteInbound(r) /\ NoFault /\ failed = FALSE
          \/ row[r].inbound /\ Fault /\ UNCHANGED <<clients, inbounds>>
          \/ ~row[r].inbound /\ NoFault /\ failed = FALSE /\ UNCHANGED <<clients, inbounds>>
       /\ row' = [row EXCEPT ![r].status = IF failed \/ task[r].made # {} THEN "NEEDS_REVIEW"
                                           ELSE "deleted"]
  /\ task' = [task EXCEPT ![r] = NoTask]
  /\ UNCHANGED <<secrets, cache, hands, serial, started>>

Next ==
  \/ \E e \in Emails : PanelHand(e)
  \/ \E r \in Routes :
       \/ \E e \in Emails, mode \in Modes : StartRun(r, e, mode)
       \/ RetryAsks(r) \/ RetryGoesOn(r) \/ PreflightAsks(r) \/ PreflightValidates(r) \/ AddInbound(r) \/ UseClient(r)
       \/ Activate(r) \/ UndoClient(r) \/ UndoInbound(r)
       \/ \E e \in Emails : EditAsks(r, e)
       \/ \E mode \in Modes : EditWrites(r, mode)
       \/ DeleteAsks(r) \/ DeleteRemovesClient(r) \/ DeleteEnds(r)

Spec == Init /\ [][Next]_vars

-----------------------------------------------------------------------------
(* The tunnel of an ACTIVE route is usable by its client.                  *)
Serves(r) == row[r].status = "ACTIVE" /\ Record(r).exists /\ r \in Record(r).attached

(* While requests on one panel do not overlap, what the hub does for one   *)
(* route (runs that fail and are rolled back, retries, edits, deletions)   *)
(* never takes the client of another ACTIVE route away, although both may  *)
(* use the same one and either may have created it.  The exception is the  *)
(* deletion that could not read who else uses it.                          *)
OthersKeepTheirClient ==
  [][serial /\ hands' = hands =>
       \A r \in Routes :
         Serves(r) /\ ~Serves(r)' =>
           \/ task[r].pc # "none"
           \/ \E o \in Routes : task[o].others = Unread]_vars

(* The share link of an ACTIVE route does not carry a credential that the  *)
(* client had given up before the run, and the requests it overlapped,     *)
(* began: a captured credential is not left over from an earlier one.      *)
LinkNotOlder ==
  \A r \in Routes : row[r].status = "ACTIVE" => row[r].link >= row[r].floor

(* What the header of deleteRoute and its comments say of a client that    *)
(* existed without the hub: it is never deleted, only detached.            *)
PreexistingKept ==
  [][\A e \in Emails :
       hands' = hands /\ clients[e].exists /\ clients[e].by = "people" =>
         clients'[e].exists]_vars
=============================================================================
