---------------------------- MODULE ServersPage ----------------------------
(***************************************************************************)
(* hub/public/app.js, discovery-response.js and server-topology.js: the    *)
(* servers page over the probing service.  The page keeps one row per      *)
(* listed server and the row of the open drawer; it changes them with the  *)
(* reply of a discovery and replaces them with the reply of GET            *)
(* /api/servers, whenever these arrive.  A tab that stays visible is       *)
(* modelled.                                                               *)
(*                                                                         *)
(* A request is handled by the hub in the step that sends it, except for   *)
(* the list, which is read when the hub gets to it; a reply travels until  *)
(* the page takes it, and may be lost.                                     *)
(***************************************************************************)
EXTENDS DiscoveryService

CONSTANTS MaxLost, MaxSignOuts   \* bounds: lost replies; sessions that end
ASSUME PageAssumption == MaxLost \in Nat /\ MaxSignOuts \in Nat

VARIABLES
  listed,      \* state.servers: key -> the row shown, or NoCard
  drawer,      \* state.current: its key and its row
  asked,       \* caller -> the request of the page it carries
  refreshing,  \* state.autoRefreshRunning
  signedIn,    \* the main view is shown, and the session is valid
  lost, signOuts

pageVars == <<listed, drawer, asked, refreshing, signedIn, lost, signOuts>>
allVars  == <<serviceVars, pageVars>>

NoCard   == [snap |-> NoSnapshot, health |-> "absent", discovery |-> "absent"]
Closed   == [key |-> NoKey, row |-> NoCard]
NoRows   == [k \in Keys |-> NoCard]
NoAnswer == [ok |-> FALSE, thrown |-> FALSE, snap |-> NoSnapshot,
             health |-> "null", discovery |-> "null"]
Idle     == [pc |-> "none", by |-> "none", key |-> NoKey, answer |-> NoAnswer,
             list |-> NoRows, status |-> "none"]

PageInit ==
  /\ ServiceInit
  /\ listed = NoRows /\ drawer = Closed /\ refreshing = FALSE
  /\ asked = [c \in Callers |-> Idle]
  /\ signedIn = FALSE /\ lost = 0 /\ signOuts = 0

ListedKeys == {k \in Keys : listed[k] # NoCard}

(* publicServer with probeProjection: what GET /servers says of the rows.  *)
PublicServer(k) ==
  [snap |-> snapshots[k], health |-> probes[k].health, discovery |-> probes[k].discovery]
Database == [k \in Keys |-> IF k \in servers THEN PublicServer(k) ELSE NoCard]

(* roleGroup: the section of the page a card stands in.                    *)
GroupOf(roles) ==
  CASE roles = Roles       -> "dual"
    [] roles = {"IRAN"}    -> "iran"
    [] roles = {"FOREIGN"} -> "foreign"
    [] OTHER               -> "unconfigured"
RoleGroup(snap) == IF snap = NoSnapshot THEN "unconfigured" ELSE GroupOf(snap.roles)

(* probeAxis, healthState and discoveryState: a column that is NULL or not *)
(* sent says nothing.                                                      *)
HealthState(row) ==
  CASE row.health = "ok" -> "healthy" [] row.health = "failed" -> "failed" [] OTHER -> "unknown"
DiscoveryState(row) ==
  IF row.discovery \in {"ok", "failed"} THEN row.discovery ELSE "unknown"

(* renderCard of renderServers: the section, the badges of the two axes,   *)
(* NEEDS DISCOVERY, and the discovery the topology on it dates from.       *)
Card(row) ==
  [group |-> RoleGroup(row.snap), health |-> HealthState(row), discovery |-> DiscoveryState(row),
   needs |-> row.snap = NoSnapshot /\ HealthState(row) = "healthy", read |-> row.snap.version]

(* renderOverview: the lines of the banner over the last verified          *)
(* topology, or what stands where there is none: that SSH is healthy, or   *)
(* that nothing is known.                                                  *)
Overview(row) ==
  LET banner == {axis \in {"health", "discovery"} : row[axis] = "failed"} IN
  [banner |-> banner,
   body |-> IF row.snap # NoSnapshot THEN "topology"
            ELSE IF banner = {} THEN "no result"
            ELSE IF row.health = "ok" THEN "ssh healthy" ELSE "never read",
   group |-> GroupOf(row.snap.roles), read |-> row.snap.version]

Asks(c, by, key, pc) ==
  asked' = [asked EXCEPT ![c] = [Idle EXCEPT !.pc = pc, !.by = by, !.key = key]]

-----------------------------------------------------------------------------
(* The handler of POST /servers/:id/discover answers in the continuation   *)
(* of its await.  The job it joined may have been a health probe: then ok  *)
(* comes without a snapshot.  A host key mismatch is a 409 and a rejected  *)
(* promise a 500: both are thrown by api().                                *)
DiscoverAnswer(j) ==
  LET k == jobKey[j] IN
  IF outcome[j] \in {"hostkey", "rejected"} THEN [NoAnswer EXCEPT !.thrown = TRUE]
  ELSE [ok |-> outcome[j] = "ok", thrown |-> FALSE,
        snap |-> IF outcome[j] = "ok" /\ jobTask[j] = "full" THEN snapshots[k] ELSE NoSnapshot,
        health |-> probes[k].health, discovery |-> probes[k].discovery]

HubAnswers(c) ==
  /\ Answer(c)
  /\ asked' = IF asked[c].pc # "discovering" THEN asked
              ELSE [asked EXCEPT ![c].pc = "answer", ![c].answer = DiscoverAnswer(waiting[c])]
  /\ UNCHANGED <<listed, drawer, refreshing, signedIn, lost, signOuts>>

(* GET /servers, or the 401 of a session that has ended.                   *)
HubLists(c) ==
  /\ Drained /\ asked[c].pc = "loading"
  /\ asked' = [asked EXCEPT ![c].pc = "list", ![c].status = IF signedIn THEN "rows" ELSE "401",
                            ![c].list = IF signedIn THEN Database ELSE NoRows]
  /\ UNCHANGED <<serviceVars, listed, drawer, refreshing, signedIn, lost, signOuts>>

Lose(c) ==
  /\ lost < MaxLost /\ lost' = lost + 1
  /\ \/ asked[c].pc = "answer" /\ ~asked[c].answer.thrown
        /\ asked' = [asked EXCEPT ![c].answer = [NoAnswer EXCEPT !.thrown = TRUE]]
     \/ asked[c].pc = "list" /\ asked[c].status # "error"
        /\ asked' = [asked EXCEPT ![c].status = "error", ![c].list = NoRows]
  /\ UNCHANGED <<serviceVars, listed, drawer, refreshing, signedIn, signOuts>>

-----------------------------------------------------------------------------
(* The Discover button of a card, and the one of the drawer.               *)
ClickDiscover(c, k, by) ==
  /\ signedIn /\ asked[c] = Idle
  /\ (by = "card" /\ k \in ListedKeys) \/ (by = "drawer" /\ drawer.key = k)
  /\ Discover(c, k)
  /\ Asks(c, by, k, "discovering")
  /\ UNCHANGED <<listed, drawer, refreshing, signedIn, lost, signOuts>>

(* DiscoveryResponse.read and apply on one row: the two axes as they were  *)
(* sent, and the snapshot only with a verdict that is ok.                  *)
Applied(row, answer) ==
  [snap |-> IF answer.ok /\ answer.snap # NoSnapshot THEN answer.snap ELSE row.snap,
   health |-> answer.health, discovery |-> answer.discovery]

(* applyDiscoverResult: the object the handler has captured and the row of *)
(* the list.  The drawer's object is the list's as long as its server is   *)
(* listed; when it is not, it may or may not be the captured one.          *)
ApplyDiscoverResult(k, answer) ==
  /\ listed' = IF k \in ListedKeys THEN [listed EXCEPT ![k] = Applied(@, answer)] ELSE listed
  /\ \/ /\ drawer.key = k
        /\ drawer' = [drawer EXCEPT !.row = Applied(@, answer)]
     \/ /\ drawer.key # k \/ k \notin ListedKeys
        /\ UNCHANGED drawer

(* The handlers after their await: both load the list, the drawer's only   *)
(* when nothing was thrown.                                                *)
DiscoverReturns(c) ==
  LET answer == asked[c].answer IN
  /\ asked[c].pc = "answer"
  /\ IF answer.thrown THEN UNCHANGED <<listed, drawer>>
     ELSE ApplyDiscoverResult(asked[c].key, answer)
  /\ IF answer.thrown /\ asked[c].by = "drawer" THEN asked' = [asked EXCEPT ![c] = Idle]
     ELSE Asks(c, "click", NoKey, "loading")
  /\ UNCHANGED <<serviceVars, refreshing, signedIn, lost, signOuts>>

-----------------------------------------------------------------------------
(* showAuth, on a 401 or a click: the refresh stops, the drawer closes.    *)
ShowAuth == signedIn' = FALSE /\ refreshing' = FALSE /\ drawer' = Closed

(* Mutant of ShowServers: the drawer keeps the object it had.              *)
ShowServersOnly(rows) == listed' = rows /\ UNCHANGED drawer

(* loadServers: the list is replaced, and the open drawer follows it if    *)
(* its server is in it.                                                    *)
ShowServers(rows) ==
  /\ listed' = rows
  /\ drawer' = IF drawer.key \in Keys /\ rows[drawer.key] # NoCard
               THEN [drawer EXCEPT !.row = rows[drawer.key]] ELSE drawer

(* Mutant of RefreshEnds: the flag is reset only when all went well.       *)
RefreshEndsWell(c) ==
  refreshing' = IF asked[c].by = "refresh" /\ asked[c].status = "rows" THEN FALSE ELSE refreshing

(* The finally of refreshAllServers.                                       *)
RefreshEnds(c) == refreshing' = IF asked[c].by = "refresh" THEN FALSE ELSE refreshing

LoadReturns(c) ==
  /\ asked[c].pc = "list"
  /\ asked' = [asked EXCEPT ![c] = Idle]
  /\ CASE asked[c].status = "rows" ->
            ShowServers(asked[c].list) /\ RefreshEnds(c) /\ UNCHANGED signedIn
       [] asked[c].status = "error" ->
            RefreshEnds(c) /\ UNCHANGED <<listed, drawer, signedIn>>
       [] OTHER -> ShowAuth /\ UNCHANGED listed
  /\ UNCHANGED <<serviceVars, lost, signOuts>>

(* refreshAllServers, on a tick of the timer enterMain has started.  The   *)
(* probes its POST /servers/health begins are HealthProbe, of any callers. *)
RefreshAllServers(c) ==
  /\ signedIn /\ ~refreshing /\ asked[c] = Idle
  /\ refreshing' = TRUE
  /\ Asks(c, "refresh", NoKey, "loading")
  /\ UNCHANGED <<serviceVars, listed, drawer, signedIn, lost, signOuts>>

(* The sign-in form, then enterMain: the list is loaded and the timer runs. *)
EnterMain(c) ==
  /\ ~signedIn /\ asked[c] = Idle
  /\ signedIn' = TRUE
  /\ Asks(c, "enter", NoKey, "loading")
  /\ UNCHANGED <<serviceVars, listed, drawer, refreshing, lost, signOuts>>

SignOut ==
  /\ signedIn /\ signOuts < MaxSignOuts /\ signOuts' = signOuts + 1
  /\ ShowAuth
  /\ UNCHANGED <<serviceVars, listed, asked, lost>>

OpenDrawer(k) ==
  /\ signedIn /\ k \in ListedKeys
  /\ drawer' = [key |-> k, row |-> listed[k]]
  /\ UNCHANGED <<serviceVars, listed, asked, refreshing, signedIn, lost, signOuts>>

CloseDrawer ==
  /\ drawer # Closed /\ drawer' = Closed
  /\ UNCHANGED <<serviceVars, listed, asked, refreshing, signedIn, lost, signOuts>>

-----------------------------------------------------------------------------
(* POST /servers/rediscover-unconfigured, which the refresh sends every six *)
(* minutes and does not wait for: servers without a snapshot, or whose     *)
(* snapshot found no manager.                                              *)
Rediscover(c, k) ==
  /\ snapshots[k].version \notin Managed
  /\ Discover(c, k)

(* The steps of the hub the page sees only through its replies; the        *)
(* callers of requests other than the page's carry no request of its own.  *)
HubStep ==
  \/ \E j \in Jobs : ReadServer(j) \/ ProbeFinally(j)
  \/ \E j \in Jobs : \E reply \in Replies(j) : ProbeEnds(j, reply)
  \/ \E c \in Callers, k \in Keys :
       asked[c] = Idle /\ (HealthProbe(c, k) \/ ActOnServer(c, k) \/ Rediscover(c, k))
  \/ \E c \in Callers : RefreshAfterAction(c)
  \/ \E k \in Keys : DeleteServer(k)

HubRestarts ==
  /\ Restart
  /\ asked' = [c \in Callers |->
                 CASE asked[c].pc = "discovering" ->
                        [asked[c] EXCEPT !.pc = "answer", !.answer.thrown = TRUE]
                   [] asked[c].pc = "loading" ->
                        [asked[c] EXCEPT !.pc = "list", !.status = "error"]
                   [] OTHER -> asked[c]]
  /\ UNCHANGED <<listed, drawer, refreshing, signedIn, lost, signOuts>>

PageNext ==
  \/ HubStep /\ UNCHANGED pageVars
  \/ HubRestarts
  \/ \E c \in Callers :
       \/ HubAnswers(c) \/ HubLists(c) \/ Lose(c) \/ DiscoverReturns(c)
       \/ LoadReturns(c) \/ RefreshAllServers(c) \/ EnterMain(c)
  \/ \E c \in Callers, k \in Keys, by \in {"card", "drawer"} : ClickDiscover(c, k, by)
  \/ \E k \in Keys : OpenDrawer(k)
  \/ CloseDrawer \/ SignOut

PageSpec == PageInit /\ [][PageNext]_allVars

(* Every probe has a timeout, the hub answers, the page takes what         *)
(* arrives, and its timer ticks.                                           *)
PageRuns ==
  \/ \E j \in Jobs : \E reply \in Replies(j) : ProbeEnds(j, reply) /\ UNCHANGED pageVars
  \/ \E j \in Jobs : ProbeFinally(j) /\ UNCHANGED pageVars
  \/ \E c \in Callers : HubAnswers(c) \/ HubLists(c) \/ DiscoverReturns(c)
                         \/ LoadReturns(c) \/ RefreshAllServers(c)
PageFair == PageSpec /\ WF_allVars(PageRuns)

-----------------------------------------------------------------------------
(* The card and the drawer of one server tell the same story, whichever of *)
(* them asked for the discovery and whatever arrived between the question  *)
(* and the answer: the banner has a line for each red badge, the topology  *)
(* in the drawer is the one the card is grouped by, and the drawer asks    *)
(* for a discovery over a healthy SSH only if the card does.               *)
CardAndDrawerAgree ==
  drawer.key \in ListedKeys =>
    LET card == Card(listed[drawer.key])
        view == Overview(drawer.row) IN
    /\ view.banner = {axis \in {"health", "discovery"} : card[axis] = "failed"}
    /\ view.read = card.read /\ view.group = card.group
    /\ view.body = "topology" <=> ~card.needs /\ card.read # NoVersion
    /\ view.body = "ssh healthy" => card.needs

(* The group a card stands in is the one of the roles its server had when  *)
(* its snapshot was read: neither a failed verdict nor a partial answer,   *)
(* whichever reply it came by, moves a server between groups.              *)
GroupsWereRead ==
  /\ RolesAreThoseRead
  /\ \A k \in ListedKeys :
       LET read == listed[k].snap.version IN
       RoleGroup(listed[k].snap) =
         IF read = NoVersion THEN "unconfigured" ELSE GroupOf(RolesAt[read])

(* A page that stays signed in comes to show what the database says, with  *)
(* replies lost and applied late, the hub restarted and sessions ended on  *)
(* the way: nothing leaves the refresh switched off.                       *)
PageCatchesUp == <>[]signedIn => <>[](listed = Database)
=============================================================================
