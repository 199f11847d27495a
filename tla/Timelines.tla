----------------------------- MODULE Timelines ------------------------------
(***************************************************************************)
(* The dialogs of one browser page that show a route's stages              *)
(* (hub/public/app.js, hub/public/connections-ui.js), over the event log   *)
(* of the hub: the timeline that follows a run and polls until it is over, *)
(* the timeline of a row with its Refresh button, the timeline of a        *)
(* connection, and the dialogs that are filled by a late answer.           *)
(*                                                                         *)
(* The page has one dialog, whose elements every callback looks up by      *)
(* their ids: a callback writes into whatever dialog is open when it runs. *)
(* A task is one such chain of requests and callbacks; the hub's answering *)
(* of a request and the page's receiving the answer are separate steps.    *)
(***************************************************************************)
EXTENDS EventLog

CONSTANTS
  MaxClicks,  \* bound: dialogs and refreshes the operator asks for
  MaxLost     \* bound: requests that fail (network, restart, signed out)

ASSUME PageAssumption == MaxClicks \in Nat /\ MaxLost \in Nat

Tasks == 1..MaxClicks

VARIABLES
  current,    \* the chain started at the value state.routesPollGeneration has, or 0
  modal,      \* the dialog
  tasks,      \* click -> the chain it has started
  clicks,
  lost

pageVars == <<current, modal, tasks, clicks, lost>>
vars == <<hubVars, pollVars, restarts, pageVars>>

\* opener: the click that made the dialog; over: the click whose chain wrote
\* the final result into it; known: how much of the log was written when the
\* chain read that final status, 0 when its last read of the events failed.
NoModal == [kind |-> "none", route |-> 0, opener |-> 0, rows |-> {}, over |-> 0,
            known |-> 0]
NoTask  == [kind |-> "none", route |-> 0, pc |-> "done", after |-> 0,
            hold |-> 0, got |-> "none", batch |-> <<>>, known |-> 0, live |-> FALSE]

Dialog(kind, r, t) == [NoModal EXCEPT !.kind = kind, !.route = r, !.opener = t]

\* The dialogs that have the elements #tl-scroll and #tl-result.
HasScroll == modal.kind \in {"follow", "timeline"}

Init ==
  /\ LogInit
  /\ current = 0 /\ modal = NoModal /\ clicks = 0 /\ lost = 0
  /\ tasks = [t \in Tasks |-> NoTask]

-----------------------------------------------------------------------------
(* What the operator does.  A button of the page is in reach when no       *)
(* dialog covers it.                                                       *)
NewTask(kind, r, pc, live) ==
  /\ clicks < MaxClicks
  /\ clicks' = clicks + 1
  /\ tasks' = [tasks EXCEPT ![clicks + 1] =
                [NoTask EXCEPT !.kind = kind, !.route = r, !.pc = pc, !.live = live]]

HubStays == UNCHANGED <<hubVars, pollVars, restarts>>

(* Create route, and Retry: the timeline opens when the POST is answered.  *)
ClickProvision(r) ==
  /\ modal.kind = "none"
  /\ NewTask("post", r, "ask", FALSE)
  /\ HubStays /\ UNCHANGED <<current, modal, lost>>

(* openRouteTimeline, up to its await: stopProvisioningTimeline.           *)
ClickTimeline(r) ==
  /\ modal.kind = "none" /\ status[r] # "none"
  /\ NewTask("open", r, "answer", FALSE)
  /\ current' = 0
  /\ HubStays /\ UNCHANGED <<modal, lost>>

ClickRefresh ==
  /\ HasScroll
  /\ NewTask("refresh", modal.route, "ask", FALSE)
  /\ HubStays /\ UNCHANGED <<current, modal, lost>>

(* openConnectionTimeline; `live` from the review of an edit and from the  *)
(* MTU confirmation, which send their PUT at the same time.                *)
ClickConnection(r, live) ==
  /\ modal.kind = "none" /\ status[r] # "none"
  /\ NewTask("connection", r, "ask", live)
  /\ modal' = Dialog("connection", r, clicks + 1)
  /\ HubStays /\ UNCHANGED <<current, lost>>

(* The MTU, NIC and health dialogs: a placeholder now, the content when    *)
(* the answer is there; and what the answer to a PUT opens.                *)
ClickDialog(r) ==
  /\ modal.kind = "none" /\ status[r] # "none"
  /\ NewTask("dialog", r, "answer", FALSE)
  /\ modal' = Dialog("dialog", r, clicks + 1)
  /\ HubStays /\ UNCHANGED <<current, lost>>

(* Escape, a click beside the dialog, and the Close button of a dialog     *)
(* that is no route timeline: closeModal.                                  *)
Escape ==
  /\ modal.kind # "none"
  /\ modal' = NoModal
  /\ HubStays /\ UNCHANGED <<current, tasks, clicks, lost>>

(* The Close button of a route timeline.                                   *)
CloseTimeline ==
  /\ HasScroll
  /\ current' = 0 /\ modal' = NoModal
  /\ HubStays /\ UNCHANGED <<tasks, clicks, lost>>

-----------------------------------------------------------------------------
(* Requests of a chain at the hub.                                         *)
Goto(t, pc) == tasks' = [tasks EXCEPT ![t].pc = pc]
Done(t)     == tasks' = [tasks EXCEPT ![t] = NoTask]
At(t, kind, pc) == tasks[t].kind = kind /\ tasks[t].pc = pc

PageStays == UNCHANGED <<current, modal, clicks>>

AnswerPost(t) ==
  /\ At(t, "post", "ask")
  /\ \/ StartRun(tasks[t].route) /\ Goto(t, "answer")
     \/ Done(t) /\ HubStays   \* refused: 409, or prepare has failed
  /\ PageStays /\ UNCHANGED lost

(* GET /gre-routes/:id?wait=1: the answer waits for the run in the map.    *)
Held(t) ==
  LET r == tasks[t].route
  IN  tasks[t].hold # 0 /\ r \in running /\ attempt[r] = tasks[t].hold

AnswerStatus(t) ==
  LET r == tasks[t].route IN
  /\ At(t, "follow", "askStatus") /\ ~Held(t)
  /\ tasks' = [tasks EXCEPT ![t] =
       IF tasks[t].hold = 0 /\ r \in running
       THEN [@ EXCEPT !.hold = attempt[r]]
       ELSE [@ EXCEPT !.hold = 0, !.got = status[r], !.known = log[r], !.pc = "askEvents"]]
  /\ HubStays /\ PageStays /\ UNCHANGED lost

(* GET .../events: after the last id a follower has, everything for a      *)
(* refresh, after its own last id for the timeline of a connection.        *)
AnswerEvents(t) ==
  /\ \/ At(t, "follow", "askEvents")
     \/ At(t, "refresh", "ask") \/ At(t, "connection", "ask")
  /\ tasks' = [tasks EXCEPT ![t].batch = EventsAfter(log, tasks[t].route, tasks[t].after),
                            ![t].pc = "render"]
  /\ HubStays /\ PageStays /\ UNCHANGED lost

(* GET /gre-routes/:id?result=1.                                           *)
AnswerResult(t) ==
  /\ At(t, "follow", "askResult")
  /\ Goto(t, "result")
  /\ HubStays /\ PageStays /\ UNCHANGED lost

(* The request or its answer is lost, or refused: what the catch of the    *)
(* chain does about it.                                                    *)
Asking(task) == task.pc \in {"ask", "askStatus", "askEvents", "askResult"}

Failed(task) ==
  CASE task.pc = "askStatus" -> [task EXCEPT !.got = "none", !.hold = 0, !.pc = "askEvents"]
    [] task.pc = "askEvents" -> [task EXCEPT !.batch = <<>>, !.known = 0, !.pc = "render"]
    [] task.pc = "askResult" -> [task EXCEPT !.pc = "noResult"]
    [] task.pc = "ask" /\ task.live -> [task EXCEPT !.pc = "timer"]
    [] OTHER -> NoTask

Lose(t) ==
  /\ lost < MaxLost /\ lost' = lost + 1
  /\ Asking(tasks[t])
  /\ tasks' = [tasks EXCEPT ![t] = Failed(@)]
  /\ HubStays /\ PageStays

(* A restart of the hub fails every request on its way.                    *)
HubRestarts(swept) ==
  /\ RestartHub(swept)
  /\ tasks' = [t \in Tasks |-> IF Asking(tasks[t]) THEN Failed(tasks[t]) ELSE tasks[t]]
  /\ PageStays /\ UNCHANGED lost

-----------------------------------------------------------------------------
(* renderTimelineEvents: a row that is there already is left alone.        *)
RenderTimelineEvents(rows, batch) == rows \cup Range(batch)

(* Mutant of StillCurrent: the generation is not compared.                 *)
AlwaysCurrent(t) == TRUE

StillCurrent(t) == current = t

(* openModal of the answer to a POST: startProvisioningTimeline.           *)
StartProvisioningTimeline(t) ==
  /\ At(t, "post", "answer")
  /\ current' = t
  /\ modal' = Dialog("follow", tasks[t].route, t)
  /\ tasks' = [tasks EXCEPT ![t] =
       [NoTask EXCEPT !.kind = "follow", !.route = tasks[t].route, !.pc = "askStatus"]]
  /\ HubStays /\ UNCHANGED <<clicks, lost>>

(* Mutant of FinishInto: the rows of the last answer are not rendered.     *)
FinishBefore(dialog, t) ==
  /\ current' = 0
  /\ modal' = IF modal.kind \in {"follow", "timeline"}
              THEN [modal EXCEPT !.over = t, !.known = tasks[t].known] ELSE modal
  /\ Done(t)

(* finish: stop, and write the result into the dialog, whosever it is.     *)
FinishInto(dialog, t) ==
  /\ current' = 0
  /\ modal' = IF dialog.kind \in {"follow", "timeline"}
              THEN [dialog EXCEPT !.over = t, !.known = tasks[t].known] ELSE dialog
  /\ Done(t)

(* tick, from the second answer on.                                        *)
Tick(t) ==
  LET task  == tasks[t]
      shown == IF HasScroll
               THEN [modal EXCEPT !.rows = RenderTimelineEvents(@, task.batch)] ELSE modal
      after == IF HasScroll THEN LastOf(task.batch, task.after) ELSE task.after
  IN
  /\ At(t, "follow", "render")
  /\ \/ /\ ~StillCurrent(t)
        /\ Done(t) /\ UNCHANGED <<current, modal>>
     \/ /\ StillCurrent(t) /\ task.got \in Terminal \ {"ACTIVE"}
        /\ FinishInto(shown, t)
     \/ /\ StillCurrent(t) /\ task.got \notin Terminal \ {"ACTIVE"}
        /\ modal' = shown
        /\ tasks' = [tasks EXCEPT ![t] =
             IF task.got = "ACTIVE" THEN [@ EXCEPT !.batch = <<>>, !.pc = "askResult"]
             ELSE [NoTask EXCEPT !.kind = "follow", !.route = task.route,
                                 !.after = after, !.pc = "timer"]]
        /\ UNCHANGED current
  /\ HubStays /\ UNCHANGED <<clicks, lost>>

(* The answer with the share link.  Without it the catch goes on to finish *)
(* without asking whether the chain is still current.                      *)
ShowResult(t) ==
  /\ \/ At(t, "follow", "result") /\ StillCurrent(t) /\ FinishInto(modal, t)
     \/ At(t, "follow", "noResult") /\ FinishInto(modal, t)
     \/ /\ At(t, "follow", "result") /\ ~StillCurrent(t)
        /\ Done(t) /\ UNCHANGED <<current, modal>>
  /\ HubStays /\ UNCHANGED <<clicks, lost>>

(* setTimeout(tick): cleared, or without effect, once it is not current.   *)
PollAgain(t) ==
  /\ tasks[t].pc = "timer"
  /\ IF tasks[t].kind = "follow"
     THEN IF StillCurrent(t) THEN Goto(t, "askStatus") ELSE Done(t)
     ELSE Goto(t, "ask")
  /\ HubStays /\ PageStays /\ UNCHANGED lost

(* openRouteTimeline after its await, and the refresh it ends with.        *)
ShowTimeline(t) ==
  /\ At(t, "open", "answer")
  /\ modal' = Dialog("timeline", tasks[t].route, t)
  /\ tasks' = [tasks EXCEPT ![t].kind = "refresh", ![t].pc = "ask"]
  /\ HubStays /\ UNCHANGED <<current, clicks, lost>>

(* refreshTimeline.                                                        *)
ShowRefreshed(t) ==
  /\ At(t, "refresh", "render")
  /\ modal' = IF HasScroll
              THEN [modal EXCEPT !.rows = RenderTimelineEvents(@, tasks[t].batch)] ELSE modal
  /\ Done(t)
  /\ HubStays /\ UNCHANGED <<current, clicks, lost>>

(* The tick of openConnectionTimeline: the events it has just read become  *)
(* the content; without the element the chain stops at the next ones.      *)
ShowStages(t) ==
  LET task == tasks[t]
      stopped == task.batch # <<>> /\ modal.kind # "connection"
  IN
  /\ At(t, "connection", "render")
  /\ modal' = IF task.batch # <<>> /\ modal.kind = "connection"
              THEN [modal EXCEPT !.rows = Range(task.batch)] ELSE modal
  /\ IF stopped \/ ~task.live
     THEN Done(t)
     ELSE tasks' = [tasks EXCEPT ![t].pc = "timer", ![t].batch = <<>>,
                      ![t].after = LastOf(task.batch, @)]
  /\ HubStays /\ UNCHANGED <<current, clicks, lost>>

(* A dialog that is filled when its answer comes, over whatever is open.   *)
FillDialog(t) ==
  /\ At(t, "dialog", "answer")
  /\ modal' = Dialog("dialog", tasks[t].route, t)
  /\ Done(t)
  /\ HubStays /\ UNCHANGED <<current, clicks, lost>>

-----------------------------------------------------------------------------
HubStep ==
  /\ \/ \E r \in Routes :
          \/ StartRun(r) \/ Stage(r) \/ Settle(r) \/ TimeOut(r)
          \/ \E a \in 1..MaxAttempts, verdict \in {"ACTIVE", "FAILED"} :
               Publish(r, a, verdict)
     \/ \E p \in Pollers : WaitExpires(p) \/ \E r \in Routes : Poll(p, r)
  /\ UNCHANGED pageVars

Operator ==
  \/ \E r \in Routes :
       \/ ClickProvision(r) \/ ClickTimeline(r) \/ ClickDialog(r)
       \/ \E live \in BOOLEAN : ClickConnection(r, live)
  \/ ClickRefresh \/ Escape \/ CloseTimeline

Answer(t)   == AnswerPost(t) \/ AnswerStatus(t) \/ AnswerEvents(t) \/ AnswerResult(t)
Callback(t) == \/ StartProvisioningTimeline(t) \/ Tick(t) \/ ShowResult(t) \/ PollAgain(t)
               \/ ShowTimeline(t) \/ ShowRefreshed(t) \/ ShowStages(t) \/ FillDialog(t)

Next ==
  \/ HubStep \/ Operator
  \/ \E t \in Tasks : Answer(t) \/ Callback(t) \/ Lose(t)
  \/ \E swept \in SUBSET Routes : HubRestarts(swept)

Spec == Init /\ [][Next]_vars

(* Requests are answered or lost, callbacks and timers run; a run of the   *)
(* hub publishes or times out, and its promise settles.                    *)
Fairness ==
  /\ \A t \in Tasks : WF_vars(Answer(t) \/ Callback(t))
  /\ WF_vars(\E r \in Routes : (Settle(r) \/ TimeOut(r)) /\ UNCHANGED pageVars)

FairSpec == Spec /\ Fairness

-----------------------------------------------------------------------------
(* A timeline that was finished by its own chain shows every stage that    *)
(* was logged when the final status was read, unless the last read of the  *)
(* events failed: the status is read before the events (tick).             *)
FinishedShowsAll ==
  modal.kind = "follow" /\ modal.over = modal.opener =>
    \A n \in 1..modal.known : <<modal.route, n>> \in modal.rows

(* A chain that has been stopped changes nothing on the page any more,     *)
(* except one whose request for the share link fails ("so closing the      *)
(* modal cannot leave a polling loop behind").                             *)
StaleIsNeutral ==
  [][\A t \in Tasks :
       tasks[t].kind = "follow" /\ current # t /\ tasks[t].pc # "noResult"
         /\ tasks'[t] # tasks[t] => UNCHANGED <<current, modal>>]_vars

(* The chains that poll end, each with its run, at the latest when the hub *)
(* gives the run up, unless a restart of the hub has abandoned the row     *)
(* (tick, TERMINAL_STATUSES, startProvisioning).                           *)
Abandoned(r) == status[r] = "RESERVED" /\ ~\E a \in 1..MaxAttempts : <<r, a>> \in executing
FollowEnds ==
  []<>(\A t \in Tasks : tasks[t].kind = "follow" => Abandoned(tasks[t].route))
=============================================================================
