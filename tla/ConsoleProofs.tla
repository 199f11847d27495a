---------------------------- MODULE ConsoleProofs ---------------------------
(***************************************************************************)
(* Proofs about the console: the terminal and the action forms of the      *)
(* drawer, the second factor, the probes of panels and the client picker,  *)
(* the edit dialogs, the event log with its long poll, and the timelines.  *)
(* Each part has an inductive invariant of its own; the theorems hold for  *)
(* any servers, pages, browsers, panels, routes and bounds.                *)
(***************************************************************************)
EXTENDS Timelines, ServerActions, Access, ClientPicker, EditWizard,
        SequenceTheorems, TLAPS

-----------------------------------------------------------------------------
(* The terminal.  The record may name a socket of any call, but the call   *)
(* whose terminal it shows was begun for the drawer that is open.          *)
CallRecords == [server : Servers \cup {0},
                ticket : {"none", "asked", "issued", "refused", "used"},
                ws : {"none", "connecting", "open", "closed"},
                shell : {"none", "opening", "ready", "ended"}]
TermRecords == [server : Servers \cup {0}, term : Calls \cup {0}, ws : Calls \cup {0}]

TerminalTypes ==
  /\ drawer \in Servers \cup {0}
  /\ called \in Nat
  /\ calls \in [Calls -> CallRecords]
  /\ term \in TermRecords

ShowsTheDrawer == term.term # 0 => calls[term.term].server = drawer

TerminalInv == TerminalTypes /\ ShowsTheDrawer /\ TypedWhereShown

(* What a step does to the sockets does not change whose call it is.       *)
LEMMA ClosingKeeps ==
  ASSUME TerminalTypes
  PROVE  /\ Closing \in [Calls -> CallRecords]
         /\ \A c \in Calls : Closing[c].server = calls[c].server
BY DEF TerminalTypes, Closing, CallRecords, TermRecords

LEMMA ConnectTerminalKeeps ==
  ASSUME TerminalInv, drawer \in Servers, ConnectTerminal(drawer), drawer' = drawer, typed' = typed
  PROVE  TerminalInv'
<1> USE TerminalAssumption DEF TerminalInv
<1> DEFINE c == called + 1
<1>1. c \in Calls /\ called' = c
  BY DEF ConnectTerminal, Calls, TerminalTypes
<1>2. /\ term' = [server |-> drawer, term |-> c, ws |-> 0]
      /\ calls' = [Closing EXCEPT ![c] = [NoCall EXCEPT !.server = drawer, !.ticket = "asked"]]
  BY <1>1 DEF ConnectTerminal, NoTerm
<1>3. [NoCall EXCEPT !.server = drawer, !.ticket = "asked"] \in CallRecords
  BY DEF NoCall, CallRecords
<1>4. TerminalTypes'
  BY <1>1, <1>2, <1>3, ClosingKeeps DEF TerminalTypes, TermRecords, Calls
<1>5. ShowsTheDrawer'
  BY <1>1, <1>2, ClosingKeeps DEF ShowsTheDrawer, NoCall
<1>6. TypedWhereShown'
  BY DEF TypedWhereShown
<1> QED BY <1>4, <1>5, <1>6

LEMMA DestroyTerminalKeeps ==
  ASSUME TerminalInv, DestroyTerminal, drawer' \in Servers \cup {0}, called' = called, typed' = typed
  PROVE  TerminalInv'
<1>1. TerminalTypes'
  BY ClosingKeeps DEF TerminalInv, TerminalTypes, DestroyTerminal, NoTerm, TermRecords
<1>2. ShowsTheDrawer' /\ TypedWhereShown'
  BY DEF TerminalInv, DestroyTerminal, NoTerm, ShowsTheDrawer, TypedWhereShown
<1> QED BY <1>1, <1>2 DEF TerminalInv

(* The steps of a ticket, a socket and a shell.                            *)
LEMMA CallStepsKeep ==
  ASSUME TerminalInv, NEW c \in Calls,
         \/ IssueTicket(c) \/ RefuseTicket(c) \/ ConsumeTicket(c)
         \/ OpenShell(c) \/ ShellReady(c) \/ ShellEnds(c)
  PROVE  TerminalInv'
<1>1. /\ calls' \in [Calls -> CallRecords]
      /\ \A d \in Calls : calls'[d].server = calls[d].server
  BY DEF TerminalInv, TerminalTypes, CallRecords, IssueTicket, RefuseTicket, ConsumeTicket,
         OpenShell, ShellReady, ShellEnds
<1>2. term' \in TermRecords /\ term'.term = term.term
  BY DEF TerminalInv, TerminalTypes, TermRecords, IssueTicket, RefuseTicket, ConsumeTicket,
         OpenShell, ShellReady, ShellEnds
<1>3. UNCHANGED <<drawer, called, typed>>
  BY DEF IssueTicket, RefuseTicket, ConsumeTicket, OpenShell, ShellReady, ShellEnds
<1>4. TerminalTypes'
  BY <1>1, <1>2, <1>3 DEF TerminalInv, TerminalTypes
<1>5. ShowsTheDrawer'
  BY <1>1, <1>2, <1>3 DEF TerminalInv, TerminalTypes, TermRecords, ShowsTheDrawer
<1>6. TypedWhereShown'
  BY <1>3 DEF TerminalInv, TypedWhereShown
<1> QED BY <1>4, <1>5, <1>6 DEF TerminalInv

(* What is typed into the terminal on the screen reaches the server whose  *)
(* drawer is open (connectTerminal, destroyTerminal).                      *)
THEOREM TypedAlwaysWhereShown == TerminalSpec => []TypedWhereShown
<1>1. TerminalInit => TerminalInv
  <2> SUFFICES ASSUME TerminalInit PROVE TerminalInv
    OBVIOUS
  <2>1. TerminalTypes
    BY TerminalAssumption
    DEF TerminalInit, TerminalTypes, NoTerm, NoCall, TermRecords, CallRecords, Calls
  <2>2. ShowsTheDrawer /\ TypedWhereShown
    BY DEF TerminalInit, NoTerm, ShowsTheDrawer, TypedWhereShown
  <2> QED BY <2>1, <2>2 DEF TerminalInv
<1>2. TerminalInv /\ [TerminalNext]_terminalVars => TerminalInv'
  <2> SUFFICES ASSUME TerminalInv, [TerminalNext]_terminalVars PROVE TerminalInv'
    OBVIOUS
  <2>0. drawer \in Servers \cup {0}
    BY DEF TerminalInv, TerminalTypes
  <2>1. CASE \E s \in Servers : OpenDrawer(s)
    BY <2>1, DestroyTerminalKeeps DEF OpenDrawer
  <2>2. CASE CloseDrawer
    BY <2>2, DestroyTerminalKeeps DEF CloseDrawer
  <2>3. CASE LeaveTab
    BY <2>0, <2>3, DestroyTerminalKeeps DEF LeaveTab
  <2>4. CASE OpenTab
    <3>1. CASE Connected
      BY <2>4, <3>1 DEF OpenTab, TerminalInv, TerminalTypes, ShowsTheDrawer, TypedWhereShown
    <3>2. CASE ~Connected
      BY <2>0, <2>4, <3>2, ConnectTerminalKeeps DEF OpenTab
    <3> QED BY <3>1, <3>2
  <2>5. CASE Reconnect
    BY <2>0, <2>5, ConnectTerminalKeeps DEF Reconnect
  <2>6. CASE Type
    BY <2>6 DEF Type, TermSocket, TerminalInv, TerminalTypes, ShowsTheDrawer, TypedWhereShown
  <2>7. CASE \E c \in Calls : \/ IssueTicket(c) \/ RefuseTicket(c) \/ ConsumeTicket(c)
                              \/ OpenShell(c) \/ ShellReady(c) \/ ShellEnds(c)
    BY <2>7, CallStepsKeep
  <2>8. CASE UNCHANGED terminalVars
    BY <2>8 DEF terminalVars, TerminalInv, TerminalTypes, ShowsTheDrawer, TypedWhereShown
  <2> QED
    BY <2>1, <2>2, <2>3, <2>4, <2>5, <2>6, <2>7, <2>8 DEF TerminalNext
<1>3. TerminalInv => TypedWhereShown
  BY DEF TerminalInv
<1> QED BY <1>1, <1>2, <1>3, PTL DEF TerminalSpec

-----------------------------------------------------------------------------
(* The action forms.  A form belongs to the server whose drawer is open,   *)
(* unless a 401 has closed the drawer under it; a load that names the form *)
(* on the screen was asked of the form's server, since forms are numbered; *)
(* and a run carries the directions its pings have come through.           *)
FormValues == Servers \cup {0, NoValue, Typed}

FormRecords == [no : Nat, kind : Kinds \cup {"none"}, server : Servers \cup {0}, name : FormValues,
                ports : FormValues, loading : BOOLEAN, sending : BOOLEAN]
LoadRecords == [form : Nat, server : Servers, kind : Kinds, fill : BOOLEAN, ports : BOOLEAN,
                answered : BOOLEAN]
RunRecords  == [kind : Kinds, server : Servers, other : Servers, values : SUBSET FormValues,
                pc : {"sent", "pinging there", "pinging back", "running", "refused", "done", "shown"},
                there : BOOLEAN, through : SUBSET (Servers \X Servers), known : BOOLEAN]

ActionsTypes ==
  /\ drawer \in Servers \cup {0}
  /\ opened \in Nat
  /\ form \in FormRecords
  /\ loads \in Seq(LoadRecords)
  /\ runs \in Seq(RunRecords)

FormIsOfTheDrawer == form.kind # "none" /\ drawer # 0 => form.server = drawer

AskedFor(load) ==
  /\ load.form <= opened
  /\ load.form = form.no /\ form.kind \in Suggesting => load.server = form.server

FormsAreNumbered == form.no <= opened /\ \A n \in DOMAIN loads : AskedFor(loads[n])

FilledByItsServer ==
  form.kind \in Suggesting => {form.name, form.ports} \subseteq {NoValue, Typed, form.server}

Sourced(run) == run.kind \in Suggesting => run.values \subseteq {Typed, run.server}

Checked(run) ==
  /\ run.kind \in Suggesting /\ run.pc \in {"running", "done"} =>
       /\ run.known
       /\ {<<run.server, run.other>>, <<run.other, run.server>>} \subseteq run.through
  /\ run.pc = "pinging back" /\ run.there => ResolvePair(run) \in run.through

NothingToSend == form.kind = "none" => form.name = NoValue

FormsInv == NothingToSend /\ FormIsOfTheDrawer /\ FormsAreNumbered /\ FilledByItsServer
RunsInv  == \A n \in DOMAIN runs : Sourced(runs[n]) /\ Checked(runs[n])

ActionsInv == ActionsTypes /\ FormsInv /\ RunsInv

LEMMA RunIsKept ==
  ASSUME ActionsInv, NEW n \in DOMAIN runs
  PROVE  runs[n] \in RunRecords /\ Sourced(runs[n]) /\ Checked(runs[n])
<1>1. runs \in Seq(RunRecords)
  BY DEF ActionsInv, ActionsTypes
<1>2. runs[n] \in RunRecords
  BY <1>1
<1> QED BY <1>2 DEF ActionsInv, RunsInv

(* A step of run n: what it was asked to do stays, and what it knows is    *)
(* checked again.                                                          *)
LEMMA RunStepKeeps ==
  ASSUME ActionsInv, NEW n \in DOMAIN runs, NEW run \in RunRecords,
         runs' = [runs EXCEPT ![n] = run],
         run.kind = runs[n].kind, run.server = runs[n].server, run.values = runs[n].values,
         Checked(run),
         UNCHANGED <<drawer, opened, form, loads>>
  PROVE  ActionsInv'
<1>1. /\ runs' \in Seq(RunRecords)
      /\ DOMAIN runs' = DOMAIN runs
      /\ \A k \in DOMAIN runs : runs'[k] = IF k = n THEN run ELSE runs[k]
  BY DEF ActionsInv, ActionsTypes
<1>2. ActionsTypes'
  BY <1>1 DEF ActionsInv, ActionsTypes
<1>3. FormsInv'
  BY DEF ActionsInv, FormsInv, NothingToSend, FormIsOfTheDrawer, FormsAreNumbered, AskedFor,
         FilledByItsServer
<1>4. RunsInv'
  BY <1>1 DEF ActionsInv, RunsInv, Sourced
<1> QED BY <1>2, <1>3, <1>4 DEF ActionsInv

(* A run whose pc alone changes, to one that is not checked.               *)
LEMMA BecomesKeeps ==
  ASSUME ActionsInv, NEW n \in DOMAIN runs,
         NEW pc \in {"sent", "pinging there", "running", "refused", "done", "shown"},
         Becomes(n, pc),
         runs[n].kind \notin Suggesting \/ pc \notin {"running", "done"}
           \/ runs[n].pc \in {"running", "done"},
         UNCHANGED <<drawer, opened, form, loads>>
  PROVE  ActionsInv'
<1> DEFINE run == [runs[n] EXCEPT !.pc = pc]
<1>1. runs[n] \in RunRecords /\ Checked(runs[n])
  BY RunIsKept
<1>2. run \in RunRecords
  BY <1>1 DEF RunRecords
<1>3. runs' = [runs EXCEPT ![n] = run]
  BY DEF Becomes
<1>4. /\ run.kind = runs[n].kind /\ run.server = runs[n].server /\ run.values = runs[n].values
      /\ run.pc = pc /\ run.known = runs[n].known /\ run.other = runs[n].other
      /\ run.through = runs[n].through
  BY <1>1 DEF RunRecords
<1>5. Checked(run)
  BY <1>1, <1>4 DEF Checked
<1> QED BY <1>2, <1>3, <1>4, <1>5, RunStepKeeps

LEMMA PingThereKeeps ==
  ASSUME ActionsInv, NEW n \in DOMAIN runs, NEW result \in BOOLEAN, PingThere(n, result)
  PROVE  ActionsInv'
<1> DEFINE pair == ResolvePair(runs[n])
           seen == IF result THEN runs[n].through \cup {pair} ELSE runs[n].through
           run  == [runs[n] EXCEPT !.pc = "pinging back", !.there = result, !.through = seen]
<1>1. runs[n] \in RunRecords
  BY RunIsKept
<1>2. pair \in Servers \X Servers
  BY <1>1 DEF ResolvePair, RunRecords
<1>3. run \in RunRecords
  BY <1>1, <1>2 DEF RunRecords
<1>4. runs' = [runs EXCEPT ![n] = run]
  BY DEF PingThere
<1>5. /\ run.kind = runs[n].kind /\ run.server = runs[n].server /\ run.values = runs[n].values
      /\ run.other = runs[n].other /\ run.pc = "pinging back" /\ run.there = result
      /\ run.through = seen
  BY <1>1 DEF RunRecords
<1>6. Checked(run)
  BY <1>5 DEF Checked, ResolvePair
<1>7. UNCHANGED <<drawer, opened, form, loads>>
  BY DEF PingThere, terminalVars
<1> QED BY <1>3, <1>4, <1>5, <1>6, <1>7, RunStepKeeps

LEMMA PingBackKeeps ==
  ASSUME ActionsInv, NEW n \in DOMAIN runs, NEW result \in BOOLEAN, PingBack(n, result)
  PROVE  ActionsInv'
<1> DEFINE pair  == ResolvePair(runs[n])
           back  == <<pair[2], pair[1]>>
           ok    == Persistable(pair) /\ BothReachable(runs[n].there, result)
           seen  == IF result THEN runs[n].through \cup {back} ELSE runs[n].through
           knows == {pair[1], pair[2]} \subseteq registered
           run   == [runs[n] EXCEPT !.pc = IF ok THEN "running" ELSE "refused",
                                    !.through = seen, !.known = knows]
<1>1. runs[n] \in RunRecords /\ Checked(runs[n]) /\ runs[n].pc = "pinging back"
  BY RunIsKept DEF PingBack
<1>2. /\ pair \in Servers \X Servers
      /\ back \in Servers \X Servers
      /\ {pair, back} = {<<runs[n].server, runs[n].other>>, <<runs[n].other, runs[n].server>>}
  BY <1>1 DEF ResolvePair, RunRecords
<1>3. run \in RunRecords
  BY <1>1, <1>2 DEF RunRecords
<1>4. runs' = [runs EXCEPT ![n] = run]
  BY DEF PingBack
<1>5. /\ run.kind = runs[n].kind /\ run.server = runs[n].server /\ run.values = runs[n].values
      /\ run.other = runs[n].other /\ run.pc = (IF ok THEN "running" ELSE "refused")
      /\ run.through = seen /\ run.known = knows
  BY <1>1 DEF RunRecords
<1>6. ASSUME ok PROVE knows /\ {pair, back} \subseteq seen
  BY <1>1, <1>6 DEF Persistable, BothReachable, Checked
<1>7. Checked(run)
  <2>1. CASE ok
    <3>0. run.pc = "running"
      BY <1>5, <2>1
    <3>1. run.known /\ {pair, back} \subseteq run.through /\ run.pc # "pinging back"
      <4> HIDE DEF run, pair, back, seen, knows, ok
      <4> QED BY <1>5, <1>6, <2>1, <3>0
    <3>2. {<<run.server, run.other>>, <<run.other, run.server>>} = {pair, back}
      BY <1>2, <1>5
    <3> HIDE DEF run, pair, back
    <3> QED BY <3>1, <3>2 DEF Checked
  <2>2. CASE ~ok
    BY <1>5, <2>2 DEF Checked
  <2> QED BY <2>1, <2>2
<1>8. UNCHANGED <<drawer, opened, form, loads>>
  BY DEF PingBack, terminalVars
<1> QED BY <1>3, <1>4, <1>5, <1>7, <1>8, RunStepKeeps

(* The answer to a run may take the form away or give it back.             *)
LEMMA ActionAnsweredKeeps ==
  ASSUME ActionsInv, NEW n \in DOMAIN runs, ActionAnswered(n)
  PROVE  ActionsInv'
<1>0. form \in FormRecords
  BY DEF ActionsInv, ActionsTypes
<1>00. form' = NoForm \/ form' = [form EXCEPT !.sending = FALSE] \/ form' = form
  BY DEF ActionAnswered
<1>1. /\ form' \in FormRecords
      /\ form' = NoForm \/ form' = [form EXCEPT !.sending = FALSE] \/ form' = form
  <2>1. NoForm \in FormRecords
    BY DEF NoForm, FormRecords, FormValues
  <2>2. [form EXCEPT !.sending = FALSE] \in FormRecords
    BY <1>0 DEF FormRecords
  <2> QED BY <1>0, <1>00, <2>1, <2>2
<1>2. UNCHANGED <<drawer, opened, loads>>
  BY DEF ActionAnswered, terminalVars
<1>3. /\ form'.kind = "none" /\ form'.no = 0 /\ form'.name = NoValue
      \/ /\ form'.kind = form.kind /\ form'.no = form.no /\ form'.server = form.server
         /\ form'.name = form.name /\ form'.ports = form.ports
  BY <1>1 DEF NoForm, ActionsInv, ActionsTypes, FormRecords
<1>4. FormsInv'
  BY <1>2, <1>3 DEF ActionsInv, ActionsTypes, FormsInv, NothingToSend, FormIsOfTheDrawer,
                    FormsAreNumbered, AskedFor, FilledByItsServer, Suggesting
<1> DEFINE run == [runs[n] EXCEPT !.pc = "shown"]
<1>5. runs[n] \in RunRecords /\ Sourced(runs[n])
  BY RunIsKept
<1>50. run \in RunRecords /\ runs' = [runs EXCEPT ![n] = run]
  BY <1>5 DEF ActionAnswered, RunRecords
<1>6. Sourced(run) /\ Checked(run)
  BY <1>5 DEF Sourced, Checked, RunRecords
<1>7. /\ runs' \in Seq(RunRecords)
      /\ DOMAIN runs' = DOMAIN runs
      /\ \A k \in DOMAIN runs : runs'[k] = IF k = n THEN run ELSE runs[k]
  BY <1>50 DEF ActionsInv, ActionsTypes
<1>8. ActionsTypes'
  BY <1>1, <1>2, <1>7 DEF ActionsInv, ActionsTypes
<1>9. RunsInv'
  BY <1>6, <1>7 DEF ActionsInv, RunsInv
<1> QED BY <1>4, <1>8, <1>9 DEF ActionsInv

(* A step of the form and its loads, with the drawer and the runs as they  *)
(* are.                                                                    *)
LEMMA FormStepKeeps ==
  ASSUME ActionsInv, UNCHANGED <<drawer, runs>>,
         opened' \in Nat, form' \in FormRecords, loads' \in Seq(LoadRecords), FormsInv'
  PROVE  ActionsInv'
BY DEF ActionsInv, ActionsTypes, RunsInv

(* The load that is asked for is the last one.                             *)
LEMMA LoadIsLast ==
  ASSUME loads \in Seq(LoadRecords), NEW load \in LoadRecords, loads' = Append(loads, load)
  PROVE  /\ loads' \in Seq(LoadRecords)
         /\ \A n \in DOMAIN loads' : loads'[n] = load \/ (n \in DOMAIN loads /\ loads'[n] = loads[n])
<1> DEFINE all == Append(loads, load)
<1>1. /\ all \in Seq(LoadRecords) /\ Len(all) = Len(loads) + 1
      /\ \A n \in 1..Len(loads) : all[n] = loads[n]
      /\ all[Len(loads) + 1] = load
  BY AppendProperties
<1>2. DOMAIN loads = 1..Len(loads) /\ DOMAIN all = 1..Len(all) /\ Len(loads) \in Nat
  BY <1>1
<1> HIDE DEF all
<1>3. \A n \in DOMAIN all : all[n] = load \/ (n \in DOMAIN loads /\ all[n] = loads[n])
  BY <1>1, <1>2
<1>4. loads' = all
  BY DEF all
<1> QED BY <1>1, <1>3, <1>4

LEMMA OpenActionFormKeeps ==
  ASSUME ActionsInv, NEW kind \in Kinds, OpenActionForm(kind)
  PROVE  ActionsInv'
<1> DEFINE load == [form |-> opened + 1, server |-> drawer, kind |-> kind, fill |-> FALSE,
                    ports |-> TRUE, answered |-> FALSE]
<1>1. /\ drawer \in Servers /\ opened \in Nat /\ opened' = opened + 1
      /\ UNCHANGED <<drawer, runs>> /\ loads' = Append(loads, load)
  BY DEF OpenActionForm, AskFor, terminalVars, ActionsInv, ActionsTypes
<1>2. load \in LoadRecords
  BY <1>1 DEF LoadRecords
<1>3. /\ loads' \in Seq(LoadRecords)
      /\ \A n \in DOMAIN loads' : loads'[n] = load \/ (n \in DOMAIN loads /\ loads'[n] = loads[n])
  BY <1>1, <1>2, LoadIsLast DEF ActionsInv, ActionsTypes
<1>4. form' = [no |-> opened + 1, kind |-> kind, server |-> drawer,
               name |-> IF kind \in Suggesting THEN NoValue ELSE drawer,
               ports |-> NoValue, loading |-> kind \in Suggesting, sending |-> FALSE]
  BY DEF OpenActionForm, NoForm
<1>5. form' \in FormRecords
  BY <1>1, <1>4 DEF FormRecords, FormValues
<1>6. FormsAreNumbered'
  <2>1. SUFFICES ASSUME NEW n \in DOMAIN loads' PROVE AskedFor(loads[n])'
    <3>1. form'.no <= opened'
      BY <1>1, <1>4
    <3> QED BY <2>1, <3>1 DEF FormsAreNumbered
  <2>2. CASE loads'[n] = load
    BY <1>1, <1>4, <2>2 DEF AskedFor
  <2>3. CASE n \in DOMAIN loads /\ loads'[n] = loads[n]
    <3>0. loads \in Seq(LoadRecords) /\ AskedFor(loads[n])
      BY <2>3 DEF ActionsInv, ActionsTypes, FormsInv, FormsAreNumbered
    <3>00. loads[n] \in LoadRecords
      BY <2>3, <3>0
    <3>1. loads[n].form \in Nat /\ loads[n].form <= opened
      BY <3>0, <3>00 DEF AskedFor, LoadRecords
    <3>2. loads'[n].form <= opened' /\ loads'[n].form # form'.no
      BY <1>1, <1>4, <2>3, <3>1
    <3> QED BY <3>2 DEF AskedFor
  <2> QED BY <1>3, <2>2, <2>3
<1>7. FormsInv'
  BY <1>1, <1>4, <1>6 DEF FormsInv, NothingToSend, FormIsOfTheDrawer, FilledByItsServer, Kinds, Suggesting
<1> QED BY <1>1, <1>3, <1>5, <1>7, FormStepKeeps

(* The values of a field may change while the form stays the same.         *)
LEMMA SameFormKeeps ==
  ASSUME ActionsInv, UNCHANGED <<drawer, opened, runs>>, loads' \in Seq(LoadRecords),
         \A n \in DOMAIN loads' : AskedFor(loads'[n]),
         form' \in FormRecords,
         form'.no = form.no, form'.kind = form.kind, form'.server = form.server,
         form.kind \in Suggesting =>
           {form'.name, form'.ports} \subseteq {NoValue, Typed, form.server},
         form.kind = "none" => form'.name = form.name
  PROVE  ActionsInv'
<1>1. NothingToSend' /\ FormIsOfTheDrawer' /\ FilledByItsServer'
  BY DEF ActionsInv, FormsInv, NothingToSend, FormIsOfTheDrawer, FilledByItsServer
<1>2. FormsAreNumbered'
  BY DEF ActionsInv, FormsInv, FormsAreNumbered, AskedFor
<1> QED BY <1>1, <1>2, FormStepKeeps DEF FormsInv, ActionsInv, ActionsTypes

LEMMA TypeIntoKeeps ==
  ASSUME ActionsInv, NEW field \in {"name", "ports"}, TypeInto(field)
  PROVE  ActionsInv'
<1>1. form \in FormRecords /\ loads \in Seq(LoadRecords)
  BY DEF ActionsInv, ActionsTypes
<1>2. /\ form' = [form EXCEPT ![field] = Typed] /\ UNCHANGED <<drawer, opened, runs, loads>>
      /\ form.kind # "none"
  BY DEF TypeInto, terminalVars, Suggesting
<1>3. CASE field = "name"
  <2>1. /\ form' \in FormRecords /\ form'.name = Typed /\ form'.ports = form.ports
        /\ form'.no = form.no /\ form'.kind = form.kind /\ form'.server = form.server
    BY <1>1, <1>2, <1>3 DEF FormRecords, FormValues
  <2> QED
    BY <1>1, <1>2, <2>1, SameFormKeeps DEF ActionsInv, FormsInv, FormsAreNumbered, FilledByItsServer
<1>4. CASE field = "ports"
  <2>1. /\ form' \in FormRecords /\ form'.ports = Typed /\ form'.name = form.name
        /\ form'.no = form.no /\ form'.kind = form.kind /\ form'.server = form.server
    BY <1>1, <1>2, <1>4 DEF FormRecords, FormValues
  <2> QED
    BY <1>1, <1>2, <2>1, SameFormKeeps DEF ActionsInv, FormsInv, FormsAreNumbered, FilledByItsServer
<1> QED BY <1>3, <1>4

LEMMA ReloadKeeps ==
  ASSUME ActionsInv, NEW fill \in BOOLEAN, Reload(fill)
  PROVE  ActionsInv'
<1> DEFINE load == [form |-> form.no, server |-> drawer, kind |-> form.kind, fill |-> fill,
                    ports |-> fill, answered |-> FALSE]
<1>1. form \in FormRecords /\ loads \in Seq(LoadRecords) /\ drawer \in Servers
  BY DEF Reload, ActionsInv, ActionsTypes
<1>2. /\ loads' = Append(loads, load) /\ form' = [form EXCEPT !.loading = TRUE]
      /\ UNCHANGED <<drawer, opened, runs>> /\ form.kind \in Suggesting
  BY DEF Reload, AskFor, terminalVars
<1>3. load \in LoadRecords
  BY <1>1, <1>2 DEF LoadRecords, FormRecords, Kinds
<1>4. /\ loads' \in Seq(LoadRecords)
      /\ \A n \in DOMAIN loads' : loads'[n] = load \/ (n \in DOMAIN loads /\ loads'[n] = loads[n])
  BY <1>1, <1>2, <1>3, LoadIsLast
<1>5. AskedFor(load)
  <2>1. form.server = drawer
    BY <1>1, <1>2, TerminalAssumption DEF ActionsInv, FormsInv, FormIsOfTheDrawer, Suggesting
  <2>2. form.no <= opened
    BY DEF ActionsInv, FormsInv, FormsAreNumbered
  <2> QED BY <2>1, <2>2 DEF AskedFor
<1>6. \A n \in DOMAIN loads' : AskedFor(loads'[n])
  BY <1>4, <1>5 DEF ActionsInv, FormsInv, FormsAreNumbered
<1>7. /\ form' \in FormRecords /\ form'.name = form.name /\ form'.ports = form.ports
      /\ form'.no = form.no /\ form'.kind = form.kind /\ form'.server = form.server
  BY <1>1, <1>2 DEF FormRecords
<1> QED
  BY <1>2, <1>4, <1>6, <1>7, SameFormKeeps DEF ActionsInv, FormsInv, FilledByItsServer

(* A load that is answered keeps whom it was asked of.                     *)
LEMMA AnsweredKeeps ==
  ASSUME ActionsInv, NEW n \in DOMAIN loads, loads' = [loads EXCEPT ![n].answered = TRUE]
  PROVE  /\ loads' \in Seq(LoadRecords)
         /\ \A k \in DOMAIN loads' : AskedFor(loads'[k])
<1> DEFINE load == [loads[n] EXCEPT !.answered = TRUE]
<1>1. loads \in Seq(LoadRecords)
  BY DEF ActionsInv, ActionsTypes
<1>2. loads[n] \in LoadRecords
  BY <1>1
<1>3. load \in LoadRecords /\ load.form = loads[n].form /\ load.server = loads[n].server
  BY <1>2 DEF LoadRecords
<1>4. loads' = [loads EXCEPT ![n] = load]
  OBVIOUS
<1> HIDE DEF load
<1>5. /\ loads' \in Seq(LoadRecords) /\ DOMAIN loads' = DOMAIN loads
      /\ \A k \in DOMAIN loads : loads'[k] = IF k = n THEN load ELSE loads[k]
  <2>1. loads' \in Seq(LoadRecords)
    <3>1. n \in 1..Len(loads)
      BY <1>1
    <3>2. [loads EXCEPT ![n] = load] \in Seq(LoadRecords)
      BY <1>1, <1>3, <3>1, ExceptSeq
    <3> QED BY <1>4, <3>2
  <2>2. DOMAIN loads' = DOMAIN loads
    BY <1>4
  <2>3. \A k \in DOMAIN loads : loads'[k] = IF k = n THEN load ELSE loads[k]
    BY <1>4
  <2> QED BY <2>1, <2>2, <2>3
<1>6. AskedFor(loads[n]) /\ \A k \in DOMAIN loads : AskedFor(loads[k])
  BY DEF ActionsInv, FormsInv, FormsAreNumbered
<1>7. AskedFor(load)
  BY <1>3, <1>6 DEF AskedFor
<1> QED BY <1>5, <1>6, <1>7

LEMMA FilledKeeps ==
  ASSUME form \in FormRecords, NEW load \in LoadRecords
  PROVE  /\ Filled(load) \in FormRecords
         /\ Filled(load).no = form.no /\ Filled(load).kind = form.kind
         /\ Filled(load).server = form.server
         /\ Filled(load).name \in {form.name, load.server}
         /\ Filled(load).ports \in {form.ports, load.server}
<1> DEFINE name  == IF load.fill /\ form.name = NoValue THEN load.server ELSE form.name
           ports == IF load.ports THEN load.server ELSE form.ports
<1>1. Filled(load) = [form EXCEPT !.loading = FALSE, !.name = name, !.ports = ports]
  BY DEF Filled
<1>2. name \in FormValues /\ ports \in FormValues
  BY DEF FormRecords, LoadRecords, FormValues
<1>3. name \in {form.name, load.server} /\ ports \in {form.ports, load.server}
  OBVIOUS
<1> HIDE DEF name, ports
<1> QED BY <1>1, <1>2, <1>3 DEF FormRecords

LEMMA SuggestedKeeps ==
  ASSUME ActionsInv, NEW n \in DOMAIN loads, NEW ok \in BOOLEAN, Suggested(n, ok)
  PROVE  ActionsInv'
<1>1. form \in FormRecords /\ loads \in Seq(LoadRecords) /\ loads[n] \in LoadRecords
  <2>1. form \in FormRecords /\ loads \in Seq(LoadRecords)
    BY DEF ActionsInv, ActionsTypes
  <2> QED BY <2>1
<1>2. UNCHANGED <<drawer, opened, runs>> /\ loads' = [loads EXCEPT ![n].answered = TRUE]
  BY DEF Suggested, terminalVars
<1>3. /\ loads' \in Seq(LoadRecords)
      /\ \A k \in DOMAIN loads' : AskedFor(loads'[k])
  BY <1>2, AnsweredKeeps
<1>4. form.kind \in Suggesting => {form.name, form.ports} \subseteq {NoValue, Typed, form.server}
  BY DEF ActionsInv, FormsInv, FilledByItsServer
<1>5. CASE form' = form
  BY <1>1, <1>2, <1>3, <1>4, <1>5, SameFormKeeps
<1>6. CASE form' = [form EXCEPT !.loading = FALSE]
  <2>1. /\ form' \in FormRecords /\ form'.name = form.name /\ form'.ports = form.ports
        /\ form'.no = form.no /\ form'.kind = form.kind /\ form'.server = form.server
    BY <1>1, <1>6 DEF FormRecords
  <2> QED BY <1>2, <1>3, <1>4, <2>1, SameFormKeeps
<1>7. CASE form.kind \in Suggesting /\ FormOfLoad(loads[n]) /\ form' = Filled(loads[n])
  <2>1. loads[n].server = form.server /\ form.kind # "none"
    BY <1>7 DEF FormOfLoad, ActionsInv, FormsInv, FormsAreNumbered, AskedFor, Suggesting
  <2> QED BY <1>1, <1>2, <1>3, <1>4, <1>7, <2>1, FilledKeeps, SameFormKeeps
<1> QED BY <1>5, <1>6, <1>7 DEF Suggested

LEMMA DiscoveredKeeps ==
  ASSUME ActionsInv, NEW n \in DOMAIN loads, NEW ok \in BOOLEAN, Discovered(n, ok)
  PROVE  ActionsInv'
<1>1. form \in FormRecords /\ loads \in Seq(LoadRecords) /\ loads[n] \in LoadRecords
  <2>1. form \in FormRecords /\ loads \in Seq(LoadRecords)
    BY DEF ActionsInv, ActionsTypes
  <2> QED BY <2>1
<1>2. /\ UNCHANGED <<drawer, opened, runs>> /\ loads' = [loads EXCEPT ![n].answered = TRUE]
      /\ loads[n].kind \notin Suggesting
  BY DEF Discovered, terminalVars
<1>3. /\ loads' \in Seq(LoadRecords)
      /\ \A k \in DOMAIN loads' : AskedFor(loads'[k])
  BY <1>2, AnsweredKeeps
<1>4. form.kind \in Suggesting => {form.name, form.ports} \subseteq {NoValue, Typed, form.server}
  BY DEF ActionsInv, FormsInv, FilledByItsServer
<1>5. CASE form' = form
  BY <1>1, <1>2, <1>3, <1>4, <1>5, SameFormKeeps
<1>6. CASE form.kind = loads[n].kind /\ form' = [form EXCEPT !.name = loads[n].server]
  <2>1. /\ form' \in FormRecords /\ form'.no = form.no /\ form'.kind = form.kind
        /\ form'.server = form.server
    BY <1>1, <1>6 DEF FormRecords, LoadRecords, FormValues
  <2>2. form.kind # "none" /\ form.kind \notin Suggesting
    BY <1>1, <1>2, <1>6 DEF LoadRecords, Kinds, Suggesting
  <2> QED BY <1>2, <1>3, <2>1, <2>2, SameFormKeeps
<1> QED BY <1>5, <1>6 DEF Discovered

LEMMA SubmitFormKeeps ==
  ASSUME ActionsInv, NEW other \in Servers, SubmitForm(other)
  PROVE  ActionsInv'
<1> DEFINE run == [kind |-> form.kind, server |-> drawer, other |-> other,
                   values |-> {form.name, form.ports} \ {NoValue}, pc |-> "sent",
                   there |-> FALSE, through |-> {}, known |-> FALSE]
<1>1. /\ form \in FormRecords /\ runs \in Seq(RunRecords) /\ drawer \in Servers
      /\ UNCHANGED <<drawer, opened, loads>>
  BY DEF SubmitForm, terminalVars, ActionsInv, ActionsTypes
<1>2. CASE form.kind = "none"
  <2>1. form.name # NoValue
    BY DEF SubmitForm
  <2> QED BY <1>2, <2>1 DEF ActionsInv, FormsInv, NothingToSend
<1>3. CASE form.kind \in Kinds
  <2>1. run \in RunRecords
    BY <1>1, <1>3 DEF RunRecords, FormRecords
  <2>2. runs' = Append(runs, run)
    BY DEF SubmitForm
  <2>3. Sourced(run)
    <3>1. form.server = drawer
      BY <1>1, <1>3, TerminalAssumption DEF ActionsInv, FormsInv, FormIsOfTheDrawer, Kinds, Suggesting
    <3> QED BY <3>1 DEF Sourced, ActionsInv, FormsInv, FilledByItsServer
  <2>4. Checked(run)
    BY DEF Checked
  <2> HIDE DEF run
  <2>5. /\ runs' \in Seq(RunRecords)
        /\ \A n \in DOMAIN runs' : runs'[n] = run \/ (n \in DOMAIN runs /\ runs'[n] = runs[n])
    <3>1. /\ runs' \in Seq(RunRecords) /\ Len(runs') = Len(runs) + 1
          /\ \A n \in 1..Len(runs) : runs'[n] = runs[n]
          /\ runs'[Len(runs) + 1] = run
      BY <1>1, <2>1, <2>2, AppendProperties
    <3>2. DOMAIN runs = 1..Len(runs) /\ DOMAIN runs' = 1..(Len(runs) + 1) /\ Len(runs) \in Nat
      BY <1>1, <3>1
    <3> QED BY <3>1, <3>2
  <2>6. RunsInv'
    BY <2>3, <2>4, <2>5 DEF ActionsInv, RunsInv
  <2>7. /\ form' \in FormRecords /\ FormsInv'
    <3>1. CASE form' = NoForm
      BY <1>1, <3>1 DEF NoForm, FormRecords, FormValues, ActionsInv, ActionsTypes, FormsInv,
           NothingToSend, FormIsOfTheDrawer, FormsAreNumbered, AskedFor, FilledByItsServer, Suggesting
    <3>2. CASE form' = [form EXCEPT !.sending = TRUE]
      <4>1. /\ form' \in FormRecords /\ form'.name = form.name /\ form'.ports = form.ports
            /\ form'.no = form.no /\ form'.kind = form.kind /\ form'.server = form.server
        BY <1>1, <3>2 DEF FormRecords
      <4> QED
        BY <1>1, <4>1 DEF ActionsInv, FormsInv, NothingToSend, FormIsOfTheDrawer, FormsAreNumbered, AskedFor,
             FilledByItsServer
    <3> QED BY <3>1, <3>2 DEF SubmitForm
  <2> QED BY <1>1, <2>5, <2>6, <2>7 DEF ActionsInv, ActionsTypes
<1> QED BY <1>1, <1>2, <1>3 DEF FormRecords

LEMMA NoFormKeeps ==
  ASSUME ActionsInv, form' = NoForm, UNCHANGED <<opened, loads, runs>>,
         drawer' \in Servers \cup {0}
  PROVE  ActionsInv'
<1>1. form' \in FormRecords
  BY DEF NoForm, FormRecords, FormValues
<1>2. FormsInv'
  BY DEF NoForm, ActionsInv, ActionsTypes, FormsInv, NothingToSend, FormIsOfTheDrawer,
         FormsAreNumbered, AskedFor, FilledByItsServer, Suggesting
<1>3. RunsInv'
  BY DEF ActionsInv, RunsInv
<1> QED BY <1>1, <1>2, <1>3 DEF ActionsInv, ActionsTypes

(* The drawer is opened when no form is there; it may close under one.     *)
LEMMA DrawerMovesKeeps ==
  ASSUME ActionsInv, DrawerMoves
  PROVE  ActionsInv'
<1>1. CASE \E s \in Servers : form = NoForm /\ OpenDrawer(s)
  BY <1>1, NoFormKeeps DEF DrawerMoves, OpenDrawer, actionVars
<1>2. CASE CloseDrawer
  <2>1. drawer' = 0 /\ UNCHANGED actionVars
    BY <1>2 DEF DrawerMoves, CloseDrawer
  <2> QED
    BY <2>1 DEF actionVars, ActionsInv, ActionsTypes, RunsInv, FormsInv, NothingToSend,
         FormIsOfTheDrawer, FormsAreNumbered, AskedFor, FilledByItsServer
<1> QED BY <1>1, <1>2 DEF DrawerMoves

LEMMA OthersKeep ==
  ASSUME ActionsInv, UNCHANGED <<drawer, opened, form, loads, runs>>
  PROVE  ActionsInv'
BY DEF ActionsInv, ActionsTypes, RunsInv, FormsInv, NothingToSend, FormIsOfTheDrawer,
       FormsAreNumbered, AskedFor, FilledByItsServer

LEMMA RunStepsKeep ==
  ASSUME ActionsInv, NEW n \in DOMAIN runs,
         ReceiveAction(n) \/ HostKeyMismatch(n) \/ RunAction(n)
  PROVE  ActionsInv'
<1>1. CASE ReceiveAction(n)
  <2>1. UNCHANGED <<drawer, opened, form, loads>>
    BY <1>1 DEF ReceiveAction, terminalVars
  <2>2. \/ Becomes(n, "refused") \/ Becomes(n, "pinging there")
        \/ runs[n].kind \notin Suggesting /\ Becomes(n, "running")
    BY <1>1 DEF ReceiveAction
  <2> QED BY <2>1, <2>2, BecomesKeeps
<1>2. CASE HostKeyMismatch(n)
  BY <1>2, BecomesKeeps DEF HostKeyMismatch, terminalVars
<1>3. CASE RunAction(n)
  BY <1>3, BecomesKeeps DEF RunAction, terminalVars
<1> QED BY <1>1, <1>2, <1>3

LEMMA ActionsInvariant == ActionsSpec => []ActionsInv
<1>1. TerminalInit /\ ActionsInit => ActionsInv
  <2> SUFFICES ASSUME TerminalInit, ActionsInit PROVE ActionsInv
    OBVIOUS
  <2>1. ActionsTypes
    BY DEF TerminalInit, ActionsInit, ActionsTypes, NoForm, FormRecords, FormValues
  <2>2. FormsInv /\ RunsInv
    BY DEF ActionsInit, NoForm, FormsInv, NothingToSend, FormIsOfTheDrawer, FormsAreNumbered,
           FilledByItsServer, RunsInv, Suggesting
  <2> QED BY <2>1, <2>2 DEF ActionsInv
<1>2. ActionsInv /\ [ActionsNext]_<<terminalVars, actionVars>> => ActionsInv'
  <2> SUFFICES ASSUME ActionsInv, [ActionsNext]_<<terminalVars, actionVars>> PROVE ActionsInv'
    OBVIOUS
  <2>1. CASE DrawerMoves
    BY <2>1, DrawerMovesKeeps
  <2>2. CASE OpenActions
    BY <2>2, OthersKeep DEF OpenActions, actionVars
  <2>3. CASE CancelForm
    BY <2>3, NoFormKeeps DEF CancelForm, terminalVars, ActionsInv, ActionsTypes
  <2>4. CASE \E kind \in Kinds : OpenActionForm(kind)
    BY <2>4, OpenActionFormKeeps
  <2>5. CASE \E field \in {"name", "ports"} : TypeInto(field)
    BY <2>5, TypeIntoKeeps
  <2>6. CASE \E fill \in BOOLEAN : Reload(fill)
    BY <2>6, ReloadKeeps
  <2>7. CASE \E n \in DOMAIN loads, ok \in BOOLEAN : Suggested(n, ok) \/ Discovered(n, ok)
    BY <2>7, SuggestedKeeps, DiscoveredKeeps
  <2>8. CASE \E other \in Servers : SubmitForm(other)
    BY <2>8, SubmitFormKeeps
  <2>9. CASE \E n \in DOMAIN runs :
               ActionAnswered(n) \/ ReceiveAction(n) \/ HostKeyMismatch(n) \/ RunAction(n)
    BY <2>9, ActionAnsweredKeeps, RunStepsKeep
  <2>10. CASE \E n \in DOMAIN runs, result \in BOOLEAN : PingThere(n, result) \/ PingBack(n, result)
    BY <2>10, PingThereKeeps, PingBackKeeps
  <2>11. CASE \E s \in Servers : DeleteRegistered(s)
    BY <2>11, OthersKeep DEF DeleteRegistered, terminalVars
  <2>12. CASE \E way \in Pairs : NetworkChanges(way)
    BY <2>12, OthersKeep DEF NetworkChanges, terminalVars
  <2>13. CASE UNCHANGED <<terminalVars, actionVars>>
    BY <2>13, OthersKeep DEF terminalVars, actionVars
  <2> QED
    BY <2>1, <2>2, <2>3, <2>4, <2>5, <2>6, <2>7, <2>8, <2>9, <2>10, <2>11, <2>12, <2>13
    DEF ActionsNext
<1> QED BY <1>1, <1>2, PTL DEF ActionsSpec

(* An action that builds one end of a tunnel begins only after packets     *)
(* went through in both directions, between registered servers (checkPair, *)
(* persistPair).                                                           *)
THEOREM AlwaysBuiltOnAKnownPair == ActionsSpec => []BuiltOnAKnownPair
<1>1. ActionsInv => BuiltOnAKnownPair
  BY DEF ActionsInv, RunsInv, Checked, BuiltOnAKnownPair
<1> QED BY <1>1, ActionsInvariant, PTL

(* A value the page filled in by itself is sent only to the server that    *)
(* suggested it (loadSuggestions, executeAction).                          *)
THEOREM AlwaysSuggestedFromItsServer == ActionsSpec => []SuggestedFromItsServer
<1>1. ActionsInv => SuggestedFromItsServer
  BY DEF ActionsInv, RunsInv, Sourced, SuggestedFromItsServer
<1> QED BY <1>1, ActionsInvariant, PTL

-----------------------------------------------------------------------------
(* The second factor.  A dialog shows a secret that the authenticator has, *)
(* since it was shown by the reply that was shown to the operator.         *)
PageRecords   == [view : {"auth", "main"}, csrf : Nat, need2fa : BOOLEAN, dialog : Nat]
FactorRecords == [enabled : BOOLEAN, secret : Nat, pending : Nat, codes : SUBSET (Nat \X {1, 2})]
OwnerRecords  == [secrets : SUBSET Nat, codes : SUBSET (Nat \X {1, 2})]
MadeRecords   == [sessions : Nat, secrets : Nat, wrong : Nat]

AccessTypes ==
  /\ browserOf \in [Pages -> Browsers]
  /\ cookie \in [Browsers -> Nat]
  /\ pages \in [Pages -> PageRecords]
  /\ factor \in FactorRecords
  /\ owner \in OwnerRecords
  /\ made \in MadeRecords

ShownIsKept == \A p \in Pages : pages[p].dialog # 0 => pages[p].dialog \in owner.secrets

AccessInv == AccessTypes /\ ShownIsKept /\ SecondFactorHeld

(* A page that shows no dialog, and the steps that give it no new one.     *)
LEMMA PageStepKeeps ==
  ASSUME AccessInv, NEW p \in Pages, NEW page \in PageRecords,
         pages' = [pages EXCEPT ![p] = page],
         page.dialog = 0 \/ page.dialog = pages[p].dialog,
         UNCHANGED <<browserOf, factor, owner>>, cookie' \in [Browsers -> Nat], made' \in MadeRecords
  PROVE  AccessInv'
<1>1. /\ pages' \in [Pages -> PageRecords]
      /\ \A q \in Pages : pages'[q] = IF q = p THEN page ELSE pages[q]
  BY DEF AccessInv, AccessTypes
<1>2. AccessTypes'
  BY <1>1 DEF AccessInv, AccessTypes
<1>3. ShownIsKept'
  BY <1>1 DEF AccessInv, ShownIsKept
<1> QED BY <1>2, <1>3 DEF AccessInv, SecondFactorHeld

(* The steps that leave pages, factor and operator alone.                  *)
LEMMA UnseenKeeps ==
  ASSUME AccessInv, UNCHANGED <<browserOf, cookie, pages, factor, owner>>, made' \in MadeRecords
  PROVE  AccessInv'
BY DEF AccessInv, AccessTypes, ShownIsKept, SecondFactorHeld

LEMMA MainPage ==
  ASSUME NEW t \in Nat
  PROVE  /\ [SignedOutPage EXCEPT !.view = "main", !.csrf = t] \in PageRecords
         /\ [SignedOutPage EXCEPT !.view = "main", !.csrf = t].dialog = 0
<1>1. SignedOutPage \in PageRecords /\ SignedOutPage.dialog = 0
  BY DEF SignedOutPage, PageRecords
<1> QED BY <1>1 DEF PageRecords

LEMMA SignInPage ==
  ASSUME AccessInv, NEW p \in Pages, SignIn(p)
  PROVE  /\ \E page \in PageRecords : page.dialog = 0 /\ pages' = [pages EXCEPT ![p] = page]
         /\ cookie' \in [Browsers -> Nat]
<1> DEFINE page == [SignedOutPage EXCEPT !.view = "main", !.csrf = made.sessions + 1]
<1>0. made.sessions + 1 \in Nat
  BY DEF AccessInv, AccessTypes, MadeRecords
<1>1. page \in PageRecords /\ page.dialog = 0
  BY <1>0, MainPage
<1>2. pages' = [pages EXCEPT ![p] = page]
  BY DEF SignIn
<1>3. cookie' \in [Browsers -> Nat]
  BY <1>0 DEF SignIn, AccessInv, AccessTypes
<1> QED BY <1>1, <1>2, <1>3

LEMMA LoginKeeps ==
  ASSUME AccessInv, NEW p \in Pages, Login(p)
  PROVE  AccessInv'
<1>0. /\ browserOf \in [Pages -> Browsers] /\ cookie \in [Browsers -> Nat]
      /\ pages \in [Pages -> PageRecords] /\ factor \in FactorRecords
      /\ owner \in OwnerRecords /\ made \in MadeRecords
  BY DEF AccessInv, AccessTypes
<1>1. CASE factor.enabled /\ ~pages[p].need2fa
  <2> DEFINE page == [pages[p] EXCEPT !.need2fa = TRUE]
  <2>1. pages' = [pages EXCEPT ![p] = page] /\ UNCHANGED <<browserOf, cookie, factor, owner, made>>
    BY <1>1 DEF Login
  <2>2. page \in PageRecords /\ page.dialog = pages[p].dialog
    BY <1>0 DEF PageRecords
  <2> QED BY <1>0, <2>1, <2>2, PageStepKeeps
<1>2. CASE ~(factor.enabled /\ ~pages[p].need2fa)
  <2>1. SignIn(p) /\ owner' = owner /\ made' = [made EXCEPT !.sessions = @ + 1]
    BY <1>2 DEF Login
  <2>2. PICK page \in PageRecords : page.dialog = 0 /\ pages' = [pages EXCEPT ![p] = page]
    BY <2>1, SignInPage
  <2>02. browserOf' = browserOf /\ cookie' \in [Browsers -> Nat]
    BY <2>1, SignInPage DEF Login
  <2>3. made' \in MadeRecords
    BY <1>0, <2>1 DEF MadeRecords
  <2>4. /\ factor' \in FactorRecords
        /\ factor'.enabled = factor.enabled /\ factor'.secret = factor.secret
    BY <1>0, <1>2 DEF Login, ConsumeRecoveryCode, FactorRecords
  <2>5. /\ pages' \in [Pages -> PageRecords]
        /\ \A q \in Pages : pages'[q].dialog = 0 \/ pages'[q] = pages[q]
    BY <1>0, <2>2
  <2>6. AccessTypes'
    BY <1>0, <2>02, <2>1, <2>3, <2>4, <2>5 DEF AccessTypes
  <2>7. ShownIsKept'
    BY <2>1, <2>5 DEF AccessInv, ShownIsKept
  <2>8. SecondFactorHeld'
    BY <2>1, <2>4 DEF AccessInv, SecondFactorHeld
  <2> QED BY <2>6, <2>7, <2>8 DEF AccessInv
<1> QED BY <1>1, <1>2

LEMMA Setup2faKeeps ==
  ASSUME AccessInv, NEW p \in Pages, Setup2fa(p)
  PROVE  AccessInv'
<1> DEFINE secret == made.secrets + 1
<1>0. /\ browserOf \in [Pages -> Browsers] /\ cookie \in [Browsers -> Nat]
      /\ pages \in [Pages -> PageRecords] /\ factor \in FactorRecords
      /\ owner \in OwnerRecords /\ made \in MadeRecords
  BY DEF AccessInv, AccessTypes
<1>1. /\ made' = [made EXCEPT !.secrets = secret] /\ factor' = [factor EXCEPT !.pending = secret]
      /\ UNCHANGED <<browserOf, cookie>>
  BY DEF Setup2fa
<1>2. secret \in Nat /\ made' \in MadeRecords
  BY <1>0, <1>1 DEF MadeRecords
<1>3. /\ factor' \in FactorRecords
      /\ factor'.enabled = factor.enabled /\ factor'.secret = factor.secret
  BY <1>0, <1>1, <1>2 DEF FactorRecords
<1> HIDE DEF secret
<1>4. CASE UNCHANGED <<pages, owner>>
  BY <1>0, <1>1, <1>2, <1>3, <1>4 DEF AccessInv, AccessTypes, ShownIsKept, SecondFactorHeld
<1>5. CASE /\ pages' = [pages EXCEPT ![p].dialog = secret]
           /\ owner' = [owner EXCEPT !.secrets = @ \cup {secret}]
  <2> DEFINE page == [pages[p] EXCEPT !.dialog = secret]
  <2>1. page \in PageRecords /\ page.dialog = secret
    BY <1>0, <1>2 DEF PageRecords
  <2>2. pages' = [pages EXCEPT ![p] = page]
    BY <1>5
  <2> HIDE DEF page
  <2>3. /\ pages' \in [Pages -> PageRecords]
        /\ \A q \in Pages : pages'[q] = IF q = p THEN page ELSE pages[q]
    BY <1>0, <2>1, <2>2
  <2>4. /\ owner' \in OwnerRecords /\ owner'.secrets = owner.secrets \cup {secret}
    BY <1>0, <1>2, <1>5 DEF OwnerRecords
  <2>5. AccessTypes'
    BY <1>0, <1>1, <1>2, <1>3, <2>3, <2>4 DEF AccessTypes
  <2>6. ShownIsKept'
    BY <2>1, <2>3, <2>4 DEF AccessInv, ShownIsKept
  <2>7. SecondFactorHeld'
    BY <1>3, <2>4 DEF AccessInv, SecondFactorHeld
  <2> QED BY <2>5, <2>6, <2>7 DEF AccessInv
<1> QED BY <1>4, <1>5 DEF Setup2fa, secret

(* The secret that is switched on is the pending one, and the one shown.   *)
LEMMA Enable2faKeeps ==
  ASSUME AccessInv, NEW p \in Pages, Enable2fa(p)
  PROVE  AccessInv'
<1>0. /\ browserOf \in [Pages -> Browsers] /\ cookie \in [Browsers -> Nat]
      /\ pages \in [Pages -> PageRecords] /\ factor \in FactorRecords
      /\ owner \in OwnerRecords /\ made \in MadeRecords
  BY DEF AccessInv, AccessTypes
<1>1. /\ factor.pending \in owner.secrets /\ factor.pending \in Nat
      /\ UNCHANGED <<browserOf, cookie, made>>
  BY <1>0 DEF Enable2fa, ProvedPending, AccessInv, ShownIsKept, FactorRecords
<1>2. Codes(factor.pending) \in SUBSET (Nat \X {1, 2})
  BY <1>1 DEF Codes
<1>3. PICK left \in {0, factor.pending}, codes \in SUBSET Codes(factor.pending) :
        factor' = Enabled(left, codes)
  BY DEF Enable2fa
<1>4. /\ factor' \in FactorRecords
      /\ factor'.secret = factor.pending /\ factor'.codes \in SUBSET (Nat \X {1, 2})
  BY <1>1, <1>2, <1>3 DEF Enabled, FactorRecords
<1>5. owner' \in OwnerRecords /\ owner'.secrets = owner.secrets
  <2>1. CASE owner' = owner
    BY <1>0, <2>1
  <2>2. CASE owner' = [owner EXCEPT !.codes = @ \cup factor'.codes]
    BY <1>0, <1>4, <2>2 DEF OwnerRecords
  <2> QED BY <2>1, <2>2 DEF Enable2fa
<1>6. /\ pages' \in [Pages -> PageRecords]
      /\ \A q \in Pages : pages'[q].dialog = 0 \/ pages'[q] = pages[q]
  <2>1. CASE pages' = pages
    BY <1>0, <2>1
  <2>2. CASE pages' = [pages EXCEPT ![p].dialog = 0]
    <3> DEFINE page == [pages[p] EXCEPT !.dialog = 0]
    <3>1. page \in PageRecords /\ page.dialog = 0
      BY <1>0 DEF PageRecords
    <3>2. pages' = [pages EXCEPT ![p] = page]
      BY <2>2
    <3> HIDE DEF page
    <3> QED BY <1>0, <3>1, <3>2
  <2> QED BY <2>1, <2>2 DEF Enable2fa
<1>7. AccessTypes'
  BY <1>0, <1>1, <1>4, <1>5, <1>6 DEF AccessTypes
<1>8. ShownIsKept'
  BY <1>5, <1>6 DEF AccessInv, ShownIsKept
<1>9. SecondFactorHeld'
  BY <1>1, <1>4, <1>5 DEF SecondFactorHeld
<1> QED BY <1>7, <1>8, <1>9 DEF AccessInv

(* When the second factor is on, its secret is in the authenticator (POST  *)
(* /2fa/setup and /2fa/enable).                                            *)
THEOREM SecondFactorAlwaysHeld == AccessSpec => []SecondFactorHeld
<1>1. AccessInit => AccessInv
  BY DEF AccessInit, AccessInv, AccessTypes, ShownIsKept, SecondFactorHeld, SignedOutPage, NoFactor,
         PageRecords, FactorRecords, OwnerRecords, MadeRecords
<1>2. AccessInv /\ [AccessNext]_accessVars => AccessInv'
  <2> SUFFICES ASSUME AccessInv, [AccessNext]_accessVars PROVE AccessInv'
    OBVIOUS
  <2>0. /\ browserOf \in [Pages -> Browsers] /\ cookie \in [Browsers -> Nat]
        /\ pages \in [Pages -> PageRecords] /\ factor \in FactorRecords
        /\ owner \in OwnerRecords /\ made \in MadeRecords
    BY DEF AccessInv, AccessTypes
  <2>01. SignedOutPage \in PageRecords /\ SignedOutPage.dialog = 0
    BY DEF SignedOutPage, PageRecords
  <2>1. ASSUME NEW p \in Pages, Setup(p) PROVE AccessInv'
    <3>1. PICK page \in PageRecords : page.dialog = 0 /\ pages' = [pages EXCEPT ![p] = page]
      BY <2>1, SignInPage DEF Setup
    <3>2. /\ made' \in MadeRecords /\ UNCHANGED <<browserOf, factor, owner>>
          /\ cookie' \in [Browsers -> Nat]
      BY <2>0, <2>1, SignInPage DEF Setup, MadeRecords
    <3> QED BY <3>1, <3>2, PageStepKeeps
  <2>2. ASSUME NEW p \in Pages, WrongPassword(p) PROVE AccessInv'
    <3>1. made' \in MadeRecords
      BY <2>0, <2>2 DEF WrongPassword, MadeRecords
    <3> QED BY <2>2, <3>1, UnseenKeeps DEF WrongPassword
  <2>3. ASSUME NEW p \in Pages, Refused(p) \/ Logout(p) PROVE AccessInv'
    BY <2>0, <2>01, <2>3, PageStepKeeps DEF Refused, Logout
  <2>4. ASSUME NEW p \in Pages, Boot(p) PROVE AccessInv'
    <3>1. CASE pages' = [pages EXCEPT ![p] = SignedOutPage]
      BY <2>0, <2>01, <2>4, <3>1, PageStepKeeps DEF Boot
    <3>2. CASE Signed(p)
      <4> DEFINE page == [SignedOutPage EXCEPT !.view = "main", !.csrf = Token(p)]
      <4>1. pages' = [pages EXCEPT ![p] = page]
        BY <2>4, <3>2 DEF Boot
      <4>2. page \in PageRecords /\ page.dialog = 0
        BY <2>0, MainPage DEF Token
      <4> HIDE DEF page
      <4> QED BY <2>0, <2>4, <4>1, <4>2, PageStepKeeps DEF Boot
    <3> QED BY <2>4, <3>1, <3>2 DEF Boot
  <2>5. ASSUME NEW p \in Pages, LogoutAll(p) \/ ChangePassword(p) PROVE AccessInv'
    BY <2>0, <2>5, UnseenKeeps DEF LogoutAll, ChangePassword
  <2>6. ASSUME NEW p \in Pages, CancelDialog(p) PROVE AccessInv'
    <3> DEFINE page == [pages[p] EXCEPT !.dialog = 0]
    <3>1. page \in PageRecords /\ page.dialog = 0
      BY <2>0 DEF PageRecords
    <3>2. pages' = [pages EXCEPT ![p] = page] /\ UNCHANGED <<browserOf, cookie, factor, owner, made>>
      BY <2>6 DEF CancelDialog
    <3> HIDE DEF page
    <3> QED BY <2>0, <3>1, <3>2, PageStepKeeps
  <2>7. ASSUME NEW p \in Pages, Disable2fa(p) PROVE AccessInv'
    <3>1. factor' \in FactorRecords /\ ~factor'.enabled /\ UNCHANGED <<browserOf, cookie, pages, owner, made>>
      BY <2>0, <2>7 DEF Disable2fa, NoFactor, FactorRecords
    <3> QED BY <2>0, <3>1 DEF AccessInv, AccessTypes, ShownIsKept, SecondFactorHeld
  <2>8. CASE \E b \in Browsers : LockEnds(b)
    BY <2>0, <2>8, UnseenKeeps DEF LockEnds
  <2>9. CASE Forget \/ UNCHANGED accessVars
    BY <2>0, <2>9, UnseenKeeps DEF Forget, accessVars
  <2>10. CASE \E t \in 1..MaxSessions : Expire(t)
    BY <2>0, <2>10, UnseenKeeps DEF Expire
  <2> QED
    BY <2>1, <2>2, <2>3, <2>4, <2>5, <2>6, <2>7, <2>8, <2>9, <2>10,
       LoginKeeps, Setup2faKeeps, Enable2faKeeps
    DEF AccessNext
<1>3. AccessInv => SecondFactorHeld
  BY DEF AccessInv
<1> QED BY <1>1, <1>2, <1>3, PTL DEF AccessSpec

-----------------------------------------------------------------------------
(* The probes of panels.  An answer about the clients tells a model that   *)
(* the panel has had, even if it has another by the time it is written.    *)
Rows      == [saved : BOOLEAN, model : Models \cup {"unknown"}, error : BOOLEAN]
Answers   == {"none", "asked", "there", "missing", "broken"}
ProbeRecords == [panel : Panels \cup {0}, for : {"none", "refresh", "add"},
                 hosts : Answers, clients : Answers]

ProbeTypes ==
  /\ served \in [Panels -> Models]
  /\ had \in [Panels -> SUBSET Models]
  /\ stored \in [Panels -> Rows]
  /\ probes \in [1..MaxProbes -> ProbeRecords]
  /\ probed \in Nat

ServedWasHad == \A p \in Panels : served[p] \in had[p]

Tells(probe) ==
  probe.for # "none" =>
    /\ probe.panel \in Panels
    /\ probe.clients = "there"   => "first_class" \in had[probe.panel]
    /\ probe.clients = "missing" => "embedded" \in had[probe.panel]

Idles(probe) == probe.for = "none" => probe.clients = "none" /\ probe.hosts = "none"

AnswersTell == \A n \in 1..MaxProbes : Tells(probes[n]) /\ Idles(probes[n])

ProbeInv == ProbeTypes /\ ServedWasHad /\ AnswersTell /\ StoredModelWasServed

LEMMA ProbeIsKept ==
  ASSUME ProbeInv, NEW n \in 1..MaxProbes
  PROVE  probes[n] \in ProbeRecords /\ Tells(probes[n]) /\ Idles(probes[n])
BY DEF ProbeInv, ProbeTypes, AnswersTell

(* One probe takes a step, the panels do not.                              *)
LEMMA ProbeStepKeeps ==
  ASSUME ProbeInv, NEW n \in 1..MaxProbes, NEW probe \in ProbeRecords,
         Tells(probe), Idles(probe), probes' = [probes EXCEPT ![n] = probe],
         UNCHANGED <<served, had>>, stored' \in [Panels -> Rows], StoredModelWasServed', probed' \in Nat
  PROVE  ProbeInv'
<1>1. /\ probes' \in [1..MaxProbes -> ProbeRecords]
      /\ \A k \in 1..MaxProbes : probes'[k] = IF k = n THEN probe ELSE probes[k]
  BY DEF ProbeInv, ProbeTypes
<1>2. AnswersTell'
  BY <1>1 DEF ProbeInv, AnswersTell, Tells, Idles
<1>3. ProbeTypes' /\ ServedWasHad'
  BY <1>1 DEF ProbeInv, ProbeTypes, ServedWasHad
<1> QED BY <1>2, <1>3 DEF ProbeInv

LEMMA UpgradeKeeps ==
  ASSUME ProbeInv, NEW p \in Panels, Upgrade(p)
  PROVE  ProbeInv'
<1>1. PICK model \in Models : /\ served' = [served EXCEPT ![p] = model]
                              /\ had' = [had EXCEPT ![p] = @ \cup {model}]
  BY DEF Upgrade
<1>2. /\ served' \in [Panels -> Models] /\ had' \in [Panels -> SUBSET Models]
      /\ \A q \in Panels : had[q] \subseteq had'[q] /\ served'[q] \in had'[q]
  BY <1>1 DEF ProbeInv, ProbeTypes, ServedWasHad
<1>3. UNCHANGED <<stored, probes, probed>>
  BY DEF Upgrade
<1>4. ProbeTypes' /\ ServedWasHad'
  BY <1>2, <1>3 DEF ProbeInv, ProbeTypes, ServedWasHad
<1>5. AnswersTell'
  BY <1>2, <1>3 DEF ProbeInv, AnswersTell, Tells, Idles
<1>6. StoredModelWasServed'
  BY <1>2, <1>3 DEF ProbeInv, StoredModelWasServed
<1> QED BY <1>4, <1>5, <1>6 DEF ProbeInv

LEMMA StartProbeKeeps ==
  ASSUME ProbeInv, NEW p \in Panels, NEW for \in {"refresh", "add"}, StartProbe(p, for)
  PROVE  ProbeInv'
<1> DEFINE probe == [panel |-> p, for |-> for, hosts |-> "asked", clients |-> "asked"]
<1>1. probed + 1 \in 1..MaxProbes
  BY ProbeAssumption DEF StartProbe, ProbeInv, ProbeTypes
<1>2. probes' = [probes EXCEPT ![probed + 1] = probe] /\ probed' \in Nat
  BY DEF StartProbe, ProbeInv, ProbeTypes
<1>3. probe \in ProbeRecords /\ Tells(probe) /\ Idles(probe)
  BY DEF ProbeRecords, Answers, Tells, Idles
<1>4. UNCHANGED <<served, had, stored>>
  BY DEF StartProbe
<1>5. stored' \in [Panels -> Rows] /\ StoredModelWasServed'
  BY <1>4 DEF ProbeInv, ProbeTypes, StoredModelWasServed
<1> HIDE DEF probe
<1> QED BY <1>1, <1>2, <1>3, <1>4, <1>5, ProbeStepKeeps

LEMMA AnswerKeeps ==
  ASSUME ProbeInv, NEW n \in 1..MaxProbes, AnswerHosts(n) \/ AnswerClients(n)
  PROVE  ProbeInv'
<1>1. probes[n] \in ProbeRecords /\ Tells(probes[n]) /\ Idles(probes[n])
  BY ProbeIsKept
<1>2. /\ UNCHANGED <<served, had, stored>> /\ probed' \in Nat
      /\ stored' \in [Panels -> Rows] /\ StoredModelWasServed'
  BY DEF AnswerHosts, AnswerClients, ProbeInv, ProbeTypes, StoredModelWasServed
<1>3. CASE AnswerHosts(n)
  <2>1. PICK answer \in {"there", "missing", "broken"} : probes' = [probes EXCEPT ![n].hosts = answer]
    BY <1>3 DEF AnswerHosts
  <2> DEFINE probe == [probes[n] EXCEPT !.hosts = answer]
  <2>2. probe \in ProbeRecords
    BY <1>1 DEF ProbeRecords, Answers
  <2>3. Tells(probe) /\ Idles(probe)
    BY <1>1, <1>3 DEF AnswerHosts, ProbeRecords, Tells, Idles
  <2>4. probes' = [probes EXCEPT ![n] = probe]
    BY <2>1
  <2> HIDE DEF probe
  <2> QED BY <1>2, <2>2, <2>3, <2>4, ProbeStepKeeps
<1>4. CASE AnswerClients(n)
  <2>1. PICK answer \in {IF served[probes[n].panel] = "first_class" THEN "there" ELSE "missing", "broken"} :
          probes' = [probes EXCEPT ![n].clients = answer]
    BY <1>4 DEF AnswerClients
  <2> DEFINE probe == [probes[n] EXCEPT !.clients = answer]
  <2>2. probe \in ProbeRecords
    BY <1>1 DEF ProbeRecords, Answers
  <2>3. /\ probe.for = probes[n].for /\ probe.panel = probes[n].panel /\ probe.clients = answer
        /\ probe.for # "none"
    BY <1>1, <1>4 DEF AnswerClients, ProbeRecords, Idles
  <2>4. probes[n].panel \in Panels
    BY <1>1, <2>3 DEF Tells
  <2>5. served[probes[n].panel] \in had[probes[n].panel] /\ served[probes[n].panel] \in Models
    BY <2>4 DEF ProbeInv, ProbeTypes, ServedWasHad
  <2>6. Tells(probe) /\ Idles(probe)
    BY <2>3, <2>4, <2>5 DEF Tells, Idles, Models
  <2>7. probes' = [probes EXCEPT ![n] = probe]
    BY <2>1
  <2> HIDE DEF probe
  <2> QED BY <1>2, <2>2, <2>6, <2>7, ProbeStepKeeps
<1> QED BY <1>3, <1>4

(* What a probe with two good answers writes is a model its panel has had. *)
LEMMA AnsweredModelWasHad ==
  ASSUME ProbeInv, NEW n \in 1..MaxProbes, probes[n].for # "none", Answered(n), ~Rejected(n)
  PROVE  ModelOf(n) \in Models /\ ModelOf(n) \in had[probes[n].panel]
<1>1. probes[n] \in ProbeRecords /\ Tells(probes[n])
  BY ProbeIsKept
<1>2. probes[n].clients \in {"there", "missing"}
  BY <1>1 DEF Answered, Rejected, ProbeRecords, Answers
<1> QED BY <1>1, <1>2 DEF Tells, ModelOf, Models

(* A row is written with the model it had or with one its panel has had.   *)
LEMMA RowKeeps ==
  ASSUME ProbeInv, NEW p \in Panels, NEW row \in Rows, UNCHANGED had,
         row.model = stored[p].model \/ row.model \in had[p],
         stored' = [stored EXCEPT ![p] = row]
  PROVE  stored' \in [Panels -> Rows] /\ StoredModelWasServed'
<1>1. stored \in [Panels -> Rows] /\ StoredModelWasServed
  BY DEF ProbeInv, ProbeTypes
<1>2. stored' \in [Panels -> Rows]
  BY <1>1
<1>3. ASSUME NEW q \in Panels, stored'[q].model # "unknown" PROVE stored'[q].model \in had[q]
  <2>1. CASE q = p
    BY <1>1, <1>3, <2>1 DEF StoredModelWasServed
  <2>2. CASE q # p
    BY <1>1, <1>3, <2>2 DEF StoredModelWasServed
  <2> QED BY <2>1, <2>2
<1> QED BY <1>2, <1>3 DEF StoredModelWasServed

LEMMA EndKeeps ==
  ASSUME ProbeInv, NEW n \in 1..MaxProbes, EndRefresh(n) \/ EndAdd(n)
  PROVE  ProbeInv'
<1> DEFINE p == probes[n].panel
<1>1. probes[n] \in ProbeRecords /\ Tells(probes[n]) /\ probes[n].for # "none"
  BY ProbeIsKept DEF EndRefresh, EndAdd
<1>2. p \in Panels
  BY <1>1 DEF Tells
<1>3. stored \in [Panels -> Rows] /\ stored[p] \in Rows
  BY <1>2 DEF ProbeInv, ProbeTypes
<1>4. /\ probes' = [probes EXCEPT ![n] = NoProbe]
      /\ NoProbe \in ProbeRecords /\ Tells(NoProbe) /\ Idles(NoProbe)
      /\ UNCHANGED <<served, had>> /\ probed' \in Nat
  BY DEF EndRefresh, EndAdd, Ended, NoProbe, ProbeRecords, Answers, Tells, Idles, ProbeInv, ProbeTypes
<1>5. stored' \in [Panels -> Rows] /\ StoredModelWasServed'
  <2>1. CASE stored' = stored
    BY <1>3, <1>4, <2>1 DEF ProbeInv, StoredModelWasServed
  <2>2. CASE stored' = [stored EXCEPT ![p].error = @ \/ stored[p].saved]
    <3> DEFINE row == [stored[p] EXCEPT !.error = @ \/ stored[p].saved]
    <3>1. row \in Rows /\ row.model = stored[p].model
      BY <1>3 DEF Rows
    <3>2. stored' = [stored EXCEPT ![p] = row]
      BY <2>2
    <3> HIDE DEF row
    <3> QED BY <1>2, <1>4, <3>1, <3>2, RowKeeps
  <2>3. CASE /\ Answered(n) /\ ~Rejected(n)
             /\ stored' = [stored EXCEPT ![p].model = ModelOf(n), ![p].error = FALSE]
    <3> DEFINE row == [stored[p] EXCEPT !.model = ModelOf(n), !.error = FALSE]
    <3>1. ModelOf(n) \in Models /\ ModelOf(n) \in had[p]
      BY <1>1, <2>3, AnsweredModelWasHad
    <3>2. row \in Rows /\ row.model = ModelOf(n)
      BY <1>3, <3>1 DEF Rows
    <3>3. stored' = [stored EXCEPT ![p] = row]
      BY <1>3, <2>3
    <3> HIDE DEF row
    <3> QED BY <1>2, <1>4, <3>1, <3>2, <3>3, RowKeeps
  <2>4. CASE /\ Answered(n) /\ ~Rejected(n)
             /\ stored' = [stored EXCEPT ![p] = [saved |-> TRUE, model |-> ModelOf(n), error |-> FALSE]]
    <3> DEFINE row == [saved |-> TRUE, model |-> ModelOf(n), error |-> FALSE]
    <3>1. ModelOf(n) \in Models /\ ModelOf(n) \in had[p]
      BY <1>1, <2>4, AnsweredModelWasHad
    <3>2. row \in Rows /\ row.model = ModelOf(n)
      BY <3>1 DEF Rows
    <3>3. stored' = [stored EXCEPT ![p] = row]
      BY <2>4
    <3> HIDE DEF row
    <3> QED BY <1>2, <1>4, <3>1, <3>2, <3>3, RowKeeps
  <2>5. CASE EndRefresh(n)
    BY <2>1, <2>2, <2>3, <2>5 DEF EndRefresh
  <2>6. CASE EndAdd(n)
    BY <2>1, <2>4, <2>6 DEF EndAdd
  <2> QED BY <2>5, <2>6
<1> QED BY <1>4, <1>5, ProbeStepKeeps

(* The client model that is stored of a panel is one it has had, whatever  *)
(* answers fail or come late (probeExtension, probePanel).                 *)
THEOREM StoredModelAlwaysWasServed == ProbeSpec => []StoredModelWasServed
<1>1. ProbeInit => ProbeInv
  <2> SUFFICES ASSUME ProbeInit PROVE ProbeInv
    OBVIOUS
  <2> DEFINE SavedRow == [NoRow EXCEPT !.saved = TRUE]
  <2>1. NoRow \in Rows /\ SavedRow \in Rows /\ NoProbe \in ProbeRecords
    BY DEF NoRow, Rows, NoProbe, ProbeRecords, Answers
  <2> HIDE DEF SavedRow
  <2>2. stored \in [Panels -> {NoRow, SavedRow}]
    BY DEF ProbeInit, SavedRow
  <2>3. ProbeTypes /\ ServedWasHad
    BY <2>1, <2>2 DEF ProbeInit, ProbeTypes, ServedWasHad
  <2>4. AnswersTell
    BY DEF ProbeInit, AnswersTell, NoProbe, Tells, Idles
  <2>5. StoredModelWasServed
    BY <2>2 DEF SavedRow, StoredModelWasServed, NoRow
  <2> QED BY <2>3, <2>4, <2>5 DEF ProbeInv
<1>2. ProbeInv /\ [ProbeNext]_probeVars => ProbeInv'
  <2> SUFFICES ASSUME ProbeInv, [ProbeNext]_probeVars PROVE ProbeInv'
    OBVIOUS
  <2>1. ASSUME NEW p \in Panels, ProbePanel(p) \/ AddPanel(p) PROVE ProbeInv'
    BY <2>1, StartProbeKeeps DEF ProbePanel, AddPanel
  <2>2. ASSUME NEW p \in Panels, DeletePanel(p) PROVE ProbeInv'
    <3>1. NoRow \in Rows /\ NoRow.model = "unknown"
      BY DEF NoRow, Rows
    <3> QED
      BY <2>2, <3>1 DEF DeletePanel, ProbeInv, ProbeTypes, ServedWasHad, AnswersTell, Tells, Idles,
           StoredModelWasServed
  <2>3. CASE UNCHANGED probeVars
    BY <2>3 DEF probeVars, ProbeInv, ProbeTypes, ServedWasHad, AnswersTell, Tells, Idles,
         StoredModelWasServed
  <2> QED
    BY <2>1, <2>2, <2>3, UpgradeKeeps, AnswerKeeps, EndKeeps DEF ProbeNext
<1>3. ProbeInv => StoredModelWasServed
  BY DEF ProbeInv
<1> QED BY <1>1, <1>2, <1>3, PTL DEF ProbeSpec

-----------------------------------------------------------------------------
(* The edit dialogs.  What is to be sent, planned or written differs from  *)
(* what the form was filled with, and at last from the connection itself,  *)
(* in fields that were typed into only; while a page applies its edit the  *)
(* connection waits for it.                                                *)
FieldValues == Entries \cup {Empty}
Forms  == [Fields -> FieldValues]
Bodies == UNION {[D -> FieldValues] : D \in SUBSET Fields}
WizardRecords ==
  [step : {"none"}]
  \cup [step : {"form"}, base : Forms, form : Forms, typed : SUBSET Fields]
  \cup [step : {"planning"}, base : Forms, body : Bodies, typed : SUBSET Fields]
  \cup [step : {"review"}, body : Bodies, typed : SUBSET Fields, changes : SUBSET Fields]
  \cup [step : {"applying"}, typed : SUBSET Fields, want : Forms]

OnlyTyped(e) ==
  /\ wizard[e].step = "form" =>
       \A f \in Fields \ wizard[e].typed : wizard[e].form[f] = wizard[e].base[f]
  /\ wizard[e].step \in {"planning", "review"} => DOMAIN wizard[e].body \subseteq wizard[e].typed
  /\ wizard[e].step = "applying" =>
       /\ held = e
       /\ \A f \in Fields \ wizard[e].typed : wizard[e].want[f] = connection[f]

WizardInv ==
  /\ connection \in Forms
  /\ loaded \in [Editors -> Forms]
  /\ wizard \in [Editors -> WizardRecords]
  /\ \A e \in Editors : OnlyTyped(e)

LEMMA WizardStarts == WizardInit => WizardInv
<1> SUFFICES ASSUME WizardInit PROVE WizardInv
  OBVIOUS
<1>1. connection \in Forms
  BY DEF WizardInit, Forms, FieldValues
<1>2. wizard = [e \in Editors |-> NoWizard] /\ NoWizard \in WizardRecords
  BY DEF WizardInit, NoWizard, WizardRecords
<1>3. \A e \in Editors : wizard[e].step = "none"
  BY <1>2 DEF NoWizard
<1> QED BY <1>1, <1>2, <1>3 DEF WizardInit, WizardInv, OnlyTyped

(* A step of one dialog that leaves the connection and the locks alone.    *)
LEMMA WizardGoes ==
  ASSUME WizardInv, NEW e \in Editors, NEW w \in WizardRecords, Goes(e, w),
         UNCHANGED <<connection, held>>, loaded' \in [Editors -> Forms],
         w.step # "applying",
         w.step = "form" => \A f \in Fields \ w.typed : w.form[f] = w.base[f],
         w.step \in {"planning", "review"} => DOMAIN w.body \subseteq w.typed
  PROVE  WizardInv'
<1>1. wizard' \in [Editors -> WizardRecords] /\ wizard'[e] = w
  BY DEF WizardInv, Goes
<1>2. ASSUME NEW d \in Editors PROVE OnlyTyped(d)'
  <2>1. CASE d = e
    BY <2>1, <1>1 DEF OnlyTyped
  <2>2. CASE d # e
    <3>1. wizard'[d] = wizard[d]
      BY <2>2 DEF Goes, WizardInv
    <3> QED BY <3>1 DEF OnlyTyped, WizardInv
  <2> QED BY <2>1, <2>2
<1> QED BY <1>1, <1>2 DEF WizardInv

(* Which dialog has which fields.                                          *)
LEMMA WizardShapes ==
  ASSUME WizardInv, NEW e \in Editors
  PROVE  LET w == wizard[e] IN
    /\ w.step = "form" => w \in [step : {"form"}, base : Forms, form : Forms, typed : SUBSET Fields]
    /\ w.step = "planning" =>
         w \in [step : {"planning"}, base : Forms, body : Bodies, typed : SUBSET Fields]
    /\ w.step = "review" =>
         w \in [step : {"review"}, body : Bodies, typed : SUBSET Fields, changes : SUBSET Fields]
    /\ w.step = "applying" => w \in [step : {"applying"}, typed : SUBSET Fields, want : Forms]
<1>1. wizard[e] \in WizardRecords
  BY DEF WizardInv
<1> QED BY <1>1 DEF WizardRecords

(* What is sent of a form differs from what it was filled with.            *)
LEMMA BodyIsTyped ==
  ASSUME NEW base \in Forms, NEW filled \in Forms
  PROVE  /\ EditBody(base, filled) \in Bodies
         /\ \A f \in DOMAIN EditBody(base, filled) : f \in Fields /\ filled[f] # base[f]
<1> DEFINE D == {g \in Fields : filled[g] # base[g] /\ filled[g] \in Values(g)}
<1>1. EditBody(base, filled) = [f \in D |-> filled[f]] /\ D \in SUBSET Fields
  BY DEF EditBody
<1>2. [f \in D |-> filled[f]] \in [D -> FieldValues]
  BY DEF Forms
<1> QED BY <1>1, <1>2 DEF Bodies

LEMMA TypeFieldKeeps ==
  ASSUME WizardInv, NEW e \in Editors, NEW f \in Fields, TypeField(e, f)
  PROVE  WizardInv'
<1>1. wizard[e] \in [step : {"form"}, base : Forms, form : Forms, typed : SUBSET Fields]
  BY WizardShapes DEF TypeField
<1>2. PICK entry \in FieldValues :
        Goes(e, [wizard[e] EXCEPT !.form[f] = entry, !.typed = @ \cup {f}])
  BY DEF TypeField, FieldValues
<1> DEFINE w == [wizard[e] EXCEPT !.form[f] = entry, !.typed = @ \cup {f}]
<1>3. /\ w \in [step : {"form"}, base : Forms, form : Forms, typed : SUBSET Fields]
      /\ w.step = "form" /\ w.typed = wizard[e].typed \cup {f} /\ w.base = wizard[e].base
      /\ \A g \in Fields \ {f} : w.form[g] = wizard[e].form[g]
  BY <1>1 DEF Forms
<1>4. \A g \in Fields \ w.typed : w.form[g] = w.base[g]
  BY <1>1, <1>3 DEF WizardInv, OnlyTyped
<1>5. w \in WizardRecords
  BY <1>3 DEF WizardRecords
<1>6. UNCHANGED <<connection, held>> /\ loaded' \in [Editors -> Forms] /\ Goes(e, w)
  BY <1>2 DEF TypeField, WizardInv
<1> HIDE DEF w
<1> QED BY <1>3, <1>4, <1>5, <1>6, WizardGoes

LEMMA ReviewEditKeeps ==
  ASSUME WizardInv, NEW e \in Editors, ReviewEdit(e)
  PROVE  WizardInv'
<1>1. wizard[e] \in [step : {"form"}, base : Forms, form : Forms, typed : SUBSET Fields]
  BY WizardShapes DEF ReviewEdit
<1> DEFINE body == EditBody(wizard[e].base, wizard[e].form)
           w == [step |-> "planning", base |-> wizard[e].base, body |-> body, typed |-> wizard[e].typed]
<1>2. body \in Bodies /\ \A f \in DOMAIN body : f \in Fields /\ wizard[e].form[f] # wizard[e].base[f]
  BY <1>1, BodyIsTyped
<1>3. \A f \in Fields \ wizard[e].typed : wizard[e].form[f] = wizard[e].base[f]
  BY <1>1 DEF WizardInv, OnlyTyped
<1>4. Goes(e, w) /\ UNCHANGED <<connection, held>> /\ loaded' \in [Editors -> Forms]
  BY DEF ReviewEdit, WizardInv
<1> HIDE DEF body
<1>5. w \in WizardRecords /\ w.step = "planning" /\ DOMAIN w.body \subseteq w.typed
  BY <1>1, <1>2, <1>3 DEF WizardRecords
<1> HIDE DEF w
<1> QED BY <1>4, <1>5, WizardGoes

LEMMA PlanArrivesKeeps ==
  ASSUME WizardInv, NEW e \in Editors, PlanArrives(e)
  PROVE  WizardInv'
<1>1. wizard[e] \in [step : {"planning"}, base : Forms, body : Bodies, typed : SUBSET Fields]
  BY WizardShapes DEF PlanArrives
<1> DEFINE w == [step |-> "review", body |-> wizard[e].body, typed |-> wizard[e].typed,
                 changes |-> ChangesOf(wizard[e].body)]
<1>2. DOMAIN wizard[e].body \subseteq wizard[e].typed
  BY <1>1 DEF WizardInv, OnlyTyped
<1>3. ChangesOf(wizard[e].body) \in SUBSET Fields
  BY <1>1, <1>2 DEF ChangesOf
<1>4. Goes(e, w) /\ UNCHANGED <<connection, held>> /\ loaded' \in [Editors -> Forms]
  BY DEF PlanArrives, WizardInv
<1>5. w \in WizardRecords /\ w.step = "review" /\ DOMAIN w.body \subseteq w.typed
  BY <1>1, <1>2, <1>3 DEF WizardRecords
<1> HIDE DEF w
<1> QED BY <1>4, <1>5, WizardGoes

LEMMA PlanFailsKeeps ==
  ASSUME WizardInv, NEW e \in Editors, PlanFails(e)
  PROVE  WizardInv'
<1>1. wizard[e] \in [step : {"planning"}, base : Forms, body : Bodies, typed : SUBSET Fields]
  BY WizardShapes DEF PlanFails
<1> DEFINE filled == [f \in Fields |-> IF f \in DOMAIN wizard[e].body THEN wizard[e].body[f]
                                     ELSE wizard[e].base[f]]
           w == [step |-> "form", base |-> wizard[e].base, typed |-> wizard[e].typed, form |-> filled]
<1>2. DOMAIN wizard[e].body \subseteq wizard[e].typed
  BY <1>1 DEF WizardInv, OnlyTyped
<1>3. PICK D \in SUBSET Fields : wizard[e].body \in [D -> FieldValues]
  BY <1>1 DEF Bodies
<1>4. filled \in Forms /\ \A f \in Fields \ wizard[e].typed : filled[f] = wizard[e].base[f]
  BY <1>1, <1>2, <1>3 DEF Forms
<1>5. Goes(e, w) /\ UNCHANGED <<connection, held>> /\ loaded' \in [Editors -> Forms]
  BY DEF PlanFails, WizardInv
<1> HIDE DEF filled
<1>6. w \in WizardRecords /\ w.step = "form"
      /\ \A f \in Fields \ w.typed : w.form[f] = w.base[f]
  BY <1>1, <1>4 DEF WizardRecords
<1> HIDE DEF w
<1> QED BY <1>5, <1>6, WizardGoes

(* A page that may apply its edit holds the locks; the others wait.        *)
LEMMA ApplyEditKeeps ==
  ASSUME WizardInv, NEW e \in Editors, ApplyEdit(e)
  PROVE  WizardInv'
<1>1. wizard[e] \in [step : {"review"}, body : Bodies, typed : SUBSET Fields, changes : SUBSET Fields]
  BY WizardShapes DEF ApplyEdit
<1>2. DOMAIN wizard[e].body \subseteq wizard[e].typed
  BY <1>1 DEF WizardInv, OnlyTyped
<1> DEFINE want == [f \in Fields |-> IF f \in DOMAIN wizard[e].body
                                     THEN wizard[e].body[f] ELSE connection[f]]
           w == [step |-> "applying", typed |-> wizard[e].typed, want |-> want]
<1>3. ASSUME held = Nobody, held' = e, Goes(e, w), UNCHANGED <<connection, loaded>>
      PROVE  WizardInv'
  <2>1. PICK D \in SUBSET Fields : wizard[e].body \in [D -> FieldValues]
    BY <1>1 DEF Bodies
  <2>2. want \in Forms /\ \A f \in Fields \ wizard[e].typed : want[f] = connection[f]
    BY <1>1, <1>2, <2>1 DEF Forms, WizardInv
  <2> HIDE DEF want
  <2>3. w \in WizardRecords /\ w.step = "applying"
        /\ \A f \in Fields \ w.typed : w.want[f] = connection[f]
    BY <1>1, <2>2 DEF WizardRecords
  <2> HIDE DEF w
  <2>4. wizard' \in [Editors -> WizardRecords] /\ wizard'[e] = w
    BY <1>3, <2>3 DEF WizardInv, Goes
  <2>5. ASSUME NEW d \in Editors PROVE OnlyTyped(d)'
    <3>1. CASE d = e
      BY <3>1, <1>3, <2>3, <2>4 DEF OnlyTyped
    <3>2. CASE d # e
      <4>1. wizard'[d] = wizard[d]
        BY <3>2, <1>3 DEF Goes, WizardInv
      <4>2. wizard[d].step # "applying"
        BY <1>3, WizardAssumption DEF WizardInv, OnlyTyped, Nobody
      <4>3. OnlyTyped(d)
        BY DEF WizardInv
      <4> QED BY <4>1, <4>2, <4>3 DEF OnlyTyped
    <3> QED BY <3>1, <3>2
  <2> QED BY <1>3, <2>4, <2>5 DEF WizardInv
<1>4. ASSUME held' = held, Goes(e, NoWizard), UNCHANGED connection,
             loaded' = [loaded EXCEPT ![e] = connection]
      PROVE  WizardInv'
  <2>1. loaded' \in [Editors -> Forms]
    BY <1>4 DEF WizardInv
  <2>2. NoWizard \in WizardRecords /\ NoWizard.step = "none"
    BY DEF NoWizard, WizardRecords
  <2> QED BY <1>4, <2>1, <2>2, WizardGoes
<1> QED BY <1>3, <1>4 DEF ApplyEdit

LEMMA EndEditKeeps ==
  ASSUME WizardInv, NEW e \in Editors, EndEdit(e)
  PROVE  WizardInv'
<1>1. wizard[e] \in [step : {"applying"}, typed : SUBSET Fields, want : Forms] /\ held = e
  BY WizardShapes DEF EndEdit, WizardInv, OnlyTyped
<1>2. connection' \in Forms /\ loaded' \in [Editors -> Forms]
  BY <1>1 DEF EndEdit, WizardInv
<1>3. NoWizard \in WizardRecords /\ NoWizard.step = "none" /\ Goes(e, NoWizard)
  BY DEF NoWizard, WizardRecords, EndEdit
<1>4. wizard' \in [Editors -> WizardRecords] /\ wizard'[e] = NoWizard
  BY <1>3 DEF WizardInv, Goes
<1>5. ASSUME NEW d \in Editors PROVE OnlyTyped(d)'
  <2>1. CASE d = e
    BY <2>1, <1>3, <1>4 DEF OnlyTyped
  <2>2. CASE d # e
    <3>1. wizard'[d] = wizard[d]
      BY <2>2, <1>3 DEF Goes, WizardInv
    <3>2. OnlyTyped(d) /\ wizard[d].step # "applying"
      BY <2>2, <1>1 DEF WizardInv, OnlyTyped
    <3> QED BY <3>1, <3>2 DEF OnlyTyped
  <2> QED BY <2>1, <2>2
<1> QED BY <1>2, <1>4, <1>5 DEF WizardInv

LEMMA WizardKeeps == WizardInv /\ [WizardNext]_wizardVars => WizardInv'
<1> SUFFICES ASSUME WizardInv, [WizardNext]_wizardVars PROVE WizardInv'
  OBVIOUS
<1>1. CASE UNCHANGED wizardVars
  BY <1>1 DEF wizardVars, WizardInv, OnlyTyped
<1>2. ASSUME NEW e \in Editors, Load(e) PROVE WizardInv'
  BY <1>2 DEF Load, WizardInv, OnlyTyped
<1>3. ASSUME NEW e \in Editors, OpenEdit(e) PROVE WizardInv'
  <2> DEFINE w == [step |-> "form", base |-> loaded[e], form |-> loaded[e], typed |-> {}]
  <2>1. Goes(e, w) /\ UNCHANGED <<connection, held, loaded>> /\ loaded[e] \in Forms
    BY <1>3 DEF OpenEdit, WizardInv
  <2>2. w \in WizardRecords /\ w.step = "form" /\ w.form = w.base
    BY <2>1 DEF WizardRecords
  <2> HIDE DEF w
  <2>3. loaded' \in [Editors -> Forms]
    BY <2>1 DEF WizardInv
  <2> QED BY <2>1, <2>2, <2>3, WizardGoes
<1>4. ASSUME NEW e \in Editors, CancelEdit(e) PROVE WizardInv'
  <2>1. Goes(e, NoWizard) /\ UNCHANGED <<connection, held>> /\ loaded' \in [Editors -> Forms]
    BY <1>4 DEF CancelEdit, WizardInv
  <2>2. NoWizard \in WizardRecords /\ NoWizard.step = "none"
    BY DEF NoWizard, WizardRecords
  <2> QED BY <2>1, <2>2, WizardGoes
<1> QED BY <1>1, <1>2, <1>3, <1>4, TypeFieldKeeps, ReviewEditKeeps, PlanArrivesKeeps,
           PlanFailsKeeps, ApplyEditKeeps, EndEditKeeps DEF WizardNext

(* An edit changes only fields that its operator typed into, for any pages *)
(* and fields, however old the list of the page and whatever the others    *)
(* have changed since: only the page that holds the locks writes.          *)
THEOREM UntouchedFieldsAlwaysStay == WizardSpec => UntouchedFieldsStay
<1>1. WizardInit => WizardInv
  BY WizardStarts
<1>2. WizardInv /\ [WizardNext]_wizardVars => WizardInv'
  BY WizardKeeps
<1>3. WizardInv /\ [WizardNext]_wizardVars =>
        [connection' # connection =>
           \E e \in Editors :
             /\ wizard[e].step = "applying"
             /\ \A f \in Fields \ wizard[e].typed : connection'[f] = connection[f]]_wizardVars
  <2> SUFFICES ASSUME WizardInv, WizardNext, connection' # connection
               PROVE  \E e \in Editors :
                        /\ wizard[e].step = "applying"
                        /\ \A f \in Fields \ wizard[e].typed : connection'[f] = connection[f]
    BY DEF wizardVars
  <2>1. PICK e \in Editors : EndEdit(e)
    BY DEF WizardNext, Load, OpenEdit, TypeField, CancelEdit, ReviewEdit, PlanArrives, PlanFails,
           ApplyEdit
  <2>2. wizard[e].step = "applying" /\ connection' = wizard[e].want
    BY <2>1 DEF EndEdit
  <2> QED BY <2>2 DEF WizardInv, OnlyTyped
<1> QED BY <1>1, <1>2, <1>3, PTL DEF WizardSpec, UntouchedFieldsStay

-----------------------------------------------------------------------------
(* The choice of a client.  The cache and the answers to come hold a first *)
(* page, or what their own key finds; of the searches under way only one   *)
(* that is the latest may still be shown, and it looks for what was        *)
(* searched for last.                                                      *)
Labels  == Panels \X Terms
Texts   == Terms \cup {Blank} \cup Labels
Pickers == [open : BOOLEAN, panel : Panels, text : Texts, picked : Texts,
            options : SUBSET Labels, timer : Texts, seq : Nat, ctrl : Nat]
AskRecords == [no : Nat, kind : {"first", "search"}, key : Texts, panel : Panels, seq : Nat]

(* What may be shown of an answer to the key.                              *)
Found(labels, key) ==
  \E p \in Panels : IF key = Blank THEN labels = LabelsOf(p)
                    ELSE labels \in {LabelsOf(p), Matches(p, key)}

PickerInv ==
  /\ picker \in Pickers /\ asked \in Nat
  /\ \A k \in DOMAIN cache : Found(cache[k], k)
  /\ \A a \in asks :
       /\ a \in AskRecords
       /\ a.kind = "first"  => a.key = Blank
       /\ a.kind = "search" => a.seq <= picker.seq /\ (a.seq = picker.seq => a.key = newest)

(* What the panel lists is what its key finds, whatever model it has.      *)
LEMMA ListedIsFound ==
  ASSUME NEW a, a.panel \in Panels PROVE Found(Listed(a), a.key)
BY DEF Found, Listed

LEMMA FoundIsLabels ==
  ASSUME NEW labels, NEW key, Found(labels, key) PROVE labels \in SUBSET Labels
BY DEF Found, LabelsOf, Matches, Labels

LEMMA RenderedPicker ==
  ASSUME NEW d \in Pickers, NEW labels \in SUBSET Labels
  PROVE  /\ Rendered(d, labels) \in Pickers
         /\ Rendered(d, labels).options = labels
         /\ Rendered(d, labels).seq = d.seq
BY DEF Rendered, Pickers, Texts

(* The first page is rendered from the cache, or asked for: a request more *)
(* than the ones there were, which is no search.                           *)
LEMMA LoadInitialGives ==
  ASSUME NEW d \in Pickers, NEW c, asked \in Nat, LoadInitial(d, c),
         \A k \in DOMAIN c : Found(c[k], k)
  PROVE  /\ picker' \in Pickers /\ asked' \in Nat /\ picker'.seq = d.seq
         /\ picker'.options = d.options \/ Found(picker'.options, Blank)
         /\ \A a \in asks' : a \in asks \/
              /\ a \in AskRecords /\ a.kind = "first" /\ a.key = Blank
<1>1. CASE Blank \in DOMAIN c
  <2>1. Found(c[Blank], Blank) /\ c[Blank] \in SUBSET Labels
    BY <1>1, FoundIsLabels
  <2>2. picker' = Rendered(d, c[Blank]) /\ asks' = asks /\ asked' = asked
    BY <1>1 DEF LoadInitial
  <2> QED BY <2>1, <2>2, RenderedPicker
<1>2. CASE Blank \notin DOMAIN c
  <2>1. /\ picker' = d /\ asked' = asked + 1
        /\ asks' = asks \cup {Ask(asked', "first", Blank, d.panel, 0)}
    BY <1>2 DEF LoadInitial
  <2>2. /\ Ask(asked', "first", Blank, d.panel, 0) \in AskRecords
        /\ Ask(asked', "first", Blank, d.panel, 0).kind = "first"
        /\ Ask(asked', "first", Blank, d.panel, 0).key = Blank
    BY <2>1 DEF Ask, AskRecords, Pickers, Texts
  <2> QED BY <2>1, <2>2
<1> QED BY <1>1, <1>2

(* What a step may do to the options.                                      *)
OffersFound ==
  picker'.options = picker.options \/
  \E p \in Panels : picker'.options \in {LabelsOf(p), Matches(p, newest')}

LEMMA InputKeeps ==
  ASSUME PickerInv, NEW text \in Terms \cup {Blank} \cup picker.options, Input(text)
  PROVE  PickerInv' /\ OffersFound
<1> DEFINE d == [picker EXCEPT !.text = text, !.timer = text,
                               !.picked = IF text \in picker.options THEN text ELSE Blank]
<1>1. text \in Texts
  BY DEF PickerInv, Pickers, Texts
<1>2. d \in Pickers /\ d.seq = picker.seq /\ d.options = picker.options
  BY <1>1 DEF PickerInv, Pickers, Texts
<1>3. UNCHANGED <<cache, newest>>
  BY DEF Input
<1>4. CASE text = Blank
  <2>1. LoadInitial(d, cache)
    BY <1>4 DEF Input
  <2> HIDE DEF d
  <2>2. /\ picker' \in Pickers /\ asked' \in Nat /\ picker'.seq = picker.seq
        /\ picker'.options = picker.options \/ Found(picker'.options, Blank)
        /\ \A a \in asks' : a \in asks \/
             /\ a \in AskRecords /\ a.kind = "first" /\ a.key = Blank
    BY <2>1, <1>2, LoadInitialGives DEF PickerInv
  <2>3. PickerInv'
    BY <1>3, <2>2 DEF PickerInv
  <2>4. OffersFound
    BY <2>2 DEF OffersFound, Found
  <2> QED BY <2>3, <2>4
<1>5. CASE text # Blank
  <2>1. picker' = d /\ UNCHANGED <<asks, asked>>
    BY <1>5 DEF Input
  <2> HIDE DEF d
  <2>2. PickerInv'
    BY <1>2, <1>3, <2>1 DEF PickerInv
  <2> QED BY <2>1, <2>2, <1>2 DEF OffersFound
<1> QED BY <1>4, <1>5

LEMMA SearchKeeps ==
  ASSUME PickerInv, Search
  PROVE  PickerInv' /\ OffersFound
<1> DEFINE key == picker.timer
           d   == [picker EXCEPT !.timer = Blank, !.seq = @ + 1]
<1>0. picker \in Pickers /\ picker.seq \in Nat /\ picker.seq + 1 \in Nat /\ Blank \in Texts
  BY DEF PickerInv, Pickers, Texts
<1>1. d \in Pickers /\ d.seq = picker.seq + 1 /\ d.options = picker.options /\ d.panel \in Panels
      /\ key \in Texts /\ picker.seq \in Nat
  BY <1>0 DEF Pickers
<1>2. key # Blank /\ newest' = key /\ cache' = cache
  BY DEF Search
<1>3. CASE key \in DOMAIN cache
  <2>1. picker' = Rendered(d, cache[key]) /\ UNCHANGED <<asks, asked>>
    BY <1>3 DEF Search
  <2> HIDE DEF d, key
  <2>2. Found(cache[key], key) /\ cache[key] \in SUBSET Labels
    BY <1>3, FoundIsLabels DEF PickerInv
  <2>3. picker' \in Pickers /\ picker'.options = cache[key] /\ picker'.seq = picker.seq + 1
    BY <1>1, <2>1, <2>2, RenderedPicker
  <2>4. \A a \in asks' : a.kind = "search" => a.seq < picker'.seq
    BY <1>1, <2>1, <2>3 DEF PickerInv, AskRecords
  <2>5. \A a \in asks' : /\ a \in AskRecords
                         /\ a.kind = "first"  => a.key = Blank
                         /\ a.kind = "search" => a.seq <= picker'.seq /\ a.seq # picker'.seq
    BY <2>1, <2>3, <2>4, <1>1 DEF PickerInv, AskRecords
  <2>6. PickerInv'
    BY <1>2, <2>1, <2>3, <2>5 DEF PickerInv
  <2> QED BY <2>6, <2>3, <2>2, <1>2 DEF OffersFound, Found
<1>4. CASE key \notin DOMAIN cache
  <2> DEFINE next == [d EXCEPT !.ctrl = asked']
             new  == Ask(asked', "search", key, d.panel, d.seq)
  <2>1. /\ asked' = asked + 1 /\ picker' = next
        /\ asks' = {a \in asks : a.no # picker.ctrl} \cup {new}
    BY <1>4 DEF Search
  <2>2. asked' \in Nat
    BY <2>1 DEF PickerInv
  <2>3. next \in Pickers /\ next.seq = picker.seq + 1 /\ next.options = picker.options
    BY <1>1, <2>2 DEF Pickers
  <2>4. new \in AskRecords /\ new.kind = "search" /\ new.seq = picker.seq + 1 /\ new.key = key
    BY <1>1, <2>2 DEF Ask, AskRecords
  <2> HIDE DEF next, new, d, key
  <2>5. \A a \in asks : a.kind = "search" => a.seq <= picker.seq /\ a.seq \in Nat
    BY DEF PickerInv, AskRecords
  <2>6. \A a \in asks' : /\ a \in AskRecords
                         /\ a.kind = "first"  => a.key = Blank
                         /\ a.kind = "search" =>
                              a.seq <= picker'.seq /\ (a.seq = picker'.seq => a.key = newest')
    <3> TAKE a \in asks'
    <3>1. CASE a = new
      BY <3>1, <2>1, <2>3, <2>4, <1>1, <1>2
    <3>2. CASE a \in asks
      BY <3>2, <2>1, <2>3, <2>5, <1>1 DEF PickerInv
    <3> QED BY <3>1, <3>2, <2>1
  <2>7. PickerInv'
    BY <1>2, <2>1, <2>2, <2>3, <2>6 DEF PickerInv
  <2> QED BY <2>7, <2>1, <2>3 DEF OffersFound
<1> QED BY <1>3, <1>4

(* An answer that is shown is a first page, or that of the latest search.  *)
LEMMA AnswerPageKeeps ==
  ASSUME PickerInv, NEW a \in asks, AnswerPage(a)
  PROVE  PickerInv' /\ OffersFound
<1>1. /\ a \in AskRecords /\ (a.kind = "first" => a.key = Blank)
      /\ a.kind = "search" /\ a.seq = picker.seq => a.key = newest
  BY DEF PickerInv
<1>2. Found(Listed(a), a.key) /\ Listed(a) \in SUBSET Labels
  BY <1>1, ListedIsFound, FoundIsLabels DEF AskRecords
<1>3. /\ asks' = asks \ {a} /\ asked' = asked /\ newest' = newest
      /\ cache' = [k \in DOMAIN cache \cup {a.key} |-> IF k = a.key THEN Listed(a) ELSE cache[k]]
      /\ picker' = IF Shows(a) THEN Rendered(picker, Listed(a)) ELSE picker
  BY DEF AnswerPage
<1> DEFINE labels == Listed(a)
<1> HIDE DEF labels
<1>4. \A k \in DOMAIN cache' : Found(cache'[k], k)
  BY <1>2, <1>3 DEF PickerInv
<1>5. picker' \in Pickers /\ picker'.seq = picker.seq
      /\ (picker'.options = picker.options \/ (Shows(a) /\ picker'.options = Listed(a)))
  BY <1>2, <1>3, RenderedPicker DEF PickerInv
<1>6. PickerInv'
  BY <1>3, <1>4, <1>5 DEF PickerInv
<1>7. Shows(a) => a.key = Blank \/ a.key = newest'
  BY <1>1, <1>3 DEF Shows, AskRecords
<1> QED BY <1>2, <1>5, <1>6, <1>7 DEF OffersFound, Found

(* Another panel: no search that is under way is the latest any more.      *)
LEMMA ChangePanelKeeps ==
  ASSUME PickerInv, NEW p \in Panels, ChangePanel(p)
  PROVE  PickerInv' /\ OffersFound
<1> DEFINE d == [picker EXCEPT !.panel = p, !.text = Blank, !.seq = @ + 1]
<1>0. picker \in Pickers /\ picker.seq \in Nat /\ picker.seq + 1 \in Nat /\ Blank \in Texts
  BY DEF PickerInv, Pickers, Texts
<1>1. d \in Pickers /\ d.seq = picker.seq + 1 /\ d.options = picker.options /\ picker.seq \in Nat
  BY <1>0 DEF Pickers
<1>2. cache' = << >> /\ LoadInitial(d, cache')
  BY DEF ChangePanel
<1>3. \A k \in DOMAIN cache' : Found(cache'[k], k)
  BY <1>2
<1> HIDE DEF d
<1>4. /\ picker' \in Pickers /\ asked' \in Nat /\ picker'.seq = picker.seq + 1
      /\ picker'.options = picker.options \/ Found(picker'.options, Blank)
      /\ \A a \in asks' : a \in asks \/
           /\ a \in AskRecords /\ a.kind = "first" /\ a.key = Blank
  BY <1>1, <1>2, <1>3, LoadInitialGives DEF PickerInv
<1>5. \A a \in asks : a.kind = "search" => a.seq <= picker.seq /\ a.seq \in Nat
  BY DEF PickerInv, AskRecords
<1>6. \A a \in asks' : /\ a \in AskRecords
                       /\ a.kind = "first"  => a.key = Blank
                       /\ a.kind = "search" => a.seq <= picker'.seq /\ a.seq # picker'.seq
  BY <1>1, <1>4, <1>5 DEF PickerInv
<1>7. PickerInv'
  BY <1>3, <1>4, <1>6 DEF PickerInv
<1> QED BY <1>4, <1>7 DEF OffersFound, Found

LEMMA PickerKeeps ==
  ASSUME PickerInv, PickerNext
  PROVE  PickerInv' /\ OffersFound
<1>1. ASSUME Submit PROVE PickerInv' /\ OffersFound
  <2>1. /\ picker' \in Pickers /\ picker'.options = picker.options /\ picker'.seq = picker.seq
        /\ UNCHANGED <<cache, asks, asked, newest>>
    BY <1>1 DEF Submit, PickerInv, Pickers
  <2> QED BY <2>1 DEF PickerInv, OffersFound
<1>2. ASSUME NEW a \in asks, AskFails(a) PROVE PickerInv' /\ OffersFound
  BY <1>2 DEF AskFails, PickerInv, OffersFound
<1> QED BY <1>1, <1>2, InputKeeps, SearchKeeps, AnswerPageKeeps, ChangePanelKeeps DEF PickerNext

(* What is offered changes only to a first page or to what the latest      *)
(* search has found, for any panels of either kind, whose model may be     *)
(* stored or changed at any time, and any answers that are late, lost,     *)
(* cached or out of order.                                                 *)
THEOREM AlwaysOffersNewest == PickerSpec => OffersNewest
<1>1. PickerInit => PickerInv
  <2> SUFFICES ASSUME PickerInit PROVE PickerInv
    OBVIOUS
  <2>1. PICK p \in Panels :
          /\ picker = [open |-> TRUE, panel |-> p, text |-> Blank, picked |-> Blank, options |-> {},
                       timer |-> Blank, seq |-> 0, ctrl |-> 0]
          /\ asks = {Ask(1, "first", Blank, p, 0)}
    BY DEF PickerInit
  <2>2. picker \in Pickers
    BY <2>1 DEF Pickers, Texts
  <2>3. \A a \in asks : a \in AskRecords /\ a.kind = "first" /\ a.key = Blank
    BY <2>1 DEF Ask, AskRecords, Texts
  <2>4. DOMAIN cache = {} /\ asked \in Nat
    BY DEF PickerInit
  <2> QED BY <2>2, <2>3, <2>4 DEF PickerInv
<1>2. PickerInv /\ [PickerNext]_pickerVars => PickerInv'
  <2>1. ASSUME PickerInv, UNCHANGED pickerVars PROVE PickerInv'
    BY <2>1 DEF pickerVars, PickerInv
  <2> QED BY <2>1, PickerKeeps
<1>3. PickerInv /\ [PickerNext]_pickerVars =>
        [picker'.options # picker.options =>
           \E p \in Panels : picker'.options \in {LabelsOf(p), Matches(p, newest')}]_pickerVars
  BY PickerKeeps DEF OffersFound
<1> QED BY <1>1, <1>2, <1>3, PTL DEF PickerSpec, OffersNewest

-----------------------------------------------------------------------------
(* The event log and the long poll.  A client has heard a beginning of the *)
(* log of every route, and all of it where it waits.                       *)
Statuses  == Terminal \cup {"none", "RESERVED"}
Stages    == Routes \X Nat
Beginning(r, k) == [n \in 1..k |-> <<r, n>>]

LogTypes ==
  /\ log \in [Routes -> Nat] /\ attempt \in [Routes -> Nat]
  /\ status \in [Routes -> Statuses]

HeardABeginning ==
  \A p \in Pollers, r \in Routes : \E k \in 0..log[r] : heard[p][r] = Beginning(r, k)

LogInv ==
  /\ LogTypes
  /\ waiters \in [Pollers -> [route : Routes \cup {0}, after : Nat]]
  /\ heard \in [Pollers -> [Routes -> Seq(Stages)]]
  /\ HeardABeginning
  /\ \A p \in Pollers : waiters[p].route # 0 =>
       LET r == waiters[p].route
       IN  waiters[p].after = log[r] /\ heard[p][r] = Beginning(r, log[r])

LEMMA BeginningIsSeq ==
  ASSUME NEW r \in Routes, NEW k \in Nat
  PROVE  /\ Beginning(r, k) \in Seq(Stages) /\ Len(Beginning(r, k)) = k
         /\ Beginning(r, 0) = << >>
         /\ k # 0 => Beginning(r, k) # << >> /\ Last(Beginning(r, k)) = <<r, k>>
<1>1. Beginning(r, k) \in Seq(Stages) /\ Len(Beginning(r, k)) = k
  BY DEF Beginning, Stages
<1>2. Beginning(r, 0) = << >>
  BY DEF Beginning
<1>3. ASSUME k # 0
      PROVE  Beginning(r, k) # << >> /\ Last(Beginning(r, k)) = <<r, k>>
  <2>1. Beginning(r, k) # << >>
    BY <1>1, <1>3, EmptySeq
  <2>2. Beginning(r, k)[k] = <<r, k>>
    BY <1>3 DEF Beginning
  <2> QED BY <1>1, <2>1, <2>2 DEF Last
<1> QED BY <1>1, <1>2, <1>3

(* Reading on from the last event one has gives the log, without a gap.    *)
LEMMA ReadingOn ==
  ASSUME NEW r \in Routes, NEW h \in [Routes -> Nat], NEW k \in 0..h[r]
  PROVE  /\ EventsAfter(h, r, k) \in Seq(Stages)
         /\ Beginning(r, k) \o EventsAfter(h, r, k) = Beginning(r, h[r])
         /\ EventsAfter(h, r, k) = << >> <=> k = h[r]
<1> DEFINE rest == EventsAfter(h, r, k)  m == h[r]
<1>1. m \in Nat /\ k \in Nat /\ k <= m /\ m - k \in Nat
  OBVIOUS
<1>2. rest = [n \in 1..(m - k) |-> <<r, k + n>>]
  BY DEF EventsAfter
<1> HIDE DEF rest, m
<1>3. rest \in Seq(Stages) /\ Len(rest) = m - k
  BY <1>1, <1>2 DEF Stages
<1>4. /\ Beginning(r, k) \in Seq(Stages) /\ Len(Beginning(r, k)) = k
      /\ Beginning(r, m) \in Seq(Stages) /\ Len(Beginning(r, m)) = m
  BY <1>1, BeginningIsSeq
<1>5. /\ Beginning(r, k) \o rest \in Seq(Stages)
      /\ Len(Beginning(r, k) \o rest) = m
      /\ \A i \in 1..m : (Beginning(r, k) \o rest)[i] =
           IF i <= k THEN Beginning(r, k)[i] ELSE rest[i - k]
  <2>1. k + (m - k) = m
    BY <1>1
  <2> QED BY <1>3, <1>4, <2>1, ConcatProperties
<1>6. \A i \in 1..m : (Beginning(r, k) \o rest)[i] = Beginning(r, m)[i]
  BY <1>1, <1>2, <1>5 DEF Beginning
<1>7. Beginning(r, k) \o rest = Beginning(r, m)
  BY <1>4, <1>5, <1>6, SeqEqual
<1>8. rest = << >> <=> k = m
  <2>1. rest = << >> => Len(rest) = 0
    BY EmptySeq
  <2>2. k = m => rest = << >>
    BY <1>1, <1>2
  <2> QED BY <1>1, <1>3, <2>1, <2>2
<1> QED BY <1>3, <1>7, <1>8 DEF rest, m

(* The hub logs an event of a route: all who wait for it hear it.          *)
LEMMA EventKeeps ==
  ASSUME LogInv, NEW r \in Routes, Event(r), status' \in [Routes -> Statuses],
         attempt' \in [Routes -> Nat]
  PROVE  LogInv' /\ \A q \in Routes : log'[q] >= log[q]
<1>1. /\ log' = [log EXCEPT ![r] = @ + 1] /\ log \in [Routes -> Nat]
      /\ log' \in [Routes -> Nat] /\ log'[r] = log[r] + 1
      /\ \A q \in Routes \ {r} : log'[q] = log[q]
  BY DEF Event, LogInv, LogTypes
<1>2. /\ 0 \notin Routes
      /\ waiters' = [p \in Pollers |-> IF waiters[p].route = r THEN NoWait ELSE waiters[p]]
      /\ heard' = [p \in Pollers |-> IF waiters[p].route = r
                     THEN [heard[p] EXCEPT ![r] = @ \o EventsAfter(log', r, waiters[p].after)]
                     ELSE heard[p]]
  BY LogAssumption DEF Event, Woken
<1>3. ASSUME NEW p \in Pollers, waiters[p].route = r
      PROVE  /\ heard'[p] = [heard[p] EXCEPT ![r] = Beginning(r, log'[r])]
             /\ heard[p] \in [Routes -> Seq(Stages)]
  <2>1. waiters[p].after = log[r] /\ heard[p][r] = Beginning(r, log[r])
    BY <1>2, <1>3 DEF LogInv
  <2>2. log[r] \in 0..log'[r]
    BY <1>1
  <2>3. log' \in [Routes -> Nat]
    BY <1>1
  <2>4. Beginning(r, log[r]) \o EventsAfter(log', r, log[r]) = Beginning(r, log'[r])
    BY <2>2, <2>3, ReadingOn
  <2>5. heard[p] \in [Routes -> Seq(Stages)]
    BY DEF LogInv
  <2>6. heard'[p] = [heard[p] EXCEPT ![r] = @ \o EventsAfter(log', r, waiters[p].after)]
    BY <1>2, <1>3
  <2>7. heard[p][r] \o EventsAfter(log', r, waiters[p].after) = Beginning(r, log'[r])
    BY <2>1, <2>4
  <2> QED BY <2>5, <2>6, <2>7
<1>4. heard' \in [Pollers -> [Routes -> Seq(Stages)]]
  <2>1. Beginning(r, log'[r]) \in Seq(Stages)
    BY <1>1, BeginningIsSeq
  <2> SUFFICES ASSUME NEW p \in Pollers PROVE heard'[p] \in [Routes -> Seq(Stages)]
    BY <1>2
  <2>2. CASE waiters[p].route = r
    <3>1. /\ heard'[p] = [heard[p] EXCEPT ![r] = Beginning(r, log'[r])]
          /\ heard[p] \in [Routes -> Seq(Stages)]
      BY <1>3, <2>2
    <3> QED BY <2>1, <3>1
  <2>3. CASE waiters[p].route # r
    BY <1>2, <2>3 DEF LogInv
  <2> QED BY <2>2, <2>3
<1>5. HeardABeginning'
  <2> SUFFICES ASSUME NEW p \in Pollers, NEW q \in Routes
               PROVE  \E k \in 0..log'[q] : heard'[p][q] = Beginning(q, k)
    BY DEF HeardABeginning
  <2>1. PICK k \in 0..log[q] : heard[p][q] = Beginning(q, k)
    BY DEF LogInv, HeardABeginning
  <2>2. k \in 0..log'[q] /\ log'[q] \in 0..log'[q]
    BY <1>1, <2>1
  <2>3. heard'[p][q] = heard[p][q] \/ (q = r /\ heard'[p][q] = Beginning(q, log'[q]))
    <3>1. CASE waiters[p].route = r
      <4>1. /\ heard'[p] = [heard[p] EXCEPT ![r] = Beginning(r, log'[r])]
            /\ heard[p] \in [Routes -> Seq(Stages)]
        BY <1>3, <3>1
      <4> QED BY <4>1
    <3>2. CASE waiters[p].route # r
      BY <1>2, <3>2
    <3> QED BY <3>1, <3>2
  <2> QED BY <2>1, <2>2, <2>3
<1>6. waiters' \in [Pollers -> [route : Routes \cup {0}, after : Nat]]
  BY <1>2 DEF LogInv, NoWait
<1>7. ASSUME NEW p \in Pollers, waiters'[p].route # 0
      PROVE  LET q == waiters'[p].route
             IN  waiters'[p].after = log'[q] /\ heard'[p][q] = Beginning(q, log'[q])
  <2>1. waiters[p].route # r /\ waiters'[p] = waiters[p] /\ heard'[p] = heard[p]
    BY <1>2, <1>7 DEF NoWait
  <2>2. waiters[p].route \in Routes \ {r}
    BY <1>7, <2>1 DEF LogInv
  <2>3. waiters[p].after = log[waiters[p].route]
        /\ heard[p][waiters[p].route] = Beginning(waiters[p].route, log[waiters[p].route])
    BY <1>7, <2>1 DEF LogInv
  <2> QED BY <1>1, <2>1, <2>2, <2>3
<1>8. LogTypes'
  BY <1>1 DEF LogTypes
<1> QED BY <1>1, <1>4, <1>5, <1>6, <1>7, <1>8 DEF LogInv

(* A client asks after the last event it has: it gets the rest or waits.   *)
LEMMA PollKeeps ==
  ASSUME LogInv, NEW p \in Pollers, NEW r \in Routes, Poll(p, r)
  PROVE  LogInv' /\ \A q \in Routes : log'[q] >= log[q]
<1>1. PICK k \in 0..log[r] : heard[p][r] = Beginning(r, k)
  BY DEF LogInv, HeardABeginning
<1>2. log \in [Routes -> Nat] /\ log[r] \in Nat /\ k \in Nat /\ 0 \notin Routes
  BY <1>1, LogAssumption DEF LogInv, LogTypes
<1>3. LastOf(heard[p][r], 0) = k
  BY <1>1, <1>2, BeginningIsSeq DEF LastOf
<1>4. /\ EventsAfter(log, r, k) \in Seq(Stages)
      /\ Beginning(r, k) \o EventsAfter(log, r, k) = Beginning(r, log[r])
      /\ EventsAfter(log, r, k) = << >> <=> k = log[r]
  BY <1>1, <1>2, ReadingOn
<1>5. UNCHANGED <<log, status, attempt>> /\ WaitForEvent(p, r, k) /\ waiters[p] = NoWait
  BY <1>3 DEF Poll, hubVars
<1>6. \A q \in Routes : log[q] \in Nat /\ log'[q] = log[q]
  BY <1>2, <1>5
<1>7. CASE k # log[r]
  <2>1. heard' = [heard EXCEPT ![p][r] = Beginning(r, log[r])] /\ waiters' = waiters
    BY <1>1, <1>4, <1>5, <1>7 DEF WaitForEvent
  <2>2. Beginning(r, log[r]) \in Seq(Stages)
    BY <1>2, BeginningIsSeq
  <2>3. heard' \in [Pollers -> [Routes -> Seq(Stages)]]
    BY <2>1, <2>2 DEF LogInv
  <2>4. \A o \in Pollers, q \in Routes :
          heard'[o][q] = IF o = p /\ q = r THEN Beginning(r, log[r]) ELSE heard[o][q]
    BY <2>1 DEF LogInv
  <2>5. log[r] \in 0..log[r]
    BY <1>2
  <2>6. HeardABeginning'
    <3> SUFFICES ASSUME NEW o \in Pollers, NEW q \in Routes
                 PROVE  \E j \in 0..log'[q] : heard'[o][q] = Beginning(q, j)
      BY DEF HeardABeginning
    <3>1. PICK j \in 0..log[q] : heard[o][q] = Beginning(q, j)
      BY DEF LogInv, HeardABeginning
    <3>2. CASE o = p /\ q = r
      BY <1>6, <2>4, <2>5, <3>2
    <3>3. CASE ~(o = p /\ q = r)
      BY <1>6, <2>4, <3>1, <3>3
    <3> QED BY <3>2, <3>3
  <2>7. waiters[p].route = 0
    BY <1>5 DEF NoWait
  <2>8. \A o \in Pollers : waiters'[o].route # 0 =>
          LET q == waiters'[o].route
          IN  waiters'[o].after = log'[q] /\ heard'[o][q] = Beginning(q, log'[q])
    BY <1>5, <2>1, <2>4, <2>7 DEF LogInv
  <2> QED BY <1>5, <1>6, <2>1, <2>3, <2>6, <2>8 DEF LogInv, LogTypes
<1>8. CASE k = log[r]
  <2>1. waiters' = [waiters EXCEPT ![p] = [route |-> r, after |-> log[r]]] /\ heard' = heard
    BY <1>4, <1>5, <1>8 DEF WaitForEvent
  <2>2. waiters' \in [Pollers -> [route : Routes \cup {0}, after : Nat]]
    BY <1>2, <2>1 DEF LogInv
  <2>3. \A o \in Pollers : waiters'[o].route # 0 =>
          LET q == waiters'[o].route
          IN  waiters'[o].after = log'[q] /\ heard'[o][q] = Beginning(q, log'[q])
    BY <1>1, <1>5, <1>8, <2>1 DEF LogInv
  <2>4. HeardABeginning'
    BY <1>5, <2>1 DEF LogInv, HeardABeginning
  <2> QED BY <1>5, <1>6, <2>1, <2>2, <2>3, <2>4 DEF LogInv, LogTypes
<1> QED BY <1>7, <1>8

(* Nothing is logged or heard, and who still waits has waited before.      *)
LEMMA FewerWait ==
  ASSUME LogInv, UNCHANGED <<log, status, attempt, heard>>,
         waiters' \in [Pollers -> [route : Routes \cup {0}, after : Nat]],
         \A p \in Pollers : waiters'[p].route # 0 => waiters'[p] = waiters[p]
  PROVE  LogInv' /\ \A q \in Routes : log'[q] >= log[q]
<1>1. LogTypes' /\ HeardABeginning' /\ \A q \in Routes : log'[q] >= log[q]
  BY DEF LogInv, LogTypes, HeardABeginning
<1>2. \A p \in Pollers : waiters'[p].route # 0 =>
        LET r == waiters'[p].route
        IN  waiters'[p].after = log'[r] /\ heard'[p][r] = Beginning(r, log'[r])
  BY DEF LogInv
<1> QED BY <1>1, <1>2 DEF LogInv

LEMMA WaitExpiresKeeps ==
  ASSUME LogInv, NEW p \in Pollers, WaitExpires(p)
  PROVE  LogInv' /\ \A q \in Routes : log'[q] >= log[q]
<1> DEFINE r == waiters[p].route
<1>1. /\ waiters[p] # NoWait /\ waiters' = [waiters EXCEPT ![p] = NoWait]
      /\ heard' = [heard EXCEPT ![p][r] = @ \o EventsAfter(log, r, waiters[p].after)]
      /\ UNCHANGED <<log, status, attempt>>
  BY DEF WaitExpires, hubVars
<1>2. /\ log \in [Routes -> Nat] /\ \A q \in Routes : log[q] \in Nat /\ log'[q] = log[q]
  BY <1>1 DEF LogInv, LogTypes
<1>3. NoWait.route = 0 /\ NoWait \in [route : Routes \cup {0}, after : Nat]
  BY DEF NoWait
<1>4. waiters' \in [Pollers -> [route : Routes \cup {0}, after : Nat]]
  BY <1>1, <1>3 DEF LogInv
<1>5. CASE r \in Routes
  <2>1. waiters[p].after = log[r] /\ heard[p][r] = Beginning(r, log[r])
    BY <1>5, LogAssumption DEF LogInv
  <2>2. log[r] \in 0..log[r]
    BY <1>2, <1>5
  <2>3. Beginning(r, log[r]) \o EventsAfter(log, r, log[r]) = Beginning(r, log[r])
    BY <1>2, <1>5, <2>2, ReadingOn
  <2>4. heard \in [Pollers -> [Routes -> Seq(Stages)]]
    BY DEF LogInv
  <2>5. heard' = heard
    BY <1>1, <1>5, <2>1, <2>3, <2>4
  <2>6. \A o \in Pollers : waiters'[o].route # 0 => o # p /\ waiters'[o] = waiters[o]
    BY <1>1, <1>3 DEF LogInv
  <2> QED BY <1>1, <1>4, <2>5, <2>6, FewerWait
<1>6. CASE r \notin Routes
  <2>1. heard' = heard
    BY <1>1, <1>6 DEF LogInv
  <2>2. \A o \in Pollers : waiters'[o].route # 0 => o # p /\ waiters'[o] = waiters[o]
    BY <1>1, <1>3 DEF LogInv
  <2> QED BY <1>1, <1>4, <2>1, <2>2, FewerWait
<1> QED BY <1>5, <1>6

(* Nobody waits after a restart; what was heard stays heard.               *)
LEMMA RestartHubKeeps ==
  ASSUME LogInv, NEW swept \in SUBSET Routes, RestartHub(swept)
  PROVE  LogInv' /\ \A q \in Routes : log'[q] >= log[q]
<1>1. /\ log' = [r \in Routes |-> IF r \in swept THEN log[r] + 1 ELSE log[r]]
      /\ status' = [r \in Routes |-> IF r \in swept THEN "STALE" ELSE status[r]]
      /\ waiters' = [p \in Pollers |-> NoWait] /\ UNCHANGED <<attempt, heard>>
  BY DEF RestartHub
<1>2. LogTypes' /\ \A q \in Routes : log'[q] >= log[q]
  BY <1>1 DEF LogInv, LogTypes, Statuses, Terminal
<1>3. HeardABeginning'
  <2> SUFFICES ASSUME NEW p \in Pollers, NEW q \in Routes
               PROVE  \E k \in 0..log'[q] : heard'[p][q] = Beginning(q, k)
    BY DEF HeardABeginning
  <2>1. PICK k \in 0..log[q] : heard[p][q] = Beginning(q, k)
    BY DEF LogInv, HeardABeginning
  <2>2. log[q] \in Nat /\ log'[q] \in Nat /\ log'[q] >= log[q]
    BY <1>2 DEF LogInv, LogTypes
  <2>3. k \in 0..log'[q]
    BY <2>2
  <2> QED BY <1>1, <2>1, <2>3
<1>4. NoWait.route = 0 /\ NoWait \in [route : Routes \cup {0}, after : Nat]
  BY DEF NoWait
<1>5. /\ waiters' \in [Pollers -> [route : Routes \cup {0}, after : Nat]]
      /\ \A p \in Pollers : waiters'[p].route = 0
  BY <1>1, <1>4
<1> QED BY <1>1, <1>2, <1>3, <1>5 DEF LogInv

LEMMA LogStarts == LogInit => LogInv
<1> SUFFICES ASSUME LogInit PROVE LogInv
  OBVIOUS
<1>1. LogTypes
  BY DEF LogInit, LogTypes, Statuses, Terminal
<1>2. \A p \in Pollers, r \in Routes : log[r] \in Nat /\ heard[p][r] = << >>
  BY <1>1 DEF LogInit, LogTypes
<1>3. HeardABeginning
  <2> SUFFICES ASSUME NEW p \in Pollers, NEW r \in Routes
               PROVE  \E k \in 0..log[r] : heard[p][r] = Beginning(r, k)
    BY DEF HeardABeginning
  <2>1. Beginning(r, 0) = << >> /\ 0 \in 0..log[r]
    BY <1>2, BeginningIsSeq
  <2> QED BY <1>2, <2>1
<1>4. /\ waiters \in [Pollers -> [route : Routes \cup {0}, after : Nat]]
      /\ \A p \in Pollers : waiters[p].route = 0
  BY DEF LogInit, NoWait
<1>5. heard \in [Pollers -> [Routes -> Seq(Stages)]]
  BY EmptySeq DEF LogInit
<1> QED BY <1>1, <1>3, <1>4, <1>5 DEF LogInv

(* A run of the hub: its statuses, stages and end.                         *)
LEMMA RunKeeps ==
  ASSUME LogInv, NEW r \in Routes,
         \/ StartRun(r) \/ Stage(r) \/ Settle(r) \/ TimeOut(r)
         \/ \E a \in 1..MaxAttempts, verdict \in {"ACTIVE", "FAILED"} : Publish(r, a, verdict)
  PROVE  LogInv' /\ \A q \in Routes : log'[q] >= log[q]
<1>1. /\ status \in [Routes -> Statuses] /\ attempt \in [Routes -> Nat]
      /\ log \in [Routes -> Nat]
  BY DEF LogInv, LogTypes
<1>2. ASSUME UNCHANGED <<log, status, attempt, pollVars>>
      PROVE  LogInv' /\ \A q \in Routes : log'[q] >= log[q]
  BY <1>1, <1>2 DEF LogInv, LogTypes, HeardABeginning, pollVars
<1>3. CASE StartRun(r)
  <2>1. Event(r) /\ status' \in [Routes -> Statuses] /\ attempt' \in [Routes -> Nat]
    BY <1>1, <1>3 DEF StartRun, Statuses
  <2> QED BY <2>1, EventKeeps
<1>4. CASE Stage(r)
  <2>1. Event(r) /\ status' \in [Routes -> Statuses] /\ attempt' \in [Routes -> Nat]
    BY <1>1, <1>4 DEF Stage
  <2> QED BY <2>1, EventKeeps
<1>5. CASE Settle(r)
  BY <1>2, <1>5 DEF Settle
<1>6. CASE TimeOut(r)
  <2>1. CASE status[r] = "RESERVED"
    <3>1. Event(r) /\ status' \in [Routes -> Statuses] /\ attempt' \in [Routes -> Nat]
      BY <1>1, <1>6, <2>1 DEF TimeOut, Statuses, Terminal
    <3> QED BY <3>1, EventKeeps
  <2>2. CASE status[r] # "RESERVED"
    BY <1>2, <1>6, <2>2 DEF TimeOut, Quiet
  <2> QED BY <2>1, <2>2
<1>7. ASSUME NEW a \in 1..MaxAttempts, NEW verdict \in {"ACTIVE", "FAILED"}, Publish(r, a, verdict)
      PROVE  LogInv' /\ \A q \in Routes : log'[q] >= log[q]
  <2>1. Event(r) /\ status' \in [Routes -> Statuses] /\ attempt' \in [Routes -> Nat]
    BY <1>1, <1>7 DEF Publish, Statuses, Terminal
  <2> QED BY <2>1, EventKeeps
<1> QED BY <1>3, <1>4, <1>5, <1>6, <1>7

LEMMA HubStaysKeeps ==
  ASSUME LogInv, UNCHANGED <<hubVars, pollVars>>
  PROVE  LogInv' /\ \A q \in Routes : log'[q] >= log[q]
<1>1. /\ UNCHANGED <<log, status, attempt, waiters, heard>>
      /\ \A q \in Routes : log[q] \in Nat
  BY DEF hubVars, pollVars, LogInv, LogTypes
<1> QED BY <1>1 DEF LogInv, LogTypes, HeardABeginning

-----------------------------------------------------------------------------
(* The timelines of a page.  A chain is about a route, and was started by  *)
(* a click; so was every dialog.                                           *)
TaskRecords ==
  [kind  : {"none", "post", "open", "refresh", "connection", "dialog", "follow"},
   route : Routes \cup {0},
   pc    : {"done", "ask", "answer", "render", "timer", "askStatus", "askEvents", "askResult",
            "result", "noResult"},
   after : Nat, hold : Nat, got : Statuses, batch : Seq(Stages), known : Nat, live : BOOLEAN]
Dialogs ==
  [kind  : {"none", "follow", "timeline", "connection", "dialog"}, route : Routes \cup {0},
   opener : Nat, rows : SUBSET Stages, over : Tasks \cup {0}, known : Nat]

TaskFine(task, t, n) ==
  /\ task \in TaskRecords /\ (task.kind = "none" => task.pc = "done")
  /\ task.kind # "none" => task.route \in Routes /\ t <= n
DialogFine(dialog, n) ==
  dialog \in Dialogs /\ (dialog.kind # "none" => dialog.route \in Routes /\ dialog.opener \in 1..n)

PageTypes ==
  /\ clicks \in 0..MaxClicks
  /\ tasks \in [Tasks -> TaskRecords]
  /\ \A t \in Tasks : TaskFine(tasks[t], t, clicks)
  /\ DialogFine(modal, clicks)

LEMMA NoTaskFine ==
  ASSUME NEW t, NEW n
  PROVE  TaskFine(NoTask, t, n) /\ NoTask \in TaskRecords /\ NoTask.kind = "none"
BY EmptySeq DEF TaskFine, NoTask, TaskRecords, Statuses, Stages

LEMMA DialogsAreFine ==
  ASSUME NEW kind \in {"follow", "timeline", "connection", "dialog"}, NEW r \in Routes,
         NEW n \in Nat, NEW t \in 1..n
  PROVE  /\ DialogFine(Dialog(kind, r, t), n) /\ DialogFine(NoModal, n)
         /\ Dialog(kind, r, t).kind = kind /\ Dialog(kind, r, t).route = r
         /\ Dialog(kind, r, t).opener = t /\ Dialog(kind, r, t).over = 0
<1>1. NoModal \in Dialogs /\ NoModal.kind = "none" /\ NoModal.over = 0
  BY DEF NoModal, Dialogs
<1>2. t \in Nat
  OBVIOUS
<1> DEFINE a == [NoModal EXCEPT !.kind = kind]
           b == [a EXCEPT !.route = r]
           c == [b EXCEPT !.opener = t]
<1>3. a \in Dialogs /\ a.kind = kind /\ a.over = 0
  BY <1>1 DEF Dialogs
<1>4. b \in Dialogs /\ b.kind = kind /\ b.route = r /\ b.over = 0
  BY <1>3 DEF Dialogs
<1>5. c \in Dialogs /\ c.kind = kind /\ c.route = r /\ c.opener = t /\ c.over = 0
  BY <1>2, <1>4 DEF Dialogs
<1>6. Dialog(kind, r, t) = c
  BY DEF Dialog
<1> QED BY <1>1, <1>5, <1>6 DEF DialogFine

LEMMA NoModalFine ==
  ASSUME NEW n PROVE DialogFine(NoModal, n) /\ NoModal.kind = "none"
BY DEF DialogFine, NoModal, Dialogs

LEMMA BatchTypes ==
  ASSUME NEW r \in Routes, NEW h \in [Routes -> Nat], NEW k \in Nat
  PROVE  /\ EventsAfter(h, r, k) \in Seq(Stages)
         /\ k >= h[r] => EventsAfter(h, r, k) = << >>
<1>1. CASE k <= h[r]
  <2>1. k \in 0..h[r]
    BY <1>1
  <2> QED BY <1>1, <2>1, ReadingOn
<1>2. CASE k > h[r]
  <2>1. h[r] \in Nat /\ 1..(h[r] - k) = {}
    BY <1>2
  <2>2. EventsAfter(h, r, k) = << >>
    BY <2>1 DEF EventsAfter
  <2> QED BY <2>2, EmptySeq
<1>3. h[r] \in Nat
  OBVIOUS
<1> QED BY <1>1, <1>2, <1>3

LEMMA LastOfTypes ==
  ASSUME NEW batch \in Seq(Stages), NEW k \in Nat
  PROVE  LastOf(batch, k) \in Nat /\ Range(batch) \subseteq Stages
<1>1. Range(batch) \subseteq Stages
  BY LenProperties, ElementOfSeq DEF Range
<1>2. ASSUME batch # << >> PROVE Last(batch)[2] \in Nat
  <2>1. Len(batch) \in 1..Len(batch)
    BY <1>2, EmptySeq
  <2>2. Last(batch) \in Stages
    BY <2>1, ElementOfSeq DEF Last
  <2> QED BY <2>2 DEF Stages
<1> QED BY <1>1, <1>2 DEF LastOf

(* One chain goes on, begins or ends.                                      *)
LEMMA TaskChanges ==
  ASSUME PageTypes, NEW t \in Tasks, NEW w, tasks' = [tasks EXCEPT ![t] = w],
         clicks' \in 0..MaxClicks, clicks <= clicks', TaskFine(w, t, clicks'),
         DialogFine(modal', clicks')
  PROVE  /\ PageTypes'
         /\ tasks'[t] = w /\ \A s \in Tasks \ {t} : tasks'[s] = tasks[s]
<1>1. w \in TaskRecords
  BY DEF TaskFine
<1>2. /\ tasks' \in [Tasks -> TaskRecords] /\ tasks'[t] = w
      /\ \A s \in Tasks \ {t} : tasks'[s] = tasks[s]
  BY <1>1 DEF PageTypes
<1>3. ASSUME NEW s \in Tasks PROVE TaskFine(tasks'[s], s, clicks')
  <2>1. CASE s = t
    BY <1>2, <2>1
  <2>2. CASE s # t
    <3>1. tasks'[s] = tasks[s] /\ TaskFine(tasks[s], s, clicks) /\ s \in Nat /\ clicks \in Nat
          /\ clicks' \in Nat
      BY <1>2, <2>2, PageAssumption DEF PageTypes, Tasks
    <3> QED BY <3>1 DEF TaskFine
  <2> QED BY <2>1, <2>2
<1> QED BY <1>2, <1>3 DEF PageTypes

(* The dialog that follows a run belongs to the chain that opened it: the  *)
(* rows it has are those up to the chain's last id, or up to what was      *)
(* logged when the chain read the final status.                            *)
Covers(rows, r, k) == \A n \in 1..k : <<r, n>> \in rows

KeepsUp(task, dialog, history) ==
  LET r   == task.route
      all == dialog.rows \cup Range(task.batch)
  IN /\ dialog.route = r /\ task.pc # "ask"
     /\ task.pc \in {"askStatus", "timer"} => task.known = 0
     /\ task.pc \in {"askStatus", "timer", "askEvents", "render"} =>
          Covers(dialog.rows, r, task.after)
     /\ task.pc = "askEvents" => task.known <= history[r]
     /\ task.pc = "render" =>
          Covers(all, r, task.known) /\ Covers(all, r, LastOf(task.batch, task.after))
     /\ task.pc \in {"askResult", "result", "noResult"} => Covers(dialog.rows, r, task.known)

Owned ==
  modal.kind = "follow" =>
    /\ tasks[modal.opener].kind \in {"none", "follow"}
    /\ tasks[modal.opener].kind = "follow" => KeepsUp(tasks[modal.opener], modal, log)

PageInv == PageTypes /\ Owned /\ FinishedShowsAll

(* The same dialog, perhaps with more rows.                                *)
Grown(d, e) ==
  /\ e.kind = d.kind /\ e.route = d.route /\ e.opener = d.opener
  /\ e.over = d.over /\ e.known = d.known /\ d.rows \subseteq e.rows

LogGrows == LogTypes /\ LogTypes' /\ \A q \in Routes : log'[q] >= log[q]

LEMMA ShowsMore ==
  ASSUME NEW task \in TaskRecords, task.route \in Routes, LogGrows, NEW d, NEW e,
         e.route = d.route, d.rows \subseteq e.rows, KeepsUp(task, d, log)
  PROVE  KeepsUp(task, e, log')
<1> DEFINE all == d.rows \cup Range(task.batch)
           more == e.rows \cup Range(task.batch)
<1>1. all \subseteq more
  OBVIOUS
<1>2. /\ log[task.route] \in Nat /\ log'[task.route] \in Nat /\ log'[task.route] >= log[task.route]
      /\ task.known \in Nat
  BY DEF LogGrows, LogTypes, TaskRecords
<1>3. \A k : Covers(d.rows, task.route, k) => Covers(e.rows, task.route, k)
  BY DEF Covers
<1>4. \A k : Covers(all, task.route, k) => Covers(more, task.route, k)
  BY <1>1 DEF Covers
<1>5. task.known <= log[task.route] => task.known <= log'[task.route]
  BY <1>2
<1> QED BY <1>3, <1>4, <1>5 DEF KeepsUp

(* A step that leaves the chain of the dialog alone, or ends it.           *)
LEMMA OwnerAlone ==
  ASSUME PageInv, LogGrows,
         modal'.kind = "follow" =>
           /\ Grown(modal, modal')
           /\ tasks'[modal.opener] = tasks[modal.opener] \/ tasks'[modal.opener].kind = "none"
  PROVE  Owned' /\ FinishedShowsAll'
<1> SUFFICES ASSUME modal'.kind = "follow" PROVE Owned' /\ FinishedShowsAll'
  BY DEF Owned, FinishedShowsAll
<1>1. /\ modal.kind = "follow" /\ modal'.opener = modal.opener /\ Grown(modal, modal')
      /\ tasks'[modal.opener] = tasks[modal.opener] \/ tasks'[modal.opener].kind = "none"
  BY DEF Grown
<1>2. FinishedShowsAll'
  BY <1>1 DEF PageInv, FinishedShowsAll, Grown
<1>3. modal.opener \in Tasks
  BY <1>1, PageAssumption DEF PageInv, PageTypes, DialogFine, Tasks
<1>4. CASE tasks'[modal.opener].kind = "none"
  BY <1>1, <1>2, <1>4 DEF Owned
<1>5. CASE tasks'[modal.opener].kind # "none"
  <2>1. tasks'[modal.opener] = tasks[modal.opener] /\ tasks[modal.opener].kind = "follow"
        /\ KeepsUp(tasks[modal.opener], modal, log)
    BY <1>1, <1>5 DEF PageInv, Owned
  <2>2. tasks[modal.opener] \in TaskRecords /\ tasks[modal.opener].route \in Routes
    BY <1>3, <2>1 DEF PageInv, PageTypes, TaskFine
  <2>3. modal'.route = modal.route /\ modal.rows \subseteq modal'.rows
    BY <1>1 DEF Grown
  <2>4. KeepsUp(tasks[modal.opener], modal', log')
    BY <2>1, <2>2, <2>3, ShowsMore
  <2> QED BY <1>1, <1>2, <2>1, <2>4 DEF Owned
<1> QED BY <1>4, <1>5

(* One chain takes a step; if the dialog is its own, it still shows.       *)
LEMMA PageChanges ==
  ASSUME PageInv, LogGrows, NEW t \in Tasks, NEW w, tasks' = [tasks EXCEPT ![t] = w],
         clicks' \in 0..MaxClicks, clicks <= clicks', TaskFine(w, t, clicks'),
         DialogFine(modal', clicks'),
         modal'.kind = "follow" => Grown(modal, modal'),
         \/ w.kind = "none" \/ t > clicks
         \/ tasks[t].kind \notin {"none", "follow"}
         \/ /\ tasks[t].kind = "follow" /\ w.kind = "follow"
            /\ modal'.kind = "follow" /\ KeepsUp(tasks[t], modal, log) => KeepsUp(w, modal', log')
  PROVE  PageInv'
<1>1. /\ PageTypes'
      /\ tasks'[t] = w /\ \A s \in Tasks \ {t} : tasks'[s] = tasks[s]
  BY TaskChanges DEF PageInv
<1>2. modal.kind = "follow" => modal.opener \in Tasks /\ modal.opener <= clicks
  BY PageAssumption DEF PageInv, PageTypes, DialogFine, Tasks
<1>3. CASE modal'.kind = "follow" /\ modal.opener = t /\ w.kind # "none"
  <2>1. /\ modal.kind = "follow" /\ modal'.opener = t /\ Grown(modal, modal')
        /\ t <= clicks /\ clicks \in Nat /\ t \in Nat
    BY <1>2, <1>3 DEF Grown, PageInv, PageTypes, Tasks
  <2>2. tasks[t].kind \in {"none", "follow"} /\ (tasks[t].kind = "follow" => KeepsUp(tasks[t], modal, log))
    BY <1>3, <2>1 DEF PageInv, Owned
  <2>3. w.kind = "follow" /\ KeepsUp(w, modal', log')
    BY <1>3, <2>1, <2>2
  <2>4. Owned'
    BY <1>1, <2>1, <2>3 DEF Owned
  <2>5. FinishedShowsAll'
    BY <2>1 DEF PageInv, FinishedShowsAll, Grown
  <2> QED BY <1>1, <2>4, <2>5 DEF PageInv
<1>4. CASE ~(modal'.kind = "follow" /\ modal.opener = t /\ w.kind # "none")
  <2>1. modal'.kind = "follow" =>
          /\ Grown(modal, modal')
          /\ tasks'[modal.opener] = tasks[modal.opener] \/ tasks'[modal.opener].kind = "none"
    BY <1>1, <1>2, <1>4 DEF Grown
  <2> QED BY <1>1, <2>1, OwnerAlone DEF PageInv
<1> QED BY <1>3, <1>4

LEMMA ModalGrown == Grown(modal, modal)
BY DEF Grown

(* The final result is written into the dialog that is open, which shows   *)
(* what the chain knows of if it is the chain's own.                       *)
LEMMA FinishKeeps ==
  ASSUME PageInv, LogGrows, NEW t \in Tasks, NEW dialog, FinishInto(dialog, t),
         clicks' = clicks, Grown(modal, dialog), DialogFine(dialog, clicks),
         modal.kind = "follow" /\ modal.opener = t =>
           /\ dialog.route = tasks[t].route
           /\ Covers(dialog.rows, tasks[t].route, tasks[t].known)
  PROVE  PageInv'
<1>1. /\ modal' = IF dialog.kind \in {"follow", "timeline"}
                  THEN [dialog EXCEPT !.over = t, !.known = tasks[t].known] ELSE dialog
      /\ tasks' = [tasks EXCEPT ![t] = NoTask]
  BY DEF FinishInto, Done
<1>2. dialog \in Dialogs /\ t \in Tasks \cup {0} /\ tasks[t].known \in Nat
  BY DEF DialogFine, PageInv, PageTypes, TaskRecords
<1>3. DialogFine(modal', clicks)
  <2>1. CASE dialog.kind \in {"follow", "timeline"}
    <3>1. /\ modal' \in Dialogs /\ modal'.kind = dialog.kind /\ modal'.route = dialog.route
          /\ modal'.opener = dialog.opener
      BY <1>1, <1>2, <2>1 DEF Dialogs
    <3> QED BY <3>1 DEF DialogFine
  <2>2. CASE dialog.kind \notin {"follow", "timeline"}
    BY <1>1, <2>2
  <2> QED BY <2>1, <2>2
<1>4. TaskFine(NoTask, t, clicks') /\ clicks' \in 0..MaxClicks /\ clicks <= clicks'
  BY NoTaskFine DEF PageInv, PageTypes
<1>5. /\ PageTypes'
      /\ tasks'[t] = NoTask /\ \A s \in Tasks \ {t} : tasks'[s] = tasks[s]
  BY <1>1, <1>3, <1>4, TaskChanges DEF PageInv
<1>6. CASE modal'.kind = "follow"
  <2>1. dialog.kind = "follow"
    BY <1>1, <1>6
  <2>2. /\ modal' = [dialog EXCEPT !.over = t, !.known = tasks[t].known]
        /\ modal.kind = "follow" /\ modal'.opener = modal.opener /\ modal'.route = dialog.route
        /\ modal'.rows = dialog.rows /\ modal'.over = t /\ modal'.known = tasks[t].known
    BY <1>1, <1>2, <2>1 DEF Grown, Dialogs
  <2>3. modal'.route = modal.route /\ modal.rows \subseteq modal'.rows /\ modal.opener \in Tasks
    BY <2>2, PageAssumption DEF Grown, PageInv, PageTypes, DialogFine, Tasks
  <2>4. Owned'
    <3>1. CASE modal.opener = t
      BY <1>5, <2>2, <3>1, NoTaskFine DEF Owned
    <3>2. CASE modal.opener # t
      <4>1. tasks'[modal.opener] = tasks[modal.opener]
        BY <1>5, <2>3, <3>2
      <4>2. /\ tasks[modal.opener].kind \in {"none", "follow"}
            /\ tasks[modal.opener].kind = "follow" => KeepsUp(tasks[modal.opener], modal, log)
        BY <2>2 DEF PageInv, Owned
      <4>3. /\ tasks[modal.opener] \in TaskRecords
            /\ tasks[modal.opener].kind = "follow" => tasks[modal.opener].route \in Routes
        BY <2>3 DEF PageInv, PageTypes, TaskFine
      <4>4. tasks[modal.opener].kind = "follow" => KeepsUp(tasks[modal.opener], modal', log')
        BY <2>3, <4>2, <4>3, ShowsMore
      <4> QED BY <2>2, <4>1, <4>2, <4>4 DEF Owned
    <3> QED BY <3>1, <3>2
  <2>5. FinishedShowsAll'
    BY <2>2 DEF FinishedShowsAll, Covers
  <2> QED BY <1>5, <2>4, <2>5 DEF PageInv
<1>7. CASE modal'.kind # "follow"
  BY <1>5, <1>7 DEF PageInv, Owned, FinishedShowsAll
<1> QED BY <1>6, <1>7

(* A new dialog is its own chain's, and empty.                             *)
LEMMA StartTimelineKeeps ==
  ASSUME PageInv, LogGrows, NEW t \in Tasks, StartProvisioningTimeline(t)
  PROVE  PageInv'
<1> DEFINE r == tasks[t].route
           w == [NoTask EXCEPT !.kind = "follow", !.route = r, !.pc = "askStatus"]
<1>1. /\ tasks[t].kind = "post" /\ tasks' = [tasks EXCEPT ![t] = w] /\ clicks' = clicks
      /\ modal' = Dialog("follow", r, t)
  BY DEF StartProvisioningTimeline, At
<1>2. r \in Routes /\ t \in 1..clicks /\ clicks \in Nat /\ clicks' \in 0..MaxClicks /\ clicks <= clicks'
  BY <1>1 DEF PageInv, PageTypes, TaskFine, Tasks
<1>3. NoTask \in TaskRecords /\ NoTask.after = 0 /\ NoTask.known = 0
  BY NoTaskFine DEF NoTask
<1>4. /\ w \in TaskRecords /\ w.kind = "follow" /\ w.route = r /\ w.pc = "askStatus"
      /\ w.after = 0 /\ w.known = 0
  BY <1>2, <1>3 DEF TaskRecords
<1> HIDE DEF w, r
<1>5. /\ DialogFine(modal', clicks) /\ modal'.kind = "follow" /\ modal'.route = r
      /\ modal'.opener = t /\ modal'.over = 0
  BY <1>1, <1>2, DialogsAreFine
<1>6. TaskFine(w, t, clicks')
  BY <1>1, <1>2, <1>4 DEF TaskFine
<1>7. PageTypes' /\ tasks'[t] = w
  BY <1>1, <1>2, <1>5, <1>6, TaskChanges DEF PageInv
<1>8. KeepsUp(w, modal', log')
  BY <1>4, <1>5 DEF KeepsUp, Covers
<1>9. FinishedShowsAll'
  BY <1>2, <1>5 DEF FinishedShowsAll
<1> QED BY <1>4, <1>5, <1>7, <1>8, <1>9 DEF PageInv, Owned

LEMMA StillGrows == ASSUME LogTypes, UNCHANGED hubVars PROVE LogGrows
BY DEF LogTypes, LogGrows, hubVars

(* A click starts a chain, and may open a dialog for it to fill.           *)
LEMMA NewTaskKeeps ==
  ASSUME PageInv, LogGrows,
         NEW kind \in {"post", "open", "refresh", "connection", "dialog"}, NEW r \in Routes,
         NEW pc \in {"ask", "answer"}, NEW live \in BOOLEAN, NewTask(kind, r, pc, live),
         DialogFine(modal', clicks'), modal' = modal \/ modal'.kind # "follow"
  PROVE  PageInv'
<1> DEFINE w == [NoTask EXCEPT !.kind = kind, !.route = r, !.pc = pc, !.live = live]
           t == clicks + 1
<1>1. tasks' = [tasks EXCEPT ![t] = w] /\ clicks' = clicks + 1 /\ clicks < MaxClicks
  BY DEF NewTask
<1>2. NoTask \in TaskRecords
  BY NoTaskFine
<1>3. w \in TaskRecords /\ w.kind = kind /\ w.route = r
  BY <1>2 DEF TaskRecords
<1> HIDE DEF w
<1>4. t \in Tasks /\ t > clicks /\ clicks' \in 0..MaxClicks /\ clicks <= clicks' /\ t <= clicks'
  BY <1>1, PageAssumption DEF PageInv, PageTypes, Tasks
<1>5. TaskFine(w, t, clicks')
  BY <1>3, <1>4 DEF TaskFine
<1> HIDE DEF t
<1>6. modal'.kind = "follow" => Grown(modal, modal')
  BY ModalGrown
<1> QED BY <1>1, <1>4, <1>5, <1>6, PageChanges

LEMMA MoreClicks ==
  ASSUME PageTypes, clicks' = clicks + 1
  PROVE  DialogFine(modal, clicks')
<1>1. clicks \in Nat
  BY DEF PageTypes
<1> QED BY <1>1 DEF PageTypes, DialogFine

LEMMA OperatorKeeps ==
  ASSUME PageInv, LogTypes, Operator
  PROVE  PageInv'
<1>1. ASSUME UNCHANGED hubVars PROVE LogGrows
  BY <1>1, StillGrows
<1>2. PageTypes /\ clicks \in Nat
  BY DEF PageInv, PageTypes
<1>3. ASSUME NEW r \in Routes, ClickProvision(r) PROVE PageInv'
  <2>1. NewTask("post", r, "ask", FALSE) /\ modal' = modal /\ UNCHANGED hubVars /\ clicks' = clicks + 1
    BY <1>3 DEF ClickProvision, HubStays, NewTask
  <2>2. DialogFine(modal', clicks')
    BY <1>2, <2>1, MoreClicks
  <2> QED BY <1>1, <2>1, <2>2, NewTaskKeeps
<1>4. ASSUME NEW r \in Routes, ClickTimeline(r) PROVE PageInv'
  <2>1. NewTask("open", r, "answer", FALSE) /\ modal' = modal /\ UNCHANGED hubVars /\ clicks' = clicks + 1
    BY <1>4 DEF ClickTimeline, HubStays, NewTask
  <2>2. DialogFine(modal', clicks')
    BY <1>2, <2>1, MoreClicks
  <2> QED BY <1>1, <2>1, <2>2, NewTaskKeeps
<1>5. ASSUME ClickRefresh PROVE PageInv'
  <2>1. /\ NewTask("refresh", modal.route, "ask", FALSE) /\ modal' = modal /\ UNCHANGED hubVars
        /\ clicks' = clicks + 1 /\ modal.kind # "none"
    BY <1>5 DEF ClickRefresh, HubStays, NewTask, HasScroll
  <2>2. DialogFine(modal', clicks') /\ modal.route \in Routes
    BY <1>2, <2>1, MoreClicks DEF PageTypes, DialogFine
  <2> QED BY <1>1, <2>1, <2>2, NewTaskKeeps
<1>6. ASSUME NEW r \in Routes, NEW live \in BOOLEAN, ClickConnection(r, live) PROVE PageInv'
  <2>1. /\ NewTask("connection", r, "ask", live) /\ UNCHANGED hubVars /\ clicks' = clicks + 1
        /\ modal' = Dialog("connection", r, clicks + 1)
    BY <1>6 DEF ClickConnection, HubStays, NewTask
  <2>2. clicks' \in Nat /\ clicks + 1 \in 1..clicks'
    BY <1>2, <2>1
  <2>3. DialogFine(modal', clicks') /\ modal'.kind # "follow"
    BY <2>1, <2>2, DialogsAreFine
  <2> QED BY <1>1, <2>1, <2>3, NewTaskKeeps
<1>7. ASSUME NEW r \in Routes, ClickDialog(r) PROVE PageInv'
  <2>1. /\ NewTask("dialog", r, "answer", FALSE) /\ UNCHANGED hubVars /\ clicks' = clicks + 1
        /\ modal' = Dialog("dialog", r, clicks + 1)
    BY <1>7 DEF ClickDialog, HubStays, NewTask
  <2>2. clicks' \in Nat /\ clicks + 1 \in 1..clicks'
    BY <1>2, <2>1
  <2>3. DialogFine(modal', clicks') /\ modal'.kind # "follow"
    BY <2>1, <2>2, DialogsAreFine
  <2> QED BY <1>1, <2>1, <2>3, NewTaskKeeps
<1>8. ASSUME Escape \/ CloseTimeline PROVE PageInv'
  <2>1. modal' = NoModal /\ UNCHANGED <<tasks, clicks>>
    BY <1>8 DEF Escape, CloseTimeline
  <2>2. DialogFine(modal', clicks') /\ modal'.kind = "none"
    BY <2>1, NoModalFine
  <2> QED BY <1>2, <2>1, <2>2 DEF PageInv, PageTypes, Owned, FinishedShowsAll
<1> QED BY <1>3, <1>4, <1>5, <1>6, <1>7, <1>8 DEF Operator

(* The hub answers, or fails to.                                           *)
LEMMA OneOfOthers ==
  ASSUME PageInv, LogGrows, NEW t \in Tasks, NEW w \in TaskRecords,
         tasks' = [tasks EXCEPT ![t] = w], UNCHANGED <<modal, clicks>>,
         tasks[t].kind # "none", w = NoTask \/ (w.kind # "none" /\ w.route = tasks[t].route),
         \/ w.kind = "none" \/ tasks[t].kind # "follow"
         \/ w.kind = "follow" /\ (KeepsUp(tasks[t], modal, log) => KeepsUp(w, modal, log'))
  PROVE  PageInv'
<1>1. /\ clicks' \in 0..MaxClicks /\ clicks <= clicks' /\ DialogFine(modal', clicks')
      /\ t <= clicks' /\ tasks[t].route \in Routes
  BY DEF PageInv, PageTypes, TaskFine
<1>2. TaskFine(w, t, clicks')
  BY <1>1, NoTaskFine DEF TaskFine
<1>3. w.kind = "none" => w = NoTask
  OBVIOUS
<1> QED BY <1>1, <1>2, ModalGrown, PageChanges

(* What was read after the last id completes what was there up to it.      *)
LEMMA EventsCover ==
  ASSUME NEW r \in Routes, NEW h \in [Routes -> Nat], NEW k \in Nat, NEW rows, Covers(rows, r, k)
  PROVE  LET all == rows \cup Range(EventsAfter(h, r, k))
         IN  /\ \A m \in Nat : m <= h[r] => Covers(all, r, m)
             /\ Covers(all, r, LastOf(EventsAfter(h, r, k), k))
<1> DEFINE batch == EventsAfter(h, r, k)
           all == rows \cup Range(batch)
<1>1. h[r] \in Nat
  OBVIOUS
<1>2. \A m \in Nat : m <= h[r] => Covers(all, r, m)
  <2> SUFFICES ASSUME NEW m \in Nat, m <= h[r], NEW n \in 1..m PROVE <<r, n>> \in all
    BY DEF Covers
  <2>1. CASE n <= k
    BY <2>1 DEF Covers
  <2>2. CASE n > k
    <3>1. n - k \in 1..(h[r] - k) /\ k + (n - k) = n
      BY <1>1, <2>2
    <3>2. batch = [i \in 1..(h[r] - k) |-> <<r, k + i>>]
      BY DEF EventsAfter
    <3>3. n - k \in DOMAIN batch /\ batch[n - k] = <<r, n>>
      BY <3>1, <3>2
    <3> QED BY <3>3 DEF Range
  <2> QED BY <2>1, <2>2
<1>3. CASE k >= h[r]
  <2>1. batch = << >> /\ LastOf(batch, k) = k
    BY <1>3, BatchTypes DEF LastOf
  <2> QED BY <1>2, <2>1 DEF Covers
<1>4. CASE k < h[r]
  <2>1. k \in 0..h[r] /\ k # h[r]
    BY <1>1, <1>4
  <2>2. batch \in Seq(Stages) /\ batch # << >>
    BY <2>1, ReadingOn
  <2>3. batch = [i \in 1..(h[r] - k) |-> <<r, k + i>>] /\ h[r] - k \in Nat /\ k + (h[r] - k) = h[r]
    BY <1>1, <1>4 DEF EventsAfter
  <2>4. Len(batch) = h[r] - k
    BY <2>2, <2>3
  <2>5. batch[Len(batch)] = <<r, h[r]>>
    BY <1>4, <2>3, <2>4
  <2>6. LastOf(batch, k) = h[r]
    BY <2>2, <2>5 DEF LastOf, Last
  <2> QED BY <1>1, <1>2, <2>6
<1> QED BY <1>1, <1>3, <1>4

LEMMA FailedFine ==
  ASSUME NEW task \in TaskRecords, task.kind # "none", task.route \in Routes, Asking(task)
  PROVE  /\ Failed(task) \in TaskRecords
         /\ Failed(task) = NoTask \/
              /\ Failed(task).route = task.route /\ Failed(task).kind = task.kind
              /\ LogGrows /\ KeepsUp(task, modal, log) => KeepsUp(Failed(task), modal, log')
<1>1. << >> \in Seq(Stages) /\ "none" \in Statuses /\ 0 \in Nat
  BY EmptySeq DEF Statuses
<1>2. CASE task.pc = "askStatus"
  <2> DEFINE w == [task EXCEPT !.got = "none", !.hold = 0, !.pc = "askEvents"]
  <2>1. Failed(task) = w
    BY <1>2 DEF Failed
  <2>2. /\ w \in TaskRecords /\ w.kind = task.kind /\ w.route = task.route /\ w.pc = "askEvents"
        /\ w.after = task.after /\ w.known = task.known /\ w.batch = task.batch
    BY <1>1 DEF TaskRecords
  <2> HIDE DEF w
  <2>3. ASSUME LogGrows, KeepsUp(task, modal, log) PROVE KeepsUp(w, modal, log')
    <3>1. task.known = 0 /\ log'[task.route] \in Nat
      BY <1>2, <2>3 DEF KeepsUp, LogGrows, LogTypes
    <3> QED BY <1>2, <2>2, <2>3, <3>1 DEF KeepsUp
  <2> QED BY <2>1, <2>2, <2>3
<1>3. CASE task.pc = "askEvents"
  <2> DEFINE w == [task EXCEPT !.batch = << >>, !.known = 0, !.pc = "render"]
  <2>1. Failed(task) = w
    BY <1>3 DEF Failed
  <2>2. /\ w \in TaskRecords /\ w.kind = task.kind /\ w.route = task.route /\ w.pc = "render"
        /\ w.after = task.after /\ w.known = 0 /\ w.batch = << >>
    BY <1>1 DEF TaskRecords
  <2> HIDE DEF w
  <2>3. ASSUME KeepsUp(task, modal, log) PROVE KeepsUp(w, modal, log')
    <3>1. LastOf(w.batch, w.after) = task.after
      BY <2>2 DEF LastOf
    <3> QED BY <1>3, <2>2, <2>3, <3>1 DEF KeepsUp, Covers
  <2> QED BY <2>1, <2>2, <2>3
<1>4. CASE task.pc = "askResult"
  <2> DEFINE w == [task EXCEPT !.pc = "noResult"]
  <2>1. Failed(task) = w
    BY <1>4 DEF Failed
  <2>2. /\ w \in TaskRecords /\ w.kind = task.kind /\ w.route = task.route /\ w.pc = "noResult"
        /\ w.known = task.known
    BY DEF TaskRecords
  <2> HIDE DEF w
  <2> QED BY <1>4, <2>1, <2>2 DEF KeepsUp
<1>5. CASE task.pc = "ask"
  <2> DEFINE w == [task EXCEPT !.pc = "timer"]
  <2>1. Failed(task) = w \/ Failed(task) = NoTask
    BY <1>5 DEF Failed
  <2>2. /\ w \in TaskRecords /\ w.kind = task.kind /\ w.route = task.route
    BY DEF TaskRecords
  <2> HIDE DEF w
  <2> QED BY <1>5, <2>1, <2>2, NoTaskFine DEF KeepsUp
<1> QED BY <1>2, <1>3, <1>4, <1>5 DEF Asking

LEMMA LoseKeeps ==
  ASSUME PageInv, LogTypes, NEW t \in Tasks, Lose(t)
  PROVE  PageInv'
<1>1. /\ LogGrows /\ Asking(tasks[t]) /\ tasks' = [tasks EXCEPT ![t] = Failed(tasks[t])]
      /\ UNCHANGED <<modal, clicks>>
  BY StillGrows DEF Lose, HubStays, PageStays
<1>2. tasks[t] \in TaskRecords /\ (tasks[t].kind # "none" => tasks[t].route \in Routes)
  BY DEF PageInv, PageTypes, TaskFine
<1>3. tasks[t].kind # "none"
  BY <1>1 DEF Asking, PageInv, PageTypes, TaskFine
<1>4. /\ Failed(tasks[t]) \in TaskRecords
      /\ Failed(tasks[t]) = NoTask \/
           /\ Failed(tasks[t]).route = tasks[t].route /\ Failed(tasks[t]).kind = tasks[t].kind
           /\ KeepsUp(tasks[t], modal, log) => KeepsUp(Failed(tasks[t]), modal, log')
  BY <1>1, <1>2, <1>3, FailedFine
<1> DEFINE w == Failed(tasks[t])
<1>5. modal' = modal /\ tasks' = [tasks EXCEPT ![t] = w]
  BY <1>1
<1>6. KeepsUp(tasks[t], modal, log) => w = NoTask \/ KeepsUp(w, modal', log')
  BY <1>4, <1>5
<1>7. w = NoTask \/ w.kind = tasks[t].kind
  BY <1>4
<1>8. \/ w.kind = "none" \/ tasks[t].kind # "follow"
      \/ w.kind = "follow" /\ (KeepsUp(tasks[t], modal, log) => KeepsUp(w, modal', log'))
  BY <1>6, <1>7, NoTaskFine
<1>9. w \in TaskRecords /\ (w = NoTask \/ w.route = tasks[t].route)
  BY <1>4
<1> HIDE DEF w
<1>10. w = NoTask \/ (w.kind # "none" /\ w.route = tasks[t].route)
  BY <1>3, <1>7, <1>9
<1>11. LogGrows /\ UNCHANGED <<modal, clicks>>
  BY <1>1
<1> QED BY <1>3, <1>5, <1>8, <1>9, <1>10, <1>11, OneOfOthers

LEMMA AnswerPostKeeps ==
  ASSUME PageInv, LogInv, NEW t \in Tasks, AnswerPost(t)
  PROVE  LogGrows /\ PageInv'
<1> DEFINE w == [tasks[t] EXCEPT !.pc = "answer"]
<1>1. /\ tasks[t].kind = "post" /\ tasks[t] \in TaskRecords /\ tasks[t].route \in Routes
      /\ LogTypes /\ UNCHANGED <<modal, clicks>>
  BY DEF AnswerPost, At, PageStays, PageInv, PageTypes, TaskFine, LogInv
<1>2. w \in TaskRecords /\ w.kind = "post" /\ w.route = tasks[t].route
  BY <1>1 DEF TaskRecords
<1>3. CASE StartRun(tasks[t].route) /\ Goto(t, "answer")
  <2>1. LogGrows
    BY <1>1, <1>3, RunKeeps DEF LogGrows, LogInv
  <2>2. tasks' = [tasks EXCEPT ![t] = w]
    BY <1>3 DEF Goto
  <2> HIDE DEF w
  <2> QED BY <1>1, <1>2, <2>1, <2>2, OneOfOthers
<1>4. CASE Done(t) /\ HubStays
  <2>1. LogGrows
    BY <1>1, <1>4, StillGrows DEF HubStays
  <2>2. tasks' = [tasks EXCEPT ![t] = NoTask] /\ NoTask \in TaskRecords
    BY <1>4, NoTaskFine DEF Done
  <2>3. NoTask.kind = "none"
    BY NoTaskFine
  <2>4. tasks[t].kind # "none"
    BY <1>1
  <2> QED BY <1>1, <2>1, <2>2, <2>3, <2>4, OneOfOthers
<1> QED BY <1>3, <1>4 DEF AnswerPost

LEMMA AnswerStatusKeeps ==
  ASSUME PageInv, LogTypes, NEW t \in Tasks, AnswerStatus(t)
  PROVE  PageInv'
<1> DEFINE task == tasks[t]
           r == task.route
           waits == [task EXCEPT !.hold = attempt[r]]
           read == [task EXCEPT !.hold = 0, !.got = status[r], !.known = log[r], !.pc = "askEvents"]
           w == IF task.hold = 0 /\ r \in running THEN waits ELSE read
<1>1. /\ task.kind = "follow" /\ task.pc = "askStatus" /\ task \in TaskRecords /\ r \in Routes
      /\ UNCHANGED <<modal, clicks>> /\ UNCHANGED hubVars /\ tasks' = [tasks EXCEPT ![t] = w]
  BY DEF AnswerStatus, At, PageStays, HubStays, PageInv, PageTypes, TaskFine
<1>2. attempt[r] \in Nat /\ status[r] \in Statuses /\ log[r] \in Nat /\ log' = log
  BY <1>1 DEF LogTypes, hubVars
<1>3. /\ waits \in TaskRecords /\ waits.kind = "follow" /\ waits.route = r /\ waits.pc = "askStatus"
      /\ waits.after = task.after /\ waits.known = task.known
  BY <1>1, <1>2 DEF TaskRecords
<1>4. /\ read \in TaskRecords /\ read.kind = "follow" /\ read.route = r /\ read.pc = "askEvents"
      /\ read.after = task.after /\ read.known = log[r]
  BY <1>1, <1>2 DEF TaskRecords
<1> HIDE DEF waits, read
<1>5. LogGrows
  BY <1>1, StillGrows
<1>6. ASSUME KeepsUp(task, modal, log) PROVE KeepsUp(waits, modal', log') /\ KeepsUp(read, modal', log')
  BY <1>1, <1>2, <1>3, <1>4, <1>6 DEF KeepsUp
<1>7. w \in TaskRecords /\ w.kind = "follow" /\ w.route = r
  BY <1>3, <1>4
<1>8. KeepsUp(task, modal, log) => KeepsUp(w, modal', log')
  BY <1>6
<1> HIDE DEF w
<1> QED BY <1>1, <1>5, <1>7, <1>8, OneOfOthers

LEMMA AnswerEventsKeeps ==
  ASSUME PageInv, LogTypes, NEW t \in Tasks, AnswerEvents(t)
  PROVE  PageInv'
<1> DEFINE task == tasks[t]
           r == task.route
           batch == EventsAfter(log, r, task.after)
           x == [task EXCEPT !.batch = batch]
           w == [x EXCEPT !.pc = "render"]
<1>1. /\ task.kind \in {"follow", "refresh", "connection"} /\ task \in TaskRecords /\ r \in Routes
      /\ UNCHANGED <<modal, clicks>> /\ UNCHANGED hubVars
      /\ task.kind = "follow" => task.pc = "askEvents"
  BY DEF AnswerEvents, At, PageStays, HubStays, PageInv, PageTypes, TaskFine
<1>2. tasks' = [tasks EXCEPT ![t] = w]
  BY DEF AnswerEvents
<1>3. log \in [Routes -> Nat] /\ log' = log /\ task.after \in Nat
  BY <1>1 DEF LogTypes, hubVars, TaskRecords
<1>4. batch \in Seq(Stages)
  BY <1>1, <1>3, BatchTypes
<1> HIDE DEF batch
<1>5. x \in TaskRecords /\ x.kind = task.kind /\ x.route = r /\ x.after = task.after
      /\ x.known = task.known /\ x.batch = batch
  BY <1>1, <1>4 DEF TaskRecords
<1> HIDE DEF x
<1>6. w \in TaskRecords /\ w.kind = task.kind /\ w.route = r /\ w.after = task.after
      /\ w.known = task.known /\ w.batch = batch /\ w.pc = "render"
  BY <1>5 DEF TaskRecords
<1> HIDE DEF w
<1>7. LogGrows
  BY <1>1, StillGrows
<1>8. ASSUME task.kind = "follow", KeepsUp(task, modal, log) PROVE KeepsUp(w, modal', log')
  <2>1. /\ Covers(modal.rows, r, task.after) /\ task.known <= log[r] /\ task.known \in Nat
        /\ modal.route = r
    BY <1>1, <1>8 DEF KeepsUp, TaskRecords
  <2>2. LET all == modal.rows \cup Range(batch)
        IN  Covers(all, r, task.known) /\ Covers(all, r, LastOf(batch, task.after))
    BY <1>1, <1>3, <2>1, EventsCover DEF batch
  <2> QED BY <1>1, <1>6, <2>1, <2>2 DEF KeepsUp
<1> QED BY <1>1, <1>2, <1>6, <1>7, <1>8, OneOfOthers

LEMMA AnswerResultKeeps ==
  ASSUME PageInv, LogTypes, NEW t \in Tasks, AnswerResult(t)
  PROVE  PageInv'
<1> DEFINE w == [tasks[t] EXCEPT !.pc = "result"]
<1>1. /\ tasks[t].kind = "follow" /\ tasks[t].pc = "askResult" /\ tasks[t] \in TaskRecords
      /\ UNCHANGED <<modal, clicks>> /\ UNCHANGED hubVars /\ tasks' = [tasks EXCEPT ![t] = w]
  BY DEF AnswerResult, At, Goto, PageStays, HubStays, PageInv, PageTypes
<1>2. /\ w \in TaskRecords /\ w.kind = "follow" /\ w.route = tasks[t].route /\ w.pc = "result"
      /\ w.known = tasks[t].known
  BY <1>1 DEF TaskRecords
<1> HIDE DEF w
<1>3. KeepsUp(tasks[t], modal, log) => KeepsUp(w, modal', log')
  BY <1>1, <1>2 DEF KeepsUp
<1>4. LogGrows
  BY <1>1, StillGrows
<1> QED BY <1>1, <1>2, <1>3, <1>4, OneOfOthers

(* A restart fails every request on its way.                               *)
LEMMA HubRestartsKeeps ==
  ASSUME PageInv, LogInv, NEW swept \in SUBSET Routes, HubRestarts(swept)
  PROVE  LogInv' /\ LogGrows /\ PageInv'
<1>1. RestartHub(swept) /\ UNCHANGED <<modal, clicks>>
  BY DEF HubRestarts, PageStays
<1>2. LogInv' /\ \A q \in Routes : log'[q] >= log[q]
  BY <1>1, RestartHubKeeps
<1>3. LogGrows
  BY <1>2 DEF LogGrows, LogInv
<1>4. /\ tasks' = [t \in Tasks |-> IF Asking(tasks[t]) THEN Failed(tasks[t]) ELSE tasks[t]]
      /\ \A t \in Tasks : tasks[t] \in TaskRecords /\ TaskFine(tasks[t], t, clicks)
  BY DEF HubRestarts, PageInv, PageTypes
<1>5. ASSUME NEW t \in Tasks, Asking(tasks[t])
      PROVE  /\ tasks'[t] \in TaskRecords /\ TaskFine(tasks'[t], t, clicks)
             /\ \/ tasks'[t] = NoTask
                \/ tasks'[t].kind = tasks[t].kind
                     /\ (KeepsUp(tasks[t], modal, log) => KeepsUp(tasks'[t], modal, log'))
  <2>1. tasks'[t] = Failed(tasks[t])
    BY <1>4, <1>5
  <2>2. tasks[t].kind # "none" /\ tasks[t].route \in Routes /\ tasks[t] \in TaskRecords /\ t <= clicks
    BY <1>4, <1>5 DEF Asking, TaskFine
  <2>3. /\ tasks'[t] \in TaskRecords
        /\ tasks'[t] = NoTask \/
             /\ tasks'[t].route = tasks[t].route /\ tasks'[t].kind = tasks[t].kind
             /\ KeepsUp(tasks[t], modal, log) => KeepsUp(tasks'[t], modal, log')
    BY <1>3, <1>5, <2>1, <2>2, FailedFine
  <2>4. TaskFine(tasks'[t], t, clicks)
    BY <2>2, <2>3, NoTaskFine DEF TaskFine
  <2> QED BY <2>3, <2>4
<1>6. \A t \in Tasks : ~Asking(tasks[t]) => tasks'[t] = tasks[t]
  BY <1>4
<1>7. PageTypes'
  <2>1. \A t \in Tasks : tasks'[t] \in TaskRecords /\ TaskFine(tasks'[t], t, clicks)
    BY <1>4, <1>5, <1>6
  <2>2. tasks' \in [Tasks -> TaskRecords]
    BY <1>4, <2>1
  <2> QED BY <1>1, <2>1, <2>2 DEF PageInv, PageTypes
<1>8. CASE modal.kind = "follow"
  <2> DEFINE s == modal.opener
  <2>1. s \in Tasks
    BY <1>8, PageAssumption DEF PageInv, PageTypes, DialogFine, Tasks
  <2>2. tasks[s].kind \in {"none", "follow"} /\ (tasks[s].kind = "follow" => KeepsUp(tasks[s], modal, log))
    BY <1>8 DEF PageInv, Owned
  <2>3. CASE Asking(tasks[s])
    <3>1. /\ tasks'[s].kind \in {"none", "follow"}
          /\ tasks'[s].kind = "follow" => KeepsUp(tasks'[s], modal, log')
      BY <1>5, <2>1, <2>2, <2>3, NoTaskFine
    <3> QED BY <1>1, <1>2, <1>3, <1>7, <3>1 DEF PageInv, Owned, FinishedShowsAll
  <2>4. CASE ~Asking(tasks[s])
    <3>1. Owned' /\ FinishedShowsAll'
      BY <1>1, <1>3, <1>6, <2>1, <2>4, ModalGrown, OwnerAlone
    <3> QED BY <1>2, <1>3, <1>7, <3>1 DEF PageInv
  <2> QED BY <2>3, <2>4
<1>9. CASE modal.kind # "follow"
  BY <1>1, <1>2, <1>3, <1>7, <1>9 DEF PageInv, Owned, FinishedShowsAll
<1> QED BY <1>8, <1>9

-----------------------------------------------------------------------------
(* The callbacks of the page.  Rows are added to the dialog that is open.  *)
Shown(batch) ==
  IF HasScroll THEN [modal EXCEPT !.rows = RenderTimelineEvents(@, batch)] ELSE modal

LEMMA ShownIsFine ==
  ASSUME PageTypes, NEW batch \in Seq(Stages)
  PROVE  /\ DialogFine(Shown(batch), clicks) /\ Grown(modal, Shown(batch))
         /\ HasScroll => Shown(batch).rows = modal.rows \cup Range(batch)
<1>1. modal \in Dialogs /\ Range(batch) \subseteq Stages
  <2>1. 0 \in Nat
    OBVIOUS
  <2> QED BY <2>1, LastOfTypes DEF PageTypes, DialogFine
<1>2. CASE HasScroll
  <2> DEFINE rows == modal.rows \cup Range(batch)
             d == [modal EXCEPT !.rows = rows]
  <2>1. Shown(batch) = d
    BY <1>2 DEF Shown, RenderTimelineEvents
  <2>2. rows \in SUBSET Stages
    BY <1>1 DEF Dialogs
  <2>3. modal.rows \subseteq rows
    OBVIOUS
  <2> HIDE DEF rows
  <2>4. /\ d \in Dialogs /\ d.kind = modal.kind /\ d.route = modal.route /\ d.opener = modal.opener
        /\ d.over = modal.over /\ d.known = modal.known /\ d.rows = rows
    BY <1>1, <2>2 DEF Dialogs
  <2> HIDE DEF d
  <2> QED BY <2>1, <2>3, <2>4 DEF PageTypes, DialogFine, Grown, rows
<1>3. CASE ~HasScroll
  BY <1>3, ModalGrown DEF Shown, PageTypes
<1> QED BY <1>2, <1>3

LEMMA EndKeepsPage ==
  ASSUME PageInv, LogGrows, NEW t \in Tasks, Done(t), tasks[t].kind # "none",
         UNCHANGED <<modal, clicks>>
  PROVE  PageInv'
<1>1. tasks' = [tasks EXCEPT ![t] = NoTask] /\ NoTask \in TaskRecords /\ NoTask.kind = "none"
  BY NoTaskFine DEF Done
<1> QED BY <1>1, OneOfOthers

(* The dialog of the chain that goes on, when it is the page's.            *)
LEMMA OwnerKeepsUp ==
  ASSUME PageInv, NEW t \in Tasks, tasks[t].kind = "follow",
         modal.kind = "follow", modal.opener = t
  PROVE  KeepsUp(tasks[t], modal, log)
BY DEF PageInv, Owned

LEMMA TickKeeps ==
  ASSUME PageInv, LogTypes, NEW t \in Tasks, Tick(t)
  PROVE  PageInv'
<1> DEFINE task == tasks[t]
           r == task.route
           shown == Shown(task.batch)
           after == IF HasScroll THEN LastOf(task.batch, task.after) ELSE task.after
<1>1. /\ task.kind = "follow" /\ task.pc = "render" /\ task \in TaskRecords /\ r \in Routes
      /\ clicks' = clicks /\ UNCHANGED hubVars
  BY DEF Tick, At, HubStays, PageInv, PageTypes, TaskFine
<1>2. LogGrows
  BY <1>1, StillGrows
<1>3. /\ task.batch \in Seq(Stages) /\ task.after \in Nat /\ task.known \in Nat
      /\ LastOf(task.batch, task.after) \in Nat
  <2>1. task.batch \in Seq(Stages) /\ task.after \in Nat /\ task.known \in Nat
    BY <1>1 DEF TaskRecords
  <2> QED BY <2>1, LastOfTypes
<1>4. /\ DialogFine(shown, clicks) /\ Grown(modal, shown)
      /\ HasScroll => shown.rows = modal.rows \cup Range(task.batch)
  BY <1>3, ShownIsFine DEF PageInv
<1>5. modal.kind = "follow" /\ KeepsUp(task, modal, log) =>
        /\ shown.route = r /\ Covers(shown.rows, r, task.known)
        /\ Covers(shown.rows, r, LastOf(task.batch, task.after))
  BY <1>1, <1>4 DEF KeepsUp, Grown, HasScroll
<1>6. CASE Done(t) /\ UNCHANGED modal
  BY <1>1, <1>2, <1>6, EndKeepsPage
<1>7. CASE FinishInto(shown, t)
  <2>1. modal.kind = "follow" /\ modal.opener = t =>
          shown.route = r /\ Covers(shown.rows, r, task.known)
    BY <1>1, <1>5, OwnerKeepsUp
  <2> HIDE DEF shown
  <2> QED BY <1>1, <1>2, <1>4, <1>7, <2>1, FinishKeeps
<1>8. ASSUME NEW w \in TaskRecords, tasks' = [tasks EXCEPT ![t] = w], modal' = shown,
             w.kind = "follow", w.route = r,
             modal'.kind = "follow" /\ KeepsUp(task, modal, log) => KeepsUp(w, shown, log')
      PROVE  PageInv'
  <2>1. /\ clicks' \in 0..MaxClicks /\ clicks <= clicks' /\ t <= clicks'
    BY <1>1 DEF PageInv, PageTypes, TaskFine
  <2>2. TaskFine(w, t, clicks') /\ DialogFine(modal', clicks')
    BY <1>1, <1>4, <1>8, <2>1 DEF TaskFine
  <2>3. Grown(modal, modal')
    BY <1>4, <1>8
  <2>4. modal'.kind = "follow" /\ KeepsUp(tasks[t], modal, log) => KeepsUp(w, modal', log')
    BY <1>8
  <2> QED BY <1>1, <1>2, <1>8, <2>1, <2>2, <2>3, <2>4, PageChanges
<1>9. ASSUME modal' = shown, task.got = "ACTIVE",
             tasks' = [tasks EXCEPT ![t] = [task EXCEPT !.batch = << >>, !.pc = "askResult"]]
      PROVE  PageInv'
  <2> DEFINE x == [task EXCEPT !.batch = << >>]
             w == [x EXCEPT !.pc = "askResult"]
  <2>1. tasks' = [tasks EXCEPT ![t] = w]
    BY <1>9
  <2>2. x \in TaskRecords /\ x.kind = "follow" /\ x.route = r /\ x.known = task.known
    BY <1>1, EmptySeq DEF TaskRecords
  <2> HIDE DEF x
  <2>3. /\ w \in TaskRecords /\ w.kind = "follow" /\ w.route = r /\ w.known = task.known
        /\ w.pc = "askResult"
    BY <2>2 DEF TaskRecords
  <2> HIDE DEF w
  <2>4. modal'.kind = "follow" /\ KeepsUp(task, modal, log) => KeepsUp(w, shown, log')
    BY <1>4, <1>5, <1>9, <2>3 DEF KeepsUp, Grown
  <2> QED BY <1>8, <1>9, <2>1, <2>3, <2>4
<1>10. ASSUME modal' = shown,
              tasks' = [tasks EXCEPT ![t] = [NoTask EXCEPT !.kind = "follow", !.route = r,
                                                           !.after = after, !.pc = "timer"]]
       PROVE  PageInv'
  <2> DEFINE x == [NoTask EXCEPT !.kind = "follow"]
             y == [x EXCEPT !.route = r]
             z == [y EXCEPT !.after = after]
             w == [z EXCEPT !.pc = "timer"]
  <2>1. tasks' = [tasks EXCEPT ![t] = w] /\ after \in Nat
    BY <1>3, <1>10
  <2>2. modal'.kind = "follow" => after = LastOf(task.batch, task.after)
    BY <1>4, <1>10 DEF HasScroll, Grown
  <2> HIDE DEF after
  <2>3. NoTask \in TaskRecords /\ NoTask.known = 0
    BY NoTaskFine DEF NoTask
  <2>4. x \in TaskRecords /\ x.kind = "follow" /\ x.known = 0
    BY <2>3 DEF TaskRecords
  <2> HIDE DEF x
  <2>5. y \in TaskRecords /\ y.kind = "follow" /\ y.route = r /\ y.known = 0
    BY <1>1, <2>4 DEF TaskRecords
  <2> HIDE DEF y
  <2>6. z \in TaskRecords /\ z.kind = "follow" /\ z.route = r /\ z.after = after /\ z.known = 0
    BY <2>1, <2>5 DEF TaskRecords
  <2> HIDE DEF z
  <2>7. /\ w \in TaskRecords /\ w.kind = "follow" /\ w.route = r /\ w.after = after /\ w.known = 0
        /\ w.pc = "timer"
    BY <2>6 DEF TaskRecords
  <2> HIDE DEF w
  <2>8. modal'.kind = "follow" /\ KeepsUp(task, modal, log) => KeepsUp(w, shown, log')
    <3> SUFFICES ASSUME modal'.kind = "follow", KeepsUp(task, modal, log)
                 PROVE  KeepsUp(w, shown, log')
      OBVIOUS
    <3>1. modal.kind = "follow"
      BY <1>4, <1>10 DEF Grown
    <3> QED BY <1>5, <2>2, <2>7, <3>1 DEF KeepsUp
  <2> QED BY <1>8, <1>10, <2>1, <2>7, <2>8
<1> QED BY <1>6, <1>7, <1>9, <1>10 DEF Tick, Shown

LEMMA ShowResultKeeps ==
  ASSUME PageInv, LogTypes, NEW t \in Tasks, ShowResult(t)
  PROVE  PageInv'
<1>1. /\ tasks[t].kind = "follow" /\ tasks[t].pc \in {"result", "noResult"}
      /\ clicks' = clicks /\ UNCHANGED hubVars
  BY DEF ShowResult, At, HubStays
<1>2. LogGrows
  BY <1>1, StillGrows
<1>3. CASE FinishInto(modal, t)
  <2>1. modal.kind = "follow" /\ modal.opener = t =>
          modal.route = tasks[t].route /\ Covers(modal.rows, tasks[t].route, tasks[t].known)
    BY <1>1, OwnerKeepsUp DEF KeepsUp
  <2>2. DialogFine(modal, clicks)
    BY DEF PageInv, PageTypes
  <2> QED BY <1>1, <1>2, <1>3, <2>1, <2>2, ModalGrown, FinishKeeps
<1>4. CASE Done(t) /\ UNCHANGED modal
  BY <1>1, <1>2, <1>4, EndKeepsPage
<1> QED BY <1>3, <1>4 DEF ShowResult

LEMMA PollAgainKeeps ==
  ASSUME PageInv, LogTypes, NEW t \in Tasks, PollAgain(t)
  PROVE  PageInv'
<1>1. /\ tasks[t].pc = "timer" /\ tasks[t] \in TaskRecords /\ UNCHANGED <<modal, clicks>>
      /\ UNCHANGED hubVars
  BY DEF PollAgain, PageStays, HubStays, PageInv, PageTypes
<1>2. LogGrows
  BY <1>1, StillGrows
<1>3. tasks[t].kind # "none"
  BY <1>1 DEF PageInv, PageTypes, TaskFine
<1>4. CASE Done(t)
  BY <1>1, <1>2, <1>3, <1>4, EndKeepsPage
<1>5. ASSUME NEW pc \in {"askStatus", "ask"}, Goto(t, pc),
             tasks[t].kind = "follow" => pc = "askStatus"
      PROVE  PageInv'
  <2> DEFINE w == [tasks[t] EXCEPT !.pc = pc]
  <2>1. /\ w \in TaskRecords /\ w.kind = tasks[t].kind /\ w.route = tasks[t].route /\ w.pc = pc
        /\ w.after = tasks[t].after /\ w.known = tasks[t].known
    BY <1>1 DEF TaskRecords
  <2>2. tasks' = [tasks EXCEPT ![t] = w]
    BY <1>5 DEF Goto
  <2> HIDE DEF w
  <2>3. tasks[t].kind = "follow" /\ KeepsUp(tasks[t], modal, log) => KeepsUp(w, modal', log')
    BY <1>1, <1>5, <2>1 DEF KeepsUp
  <2> QED BY <1>1, <1>2, <1>3, <2>1, <2>2, <2>3, OneOfOthers
<1> QED BY <1>4, <1>5 DEF PollAgain

LEMMA ShowTimelineKeeps ==
  ASSUME PageInv, LogTypes, NEW t \in Tasks, ShowTimeline(t)
  PROVE  PageInv'
<1> DEFINE x == [tasks[t] EXCEPT !.kind = "refresh"]
           w == [x EXCEPT !.pc = "ask"]
<1>1. /\ tasks[t].kind = "open" /\ tasks[t] \in TaskRecords /\ tasks[t].route \in Routes
      /\ t \in 1..clicks /\ clicks \in Nat /\ clicks' \in 0..MaxClicks
      /\ clicks' = clicks /\ modal' = Dialog("timeline", tasks[t].route, t)
      /\ UNCHANGED hubVars
  BY DEF ShowTimeline, At, HubStays, PageInv, PageTypes, TaskFine, Tasks
<1>8. tasks' = [tasks EXCEPT ![t] = w]
  BY DEF ShowTimeline
<1>2. LogGrows
  BY <1>1, StillGrows
<1>3. x \in TaskRecords /\ x.kind = "refresh" /\ x.route = tasks[t].route
  BY <1>1 DEF TaskRecords
<1> HIDE DEF x
<1>4. w \in TaskRecords /\ w.kind = "refresh" /\ w.route = tasks[t].route
  BY <1>3 DEF TaskRecords
<1> HIDE DEF w
<1>5. DialogFine(modal', clicks) /\ modal'.kind = "timeline"
  BY <1>1, DialogsAreFine
<1>6. TaskFine(w, t, clicks') /\ DialogFine(modal', clicks') /\ clicks <= clicks'
  BY <1>1, <1>4, <1>5 DEF TaskFine
<1>7. modal'.kind # "follow"
  BY <1>5
<1> QED BY <1>1, <1>2, <1>6, <1>7, <1>8, PageChanges

LEMMA ShowRefreshedKeeps ==
  ASSUME PageInv, LogTypes, NEW t \in Tasks, ShowRefreshed(t)
  PROVE  PageInv'
<1>1. /\ tasks[t] \in TaskRecords /\ clicks' = clicks /\ clicks \in Nat /\ clicks' \in 0..MaxClicks
      /\ modal' = Shown(tasks[t].batch) /\ tasks' = [tasks EXCEPT ![t] = NoTask] /\ UNCHANGED hubVars
  BY DEF ShowRefreshed, Done, HubStays, PageInv, PageTypes, Shown
<1>2. LogGrows
  BY <1>1, StillGrows
<1>3. tasks[t].batch \in Seq(Stages)
  BY <1>1 DEF TaskRecords
<1>4. DialogFine(modal', clicks') /\ Grown(modal, modal')
  BY <1>1, <1>3, ShownIsFine DEF PageInv
<1>5. TaskFine(NoTask, t, clicks') /\ NoTask.kind = "none" /\ clicks <= clicks'
  BY <1>1, NoTaskFine
<1> QED BY <1>1, <1>2, <1>4, <1>5, PageChanges

LEMMA ShowStagesKeeps ==
  ASSUME PageInv, LogTypes, NEW t \in Tasks, ShowStages(t)
  PROVE  PageInv'
<1> DEFINE task == tasks[t]
<1>1. /\ task.kind = "connection" /\ task \in TaskRecords /\ task.route \in Routes
      /\ t <= clicks /\ clicks \in Nat /\ clicks' = clicks /\ clicks' \in 0..MaxClicks
      /\ UNCHANGED hubVars
  BY DEF ShowStages, At, HubStays, PageInv, PageTypes, TaskFine
<1>2. LogGrows
  BY <1>1, StillGrows
<1>3. /\ task.batch \in Seq(Stages) /\ Range(task.batch) \subseteq Stages
      /\ LastOf(task.batch, task.after) \in Nat
  <2>1. task.batch \in Seq(Stages) /\ task.after \in Nat
    BY <1>1 DEF TaskRecords
  <2> QED BY <2>1, LastOfTypes
<1>4. DialogFine(modal', clicks') /\ (modal'.kind = "follow" => Grown(modal, modal'))
  <2>1. CASE modal' = modal
    BY <1>1, <2>1, ModalGrown DEF PageInv, PageTypes
  <2>2. CASE modal' = [modal EXCEPT !.rows = Range(task.batch)] /\ modal.kind = "connection"
    <3>1. modal \in Dialogs
      BY DEF PageInv, PageTypes, DialogFine
    <3>2. /\ modal' \in Dialogs /\ modal'.kind = "connection" /\ modal'.route = modal.route
          /\ modal'.opener = modal.opener
      BY <1>3, <2>2, <3>1 DEF Dialogs
    <3> QED BY <1>1, <2>2, <3>2 DEF PageInv, PageTypes, DialogFine
  <2> QED BY <2>1, <2>2 DEF ShowStages
<1>5. CASE Done(t)
  <2>1. tasks' = [tasks EXCEPT ![t] = NoTask] /\ NoTask.kind = "none"
    BY <1>5, NoTaskFine DEF Done
  <2>2. TaskFine(NoTask, t, clicks') /\ clicks <= clicks'
    BY <1>1, NoTaskFine
  <2> QED BY <1>1, <1>2, <1>4, <2>1, <2>2, PageChanges
<1>6. CASE tasks' = [tasks EXCEPT ![t].pc = "timer", ![t].batch = << >>,
                       ![t].after = LastOf(task.batch, @)]
  <2> DEFINE x == [task EXCEPT !.pc = "timer"]
             y == [x EXCEPT !.batch = << >>]
             w == [y EXCEPT !.after = LastOf(task.batch, task.after)]
  <2>1. x \in TaskRecords /\ x.kind = "connection" /\ x.route = task.route /\ x.after = task.after
    BY <1>1 DEF TaskRecords
  <2>2. tasks' = [tasks EXCEPT ![t] = w]
    BY <1>6
  <2> HIDE DEF x
  <2>3. y \in TaskRecords /\ y.kind = "connection" /\ y.route = task.route
    BY <2>1, EmptySeq DEF TaskRecords
  <2> HIDE DEF y
  <2>4. w \in TaskRecords /\ w.kind = "connection" /\ w.route = task.route
    BY <1>3, <2>3 DEF TaskRecords
  <2> HIDE DEF w
  <2>5. TaskFine(w, t, clicks') /\ clicks <= clicks'
    BY <1>1, <2>4 DEF TaskFine
  <2> QED BY <1>1, <1>2, <1>4, <2>2, <2>5, PageChanges
<1> QED BY <1>5, <1>6 DEF ShowStages

LEMMA FillDialogKeeps ==
  ASSUME PageInv, LogTypes, NEW t \in Tasks, FillDialog(t)
  PROVE  PageInv'
<1>1. /\ tasks[t].route \in Routes /\ t \in 1..clicks /\ clicks \in Nat
      /\ clicks' \in 0..MaxClicks /\ clicks' = clicks
      /\ modal' = Dialog("dialog", tasks[t].route, t)
      /\ tasks' = [tasks EXCEPT ![t] = NoTask] /\ UNCHANGED hubVars
  BY DEF FillDialog, At, Done, HubStays, PageInv, PageTypes, TaskFine, Tasks
<1>2. LogGrows
  BY <1>1, StillGrows
<1>3. DialogFine(modal', clicks') /\ modal'.kind = "dialog"
  BY <1>1, DialogsAreFine
<1>4. TaskFine(NoTask, t, clicks') /\ NoTask.kind = "none" /\ clicks <= clicks'
  BY <1>1, NoTaskFine
<1> QED BY <1>1, <1>2, <1>3, <1>4, PageChanges

LEMMA CallbackKeeps ==
  ASSUME PageInv, LogInv, NEW t \in Tasks, Callback(t)
  PROVE  LogInv' /\ PageInv'
<1>1. LogTypes
  BY DEF LogInv
<1>2. UNCHANGED <<hubVars, pollVars>>
  BY DEF Callback, StartProvisioningTimeline, Tick, ShowResult, PollAgain, ShowTimeline,
         ShowRefreshed, ShowStages, FillDialog, HubStays
<1>3. LogInv' /\ LogGrows
  BY <1>1, <1>2, HubStaysKeeps, StillGrows
<1> QED BY <1>1, <1>3, StartTimelineKeeps, TickKeeps, ShowResultKeeps, PollAgainKeeps,
           ShowTimelineKeeps, ShowRefreshedKeeps, ShowStagesKeeps, FillDialogKeeps DEF Callback

LEMMA TimelinesKeep ==
  ASSUME LogInv, PageInv, [Next]_vars
  PROVE  LogInv' /\ PageInv'
<1>1. LogTypes
  BY DEF LogInv
<1>2. CASE UNCHANGED vars
  <2>1. /\ UNCHANGED <<hubVars, pollVars>> /\ UNCHANGED <<modal, tasks, clicks>>
    BY <1>2 DEF vars, pageVars
  <2>2. LogInv' /\ LogGrows
    BY <1>1, <2>1, HubStaysKeeps, StillGrows
  <2>3. PageTypes'
    BY <2>1 DEF PageInv, PageTypes
  <2> QED BY <2>1, <2>2, <2>3, ModalGrown, OwnerAlone DEF PageInv
<1>3. CASE HubStep
  <2>1. LogInv' /\ LogGrows
    <3>1. ASSUME NEW p \in Pollers, WaitExpires(p) \/ \E r \in Routes : Poll(p, r)
          PROVE  LogInv' /\ \A q \in Routes : log'[q] >= log[q]
      BY <3>1, WaitExpiresKeeps, PollKeeps
    <3>2. LogInv' /\ \A q \in Routes : log'[q] >= log[q]
      BY <1>3, <3>1, RunKeeps DEF HubStep
    <3> QED BY <1>1, <3>2 DEF LogGrows, LogInv
  <2>2. UNCHANGED <<modal, tasks, clicks>>
    BY <1>3 DEF HubStep, pageVars
  <2>3. PageTypes'
    BY <2>2 DEF PageInv, PageTypes
  <2> QED BY <2>1, <2>2, <2>3, ModalGrown, OwnerAlone DEF PageInv
<1>4. CASE Operator
  <2>1. UNCHANGED <<hubVars, pollVars>>
    BY <1>4 DEF Operator, ClickProvision, ClickTimeline, ClickDialog, ClickConnection,
                ClickRefresh, Escape, CloseTimeline, HubStays
  <2> QED BY <1>1, <1>4, <2>1, HubStaysKeeps, OperatorKeeps
<1>5. ASSUME NEW t \in Tasks, Answer(t) PROVE LogInv' /\ PageInv'
  <2>1. CASE AnswerPost(t)
    <3>1. CASE StartRun(tasks[t].route)
      <4>1. tasks[t].route \in Routes
        BY <2>1 DEF AnswerPost, At, PageInv, PageTypes, TaskFine
      <4> QED BY <2>1, <3>1, <4>1, RunKeeps, AnswerPostKeeps
    <3>2. CASE HubStays
      BY <2>1, <3>2, HubStaysKeeps, AnswerPostKeeps DEF HubStays
    <3> QED BY <2>1, <3>1, <3>2 DEF AnswerPost
  <2>2. CASE AnswerStatus(t)
    BY <1>1, <2>2, HubStaysKeeps, AnswerStatusKeeps DEF AnswerStatus, HubStays
  <2>3. CASE AnswerEvents(t)
    BY <1>1, <2>3, HubStaysKeeps, AnswerEventsKeeps DEF AnswerEvents, HubStays
  <2>4. CASE AnswerResult(t)
    BY <1>1, <2>4, HubStaysKeeps, AnswerResultKeeps DEF AnswerResult, HubStays
  <2> QED BY <1>5, <2>1, <2>2, <2>3, <2>4 DEF Answer
<1>6. ASSUME NEW t \in Tasks, Lose(t) PROVE LogInv' /\ PageInv'
  BY <1>1, <1>6, HubStaysKeeps, LoseKeeps DEF Lose, HubStays
<1> QED BY <1>2, <1>3, <1>4, <1>5, <1>6, CallbackKeeps, HubRestartsKeeps DEF Next

LEMMA TimelinesStart == Init => LogInv /\ PageInv
<1> SUFFICES ASSUME Init PROVE LogInv /\ PageInv
  OBVIOUS
<1>1. /\ LogInit /\ modal = NoModal /\ clicks = 0 /\ tasks = [t \in Tasks |-> NoTask]
  BY DEF Init
<1>2. clicks \in 0..MaxClicks
  BY <1>1, PageAssumption
<1>3. DialogFine(modal, clicks) /\ modal.kind = "none"
  BY <1>1, NoModalFine
<1>4. \A t \in Tasks : TaskFine(tasks[t], t, clicks)
  BY <1>1, NoTaskFine
<1>5. tasks \in [Tasks -> TaskRecords]
  BY <1>1, NoTaskFine
<1> QED BY <1>1, <1>2, <1>3, <1>4, <1>5, LogStarts
        DEF PageInv, PageTypes, Owned, FinishedShowsAll

(* A poller that is not waiting for a route is not waiting at all.         *)
Idle == \A p \in Pollers : waiters[p].route = 0 => waiters[p] = NoWait

LEMMA IdleKeeps ==
  ASSUME LogInv, PageInv, Idle, [Next]_vars
  PROVE  Idle'
<1> DEFINE Frees == \A p \in Pollers :
                      waiters'[p] \in {waiters[p], NoWait} \/ waiters'[p].route # 0
<1>1. ASSUME Frees PROVE Idle'
  BY <1>1 DEF Idle
<1>2. ASSUME UNCHANGED waiters PROVE Frees
  BY <1>2
<1>3. ASSUME NEW r, Event(r) PROVE Frees
  BY <1>3 DEF Event
<1>4. ASSUME NEW r \in Routes, StartRun(r) PROVE Frees
  BY <1>3, <1>4 DEF StartRun
<1>5. waiters \in [Pollers -> [route : Routes \cup {0}, after : Nat]]
  BY DEF LogInv
<1>6. ASSUME NEW p \in Pollers, NEW r \in Routes, Poll(p, r) PROVE Frees
  <2>1. r # 0
    BY LogAssumption
  <2>2. \/ UNCHANGED waiters
        \/ \E after : waiters' = [waiters EXCEPT ![p] = [route |-> r, after |-> after]]
    BY <1>6 DEF Poll, WaitForEvent
  <2> QED BY <1>2, <1>5, <2>1, <2>2
<1>7. ASSUME HubStep PROVE Frees
  <2>1. ASSUME NEW r \in Routes, Stage(r) \/ Settle(r) \/ TimeOut(r) PROVE Frees
    BY <1>2, <1>3, <2>1 DEF Stage, Settle, TimeOut, Quiet, pollVars
  <2>2. ASSUME NEW r, NEW a, NEW verdict, Publish(r, a, verdict) PROVE Frees
    BY <1>3, <2>2 DEF Publish
  <2>3. ASSUME NEW p \in Pollers, WaitExpires(p) PROVE Frees
    BY <1>5, <2>3 DEF WaitExpires
  <2> QED BY <1>4, <1>6, <1>7, <2>1, <2>2, <2>3 DEF HubStep
<1>8. ASSUME Operator PROVE Frees
  BY <1>2, <1>8 DEF Operator, ClickProvision, ClickTimeline, ClickDialog, ClickConnection,
                    ClickRefresh, Escape, CloseTimeline, HubStays, pollVars
<1>9. ASSUME NEW t \in Tasks, Answer(t) PROVE Frees
  <2>1. AnswerPost(t) => tasks[t].route \in Routes
    BY <1>9 DEF AnswerPost, At, PageInv, PageTypes, TaskFine
  <2> QED BY <1>2, <1>4, <1>9, <2>1 DEF Answer, AnswerPost, AnswerStatus, AnswerEvents,
                                       AnswerResult, HubStays, pollVars
<1>10. ASSUME NEW t \in Tasks, Callback(t) \/ Lose(t) PROVE Frees
  BY <1>2, <1>10 DEF Callback, StartProvisioningTimeline, Tick, ShowResult, PollAgain,
         ShowTimeline, ShowRefreshed, ShowStages, FillDialog, Lose, HubStays, pollVars
<1>11. ASSUME NEW swept \in SUBSET Routes, HubRestarts(swept) PROVE Frees
  BY <1>11 DEF HubRestarts, RestartHub
<1>12. ASSUME UNCHANGED vars PROVE Frees
  BY <1>2, <1>12 DEF vars, pollVars
<1> HIDE DEF Frees
<1> QED BY <1>1, <1>7, <1>8, <1>9, <1>10, <1>11, <1>12 DEF Next

(* A client that waits has every event of the route so far, once.          *)
THEOREM NoWakeupIsLost == Spec => []NoLostWakeup
<1>1. Init => LogInv /\ PageInv /\ Idle
  BY TimelinesStart DEF Init, LogInit, Idle
<1>2. LogInv /\ PageInv /\ Idle /\ [Next]_vars => (LogInv /\ PageInv /\ Idle)'
  BY TimelinesKeep, IdleKeeps
<1>3. LogInv /\ Idle => NoLostWakeup
  <2> SUFFICES ASSUME LogInv, Idle, NEW p \in Pollers, waiters[p] # NoWait
               PROVE  heard[p][waiters[p].route] = EventsAfter(log, waiters[p].route, 0)
    BY DEF NoLostWakeup
  <2> DEFINE r == waiters[p].route
  <2>1. r \in Routes /\ log[r] \in Nat
    BY DEF LogInv, LogTypes, Idle
  <2>2. heard[p][r] = Beginning(r, log[r])
    BY <2>1, LogAssumption DEF LogInv
  <2>3. EventsAfter(log, r, 0) = Beginning(r, log[r])
    BY <2>1 DEF EventsAfter, Beginning
  <2> QED BY <2>2, <2>3
<1> QED BY <1>1, <1>2, <1>3, PTL DEF Spec

(* A finished timeline shows every stage logged before its final status.   *)
THEOREM FinishedAlwaysShowsAll == Spec => []FinishedShowsAll
<1>1. Init => LogInv /\ PageInv
  BY TimelinesStart
<1>2. LogInv /\ PageInv /\ [Next]_vars => (LogInv /\ PageInv)'
  BY TimelinesKeep
<1>3. PageInv => FinishedShowsAll
  BY DEF PageInv
<1> QED BY <1>1, <1>2, <1>3, PTL DEF Spec

(* A step of a page is one of its operator, or of one chain; a chain that  *)
(* is not current leaves the page as it is, unless it has lost its answer  *)
(* with the share link.                                                    *)
LEMMA OneAtATime ==
  ASSUME PageInv, NEW t \in Tasks, Answer(t) \/ Callback(t) \/ Lose(t)
  PROVE  \A s \in Tasks \ {t} : tasks'[s] = tasks[s]
<1>1. tasks \in [Tasks -> TaskRecords]
  BY DEF PageInv, PageTypes
<1>2. ASSUME NEW w, tasks' = [tasks EXCEPT ![t] = w]
      PROVE  \A s \in Tasks \ {t} : tasks'[s] = tasks[s]
  BY <1>1, <1>2
<1>3. \E w : tasks' = [tasks EXCEPT ![t] = w]
  <2>1. ASSUME NEW pc, Goto(t, pc) PROVE \E w : tasks' = [tasks EXCEPT ![t] = w]
    BY <2>1 DEF Goto
  <2>2. ASSUME Done(t) PROVE \E w : tasks' = [tasks EXCEPT ![t] = w]
    BY <2>2 DEF Done
  <2>3. CASE AnswerPost(t) \/ AnswerResult(t) \/ PollAgain(t)
    BY <2>1, <2>2, <2>3 DEF AnswerPost, AnswerResult, PollAgain
  <2>4. CASE AnswerStatus(t) \/ Lose(t)
    BY <2>4 DEF AnswerStatus, Lose
  <2>5. CASE AnswerEvents(t)
    <3>1. tasks' = [tasks EXCEPT ![t] =
             [@ EXCEPT !.batch = EventsAfter(log, tasks[t].route, tasks[t].after), !.pc = "render"]]
      BY <2>5 DEF AnswerEvents
    <3> QED BY <3>1
  <2>6. CASE StartProvisioningTimeline(t)
    BY <2>6 DEF StartProvisioningTimeline
  <2>7. CASE Tick(t) \/ ShowResult(t)
    BY <2>2, <2>7 DEF Tick, ShowResult, FinishInto
  <2>8. CASE ShowTimeline(t)
    <3>1. tasks' = [tasks EXCEPT ![t] = [@ EXCEPT !.kind = "refresh", !.pc = "ask"]]
      BY <2>8 DEF ShowTimeline
    <3> QED BY <3>1
  <2>9. CASE ShowRefreshed(t) \/ FillDialog(t)
    BY <2>2, <2>9 DEF ShowRefreshed, FillDialog
  <2>10. CASE ShowStages(t)
    <3>1. CASE Done(t)
      BY <2>2, <3>1
    <3>2. CASE tasks' = [tasks EXCEPT ![t].pc = "timer", ![t].batch = << >>,
                           ![t].after = LastOf(tasks[t].batch, @)]
      <4> DEFINE x == [tasks[t] EXCEPT !.pc = "timer"]
                 y == [x EXCEPT !.batch = << >>]
                 w == [y EXCEPT !.after = LastOf(tasks[t].batch, tasks[t].after)]
      <4>1. tasks' = [tasks EXCEPT ![t] = w]
        BY <1>1, <3>2
      <4> QED BY <4>1
    <3> QED BY <2>10, <3>1, <3>2 DEF ShowStages
  <2> QED BY <2>3, <2>4, <2>5, <2>6, <2>7, <2>8, <2>9, <2>10 DEF Answer, Callback
<1> QED BY <1>2, <1>3

(* A chain that has been stopped changes nothing on the page any more.     *)
THEOREM StaleAlwaysNeutral == Spec => StaleIsNeutral
<1> DEFINE Neutral == \A t \in Tasks :
             tasks[t].kind = "follow" /\ current # t /\ tasks[t].pc # "noResult"
               /\ tasks'[t] # tasks[t] => UNCHANGED <<current, modal>>
<1>1. Init => LogInv /\ PageInv
  BY TimelinesStart
<1>2. LogInv /\ PageInv /\ [Next]_vars => (LogInv /\ PageInv)'
  BY TimelinesKeep
<1>3. PageInv /\ [Next]_vars => [Neutral]_vars
  <2> SUFFICES ASSUME PageInv, Next, NEW t \in Tasks, tasks[t].kind = "follow", current # t,
                      tasks[t].pc # "noResult", tasks'[t] # tasks[t]
               PROVE  UNCHANGED <<current, modal>>
    OBVIOUS
  <2>1. CASE HubStep
    BY <2>1 DEF HubStep, pageVars
  <2>2. CASE Operator
    <3>1. ASSUME NEW kind, NEW r, NEW pc, NEW live, NewTask(kind, r, pc, live) PROVE FALSE
      <4>1. t # clicks + 1
        BY DEF PageInv, PageTypes, TaskFine, Tasks
      <4> QED BY <3>1, <4>1 DEF NewTask, PageInv, PageTypes
    <3>2. UNCHANGED tasks
      BY <2>2, <3>1 DEF Operator, ClickProvision, ClickTimeline, ClickDialog, ClickConnection,
                        ClickRefresh, Escape, CloseTimeline
    <3> QED BY <3>2
  <2>3. ASSUME NEW s \in Tasks, Answer(s) \/ Callback(s) \/ Lose(s)
        PROVE  UNCHANGED <<current, modal>>
    <3>1. s = t
      BY <2>3, OneAtATime
    <3> QED BY <2>3, <3>1 DEF Answer, AnswerPost, AnswerStatus, AnswerEvents, AnswerResult,
               Callback, StartProvisioningTimeline, Tick, ShowResult, PollAgain, ShowTimeline,
               ShowRefreshed, ShowStages, FillDialog, Lose, PageStays, At, StillCurrent
  <2>4. CASE \E swept \in SUBSET Routes : HubRestarts(swept)
    BY <2>4 DEF HubRestarts, PageStays
  <2> QED BY <2>1, <2>2, <2>3, <2>4 DEF Next
<1> QED BY <1>1, <1>2, <1>3, PTL DEF Spec, StaleIsNeutral
=============================================================================
