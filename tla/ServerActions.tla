--------------------------- MODULE ServerActions ----------------------------
(***************************************************************************)
(* The actions tab of the server drawer: the action forms of               *)
(* hub/public/app.js with the values they load, POST /servers/:id/action   *)
(* and POST /servers/:id/suggest-peer of hub/server/routes.js, and the     *)
(* preflight of hub/server/connectivity.js.                                *)
(*                                                                         *)
(* The page has one drawer and one dialog.  What a field holds is told by  *)
(* where it came from: nobody, the operator, or the server whose answer    *)
(* the page filled it in with.  The commands are left out: what matters of *)
(* one is that it begins.                                                  *)
(***************************************************************************)
EXTENDS WebTerminal, Sequences

CONSTANTS
  MaxForms,    \* bound: action forms opened
  MaxLoads,    \* bound: suggestions and resources asked for
  MaxRuns,     \* bound: actions sent
  MaxOutages,  \* bound: changes of the network between the servers
  NoValue, Typed

ASSUME ActionsAssumption ==
  /\ {MaxForms, MaxLoads, MaxRuns, MaxOutages} \subseteq Nat
  /\ NoValue # Typed /\ {NoValue, Typed} \cap (Servers \cup {0}) = {}

VARIABLES
  form,        \* the action form on the screen
  opened, outages,
  loads,       \* the values asked for, in order
  runs,        \* the actions sent, in order
  registered,  \* the ids of the servers table
  open,        \* the directions that let packets through
  paths        \* connectivity_checks: pair -> what the last check found

actionVars == <<form, opened, outages, loads, runs, registered, open, paths>>
pageVarsOfTab == <<terminalVars, form, opened>>
hubVarsOfTab  == <<outages, registered, open, paths>>

(* The actions with a form: the ones that build one end of a tunnel, which *)
(* load suggestions, and the ones that name an end that is there.          *)
Suggesting == {"peer_add", "node_add"}
Kinds      == Suggesting \cup {"peer_remove"}

NoForm == [no |-> 0, kind |-> "none", server |-> 0, name |-> NoValue, ports |-> NoValue,
           loading |-> FALSE, sending |-> FALSE]
Pairs  == {pair \in Servers \X Servers : pair[1] # pair[2]}
NoPath == [there |-> FALSE, back |-> FALSE, checked |-> FALSE]

ActionsInit ==
  /\ form = NoForm /\ opened = 0 /\ outages = 0
  /\ loads = << >> /\ runs = << >>
  /\ registered = Servers /\ open = Pairs
  /\ paths = [p \in Pairs |-> NoPath]

-----------------------------------------------------------------------------
(* switchTab.  The dialog covers the drawer: what closes the drawer under  *)
(* it is a 401.                                                            *)
OpenActions ==
  /\ drawer # 0 /\ form = NoForm
  /\ tab' = "actions"
  /\ DestroyTerminal /\ UNCHANGED <<drawer, called, typed, actionVars>>

(* loadSuggestions and refreshResources, up to their await: the form and   *)
(* the server of the drawer are captured.                                  *)
AskFor(s, f, kind, fill, ports) ==
  loads' = Append(loads, [form |-> f, server |-> s, kind |-> kind, fill |-> fill,
                          ports |-> ports, answered |-> FALSE])

(* openActionForm: the names a select offers are those of the drawer's     *)
(* snapshot until a discovery answers; the suggestions are loaded.         *)
OpenActionForm(kind) ==
  /\ drawer # 0 /\ tab = "actions" /\ form = NoForm
  /\ opened < MaxForms /\ opened' = opened + 1
  /\ Len(loads) < MaxLoads
  /\ form' = [NoForm EXCEPT !.no = opened + 1, !.kind = kind, !.server = drawer,
                            !.name = IF kind \in Suggesting THEN NoValue ELSE drawer,
                            !.loading = kind \in Suggesting]
  /\ AskFor(drawer, opened + 1, kind, FALSE, TRUE)
  /\ UNCHANGED <<terminalVars, runs, hubVarsOfTab>>

TypeInto(field) ==
  /\ form.kind \in Suggesting /\ form[field] # Typed
  /\ form' = [form EXCEPT ![field] = Typed]
  /\ UNCHANGED <<terminalVars, opened, loads, runs, hubVarsOfTab>>

(* Refresh values fills what is empty and always the ports; a change of    *)
(* the subnet base reloads the lists only.                                 *)
Reload(fill) ==
  /\ form.kind \in Suggesting /\ drawer # 0 /\ Len(loads) < MaxLoads
  /\ fill => ~form.loading
  /\ form' = [form EXCEPT !.loading = TRUE]
  /\ AskFor(drawer, form.no, form.kind, fill, fill)
  /\ UNCHANGED <<terminalVars, opened, runs, hubVarsOfTab>>

CancelForm ==
  /\ form # NoForm /\ form' = NoForm
  /\ UNCHANGED <<terminalVars, opened, loads, runs, hubVarsOfTab>>

(* The form a load fills is the one it was begun for.  Mutant: the one on  *)
(* the screen when the answer comes.                                       *)
FormShown(load)    == form # NoForm
FormOfLoad(load)   == form.no = load.form

Filled(load) ==
  [form EXCEPT !.loading = FALSE,
     !.name  = IF load.fill /\ @ = NoValue THEN load.server ELSE @,
     !.ports = IF load.ports THEN load.server ELSE @]

(* The answer to POST /servers/:id/suggest-peer, or its failure.           *)
Suggested(n, ok) ==
  /\ ~loads[n].answered /\ loads[n].kind \in Suggesting
  /\ loads' = [loads EXCEPT ![n].answered = TRUE]
  /\ form' = IF form.kind \notin Suggesting \/ ~FormOfLoad(loads[n]) THEN form
             ELSE IF ok THEN Filled(loads[n]) ELSE [form EXCEPT !.loading = FALSE]
  /\ UNCHANGED <<terminalVars, opened, runs, hubVarsOfTab>>

(* The discovery of refreshResources: its select is looked for on the page *)
(* when it answers.                                                        *)
Discovered(n, ok) ==
  /\ ~loads[n].answered /\ loads[n].kind \notin Suggesting
  /\ loads' = [loads EXCEPT ![n].answered = TRUE]
  /\ form' = IF ok /\ form.kind = loads[n].kind THEN [form EXCEPT !.name = loads[n].server]
             ELSE form
  /\ UNCHANGED <<terminalVars, opened, runs, hubVarsOfTab>>

-----------------------------------------------------------------------------
(* The submit handler and executeAction, up to its await: the action goes  *)
(* to the server of the drawer.  A form that builds something stays until  *)
(* it is answered.                                                         *)
SubmitForm(other) ==
  /\ form # NoForm /\ ~form.sending /\ drawer # 0 /\ other # drawer
  /\ form.name # NoValue
  /\ Len(runs) < MaxRuns
  /\ runs' = Append(runs, [kind |-> form.kind, server |-> drawer, other |-> other,
                           values |-> {form.name, form.ports} \ {NoValue}, pc |-> "sent",
                           there |-> FALSE, through |-> {}, known |-> FALSE])
  /\ form' = IF form.kind \in Suggesting THEN [form EXCEPT !.sending = TRUE] ELSE NoForm
  /\ UNCHANGED <<terminalVars, opened, loads, hubVarsOfTab>>

(* The answer.  A success closes the dialog, whichever is on the screen;   *)
(* a failure gives the form back, if there is one.                         *)
ActionAnswered(n) ==
  /\ runs[n].pc \in {"done", "refused"}
  /\ runs' = [runs EXCEPT ![n].pc = "shown"]
  /\ form' = CASE runs[n].kind \notin Suggesting -> form
              [] runs[n].pc = "done"            -> NoForm
              [] OTHER                          -> [form EXCEPT !.sending = FALSE]
  /\ UNCHANGED <<terminalVars, opened, loads, hubVarsOfTab>>

-----------------------------------------------------------------------------
(* resolvePair: who is IRAN and who FOREIGN.                               *)
ResolvePair(run) ==
  IF run.kind = "node_add" THEN <<run.other, run.server>> ELSE <<run.server, run.other>>

Becomes(n, pc) == runs' = [runs EXCEPT ![n].pc = pc]

(* POST /servers/:id/action, up to its first await: 404, 400 when the      *)
(* other end is not registered, the first ping, or the command itself.     *)
ReceiveAction(n) ==
  /\ runs[n].pc = "sent"
  /\ CASE runs[n].server \notin registered      -> Becomes(n, "refused")
       [] runs[n].kind \notin Suggesting        -> Becomes(n, "running")
       [] runs[n].other \notin registered       -> Becomes(n, "refused")
       [] OTHER                                 -> Becomes(n, "pinging there")
  /\ UNCHANGED <<terminalVars, form, opened, loads, hubVarsOfTab>>

(* directionResult: a ping comes back only through an open network, and    *)
(* need not even then.  Another host key ends the action.                  *)
Reaches(way, result) == result => way \in open

PingThere(n, result) ==
  LET pair == ResolvePair(runs[n]) IN
  /\ runs[n].pc = "pinging there" /\ Reaches(pair, result)
  /\ runs' = [runs EXCEPT ![n].pc = "pinging back", ![n].there = result,
                          ![n].through = IF result THEN @ \cup {pair} ELSE @]
  /\ UNCHANGED <<terminalVars, form, opened, loads, hubVarsOfTab>>

HostKeyMismatch(n) ==
  /\ runs[n].pc \in {"pinging there", "pinging back"}
  /\ Becomes(n, "refused")
  /\ UNCHANGED <<terminalVars, form, opened, loads, hubVarsOfTab>>

(* The ok of checkPair.  Mutant: one direction is enough.                  *)
EitherReachable(there, back) == there \/ back
BothReachable(there, back)   == there /\ back

(* persistPair: both ids are foreign keys of the row.                      *)
Persistable(pair) == {pair[1], pair[2]} \subseteq registered

(* The second ping, and the rest of the handler up to the command: what    *)
(* persistPair throws is a 400, and a path that is not open a 409.         *)
PingBack(n, result) ==
  LET pair == ResolvePair(runs[n])
      back == <<pair[2], pair[1]>>
      ok   == Persistable(pair) /\ BothReachable(runs[n].there, result) IN
  /\ runs[n].pc = "pinging back" /\ Reaches(back, result)
  /\ paths' = IF Persistable(pair)
              THEN [paths EXCEPT ![pair] = [there |-> runs[n].there, back |-> result, checked |-> TRUE]]
              ELSE paths
  /\ runs' = [runs EXCEPT ![n].pc = IF ok THEN "running" ELSE "refused",
                          ![n].through = IF result THEN @ \cup {back} ELSE @,
                          ![n].known = {pair[1], pair[2]} \subseteq registered]
  /\ UNCHANGED <<terminalVars, form, opened, loads, outages, registered, open>>

(* runAction ends; its exit code is part of the answer.                    *)
RunAction(n) ==
  /\ runs[n].pc = "running"
  /\ Becomes(n, "done")
  /\ UNCHANGED <<terminalVars, form, opened, loads, hubVarsOfTab>>

(* DELETE /servers/:id, on another page: the checks of its pairs cascade.  *)
DeleteRegistered(s) ==
  /\ s \in registered
  /\ registered' = registered \ {s}
  /\ paths' = [p \in Pairs |-> IF s \in {p[1], p[2]} THEN NoPath ELSE paths[p]]
  /\ UNCHANGED <<terminalVars, form, opened, loads, runs, outages, open>>

NetworkChanges(way) ==
  /\ outages < MaxOutages /\ outages' = outages + 1
  /\ open' = IF way \in open THEN open \ {way} ELSE open \cup {way}
  /\ UNCHANGED <<terminalVars, form, opened, loads, runs, registered, paths>>

DrawerMoves ==
  /\ (\E s \in Servers : form = NoForm /\ OpenDrawer(s)) \/ CloseDrawer
  /\ UNCHANGED actionVars

ActionsNext ==
  \/ DrawerMoves \/ OpenActions \/ CancelForm
  \/ \E kind \in Kinds : OpenActionForm(kind)
  \/ \E field \in {"name", "ports"} : TypeInto(field)
  \/ \E fill \in BOOLEAN : Reload(fill)
  \/ \E n \in DOMAIN loads, ok \in BOOLEAN : Suggested(n, ok) \/ Discovered(n, ok)
  \/ \E other \in Servers : SubmitForm(other)
  \/ \E n \in DOMAIN runs : ActionAnswered(n) \/ ReceiveAction(n) \/ HostKeyMismatch(n) \/ RunAction(n)
  \/ \E n \in DOMAIN runs, result \in BOOLEAN : PingThere(n, result) \/ PingBack(n, result)
  \/ \E s \in Servers : DeleteRegistered(s)
  \/ \E way \in Pairs : NetworkChanges(way)

ActionsSpec == TerminalInit /\ ActionsInit /\ [][ActionsNext]_<<terminalVars, actionVars>>

-----------------------------------------------------------------------------
(* An action that builds one end of a tunnel begins only when, since it    *)
(* was asked for, packets have gone through in both directions between the *)
(* two servers, and while both are still registered: one that is deleted   *)
(* under the pings stops it.                                               *)
BuiltOnAKnownPair ==
  \A n \in DOMAIN runs :
    runs[n].kind \in Suggesting /\ runs[n].pc \in {"running", "done"} =>
      /\ runs[n].known
      /\ {<<runs[n].server, runs[n].other>>, <<runs[n].other, runs[n].server>>}
            \subseteq runs[n].through

(* What a page filled into a form by itself is sent to no server but the   *)
(* one that suggested it, although an answer may come when the form it was *)
(* asked for has given place to another server's.                          *)
SuggestedFromItsServer ==
  \A n \in DOMAIN runs :
    runs[n].kind \in Suggesting => runs[n].values \subseteq {Typed, runs[n].server}
=============================================================================
