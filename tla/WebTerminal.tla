---------------------------- MODULE WebTerminal -----------------------------
(***************************************************************************)
(* The SSH terminal of the server drawer: initTerminal, connectTerminal    *)
(* and destroyTerminal of hub/public/app.js, the tickets of                *)
(* hub/server/routes.js, the WebSocket of hub/server/index.js and          *)
(* openShell of hub/server/ssh.js.                                         *)
(*                                                                         *)
(* The page has one drawer and one record, termState; each call of         *)
(* connectTerminal goes on after an await with variables of its own and    *)
(* then writes into the record.  A call is named by its number, and so are *)
(* its terminal, ticket, socket and shell.  The bytes are left out.        *)
(***************************************************************************)
EXTENDS Naturals

CONSTANTS
  Servers,
  MaxCalls   \* bound: calls of connectTerminal

ASSUME TerminalAssumption == MaxCalls \in Nat /\ 0 \notin Servers

Calls == 1..MaxCalls

VARIABLES
  drawer,    \* the server of the open drawer, or 0
  tab,       \* its tab
  term,      \* termState: the server, and the calls whose terminal and socket it has
  calls,     \* call -> what has become of it
  called,
  typed      \* history: where the last key was typed, and which server got it

terminalVars == <<drawer, tab, term, calls, called, typed>>

NoTerm == [server |-> 0, term |-> 0, ws |-> 0]
NoCall == [server |-> 0, ticket |-> "none", ws |-> "none", shell |-> "none"]

TerminalInit ==
  /\ drawer = 0 /\ tab = "overview" /\ term = NoTerm
  /\ calls = [c \in Calls |-> NoCall] /\ called = 0
  /\ typed = [in |-> 0, at |-> 0]

-----------------------------------------------------------------------------
(* destroyTerminal closes the socket the record has, not those of calls    *)
(* that are still waiting for their tickets.                               *)
Closing == IF term.ws = 0 THEN calls ELSE [calls EXCEPT ![term.ws].ws = "closed"]

DestroyTerminal == calls' = Closing /\ term' = NoTerm

(* connectTerminal, up to its await: the terminal is on the screen and the *)
(* ticket is asked for.                                                    *)
ConnectTerminal(s) ==
  /\ called < MaxCalls /\ called' = called + 1
  /\ term' = [NoTerm EXCEPT !.server = s, !.term = called + 1]
  /\ calls' = [Closing EXCEPT ![called + 1] = [NoCall EXCEPT !.server = s, !.ticket = "asked"]]

(* openDrawer shows the overview first; closeDrawer is also what a 401 of  *)
(* any request does (showAuth).                                            *)
OpenDrawer(s) ==
  /\ drawer = 0
  /\ drawer' = s /\ tab' = "overview"
  /\ DestroyTerminal /\ UNCHANGED <<called, typed>>

CloseDrawer ==
  /\ drawer # 0
  /\ drawer' = 0
  /\ DestroyTerminal /\ UNCHANGED <<tab, called, typed>>

LeaveTab ==
  /\ drawer # 0 /\ tab = "terminal"
  /\ tab' = "overview"
  /\ DestroyTerminal /\ UNCHANGED <<drawer, called, typed>>

(* initTerminal: a terminal that is connected stays.                       *)
Connected == term.server = drawer /\ term.ws # 0 /\ calls[term.ws].ws = "open"

OpenTab ==
  /\ drawer # 0
  /\ tab' = "terminal"
  /\ IF Connected THEN UNCHANGED <<term, calls, called>> ELSE ConnectTerminal(drawer)
  /\ UNCHANGED <<drawer, typed>>

Reconnect ==
  /\ drawer # 0 /\ tab = "terminal"
  /\ ConnectTerminal(drawer)
  /\ UNCHANGED <<drawer, tab, typed>>

-----------------------------------------------------------------------------
(* issueTicket, and the rest of connectTerminal: the socket is the one of  *)
(* the record from now on, whatever the record was for meanwhile.          *)
IssueTicket(c) ==
  /\ calls[c].ticket = "asked"
  /\ calls' = [calls EXCEPT ![c].ticket = "issued", ![c].ws = "connecting"]
  /\ term'  = [term EXCEPT !.ws = c]
  /\ UNCHANGED <<drawer, tab, called, typed>>

RefuseTicket(c) ==
  /\ calls[c].ticket = "asked"
  /\ calls' = [calls EXCEPT ![c].ticket = "refused"]
  /\ UNCHANGED <<drawer, tab, term, called, typed>>

(* consumeTicket: single-use, and for thirty seconds.  A socket the page   *)
(* has closed meanwhile does not come through.                             *)
ConsumeTicket(c) ==
  /\ calls[c].ticket = "issued"
  /\ \/ /\ calls[c].ws = "connecting"
        /\ calls' = [calls EXCEPT ![c].ticket = "used", ![c].ws = "open"]
     \/ calls' = [calls EXCEPT ![c].ticket = "used", ![c].ws = "closed"]
  /\ UNCHANGED <<drawer, tab, term, called, typed>>

(* The first message of the page opens the shell; until it is ready, what  *)
(* is typed is dropped.                                                    *)
OpenShell(c) ==
  /\ calls[c].ws = "open" /\ calls[c].shell = "none"
  /\ calls' = [calls EXCEPT ![c].shell = "opening"]
  /\ UNCHANGED <<drawer, tab, term, called, typed>>

ShellReady(c) ==
  /\ calls[c].shell = "opening"
  /\ calls' = [calls EXCEPT ![c].shell = "ready"]
  /\ UNCHANGED <<drawer, tab, term, called, typed>>

(* closeAll: the end of the SSH session ends the socket, and the reverse.  *)
ShellEnds(c) ==
  /\ calls[c].shell \in {"opening", "ready"}
  /\ calls' = [calls EXCEPT ![c].shell = "ended", ![c].ws = "closed"]
  /\ UNCHANGED <<drawer, tab, term, called, typed>>

-----------------------------------------------------------------------------
(* term.onData: the terminal sends into the socket of its own call.        *)
(* Mutant: into the socket of the record.                                  *)
TermSocketOfRecord(c) == IF term.ws = 0 THEN c ELSE term.ws
TermSocket(c) == c

Type ==
  LET c == TermSocket(term.term) IN
  /\ drawer # 0 /\ term.term # 0
  /\ calls[term.term].ticket \in {"issued", "used"}
  /\ calls[c].ws = "open" /\ calls[c].shell = "ready"
  /\ typed' = [in |-> drawer, at |-> calls[c].server]
  /\ UNCHANGED <<drawer, tab, term, calls, called>>

TerminalNext ==
  \/ \E s \in Servers : OpenDrawer(s)
  \/ CloseDrawer \/ LeaveTab \/ OpenTab \/ Reconnect \/ Type
  \/ \E c \in Calls :
       \/ IssueTicket(c) \/ RefuseTicket(c) \/ ConsumeTicket(c)
       \/ OpenShell(c) \/ ShellReady(c) \/ ShellEnds(c)

TerminalSpec == TerminalInit /\ [][TerminalNext]_terminalVars

-----------------------------------------------------------------------------
(* What is typed into the terminal on the screen reaches the server whose  *)
(* drawer is open, although the answer to an older ticket may put another  *)
(* server's socket into termState.                                         *)
TypedWhereShown == typed.at = typed.in
=============================================================================
