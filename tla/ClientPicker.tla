---------------------------- MODULE ClientPicker ----------------------------
(***************************************************************************)
(* The choice of an existing client in the dialog that creates a route:    *)
(* the click handler of #btn-add-route in hub/public/app.js, and the list  *)
(* it asks for, GET /xui-panels/:id/clients of hub/server/routes.js.       *)
(*                                                                         *)
(* The dialog shows the first page of the clients of the chosen panel, and *)
(* a search a quarter of a second after the last key.  Its answers come in *)
(* any order.  A client of a panel is named by a term that finds it; what  *)
(* the list offers for it, its label, is a text of its own.                *)
(***************************************************************************)
EXTENDS Naturals, Functions, PanelProbe

CONSTANTS
  Terms,     \* what may be typed, and the names of the clients
  Blank,     \* the empty text
  MaxAsks,   \* bound: requests for a page of clients
  MaxSeq     \* bound: searches and changes of the panel

ASSUME PickerAssumption == {MaxAsks, MaxSeq} \subseteq Nat /\ Blank \notin Terms

VARIABLES
  picker,    \* the dialog
  cache,     \* clientPageCache
  asks,      \* the requests under way
  asked,     \* how many there have been
  newest     \* history: what was searched for last, on the chosen panel

pickerVars == <<picker, cache, asks, asked, newest>>

LabelsOf(p) == {p} \X Terms
Ask(no, kind, key, p, seq) == [no |-> no, kind |-> kind, key |-> key, panel |-> p, seq |-> seq]

(* The panel has been chosen and its first page is on its way.             *)
PickerInit ==
  /\ \E p \in Panels :
       /\ picker = [open |-> TRUE, panel |-> p, text |-> Blank, picked |-> Blank, options |-> {},
                    timer |-> Blank, seq |-> 0, ctrl |-> 0]
       /\ asks = {Ask(1, "first", Blank, p, 0)}
  /\ cache = << >> /\ asked = 1 /\ newest = Blank

-----------------------------------------------------------------------------
(* renderClientOptions: a picked client that is not offered any more is    *)
(* taken out of the field.                                                 *)
Rendered(d, labels) ==
  LET lost == d.picked # Blank /\ d.picked \notin labels
  IN [d EXCEPT !.options = labels, !.text = IF lost THEN Blank ELSE @,
               !.picked = IF lost THEN Blank ELSE @]

(* loadInitialClients, with the dialog and the cache as they are by then.  *)
LoadInitial(d, c) ==
  IF Blank \in DOMAIN c
  THEN picker' = Rendered(d, c[Blank]) /\ UNCHANGED <<asks, asked>>
  ELSE /\ asked < MaxAsks /\ asked' = asked + 1
       /\ picker' = d
       /\ asks' = asks \cup {Ask(asked', "first", Blank, d.panel, 0)}

(* onClientSearchInput, for a key typed and for a label picked.            *)
Input(text) ==
  LET d == [picker EXCEPT !.text = text, !.timer = text,
                          !.picked = IF text \in picker.options THEN text ELSE Blank]
  IN /\ picker.open /\ text # picker.text
     /\ IF text = Blank THEN LoadInitial(d, cache)
        ELSE picker' = d /\ UNCHANGED <<asks, asked>>
     /\ UNCHANGED <<cache, newest>>

(* The timer: the search that is under way is aborted, but only by one     *)
(* that has to ask.                                                        *)
Search ==
  LET key == picker.timer
      d   == [picker EXCEPT !.timer = Blank, !.seq = @ + 1]
  IN /\ key # Blank /\ picker.seq < MaxSeq
     /\ newest' = key
     /\ IF key \in DOMAIN cache
        THEN picker' = Rendered(d, cache[key]) /\ UNCHANGED <<asks, asked>>
        ELSE /\ asked < MaxAsks /\ asked' = asked + 1
             /\ picker' = [d EXCEPT !.ctrl = asked']
             /\ asks' = {a \in asks : a.no # picker.ctrl}
                          \cup {Ask(asked', "search", key, d.panel, d.seq)}
     /\ UNCHANGED cache

(* A panel whose model is not stored is asked for it.  One of the older    *)
(* kind does not search.                                                   *)
ModelKnown(p) == IF stored[p].model = "unknown" THEN served[p] ELSE stored[p].model
Matches(p, key) == {label \in LabelsOf(p) : label[2] = key}

Listed(a) ==
  IF a.key = Blank \/ ModelKnown(a.panel) = "embedded" THEN LabelsOf(a.panel)
  ELSE Matches(a.panel, a.key)

(* What is shown of an answer.  Mutant: a late one is shown as well.       *)
ShowsAlways(a) == TRUE
Shows(a) == a.kind = "search" => a.seq = picker.seq

AnswerPage(a) ==
  /\ asks' = asks \ {a}
  /\ cache' = [k \in DOMAIN cache \cup {a.key} |-> IF k = a.key THEN Listed(a) ELSE cache[k]]
  /\ picker' = IF Shows(a) THEN Rendered(picker, Listed(a)) ELSE picker
  /\ UNCHANGED <<asked, newest>>

AskFails(a) ==
  /\ asks' = asks \ {a}
  /\ UNCHANGED <<picker, cache, asked, newest>>

(* The timer and the picked client are left as they are.                   *)
ChangePanel(p) ==
  /\ picker.open /\ p # picker.panel /\ picker.seq < MaxSeq
  /\ cache' = << >> /\ newest' = Blank
  /\ LoadInitial([picker EXCEPT !.panel = p, !.text = Blank, !.seq = @ + 1], cache')

(* Only what is offered, or was picked, is sent.                           *)
Submit ==
  /\ picker.open /\ picker.text # Blank
  /\ picker.text \in picker.options \cup {picker.picked}
  /\ picker' = [picker EXCEPT !.open = FALSE]
  /\ UNCHANGED <<cache, asks, asked, newest>>

PickerNext ==
  \/ \E text \in Terms \cup {Blank} \cup picker.options : Input(text)
  \/ Search \/ Submit
  \/ \E a \in asks : AnswerPage(a) \/ AskFails(a)
  \/ \E p \in Panels : ChangePanel(p)

PickerSpec == PickerInit /\ [][PickerNext]_pickerVars

-----------------------------------------------------------------------------
(* What is offered changes to a first page, or to what the text that was   *)
(* searched for last has found, never to the answer to an earlier search:  *)
(* not when the cache has answered meanwhile and nothing was aborted, nor  *)
(* when another panel was chosen (clientFetchController, searchSeq).       *)
OffersNewest ==
  [][picker'.options # picker.options =>
       \E p \in Panels : picker'.options \in {LabelsOf(p), Matches(p, newest')}]_pickerVars
=============================================================================
