----------------------------- MODULE EditWizard -----------------------------
(***************************************************************************)
(* The wizard that edits a connection: openConnectionEdit and              *)
(* openConnectionReview of hub/public/connections-ui.js, on two pages, and *)
(* of the requests POST plan-edit and PUT of hub/server/routes.js what     *)
(* they read and write of the connection.                                  *)
(*                                                                         *)
(* A page fills its form from a list that it loaded some time ago; nothing *)
(* it sends says what it has seen.  How an edit is carried out on the      *)
(* servers, and put back, is in ConnectionEdit.                            *)
(***************************************************************************)
EXTENDS Naturals

CONSTANTS
  Editors,     \* the pages
  Fields,      \* what can be edited of a connection
  Clearable,   \* the fields that may be emptied: the lists of ports
  Empty,       \* the empty field
  Entries,     \* what may be entered otherwise
  MaxEdits     \* bound: requests to apply an edit

ASSUME WizardAssumption ==
  /\ Clearable \subseteq Fields /\ Empty \notin Entries
  /\ "nobody" \notin Editors /\ MaxEdits \in Nat

VARIABLES
  connection,  \* the fields of the connection in its row
  held,        \* the page whose edit holds the locks, or nobody
  loaded,      \* page -> the connection as state.connections has it
  wizard,      \* page -> its dialog
  edits

wizardVars == <<connection, held, loaded, wizard, edits>>

Nobody == "nobody"
Values(f) == IF f \in Clearable THEN Entries \cup {Empty} ELSE Entries
NoWizard == [step |-> "none"]
Nothing  == [f \in {} |-> Empty]     \* a request without fields

WizardInit ==
  /\ connection \in {row \in [Fields -> Entries \cup {Empty}] : \A f \in Fields : row[f] \in Values(f)}
  /\ held = Nobody
  /\ loaded = [e \in Editors |-> connection]
  /\ wizard = [e \in Editors |-> NoWizard]
  /\ edits = 0

Goes(e, w) == wizard' = [wizard EXCEPT ![e] = w]

-----------------------------------------------------------------------------
(* loadConnections.                                                        *)
Load(e) ==
  /\ loaded' = [loaded EXCEPT ![e] = connection]
  /\ UNCHANGED <<connection, held, wizard, edits>>

OpenEdit(e) ==
  /\ wizard[e].step \in {"none", "review"}
  /\ Goes(e, [step |-> "form", base |-> loaded[e], form |-> loaded[e], typed |-> {}])
  /\ UNCHANGED <<connection, held, loaded, edits>>

TypeField(e, f) ==
  /\ wizard[e].step = "form"
  /\ \E entry \in (Entries \cup {Empty}) \ {wizard[e].form[f]} :
       Goes(e, [wizard[e] EXCEPT !.form[f] = entry, !.typed = @ \cup {f}])
  /\ UNCHANGED <<connection, held, loaded, edits>>

CancelEdit(e) ==
  /\ wizard[e].step \in {"form", "review"}
  /\ Goes(e, NoWizard)
  /\ UNCHANGED <<connection, held, loaded, edits>>

(* The body of the request: the fields that differ from what the form was  *)
(* filled with; an empty one means "as it is" unless it may be emptied.    *)
(* Mutant: all the fields that are filled in.                              *)
EditBodyAll(base, form) == [f \in {g \in Fields : form[g] \in Values(g)} |-> form[f]]
EditBody(base, form) ==
  [f \in {g \in Fields : form[g] # base[g] /\ form[g] \in Values(g)} |-> form[f]]

(* planEdit: what would change of the connection as it is now.             *)
ChangesOf(body) == {f \in DOMAIN body : body[f] # connection[f]}

(* The form stays until the plan is there, and after an error.             *)
ReviewEdit(e) ==
  LET body == EditBody(wizard[e].base, wizard[e].form) IN
  /\ wizard[e].step = "form" /\ body # Nothing
  /\ Goes(e, [step |-> "planning", base |-> wizard[e].base, body |-> body, typed |-> wizard[e].typed])
  /\ UNCHANGED <<connection, held, loaded, edits>>

PlanArrives(e) ==
  /\ wizard[e].step = "planning"
  /\ Goes(e, [step |-> "review", body |-> wizard[e].body, typed |-> wizard[e].typed,
              changes |-> ChangesOf(wizard[e].body)])
  /\ UNCHANGED <<connection, held, loaded, edits>>

PlanFails(e) ==
  /\ wizard[e].step = "planning"
  /\ Goes(e, [step |-> "form", base |-> wizard[e].base, typed |-> wizard[e].typed,
              form |-> [f \in Fields |-> IF f \in DOMAIN wizard[e].body THEN wizard[e].body[f]
                                         ELSE wizard[e].base[f]]])
  /\ UNCHANGED <<connection, held, loaded, edits>>

(* The plan can be applied when it changes something.  The PUT is planned  *)
(* anew, takes the locks in the same go, and is refused without them.      *)
ApplyEdit(e) ==
  /\ wizard[e].step = "review" /\ wizard[e].changes # {}
  /\ edits < MaxEdits /\ edits' = edits + 1
  /\ IF ChangesOf(wizard[e].body) # {} /\ held = Nobody
     THEN /\ held' = e
          /\ Goes(e, [step |-> "applying", typed |-> wizard[e].typed,
                      want |-> [f \in Fields |-> IF f \in DOMAIN wizard[e].body
                                                 THEN wizard[e].body[f] ELSE connection[f]]])
          /\ UNCHANGED loaded
     ELSE /\ Goes(e, NoWizard)
          /\ loaded' = [loaded EXCEPT ![e] = connection] /\ UNCHANGED held
  /\ UNCHANGED connection

(* commitRow, or a failure; the list is loaded after either.               *)
EndEdit(e) ==
  /\ wizard[e].step = "applying"
  /\ \/ connection' = wizard[e].want
     \/ UNCHANGED connection
  /\ held' = Nobody
  /\ loaded' = [loaded EXCEPT ![e] = connection']
  /\ Goes(e, NoWizard)
  /\ UNCHANGED edits

WizardNext ==
  \E e \in Editors :
    \/ Load(e) \/ OpenEdit(e) \/ CancelEdit(e)
    \/ ReviewEdit(e) \/ PlanArrives(e) \/ PlanFails(e) \/ ApplyEdit(e) \/ EndEdit(e)
    \/ \E f \in Fields : TypeField(e, f)

WizardSpec == WizardInit /\ [][WizardNext]_wizardVars

-----------------------------------------------------------------------------
(* An edit changes only fields that its operator typed into, however old   *)
(* the list its form was filled from, and whatever another page has        *)
(* changed since ("A prefilled field the operator did not touch must not   *)
(* look like an edit.").                                                   *)
UntouchedFieldsStay ==
  [][connection' # connection =>
       \E e \in Editors :
         /\ wizard[e].step = "applying"
         /\ \A f \in Fields \ wizard[e].typed : connection'[f] = connection[f]]_wizardVars
=============================================================================
