----------------------------- MODULE MCConsole ------------------------------
(***************************************************************************)
(* The pages of the hub.  Their parts share no state, so that one of them  *)
(* moves in a behaviour, the one in play:                                  *)
(*   retries   timelines of one route, provisioned twice, a request lost   *)
(*   timeouts  of one route, whose attempt may time out, and a restart     *)
(*   routes    of two routes, one attempt each                             *)
(*   clients   no page, a client that polls both routes                    *)
(*   terminal  the terminal of the drawer                                  *)
(*   forms     the forms of its actions tab, up to what they send          *)
(*   actions   one form, and what the hub does with what it sends          *)
(*   access    signing in and the second factor                            *)
(*   panels    the probes of one panel                                     *)
(*   picker    the choice of a client, of a panel of each kind             *)
(*   wizard    the edit of a connection on two pages                       *)
(***************************************************************************)
EXTENDS Timelines, ServerActions, Access, ClientPicker, EditWizard

VARIABLE play

mcVars == <<vars, terminalVars, actionVars, accessVars, probeVars, pickerVars, wizardVars, play>>

TimelinePlays == {"retries", "timeouts", "routes", "clients"}
Plays == TimelinePlays \cup {"terminal", "forms", "actions", "access", "panels", "picker", "wizard"}

MCInit ==
  /\ Init /\ TerminalInit /\ ActionsInit /\ AccessInit /\ ProbeInit /\ PickerInit /\ WizardInit
  /\ play \in Plays
  /\ play \notin TimelinePlays => \A r \in Routes : status[r] = "none"
  /\ play \in {"retries", "timeouts"} => status[2] = "none"
  /\ \A p \in Panels : p # 1 \/ play # "panels" =>
       stored[p].saved /\ (served[p] = "first_class" <=> p = 1)
  /\ picker.panel = 1
  /\ connection = [f \in Fields |-> CHOOSE entry \in Entries : TRUE]
  /\ browserOf[1] = 1 /\ (play # "access" => browserOf[2] = 1)

TimesOut == \E r \in running \ running' : <<r, attempt[r]>> \in executing
Second(r) == attempt'[r] # attempt[r] /\ attempt[r] > 0

TimelineNext ==
  /\ Next
  /\ play # "clients" => UNCHANGED pollVars /\ (attempt' # attempt => tasks' # tasks)
  /\ play = "clients" => UNCHANGED pageVars
  /\ play # "timeouts" => ~TimesOut
  /\ play # "retries"  => ~\E r \in Routes : Second(r)
  /\ play \in {"retries", "routes"} => UNCHANGED restarts
  /\ play \in {"retries", "timeouts"} =>
       log[2] = log'[2] /\ \A t \in Tasks : tasks'[t].route # 2
  /\ play = "routes" => UNCHANGED lost

(* One field of a form is filled in, once.                                 *)
Once == \A e \in Editors :
  wizard[e].step = "form" /\ wizard'[e].step = "form" =>
    wizard'[e] = wizard[e] \/ wizard[e].typed = {}

ActionPlays == {"forms", "actions"}
ActionTabNext ==
  /\ ActionsNext
  /\ play = "forms"   => UNCHANGED hubVarsOfTab /\ \A n \in DOMAIN runs' : runs'[n].pc # "running"
                                                               /\ runs'[n].pc # "pinging there"
  /\ play = "actions" => opened' <= 1 /\ (form' # form => Len(loads') <= 1) /\ form'.ports = NoValue

MCNext ==
  /\ UNCHANGED play
  /\ IF play \in TimelinePlays THEN TimelineNext ELSE UNCHANGED vars
  /\ CASE play = "terminal" -> TerminalNext /\ UNCHANGED actionVars
       [] play \in ActionPlays -> ActionTabNext
       [] OTHER -> UNCHANGED <<terminalVars, actionVars>>
  /\ IF play = "access" THEN AccessNext ELSE UNCHANGED accessVars
  /\ IF play = "panels" THEN ProbeNext /\ \A n \in 1..MaxProbes : probes'[n].panel \in {0, 1}
     ELSE UNCHANGED probeVars
  /\ IF play = "picker" THEN PickerNext ELSE UNCHANGED pickerVars
  /\ IF play = "wizard" THEN WizardNext /\ Once ELSE UNCHANGED wizardVars

MCSpec == MCInit /\ [][MCNext]_mcVars /\ Fairness
=============================================================================
