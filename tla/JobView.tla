------------------------------ MODULE JobView ------------------------------
(***************************************************************************)
(* JobView.qml (src/src/quick): a JobController and the configuration page *)
(* its Loader shows.  The Loader's component depends on the controller's   *)
(* state alone, so it is reloaded only when the state enters Configuring   *)
(* from another state.                                                     *)
(***************************************************************************)
EXTENDS JobController

(* Pairs: the first plugin's page has a value for an argument that the     *)
(* second one needs, as "device" of bluetooth and of kdeconnect.           *)
CONSTANT Common

ASSUME CommonAssumption == Common \subseteq Plugins \X Plugins

VARIABLE page   \* the configuration each view's page was loaded for

viewVars == <<controllerVars, page>>

ViewTypeOK == ControllerTypeOK /\ page \in [Views -> 0 .. Len(shares)]

ViewInit == ControllerInit /\ page = [v \in Views |-> NoShare]

Loader(v) ==
  IF state'[v] # "Configuring" THEN NoShare
  ELSE IF page[v] = NoShare THEN configuration'[v] ELSE page[v]

Reload(v) == page' = [page EXCEPT ![v] = Loader(v)]

(* start().  A page that is loaded gives the configuration the arguments   *)
(* it has values for (onItemChanged), perhaps all that are needed; one     *)
(* that is there already does not.                                         *)
ViewStart(v, p) ==
  /\ \E filled \in {FALSE, page[v] = NoShare} : Configure(v, p, filled)
  /\ Reload(v)

(* The user edits the page, and dataHasChanged takes the page's values for *)
(* what the current configuration needs: a value appears or goes away.  A  *)
(* page that was loaded for another plugin gives it the arguments the two  *)
(* have in common, and its input may have held the others.                 *)
EditPage(v) ==
  LET k == configuration[v]
  IN /\ page[v] # NoShare
     /\ <<shares[page[v]].plugin, shares[k].plugin>> \in Common
     /\ shares' = [shares EXCEPT ![k].ready = ~ @]
     /\ signals' = <<>>
     /\ UNCHANGED <<state, configuration, job, aborted, page>>

(* The buttons of the page.                                                *)
Send(v) == page[v] # NoShare /\ StartJob(v) /\ Reload(v)

CancelButton(v) == page[v] # NoShare /\ Cancel(v) /\ Reload(v)

(* A result can arrive whatever the view shows.                            *)
ViewResult(k) == JobResult(k) /\ Reload(shares[k].view)

ViewDeleteJob(k) == DeleteJob(k) /\ UNCHANGED page
=============================================================================
