----------------------------- MODULE ConfigPages ----------------------------
(***************************************************************************)
(* The lists on the configuration pages of the plugins.  They share no     *)
(* state: a behaviour follows one page, the other lists stay as they are.  *)
(***************************************************************************)
EXTENDS DevicesModel, AccountsModel, ListRequests, DiffListModel

VARIABLE page

pageVars == <<page, devVars, accVars, listVars, diffVars>>

Init ==
  /\ DevInit /\ AccInit /\ ListInit /\ DiffInit
  /\ page \in {"devices", "accounts", "lists", "diffs"}
  /\ page # "devices" => known = {} /\ daemon = "up"
  /\ page # "accounts" => granted = {} /\ online
  /\ page # "lists" => list = "reviews" /\ ~ stingy

Next ==
  /\ UNCHANGED page
  /\ \/ page = "devices" /\ DevNext /\ UNCHANGED <<accVars, listVars, diffVars>>
     \/ page = "accounts" /\ AccNext /\ UNCHANGED <<devVars, listVars, diffVars>>
     \/ page = "lists" /\ ListNext /\ UNCHANGED <<devVars, accVars, diffVars>>
     \/ page = "diffs" /\ DiffNext /\ UNCHANGED <<devVars, accVars, listVars>>

(* A review server answers every request, if only with an error.           *)
Spec == Init /\ [][Next]_pageVars /\ WF_listVars(AnyPage)

TypeOK == DevTypeOK /\ AccTypeOK /\ ListTypeOK /\ DiffTypeOK

(* No device and no account has two rows, with the exceptions of           *)
(* AccountRows.                                                            *)
OneRowEach == DeviceOnce /\ AccountRows

(* When the signals and answers of the service have all arrived, the rows  *)
(* are what the service has, but for what a failed call left out and what  *)
(* went away unheard.                                                      *)
RowsAtRest == DevicesAtRest /\ AccountsAtRest

(* The views are told of every row, and of none that is not there, with    *)
(* the exceptions of the two lists.                                        *)
RowsAnnounced == DevicesAnnounced /\ AccountsAnnounced

(* The inductive invariant: that of each list.                             *)
IInv == DevInv /\ AccInv /\ ListInv /\ DiffInv
=============================================================================
