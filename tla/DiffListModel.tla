--------------------------- MODULE DiffListModel ---------------------------
(***************************************************************************)
(* The revisions on the pages of the phabricator plugin (src/src/plugins/  *)
(* phabricator/quick/difflistmodel.cpp): arc lists them from an empty      *)
(* repository in a temporary directory, which is made the working          *)
(* directory of the whole process until the list has come.                 *)
(***************************************************************************)
EXTENDS FiniteSets

CONSTANTS DiffPages,   \* the pages opened in this process, each with its model
          Launch   \* the directory the application was launched from

ASSUME LaunchAssumption == Launch \notin DiffPages

VARIABLES
  cwd,        \* Launch, or the page whose temporary directory it is
  dirs,       \* the temporary directories there are
  load,       \* per page: "none", "listing", "silent", "listed", "gone"
  initialDir, \* m_initialDir
  crossed,    \* history: a list came before that of a page opened later
  broken      \* history: a list failed, never came, or its page was left

diffVars == <<cwd, dirs, load, initialDir, crossed, broken>>

DiffTypeOK ==
  /\ cwd \in DiffPages \cup {Launch} /\ dirs \subseteq DiffPages
  /\ load \in [DiffPages -> {"none", "listing", "silent", "listed", "gone"}]
  /\ initialDir \in [DiffPages -> DiffPages \cup {Launch}]
  /\ crossed \in BOOLEAN /\ broken \in BOOLEAN

DiffInit ==
  /\ cwd = Launch /\ dirs = {} /\ load = [p \in DiffPages |-> "none"]
  /\ initialDir = [p \in DiffPages |-> Launch]
  /\ crossed = FALSE /\ broken = FALSE

(* DiffRevList: arc starts, or it is not found and nothing is emitted.     *)
StartList(p) ==
  \/ load' = [load EXCEPT ![p] = "listing"] /\ UNCHANGED broken
  \/ load' = [load EXCEPT ![p] = "silent"] /\ broken' = TRUE

(* refresh() in the constructor, the only one that does something: the     *)
(* setStatus() of the page finds the temporary directory in use.  With no  *)
(* such directory, or one that cannot be entered, arc runs where we are.   *)
RefreshDiffs(p) ==
  /\ load[p] = "none"
  /\ initialDir' = [initialDir EXCEPT ![p] = cwd]
  /\ \/ UNCHANGED <<cwd, dirs>>
     \/ dirs' = dirs \cup {p} /\ UNCHANGED cwd
     \/ dirs' = dirs \cup {p} /\ cwd' = p
  /\ StartList(p) /\ UNCHANGED crossed

(* Fault: the directory is removed, and never left.                        *)
ReceivedDiffRevs_Stay(p) ==
  /\ load[p] = "listing" /\ load' = [load EXCEPT ![p] = "listed"]
  /\ dirs' = dirs \ {p}
  /\ UNCHANGED <<cwd, initialDir, crossed, broken>>

(* receivedDiffRevs(): back to the initial directory, if there is one.     *)
ReceivedDiffRevs(p) ==
  /\ load[p] = "listing" /\ load' = [load EXCEPT ![p] = "listed"]
  /\ cwd' = IF initialDir[p] \in dirs \cup {Launch} THEN initialDir[p] ELSE cwd
  /\ dirs' = dirs \ {p}
  /\ crossed' = (crossed \/ \E q \in DiffPages : /\ load[q] = "listing"
                                             /\ initialDir[q] = p)
  /\ UNCHANGED <<initialDir, broken>>

(* After an error it returns at once, and refresh() does nothing from then *)
(* on.                                                                     *)
ListFailed(p) ==
  /\ load[p] = "listing" /\ load' = [load EXCEPT ![p] = "silent"]
  /\ broken' = TRUE /\ UNCHANGED <<cwd, dirs, initialDir, crossed>>

(* The page is closed and its model deleted, with the list it waits for.   *)
LeavePage(p) ==
  /\ load[p] \in {"listing", "silent", "listed"}
  /\ load' = [load EXCEPT ![p] = "gone"]
  /\ broken' = (broken \/ load[p] = "listing")
  /\ UNCHANGED <<cwd, dirs, initialDir, crossed>>

DiffNext ==
  \E p \in DiffPages : \/ RefreshDiffs(p) \/ ReceivedDiffRevs(p)
                   \/ ListFailed(p) \/ LeavePage(p)

---------------------------------------------------------------------------

(* Once no page waits for its list, the process is back in the directory   *)
(* it was launched from and no temporary directory is left, unless a list  *)
(* failed, was left, or came while a page opened from its directory was    *)
(* waiting for its own.                                                    *)
CwdRestored ==
  /\ \A p \in DiffPages : load[p] # "listing"
  /\ ~ broken /\ ~ crossed
  => cwd = Launch /\ dirs = {}

(* What this rests on: while nothing has failed, the directories there are *)
(* belong to pages that wait for their lists, and those go back to one.    *)
Nested ==
  ~ broken /\ ~ crossed =>
    /\ \A p \in dirs : load[p] = "listing"
    /\ cwd \in dirs \cup {Launch}
    /\ \A p \in DiffPages : load[p] = "listing" => initialDir[p] \in dirs \cup {Launch}

DiffInv == DiffTypeOK /\ Nested
=============================================================================
