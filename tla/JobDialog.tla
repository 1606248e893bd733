----------------------------- MODULE JobDialog -----------------------------
(***************************************************************************)
(* Purpose::Menu (src/src/widgets/menu.cpp) and its dialog, JobDialog.qml: *)
(* one window and one JobView for all that is ever triggered.  The window  *)
(* is not modal: the menu can be triggered again while a share is being    *)
(* configured or runs, and the window can be closed at any time.           *)
(***************************************************************************)
EXTENDS JobView, FiniteSets

CONSTANT Dialog   \* the dialog's view

ASSUME OneDialog == Views = {Dialog}

VARIABLES visible,  \* the window is open
          crashed,  \* reading a deleted m_job ended the process
          reports,  \* history: the finished signals of the menu
          misread   \* history: the results whose handler read such a job

vars == <<viewVars, visible, crashed, reports, misread>>

(* menu.finished: cancelled, or the properties read from m_job, whose      *)
(* state is then "seen", in the handler of the result of job "source".     *)
Report == [share : ShareIds, source : ShareIds,
           seen : JobStates \cup {"cancelled"}]

TypeOK == /\ ViewTypeOK
          /\ visible \in BOOLEAN /\ crashed \in BOOLEAN
          /\ reports \in Seq(Report)
          /\ misread \subseteq DOMAIN shares

Init == /\ ViewInit
        /\ visible = FALSE /\ crashed = FALSE
        /\ reports = <<>> /\ misread = {}

(* window.cancel()'s report; it does not call controller.cancel().         *)
CancelReport(v) ==
  [share |-> configuration'[v], source |-> NoShare, seen |-> "cancelled"]

(* Fault: onClosing cancels whatever the state.                            *)
OnClosing_Always(s) == <<CancelReport(Dialog)>>

(* onClosing, with the state at that moment.                               *)
OnClosing(s) ==
  IF s \in {"Configuring", "Running"} THEN <<CancelReport(Dialog)>> ELSE <<>>

ResultReport(k) ==
  [share |-> job'[Dialog], source |-> k, seen |-> shares'[job'[Dialog]].job]

(* Fault: an error leaves the window to the user.                          *)
Closes_NotOnError(signal) == signal.state \in {"Finished", "Cancelled"}

(* The result or the cancellation behind a signal, if it is one.           *)
Closes(signal) == signal.state \in {"Finished", "Error", "Cancelled"}

ReportOf(signal) ==
  IF signal.state = "Cancelled" THEN CancelReport(Dialog)
                                ELSE ResultReport(signal.source)

(* finished(), then close(), which runs onClosing in an open window.       *)
Tell(open, signal) ==
  /\ visible' = FALSE
  /\ reports' = Append(reports, ReportOf(signal))
                   \o (IF open THEN OnClosing(signal.state) ELSE <<>>)
  /\ UNCHANGED crashed

(* A result finds in m_job a later job that is deleted by now.             *)
FindsDeleted(signal) ==
  signal.state \in {"Finished", "Error"} /\ shares'[job'[Dialog]].job = "deleted"

(* What reading job.errorString of a deleted object does is undefined: the *)
(* handler may go on with what it finds there, stop at a TypeError, with   *)
(* nothing reported and no close(), or crash the process.                  *)
Misread(open, signal) ==
  /\ misread' = misread \cup {signal.source}
  /\ \/ Tell(open, signal)
     \/ visible' = open /\ UNCHANGED <<crashed, reports>>
     \/ visible' = open /\ crashed' = TRUE /\ UNCHANGED reports

(* onStateChanged for the signals of a step, in a window that is open or   *)
(* not.  Only Running ever follows another signal, and it is ignored.      *)
Handle(open) ==
  IF signals' # <<>> /\ Closes(Head(signals'))
  THEN IF FindsDeleted(Head(signals')) THEN Misread(open, Head(signals'))
       ELSE Tell(open, Head(signals')) /\ UNCHANGED misread
  ELSE visible' = open /\ UNCHANGED <<crashed, reports, misread>>

-----------------------------------------------------------------------------
(* Nothing happens after a null job or a crash.                            *)
Up == ~ aborted /\ ~ crashed

(* MenuPrivate::trigger: shows the window and invokes start().             *)
Trigger(p) == Up /\ ViewStart(Dialog, p) /\ Handle(TRUE)

(* The user, in the open window.                                           *)
InWindow == Up /\ visible

Edit == /\ InWindow /\ EditPage(Dialog)
        /\ UNCHANGED <<visible, crashed, reports, misread>>
SendShare == InWindow /\ Send(Dialog) /\ Handle(TRUE)
CancelShare == InWindow /\ CancelButton(Dialog) /\ Handle(TRUE)

(* The window system closes the window: onClosing, whose window.cancel()   *)
(* calls close() in its turn.  Whether that delivers the closing event     *)
(* "again", once more, is up to Qt and the platform.                       *)
CloseWindow ==
  /\ InWindow /\ visible' = FALSE
  /\ signals' = <<>>
  /\ UNCHANGED <<state, configuration, job, shares, aborted, page>>
  /\ UNCHANGED <<crashed, misread>>
  /\ LET told == OnClosing(state[Dialog])
     IN \E again \in {<<>>, told} : reports' = reports \o told \o again

(* The jobs, whether or not the window is open.                            *)
Result(k) == Up /\ ViewResult(k) /\ Handle(visible)
Delete(k) == /\ Up /\ ViewDeleteJob(k)
             /\ UNCHANGED <<visible, crashed, reports, misread>>

Next ==
  \/ \E p \in Plugins : Trigger(p)
  \/ Edit \/ SendShare \/ CancelShare \/ CloseWindow
  \/ \E k \in DOMAIN shares : Result(k) \/ Delete(k)

Spec == Init /\ [][Next]_vars

-----------------------------------------------------------------------------
(* Properties                                                              *)

About(k) == {i \in DOMAIN reports : reports[i].source = k}
Over(k) == shares[k].job \in Outcomes \cup {"deleted"}

Overtaken(k) == \E l \in DOMAIN shares : l > k /\ shares[l].job = "deleted"

(* However triggers, closings and results interleave, the result of each   *)
(* job is reported to the application exactly once: connecting before      *)
(* start() catches a job that finishes inside it, and stateChanged is      *)
(* emitted even when one result follows another.  Only a job overtaken by  *)
(* a later one, which was over and deleted before it, may go unreported,   *)
(* because JobDialog.qml:68 then reads that later job.                     *)
EachResultReported ==
  \A k \in DOMAIN shares :
    IF k \in misread THEN Over(k) /\ Overtaken(k) /\ Cardinality(About(k)) <= 1
    ELSE Cardinality(About(k)) = IF Over(k) THEN 1 ELSE 0

(* The window that a handler which stopped at a deleted job left open.     *)
LeftOpen ==
  /\ state[Dialog] \in {"Finished", "Error"}
  /\ shares[job[Dialog]].job = "deleted"
  /\ \E k \in misread : k < job[Dialog] /\ About(k) = {}

(* An open window waits for the user to configure the newest share, which  *)
(* has not been started, or for the job of the newest share, which has not *)
(* finished: it is not left open on something that is over, except by a    *)
(* result that is unreported because it found a later, deleted job.        *)
OpenWindowWaits ==
  visible /\ Up =>
    LET k == configuration[Dialog]
    IN \/ state[Dialog] = "Configuring" /\ shares[k].job = "none"
       \/ /\ state[Dialog] = "Running" /\ shares[k].job = "running"
          /\ job[Dialog] = k
       \/ LeftOpen

(* job.h:35: a job is started only when all its data has been filled in,   *)
(* even if the page in the window is that of an earlier share, perhaps of  *)
(* another plugin, whose values it is given.                               *)
StartedReady ==
  \A k \in DOMAIN shares : shares[k].job # "none" => shares[k].ready

(* The window never disappears without telling the application why, not    *)
(* even when it is closed while a job runs, unless it was left open on     *)
(* something over.  When it closes because of a result or of the Cancel    *)
(* button, that is told once: the onClosing inside that close() must not   *)
(* take it for the user's cancellation.                                    *)
ClosingReported ==
  [][visible /\ ~ visible' =>
       IF signals' = <<>> THEN LeftOpen \/ Len(reports') > Len(reports)
       ELSE Len(reports') = Len(reports) + 1]_vars

(* What these rest on: the controller holds the newest configuration, a    *)
(* page is shown only while configuring, and jobs are started in order, so *)
(* that m_job is the latest that was.                                      *)
Latest ==
  /\ configuration[Dialog] = Len(shares)
  /\ visible => shares # <<>>
  /\ page[Dialog] # NoShare => state[Dialog] = "Configuring"
  /\ ~ aborted =>
       \A k \in DOMAIN shares : shares[k].job # "none" => k <= job[Dialog]

(* Reports name results, each one once; a result without a report read a   *)
(* later job, deleted.                                                     *)
ReportsOnce ==
  /\ \A i \in DOMAIN reports : reports[i].source \in 0 .. Len(shares)
  /\ \A k \in DOMAIN shares :
       /\ Over(k) => k \in misread \/ \E i \in DOMAIN reports : reports[i].source = k
       /\ ~ Over(k) => \A i \in DOMAIN reports : reports[i].source # k
  /\ \A i, j \in DOMAIN reports :
       reports[i].source = reports[j].source /\ i # j =>
         reports[i].source = NoShare
  /\ \A k \in misread : Over(k) /\ Overtaken(k)

IInv == TypeOK /\ Latest /\ OpenWindowWaits /\ StartedReady /\ ReportsOnce

(* menu.h:61-65: finished is emitted when a triggered job finishes.        *)
FinishedEmitted ==
  ~ crashed => \A k \in DOMAIN shares : Over(k) => About(k) # {}

(* configuration.h:62-64: configSourceCode is used to configure the        *)
(* current job: the page in the window is the current configuration's.     *)
PageOfShare ==
  visible /\ Up /\ state[Dialog] = "Configuring" =>
    page[Dialog] = configuration[Dialog]
=============================================================================
