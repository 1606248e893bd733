----------------------------- MODULE ProcessJob -----------------------------
(***************************************************************************)
(* Purpose::ProcessJob (src/src/externalprocess/processjob.cpp) and the    *)
(* process it drives: purposeprocess (purposeprocess_main.cpp, class       *)
(* Communication) for a library plugin, or the plugin's own executable for *)
(* a packaged one.                                                         *)
(*                                                                         *)
(* The host listens on a local socket and starts the process.  The process *)
(* connects, receives one size-prefixed CBOR payload, runs the plugin's    *)
(* job and reports every change of a notifying property as one JSON line.  *)
(* When the process stops the host drains the socket and emits the result. *)
(* Two single-threaded event loops run concurrently: an action is one      *)
(* handler (or one iteration of a loop that waits), and actions of the two *)
(* sides interleave.                                                       *)
(***************************************************************************)
EXTENDS Integers, Sequences

CONSTANTS
  Programs,    \* what a job may run, a subset of {"purposeprocess", "script"}
  Percents,    \* values of the percent property
  Outputs,     \* values of the output property a plugin can set
  NoOutput,    \* the {"uninitialized": "true"} a Job is constructed with
  Errors,      \* non-zero error codes of the plugin's job
  Chunks,      \* units of the transmission: the size line, then the payload
  MaxInFlight, \* bound: lines the process has written and the host not read
  Builds       \* a subset of BOOLEAN: is Q_ASSERT compiled in

ASSUME ConstantsAssumption ==
  /\ Programs \subseteq {"purposeprocess", "script"}
  /\ Percents \subseteq 0 .. 100 /\ 0 \in Percents
  /\ Errors \subseteq Nat \ {0}
  /\ Chunks \in Nat /\ Chunks >= 2
  /\ MaxInFlight \in Nat \ {0}
  /\ Builds \subseteq BOOLEAN

(* The properties of Purpose::Job with a NOTIFY signal: percentChanged,    *)
(* outputChanged and, for error and errorText together, result.            *)
Props == {"percent", "output", "error"}

ErrorCodes == {0} \cup Errors
Values == Percents \cup Outputs \cup {NoOutput} \cup ErrorCodes
ValuesOf(p) == CASE p = "percent" -> Percents
                 [] p = "output"  -> Outputs \cup {NoOutput}
                 [] OTHER         -> ErrorCodes

PropMap == {f \in [Props -> Values] : \A p \in Props : f[p] \in ValuesOf(p)}

(* What the Job constructor leaves in them (job.cpp), on either side.      *)
InitProps == [p \in Props |-> IF p = "output" THEN NoOutput ELSE 0]

(* One line on the socket.  A line that is not JSON, or that names no      *)
(* property the host knows, only a foreign executable can write.           *)
Garbage == [prop |-> "garbage", val |-> 0]
Line == {m \in [prop : Props, val : Values] : m.val \in ValuesOf(m.prop)}
          \cup {Garbage}

VARIABLES
  \* the host
  job,        \* the ProcessJob: "created", "started", "finished", "destroyed"
  ppc,        \* the host's event loop, or the loop of processStateChanged
  proc,       \* QProcess::state()
  mirror,     \* the host job's properties
  \* the socket
  conn,       \* "none", "pending" in the backlog, "accepted": m_localSocket set
  delivered,  \* units of the transmission that have reached the process
  stream,     \* lines the process has written and the host has not read
  flushed,    \* how many of those have left the process
  \* the process
  program,    \* what the process executes
  asserts,    \* whether it is built with assertions
  cpc,        \* where it is
  pos,        \* units of the transmission it has read
  cjob,       \* the plugin's job: "none", "running", "finished"
  child,      \* the plugin job's properties
  exitCode,   \* exit code, 0 until it exits
  lost        \* history: why the host missed a change of a property

exe == <<program, asserts>>
hostVars == <<job, ppc, proc, mirror>>
socketVars == <<conn, delivered, stream, flushed>>
childVars == <<exe, cpc, pos, cjob, child, exitCode, lost>>
vars == <<hostVars, socketVars, childVars>>

TypeOK ==
  /\ job \in {"created", "started", "finished", "destroyed"}
  /\ ppc \in {"loop", "drain", "drainInDestructor", "crashed"}
  /\ proc \in {"NotRunning", "Starting", "Running"}
  /\ mirror \in PropMap
  /\ conn \in {"none", "pending", "accepted"}
  /\ delivered \in 0 .. Chunks
  /\ stream \in Seq(Line)
  /\ flushed \in 0 .. Len(stream)
  /\ program \in Programs /\ asserts \in Builds
  /\ cpc \in {"none", "boot", "header", "payload", "exec", "exited"}
  /\ pos \in 0 .. delivered
  /\ cjob \in {"none", "running", "finished"}
  /\ child \in PropMap
  /\ exitCode \in {0, 1}
  /\ lost \subseteq {"before_connect", "at_exit"}

(* The constructor: the server listens, nothing runs.                      *)
Init ==
  /\ job = "created" /\ ppc = "loop" /\ proc = "NotRunning"
  /\ mirror = InitProps
  /\ conn = "none" /\ delivered = 0 /\ stream = <<>> /\ flushed = 0
  /\ program \in Programs /\ asserts \in Builds
  /\ cpc = "none" /\ pos = 0 /\ cjob = "none" /\ child = InitProps
  /\ exitCode = 0 /\ lost = {}

-----------------------------------------------------------------------------
(* The host                                                                *)

(* ProcessJob::start.                                                      *)
Start ==
  /\ ppc = "loop" /\ job = "created"
  /\ job' = "started" /\ proc' = "Starting"
  /\ UNCHANGED <<ppc, mirror, socketVars, childVars>>

(* QProcess reports Running: processStateChanged does nothing.             *)
ProcessUp ==
  /\ ppc = "loop" /\ job = "started" /\ proc = "Starting"
  /\ proc' = "Running" /\ cpc' = "boot"
  /\ UNCHANGED <<job, ppc, mirror, socketVars, exe, pos, cjob, child,
                 exitCode, lost>>

(* The drain loop of processStateChanged(NotRunning) calls                 *)
(* waitForReadyRead on m_localSocket whether or not it is null.            *)
EnterDrain(where) == ppc' = IF conn = "accepted" THEN where ELSE "crashed"

(* QProcess could not execute the program: stateChanged(NotRunning), the   *)
(* exit code still 0.                                                      *)
FailedToStart ==
  /\ ppc = "loop" /\ job = "started" /\ proc = "Starting"
  /\ proc' = "NotRunning"
  /\ EnterDrain("drain")
  /\ UNCHANGED <<job, mirror, socketVars, childVars>>

(* QLocalServer::newConnection -> writeSocket: the whole transmission is   *)
(* written, flush() hands over what the kernel takes, and the event loop   *)
(* the rest (SendRest).                                                    *)
WriteSocket ==
  /\ ppc = "loop" /\ job = "started" /\ conn = "pending"
  /\ conn' = "accepted"
  /\ delivered' \in 1 .. Chunks
  /\ UNCHANGED <<hostVars, stream, flushed, childVars>>

(* Fault: the size line counts a unit that is never written.               *)
SendRest_Short ==
  /\ ppc = "loop" /\ job = "started" /\ conn = "accepted" /\ cpc # "exited"
  /\ delivered < Chunks
  /\ delivered' \in (delivered + 1) .. (Chunks - 1)
  /\ UNCHANGED <<hostVars, conn, stream, flushed, childVars>>

SendRest ==
  /\ ppc = "loop" /\ job = "started" /\ conn = "accepted" /\ cpc # "exited"
  /\ delivered < Chunks
  /\ delivered' \in (delivered + 1) .. Chunks
  /\ UNCHANGED <<hostVars, conn, stream, flushed, childVars>>

(* The body of readSocket's loop: one line; what is not JSON is skipped.   *)
ReadLine ==
  /\ conn = "accepted" /\ flushed > 0
  /\ mirror' = IF Head(stream).prop \in Props
               THEN [mirror EXCEPT ![Head(stream).prop] = Head(stream).val]
               ELSE mirror
  /\ stream' = Tail(stream)
  /\ flushed' = flushed - 1
  /\ UNCHANGED <<job, ppc, proc, conn, delivered, childVars>>

(* readyRead -> readSocket.                                                *)
ReadSocket == ppc = "loop" /\ job = "started" /\ ReadLine

(* Fault: a process that failed is only warned about.                      *)
ProcessStateChanged_ZeroOnly ==
  /\ ppc = "loop" /\ job = "started" /\ proc = "Running" /\ cpc = "exited"
  /\ exitCode = 0
  /\ proc' = "NotRunning"
  /\ EnterDrain("drain")
  /\ UNCHANGED <<job, mirror, socketVars, childVars>>

(* stateChanged(NotRunning) -> processStateChanged: enters the drain loop  *)
(* whatever the exit code is.                                              *)
ProcessStateChanged ==
  /\ ppc = "loop" /\ job = "started" /\ proc = "Running" /\ cpc = "exited"
  /\ proc' = "NotRunning"
  /\ EnterDrain("drain")
  /\ UNCHANGED <<job, mirror, socketVars, childVars>>

Draining == ppc \in {"drain", "drainInDestructor"}

(* do { readSocket(); } while (m_localSocket->waitForReadyRead());         *)
Drain == Draining /\ ReadLine

(* Faults: the loop reads once and does not wait; the first error reported *)
(* by the process is taken for its end.                                    *)
EmitResult_Undrained ==
  /\ Draining
  /\ job' = IF ppc = "drain" THEN "finished" ELSE "destroyed"
  /\ ppc' = "loop"
  /\ UNCHANGED <<proc, mirror, socketVars, childVars>>

EmitResult_OnReport ==
  /\ job = "started" /\ flushed = 0
  /\ Draining \/ (ppc = "loop" /\ mirror["error"] # 0)
  /\ job' = IF ppc = "drainInDestructor" THEN "destroyed" ELSE "finished"
  /\ ppc' = "loop"
  /\ UNCHANGED <<proc, mirror, socketVars, childVars>>

(* Nothing left to wait for: emitResult().  Inside the destructor the job  *)
(* is gone right after.                                                    *)
EmitResult ==
  /\ Draining /\ flushed = 0
  /\ job' = IF ppc = "drain" THEN "finished" ELSE "destroyed"
  /\ ppc' = "loop"
  /\ UNCHANGED <<proc, mirror, socketVars, childVars>>

-----------------------------------------------------------------------------
(* The end of the process.  Lines still in its write buffer are gone.      *)

Exit(code) ==
  /\ cpc' = "exited" /\ exitCode' = code
  /\ stream' = SubSeq(stream, 1, flushed)
  /\ lost' = IF flushed < Len(stream) THEN lost \cup {"at_exit"} ELSE lost

Alive == cpc \notin {"none", "exited"}

(* ~ProcessJob: kill(), then ~QProcess waits for the end of the process    *)
(* and emits stateChanged, so that processStateChanged runs once more.     *)
Destroy ==
  /\ ppc = "loop" /\ job # "destroyed"
  /\ IF proc = "NotRunning"
     THEN /\ job' = "destroyed"
          /\ UNCHANGED <<ppc, proc, mirror, socketVars, childVars>>
     ELSE /\ EnterDrain("drainInDestructor")
          /\ proc' = "NotRunning"
          /\ IF cpc = "exited" THEN UNCHANGED <<cpc, exitCode, stream, lost>>
                               ELSE Exit(1)
          /\ UNCHANGED <<job, mirror, conn, delivered, flushed, exe, pos,
                         cjob, child>>

-----------------------------------------------------------------------------
(* purposeprocess: the constructor of Communication, then app.exec()       *)

Library == program = "purposeprocess"

(* connectToServer and waitForConnected; the server listens since the      *)
(* host's constructor.                                                     *)
Connect ==
  /\ Library /\ cpc = "boot"
  /\ conn' = "pending" /\ cpc' = "header"
  /\ UNCHANGED <<hostVars, delivered, stream, flushed, exe, pos, cjob,
                 child, exitCode, lost>>

(* waitForReadyRead and readLine: the size of the payload.                 *)
ReadHeader ==
  /\ cpc = "header" /\ delivered > 0
  /\ pos' = 1 /\ cpc' = "payload"
  /\ UNCHANGED <<hostVars, socketVars, exe, cjob, child, exitCode, lost>>

(* Fault: the reading loop does not look at bytesAvailable().              *)
ReadPayload_Overrun ==
  /\ cpc = "payload" /\ pos < Chunks
  /\ pos' \in (pos + 1) .. Chunks
  /\ UNCHANGED <<hostVars, socketVars, exe, cpc, cjob, child, exitCode, lost>>

(* One turn of the reading loop: at most what is missing.                  *)
ReadPayload ==
  /\ cpc = "payload" /\ pos < delivered
  /\ pos' \in (pos + 1) .. delivered
  /\ UNCHANGED <<hostVars, socketVars, exe, cpc, cjob, child, exitCode, lost>>

(* createJob() and m_job->start(), and only then the connections to the    *)
(* notify signals: what start() changes before it returns nobody hears,    *)
(* the end of a job that finishes inside start() included.  error is       *)
(* notified by result, so it counts only for a job that has finished.      *)
RunPlugin ==
  /\ cpc' = "exec"
  /\ \E props \in PropMap, done \in BOOLEAN :
       /\ ~done => props["error"] = 0
       /\ child' = props
       /\ cjob' = IF done THEN "finished" ELSE "running"
       /\ lost' = IF done \/ props # InitProps
                  THEN lost \cup {"before_connect"} ELSE lost
  /\ UNCHANGED <<hostVars, socketVars, exe, pos, exitCode>>

(* Fault: the plugin is started with what one read returned.               *)
StartPlugin_Early == cpc = "payload" /\ pos > 1 /\ RunPlugin

(* The whole payload is there.                                             *)
StartPlugin == cpc = "payload" /\ pos = Chunks /\ RunPlugin

(* The plugin does not load, or the arguments are not complete: createJob  *)
(* returns null and m_job->start() ends the process.                       *)
NoPlugin ==
  /\ cpc = "payload" /\ pos = Chunks
  /\ Exit(1)
  /\ UNCHANGED <<hostVars, conn, delivered, flushed, exe, pos, cjob, child>>

(* waitForReadyRead gives up after 30 s.  With assertions the process      *)
(* aborts; without them it goes on with what it has read, and either has   *)
(* enough to create the job or ends as in NoPlugin.                        *)
ReadTimeout ==
  /\ \/ cpc = "header" /\ delivered = 0
     \/ cpc = "payload" /\ pos = delivered /\ pos < Chunks
  /\ \/ /\ Exit(1)
        /\ UNCHANGED <<hostVars, conn, delivered, flushed, exe, pos, cjob,
                       child>>
     \/ ~asserts /\ RunPlugin

(* Fault: the newest line overtakes the others.                            *)
Send_Overtaking(m) == stream' = <<m>> \o stream

(* Communication::propertyChanged and send: one line per notify signal.    *)
Send(m) == stream' = Append(stream, m)

JobRunning == Library /\ cpc = "exec" /\ cjob = "running"

(* setPercent and setOutput notify only when the value changes.            *)
ReportChange ==
  /\ JobRunning /\ Len(stream) < MaxInFlight
  /\ \E p \in Props \ {"error"} : \E v \in ValuesOf(p) \ {child[p], NoOutput} :
       /\ child' = [child EXCEPT ![p] = v]
       /\ Send([prop |-> p, val |-> v])
  /\ UNCHANGED <<hostVars, conn, delivered, flushed, exe, cpc, pos, cjob,
                 exitCode, lost>>

(* KJob::emitResult in the plugin's job: result carries error.             *)
ReportResult ==
  /\ JobRunning /\ Len(stream) < MaxInFlight
  /\ cjob' = "finished"
  /\ \E e \in ErrorCodes : /\ child' = [child EXCEPT !["error"] = e]
                           /\ Send([prop |-> "error", val |-> e])
  /\ UNCHANGED <<hostVars, conn, delivered, flushed, exe, cpc, pos,
                 exitCode, lost>>

(* The event loop writes buffered lines.                                   *)
Flush ==
  /\ Library /\ cpc = "exec" /\ flushed < Len(stream)
  /\ flushed' \in (flushed + 1) .. Len(stream)
  /\ UNCHANGED <<hostVars, conn, delivered, stream, childVars>>

(* The finished job is deleted; with it goes the last event loop locker    *)
(* and app.exec() returns.  Nothing waits for the write buffer.            *)
Quit ==
  /\ Library /\ cpc = "exec" /\ cjob = "finished"
  /\ Exit(0)
  /\ UNCHANGED <<hostVars, conn, delivered, flushed, exe, pos, cjob, child>>

(* The process dies at any moment.                                         *)
Crash ==
  /\ Alive
  /\ Exit(1)
  /\ UNCHANGED <<hostVars, conn, delivered, flushed, exe, pos, cjob, child>>

-----------------------------------------------------------------------------
(* A packaged plugin's own executable: any order of connecting, writing    *)
(* lines and exiting.  It reads the payload or not.                        *)

ScriptConnect ==
  /\ ~Library /\ cpc = "boot"
  /\ conn' = "pending" /\ cpc' = "exec" /\ cjob' = "running"
  /\ UNCHANGED <<hostVars, delivered, stream, flushed, exe, pos, child,
                 exitCode, lost>>

ScriptWrite ==
  /\ ~Library /\ cpc = "exec" /\ Len(stream) < MaxInFlight
  /\ \E m \in Line :
       /\ Send(m)
       /\ child' = IF m.prop \in Props THEN [child EXCEPT ![m.prop] = m.val]
                                       ELSE child
  /\ flushed' = flushed + 1
  /\ UNCHANGED <<hostVars, conn, delivered, exe, cpc, pos, cjob, exitCode,
                 lost>>

ScriptExit ==
  /\ ~Library /\ Alive
  /\ \E code \in {0, 1} : Exit(code)
  /\ cjob' = "finished"
  /\ UNCHANGED <<hostVars, conn, delivered, flushed, exe, pos, child>>

-----------------------------------------------------------------------------
Host ==
  \/ Start \/ ProcessUp \/ FailedToStart \/ WriteSocket \/ SendRest
  \/ ReadSocket \/ ProcessStateChanged \/ Drain \/ EmitResult \/ Destroy

PurposeProcess ==
  \/ Connect \/ ReadHeader \/ ReadPayload \/ StartPlugin \/ NoPlugin
  \/ ReadTimeout \/ ReportChange \/ ReportResult \/ Flush \/ Quit

Script == ScriptConnect \/ ScriptWrite \/ ScriptExit

Next == Host \/ PurposeProcess \/ Script \/ Crash

Spec == Init /\ [][Next]_vars

(* Both event loops serve each pending event, and the loops that wait for  *)
(* data go on when it is there.  Nothing is assumed of timeouts, of the    *)
(* plugin's own work, of a foreign executable or of who deletes the job.   *)
Fairness ==
  /\ WF_vars(ProcessUp \/ FailedToStart)
  /\ WF_vars(WriteSocket) /\ WF_vars(SendRest) /\ WF_vars(ReadSocket)
  /\ WF_vars(ProcessStateChanged) /\ WF_vars(Drain) /\ WF_vars(EmitResult)
  /\ WF_vars(Connect) /\ WF_vars(ReadHeader) /\ WF_vars(ReadPayload)
  /\ WF_vars(StartPlugin \/ NoPlugin) /\ WF_vars(Quit)

FairSpec == Spec /\ Fairness

-----------------------------------------------------------------------------
(* Properties                                                              *)

(* When the job has finished and no report of the plugin was lost, the     *)
(* host shows exactly what the plugin's job ended with: readSocket and the *)
(* drain of processStateChanged neither skip, reorder nor miss a line.     *)
FinalMirror == job = "finished" /\ lost = {} => mirror = child

(* purposeprocess built with assertions creates the plugin's job only from *)
(* the whole payload, however writeSocket's bytes were cut up on the way.  *)
PayloadComplete ==
  Library /\ asserts /\ cjob # "none" =>
    conn = "accepted" /\ delivered = Chunks /\ pos = Chunks

(* What the properties above rest on: before the plugin runs nothing has   *)
(* been said or shown, *)
QuietBeforePlugin ==
  cpc \in {"none", "boot", "header", "payload"} =>
    /\ stream = <<>> /\ cjob = "none"
    /\ child = InitProps /\ mirror = InitProps

(* the socket is connected only by a process that is up, and accepted      *)
(* before anything crosses it,                                             *)
SocketOrder ==
  /\ cpc \in {"none", "boot"} => conn = "none"
  /\ proc = "Starting" => cpc = "none"
  /\ delivered > 0 => conn = "accepted"

(* what a process has not sent when it ends never comes,                   *)
NothingAfterExit == cpc = "exited" => flushed = Len(stream)

(* the host waits as long as the process lives, and drains, and finishes   *)
(* the job, only after its end,                                            *)
ResultAfterExit ==
  /\ Draining => /\ job = "started" /\ conn = "accepted"
                 /\ proc = "NotRunning" /\ cpc = "exited"
  /\ job = "finished" => /\ stream = <<>>
                         /\ proc = "NotRunning" /\ cpc = "exited"
  /\ job = "created" => proc = "NotRunning" /\ cpc = "none"
  /\ Alive => job = "started" /\ ppc = "loop" /\ proc = "Running"

(* and the lines s still to be read, applied in their order to what the    *)
(* host has shown, give what the plugin has told.                          *)
CatchesUp(s, shown, told) ==
  \A p \in Props :
    LET About(i) == s[i].prop = p
    IN /\ (\A i \in 1 .. Len(s) : ~About(i)) => shown[p] = told[p]
       /\ \A i \in 1 .. Len(s) :
            About(i) /\ (\A j \in i + 1 .. Len(s) : ~About(j)) =>
              s[i].val = told[p]

MirrorCatchesUp == lost = {} => CatchesUp(stream, mirror, child)

IInv == /\ TypeOK /\ QuietBeforePlugin /\ SocketOrder /\ NothingAfterExit
        /\ ResultAfterExit /\ PayloadComplete /\ MirrorCatchesUp

(* The job keeps the contract of Purpose::Job (module Job) towards the     *)
(* host: properties change only between start and result, one result, and  *)
(* that only after the plugin has stopped.                                 *)
Phase == IF ppc = "crashed" THEN "crashed"
         ELSE [created |-> "idle", started |-> "running", finished |-> "done",
               destroyed |-> "gone"][job]

Contract == INSTANCE Job WITH
  phase <- Phase, props <- mirror, remote <- child,
  ended <- (cpc = "exited"), complete <- (lost = {})

ContractSpec == Contract!Spec

Over == ppc = "crashed" \/ job \in {"finished", "destroyed"}

(* However the plugin or its process comes to an end, a failure included,  *)
(* the host's job emits its result (or the host is gone).                  *)
EndLeadsToResult == (cjob = "finished" \/ cpc = "exited") ~> Over

(* The handshake neither stalls nor deadlocks: a started library plugin    *)
(* gets its data and runs, or its process ends.                            *)
StartLeadsToPlugin ==
  (job = "started" /\ Library) ~> (cjob # "none" \/ cpc = "exited" \/ Over)

(* processjob.cpp:112: Q_ASSERT(m_process->exitCode() != 0 ||              *)
(* m_localSocket), when stateChanged says that the process is not running. *)
ExitAssertion ==
  Draining \/ ppc = "crashed" => exitCode # 0 \/ conn = "accepted"

(* job.h:32: the job is over when it emits finished; the error the         *)
(* plugin's job ended with is then known, if its process ended normally    *)
(* and sent all it wrote.                                                  *)
ErrorIsReported ==
  job = "finished" /\ cjob = "finished" /\ exitCode = 0
    /\ "at_exit" \notin lost =>
    mirror["error"] = child["error"]
=============================================================================
