--------------------------- MODULE JobController ---------------------------
(***************************************************************************)
(* Purpose::JobController (src/src/jobcontroller.cpp), the Configuration   *)
(* it obtains from the model and the jobs that makes.  One controller      *)
(* belongs to each JobView.  Signals are synchronous calls: an operation   *)
(* lists in "signals" the stateChanged signals it emits, in their order,   *)
(* and its caller's handlers (modules JobView and JobDialog) are part of   *)
(* the same step.                                                          *)
(***************************************************************************)
EXTENDS Integers, Sequences

CONSTANTS
  Views,      \* the job views, each with a controller
  Plugins,    \* plugins that need arguments of their own
  MaxShares   \* bound: calls of configure()

ASSUME SharesAssumption == MaxShares \in Nat

(* The k-th call of configure() makes configuration k, and startJob() the  *)
(* job of configuration k (once: OpenWindowWaits in JobDialog).                *)
NoShare == 0
ShareIds == 0 .. MaxShares

States == {"Inactive", "Configuring", "Running", "Finished", "Cancelled",
           "Error"}
Outcomes == {"succeeded", "failed"}
JobStates == {"none", "running", "deleted"} \cup Outcomes

Share == [plugin : Plugins, view : Views, ready : BOOLEAN, job : JobStates]

(* A stateChanged signal: its sender, the state then, and the job whose    *)
(* result caused it.                                                       *)
Signal == [view : Views, state : States, source : ShareIds]
Changed(v, s, k) == [view |-> v, state |-> s, source |-> k]

VARIABLES
  state,         \* m_state of each controller
  configuration, \* m_configuration
  job,           \* m_job, which is never reset
  shares,        \* the configurations made so far, each with its job
  aborted,       \* startJob went on with a null job
  signals        \* the stateChanged signals of the last operation

controllerVars == <<state, configuration, job, shares, aborted, signals>>

ControllerTypeOK ==
  /\ state \in [Views -> States]
  /\ shares \in Seq(Share) /\ Len(shares) <= MaxShares
  /\ configuration \in [Views -> 0 .. Len(shares)]
  /\ job \in [Views -> 0 .. Len(shares)]
  /\ aborted \in BOOLEAN
  /\ signals \in Seq(Signal)

ControllerInit ==
  /\ state = [v \in Views |-> "Inactive"]
  /\ configuration = [v \in Views |-> NoShare]
  /\ job = [v \in Views |-> NoShare]
  /\ shares = <<>> /\ aborted = FALSE /\ signals = <<>>

-----------------------------------------------------------------------------

(* The lambda connected to KJob::result.                                   *)
OnResult(v, k, outcome) ==
  Changed(v, IF outcome = "failed" THEN "Error" ELSE "Finished", k)

(* Fault: result is connected after start().                               *)
StartJobOf_LateConnect(v, k, ss) ==
  \E outcome \in {"running"} \cup Outcomes :
    /\ job' = [job EXCEPT ![v] = k]
    /\ shares' = [ss EXCEPT ![k].job = outcome]
    /\ state' = [state EXCEPT ![v] = "Running"]
    /\ signals' = <<Changed(v, "Running", NoShare)>>
    /\ UNCHANGED aborted

(* startJob() for share k of those in ss: the job is created, connected    *)
(* and started, and Running is announced when start() has returned,        *)
(* whether or not the job finished inside it.  A plugin that does not load *)
(* gives a null job, which is asserted against and then dereferenced.      *)
StartJobOf(v, k, ss) ==
  \/ \E outcome \in {"running"} \cup Outcomes :
       /\ job' = [job EXCEPT ![v] = k]
       /\ shares' = [ss EXCEPT ![k].job = outcome]
       /\ state' = [state EXCEPT ![v] = "Running"]
       /\ signals' =
            (IF outcome = "running" THEN <<>> ELSE <<OnResult(v, k, outcome)>>)
              \o <<Changed(v, "Running", NoShare)>>
       /\ UNCHANGED aborted
  \/ /\ job' = [job EXCEPT ![v] = NoShare]
     /\ shares' = ss
     /\ aborted' = TRUE
     /\ signals' = <<>>
     /\ UNCHANGED state

(* Fault: the button does not follow isReady.                              *)
StartJob_Unchecked(v) ==
  /\ configuration[v] # NoShare
  /\ StartJobOf(v, configuration[v], shares)
  /\ UNCHANGED configuration

(* startJob() of the Send button, which is enabled only when               *)
(* Configuration::isReady().                                               *)
StartJob(v) ==
  /\ configuration[v] # NoShare /\ shares[configuration[v]].ready
  /\ StartJobOf(v, configuration[v], shares)
  /\ UNCHANGED configuration

(* configure(): a new configuration each time; what there was before, a    *)
(* running job included, is left alone.  The input data may already hold   *)
(* all the plugin needs; or else the handlers of stateChanged may have     *)
(* "filled" the configuration when configure() returns.                    *)
Configure(v, p, filled) ==
  LET k == Len(shares) + 1
      Made(r) == Append(shares,
                        [plugin |-> p, view |-> v, ready |-> r, job |-> "none"])
  IN /\ Len(shares) < MaxShares
     /\ configuration' = [configuration EXCEPT ![v] = k]
     /\ \/ StartJobOf(v, k, Made(TRUE))
        \/ /\ shares' = Made(filled)
           /\ state' = [state EXCEPT ![v] = "Configuring"]
           /\ signals' = <<Changed(v, "Configuring", NoShare)>>
           /\ UNCHANGED <<job, aborted>>

(* cancel(): a running job is neither stopped nor disconnected.            *)
Cancel(v) ==
  /\ state' = [state EXCEPT ![v] = "Cancelled"]
  /\ signals' = <<Changed(v, "Cancelled", NoShare)>>
  /\ UNCHANGED <<configuration, job, shares, aborted>>

(* A job emits its result later, and the controller that started it takes  *)
(* it for the result of what it does now.                                  *)
JobResult(k) ==
  /\ shares[k].job = "running"
  /\ \E outcome \in Outcomes :
       LET signal == OnResult(shares[k].view, k, outcome)
       IN /\ shares' = [shares EXCEPT ![k].job = outcome]
          /\ signals' = <<signal>>
          /\ state' = [state EXCEPT ![signal.view] = signal.state]
  /\ UNCHANGED <<configuration, job, aborted>>

(* Fault: the configuration goes with its job (configuration.h:33), and    *)
(* m_configuration stays.                                                  *)
DeleteJob_WithConfiguration(k) ==
  /\ shares[k].job \in Outcomes
  /\ shares' = SubSeq(shares, 1, k - 1) \o SubSeq(shares, k + 1, Len(shares))
  /\ signals' = <<>>
  /\ UNCHANGED <<state, configuration, job, aborted>>

(* KJob's auto-deletion, from the event loop after the result.             *)
DeleteJob(k) ==
  /\ shares[k].job \in Outcomes
  /\ shares' = [shares EXCEPT ![k].job = "deleted"]
  /\ signals' = <<>>
  /\ UNCHANGED <<state, configuration, job, aborted>>
=============================================================================
