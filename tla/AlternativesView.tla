-------------------------- MODULE AlternativesView --------------------------
(***************************************************************************)
(* AlternativesView.qml (src/src/quick): a stack with the list of          *)
(* alternatives at the bottom and a JobView, with a controller of its own, *)
(* for each share.  A view that is popped lives on until the transition    *)
(* ends and is then destroyed; its job, which belongs to the model, is     *)
(* not.                                                                    *)
(***************************************************************************)
EXTENDS JobView, SequencesExt

VARIABLES
  stack,     \* the job views above the list
  dying,     \* popped, until the transition ends
  destroyed,
  orphaned,  \* history: the shares whose result came after that
  reports    \* history: the finished signals of the stack

stackVars == <<stack, dying, destroyed>>
vars == <<viewVars, stackVars, orphaned, reports>>

Stacked == {stack[i] : i \in DOMAIN stack}
Used == Stacked \cup dying \cup destroyed

(* A report reads m_job in the handler of the result of job "source".      *)
Report == [share : ShareIds, source : ShareIds, seen : JobStates]

Init == /\ ViewInit
        /\ stack = <<>> /\ dying = {} /\ destroyed = {}
        /\ orphaned = {} /\ reports = <<>>

-----------------------------------------------------------------------------
ReportOf(signal) ==
  LET k == job'[signal.view]
  IN [share |-> k, source |-> signal.source, seen |-> shares'[k].job]

PopTo(rest, from) ==
  /\ stack' = rest
  /\ dying' = dying \cup (ToSet(from) \ ToSet(rest))
  /\ UNCHANGED destroyed

(* What the signals of a step announce: the first of them, for only        *)
(* Running ever follows another, and that is ignored.                      *)
Announced(ss) == signals' # <<>> /\ Head(signals').state \in ss
IsResult == Announced({"Finished", "Error"})

Tell(told) ==
  reports' = IF told THEN Append(reports, ReportOf(Head(signals'))) ELSE reports

(* Fault: a cancelled view is left where it is.                            *)
OnJobStateChanged_NoPop(from, resets) ==
  /\ Tell(IsResult)
  /\ PopTo(IF IsResult /\ resets THEN <<>> ELSE from, from)

(* onJobStateChanged for the signals of a step.  The application's handler *)
(* of finished may call reset().                                           *)
OnJobStateChanged(from, resets) ==
  /\ Tell(IsResult)
  /\ PopTo(IF Announced({"Cancelled"}) /\ from # <<>> THEN Front(from)
           ELSE IF IsResult /\ resets THEN <<>> ELSE from, from)

Up == ~ aborted

(* Fault: the view on top is used for the next share too.                  *)
CreateJob_Reuse(p) ==
  \E v \in IF stack = <<>> THEN Views \ Used ELSE {Last(stack)} :
    /\ ViewStart(v, p)
    /\ OnJobStateChanged(IF stack = <<>> THEN <<v>> ELSE stack, FALSE)
    /\ UNCHANGED orphaned

(* createJob(), from the list or the application: a new view is pushed,    *)
(* whose completion calls start().  What a reset() from in there would do  *)
(* to the push that goes on is up to Qt; it is not modelled.               *)
CreateJob(p) ==
  \E v \in Views \ Used :
    /\ ViewStart(v, p)
    /\ OnJobStateChanged(Append(stack, v), FALSE)
    /\ UNCHANGED orphaned

(* The user, in the page on top of the stack.                              *)
OnTop(v) == stack # <<>> /\ v = Last(stack)

Edit(v) == OnTop(v) /\ EditPage(v) /\ UNCHANGED <<stackVars, orphaned, reports>>

Buttons(v) ==
  /\ OnTop(v)
  /\ \/ Send(v) \/ CancelButton(v)
  /\ \E resets \in BOOLEAN : OnJobStateChanged(stack, resets)
  /\ UNCHANGED orphaned

(* A result whose view is alive, on the stack or not.                      *)
Result(k) ==
  /\ shares[k].view \notin destroyed
  /\ ViewResult(k)
  /\ \E resets \in BOOLEAN : OnJobStateChanged(stack, resets)
  /\ UNCHANGED orphaned

(* The lambda was connected in the context of the controller, which went   *)
(* with its view: nobody hears the result.                                 *)
OrphanResult(k) ==
  /\ shares[k].view \in destroyed /\ shares[k].job = "running"
  /\ \E outcome \in Outcomes : shares' = [shares EXCEPT ![k].job = outcome]
  /\ signals' = <<>> /\ orphaned' = orphaned \cup {k}
  /\ UNCHANGED <<state, configuration, job, aborted, page, stackVars, reports>>

(* reset(), called by the application.                                     *)
Reset ==
  /\ stack # <<>> /\ PopTo(<<>>, stack) /\ signals' = <<>>
  /\ UNCHANGED <<state, configuration, job, shares, aborted, page>>
  /\ UNCHANGED <<orphaned, reports>>

(* The end of the transition.                                              *)
Destroy ==
  /\ dying # {} /\ destroyed' = destroyed \cup dying /\ dying' = {}
  /\ signals' = <<>>
  /\ UNCHANGED <<state, configuration, job, shares, aborted, page>>
  /\ UNCHANGED <<stack, orphaned, reports>>

Delete(k) == ViewDeleteJob(k) /\ UNCHANGED <<stackVars, orphaned, reports>>

Next ==
  /\ Up
  /\ \/ \E p \in Plugins : CreateJob(p)
     \/ \E v \in Views : Edit(v) \/ Buttons(v)
     \/ \E k \in DOMAIN shares : Result(k) \/ OrphanResult(k) \/ Delete(k)
     \/ Reset \/ Destroy

Spec == Init /\ [][Next]_vars

-----------------------------------------------------------------------------
(* Properties                                                              *)

TypeOK == /\ ViewTypeOK
          /\ stack \in Seq(Views) /\ dying \subseteq Views
          /\ destroyed \subseteq Views /\ orphaned \subseteq DOMAIN shares
          /\ reports \in Seq(Report)

Over(k) == shares[k].job \in Outcomes \cup {"deleted"}
Reported(k) == {i \in DOMAIN reports : reports[i].source = k}

(* AlternativesView.qml:90-96: finished signals when the job finishes.     *)
(* Every result is reported once, read from the job that finished, however *)
(* many shares are stacked and whatever is popped meanwhile; the only ones *)
(* that are not are those whose view was destroyed before they came.       *)
ResultsReported ==
  /\ \A k \in DOMAIN shares :
       Cardinality(Reported(k)) = IF Over(k) /\ k \notin orphaned THEN 1 ELSE 0
  /\ \A i \in DOMAIN reports :
       reports[i].share = reports[i].source /\ reports[i].seen \in Outcomes

(* A view serves one share, and the page it shows was loaded for that one: *)
(* what goes wrong with JobDialog's single view cannot happen here.        *)
OwnPage ==
  /\ \A k, l \in DOMAIN shares : shares[k].view = shares[l].view => k = l
  /\ \A v \in Views : page[v] \in {NoShare, configuration[v]}

(* What is on the stack is a share to be configured or a running one; or   *)
(* it is over and the application has been told, the spinner of a job that *)
(* ended inside its start() included.                                      *)
StackShowsShares ==
  \A v \in Stacked :
    LET k == configuration[v]
    IN aborted \/ CASE state[v] = "Configuring" -> shares[k].job = "none"
                    [] state[v] = "Running" ->
                         shares[k].job = "running" \/ Reported(k) # {}
                    [] OTHER -> Reported(k) # {}

(* job.h:35: only what has been filled in is started, although several     *)
(* pages are alive at once.                                                *)
StartedReady ==
  \A k \in DOMAIN shares : shares[k].job # "none" => shares[k].ready

(* What these rest on.  A view belongs to one share, whose page, job and   *)
(* configuration are all it ever has.                                      *)
Owned ==
  /\ \A k \in DOMAIN shares :
       /\ configuration[shares[k].view] = k
       /\ shares[k].job # "none" => job[shares[k].view] = k
  /\ \A v \in Views :
       /\ v \notin Used => configuration[v] = NoShare /\ page[v] = NoShare
       /\ v \in Used => /\ configuration[v] \in DOMAIN shares
                       /\ shares[configuration[v]].view = v
       /\ page[v] # NoShare =>
            page[v] = configuration[v] /\ state[v] = "Configuring"

(* A view is in one place, and on the stack once.                          *)
Placed ==
  /\ IsInjective(stack)
  /\ Stacked \cap dying = {} /\ (Stacked \cup dying) \cap destroyed = {}

(* A result that was not orphaned has its report, and no other report is   *)
(* about that share.                                                       *)
ReportsOnce ==
  /\ orphaned \subseteq {k \in DOMAIN shares : Over(k)}
  /\ \A k \in DOMAIN shares :
       Over(k) /\ k \notin orphaned <=>
         \E i \in DOMAIN reports : reports[i].source = k
  /\ \A i \in DOMAIN reports :
       /\ reports[i].source \in DOMAIN shares
       /\ reports[i].share = reports[i].source /\ reports[i].seen \in Outcomes
  /\ \A i, j \in DOMAIN reports : reports[i].source = reports[j].source => i = j

IInv == /\ TypeOK /\ Owned /\ Placed /\ ReportsOnce
        /\ StackShowsShares /\ StartedReady
=============================================================================
