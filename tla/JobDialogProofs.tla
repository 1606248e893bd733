--------------------------- MODULE JobDialogProofs ---------------------------
(* Proofs about JobDialog, for any plugins and any number of shares.       *)
EXTENDS JobDialog, JobControllerProofs, FiniteSetTheorems

-----------------------------------------------------------------------------
(* The handlers                                                            *)

(* A signal that closes the window adds its report, and the closing that   *)
(* follows adds none; any other signal adds nothing.                       *)
LEMMA HandleQuiet ==
  ASSUME NEW open \in BOOLEAN, Handle(open),
         signals' = <<>> \/ ~ Closes(Head(signals'))
  PROVE  /\ visible' = open /\ reports' = reports
         /\ crashed' = crashed /\ misread' = misread
BY DEF Handle

LEMMA HandleClosing ==
  ASSUME NEW open \in BOOLEAN, Handle(open), reports \in Seq(Report),
         signals' # <<>>, Closes(Head(signals')),
         ~ FindsDeleted(Head(signals')), ReportOf(Head(signals')) \in Report
  PROVE  /\ visible' = FALSE
         /\ reports' = Append(reports, ReportOf(Head(signals')))
         /\ crashed' = crashed /\ misread' = misread
<1> DEFINE one == Append(reports, ReportOf(Head(signals')))
<1>1. one \in Seq(Report) /\ one \o <<>> = one
  OBVIOUS
<1>2. OnClosing(Head(signals').state) = <<>>
  BY DEF OnClosing, Closes
<1> QED
  BY <1>1, <1>2 DEF Handle, Tell

(* A result that finds a deleted job is reported or not, and the window    *)
(* closes, stays as it is, or nothing follows.                             *)
LEMMA HandleMisread ==
  ASSUME NEW open \in BOOLEAN, Handle(open), reports \in Seq(Report),
         signals' # <<>>, Closes(Head(signals')),
         FindsDeleted(Head(signals')), ReportOf(Head(signals')) \in Report
  PROVE  /\ misread' = misread \cup {Head(signals').source}
         /\ visible' \in BOOLEAN /\ crashed' \in {crashed, TRUE}
         /\ \/ /\ visible' = FALSE
               /\ reports' = Append(reports, ReportOf(Head(signals')))
            \/ visible' = open /\ reports' = reports
<1> DEFINE one == Append(reports, ReportOf(Head(signals')))
<1>1. one \in Seq(Report) /\ one \o <<>> = one
  OBVIOUS
<1>2. OnClosing(Head(signals').state) = <<>>
  BY DEF OnClosing, Closes
<1> QED
  BY <1>1, <1>2 DEF Handle, Misread, Tell

(* The ends of startJob() under the dialog: the job runs or has finished   *)
(* inside start() and is reported, or there is no job.                     *)
Starts(k, ss, o) ==
  /\ shares' = WithJob(ss, k, o)
  /\ job' = [job EXCEPT ![Dialog] = k]
  /\ state' = [state EXCEPT ![Dialog] = "Running"]
  /\ aborted' = aborted /\ crashed' = crashed /\ misread' = misread
  /\ IF o = "running" THEN visible' = TRUE /\ reports' = reports
     ELSE /\ visible' = FALSE
          /\ reports' = Append(reports, [share |-> k, source |-> k, seen |-> o])

StartsNothing(ss) ==
  /\ shares' = ss /\ aborted' = TRUE
  /\ job' = [job EXCEPT ![Dialog] = NoShare]
  /\ state' = state /\ visible' = TRUE /\ reports' = reports
  /\ crashed' = crashed /\ misread' = misread

(* The first of two signals.                                               *)
LEMMA First ==
  ASSUME NEW a \in Signal, NEW b \in Signal
  PROVE  LET t == <<a>> \o <<b>>
         IN t \in Seq(Signal) /\ t # <<>> /\ Head(t) = a
<1> DEFINE t == <<a>> \o <<b>>
<1>1. <<a>> \in Seq(Signal) /\ <<b>> \in Seq(Signal)
  OBVIOUS
<1>2. t \in Seq(Signal) /\ Len(t) = 2 /\ t[1] = a
  BY <1>1
<1>3. t # <<>>
  BY <1>2
<1>4. Head(t) = a
  BY <1>2
<1> QED
  BY <1>2, <1>3, <1>4

LEMMA StartEffect ==
  ASSUME TypeOK, NEW ss \in Seq(Share), NEW k \in 1 .. Len(ss),
         Len(ss) <= MaxShares,
         StartJobOf(Dialog, k, ss), Handle(TRUE)
  PROVE  /\ \/ \E o \in {"running"} \cup Outcomes : Starts(k, ss, o)
            \/ StartsNothing(ss)
         /\ signals' \in Seq(Signal)
<1> USE OneDialog, SharesAssumption
<1>1. k \in ShareIds /\ NoShare \in ShareIds
  BY DEF ShareIds, NoShare
<1>2. Changed(Dialog, "Running", NoShare) \in Signal
  BY <1>1 DEF Changed, Signal, States
<1>3. CASE /\ job' = [job EXCEPT ![Dialog] = NoShare] /\ shares' = ss
           /\ aborted' = TRUE /\ signals' = <<>> /\ state' = state
  <2>1. /\ visible' = TRUE /\ reports' = reports
        /\ crashed' = crashed /\ misread' = misread
    BY <1>3, HandleQuiet
  <2> QED
    BY <1>3, <2>1 DEF StartsNothing
<1>4. ASSUME NEW o \in {"running"} \cup Outcomes,
             job' = [job EXCEPT ![Dialog] = k],
             shares' = WithJob(ss, k, o),
             state' = [state EXCEPT ![Dialog] = "Running"],
             signals' = (IF o = "running" THEN <<>>
                         ELSE <<OnResult(Dialog, k, o)>>)
                          \o <<Changed(Dialog, "Running", NoShare)>>,
             aborted' = aborted
      PROVE  Starts(k, ss, o) /\ signals' \in Seq(Signal)
  <2>1. CASE o = "running"
    <3>1. signals' = <<Changed(Dialog, "Running", NoShare)>>
      BY <1>2, <1>4, <2>1
    <3>2. ~ Closes(Head(signals'))
      BY <3>1 DEF Closes, Changed
    <3>3. /\ visible' = TRUE /\ reports' = reports
          /\ crashed' = crashed /\ misread' = misread
      BY <3>2, HandleQuiet
    <3> QED
      BY <1>2, <1>4, <2>1, <3>1, <3>3 DEF Starts
  <2>2. CASE o # "running"
    <3> DEFINE r == OnResult(Dialog, k, o)
    <3>1. o \in Outcomes
      BY <2>2
    <3>2. r \in Signal /\ Closes(r) /\ r.source = k /\ r.state # "Cancelled"
      BY <1>1, <3>1 DEF OnResult, Changed, Signal, States, Closes, Outcomes
    <3>3. signals' = <<r>> \o <<Changed(Dialog, "Running", NoShare)>>
      BY <1>4, <2>2
    <3>4. signals' \in Seq(Signal) /\ signals' # <<>> /\ Head(signals') = r
      BY <1>2, <3>2, <3>3, First
    <3>5. job'[Dialog] = k
      BY <1>4 DEF TypeOK, ViewTypeOK, ControllerTypeOK
    <3>6. shares'[k].job = o
      <4>1. o \in JobStates
        BY <3>1 DEF JobStates
      <4>2. WithJob(ss, k, o)[k].job = o
        BY <4>1, SetJob, Zenon
      <4> QED
        BY <1>4, <4>2, Zenon
    <3>7. ReportOf(r) = [share |-> k, source |-> k, seen |-> o]
      BY <3>2, <3>5, <3>6 DEF ReportOf, ResultReport
    <3>8. ReportOf(r) \in Report
      BY <1>1, <3>1, <3>7 DEF Report, JobStates
    <3>9. ~ FindsDeleted(r)
      BY <3>1, <3>5, <3>6 DEF FindsDeleted, Outcomes
    <3>10. /\ visible' = FALSE
           /\ reports' = Append(reports, [share |-> k, source |-> k, seen |-> o])
           /\ crashed' = crashed /\ misread' = misread
      BY <3>2, <3>4, <3>7, <3>8, <3>9, HandleClosing DEF TypeOK
    <3> QED
      BY <1>4, <2>2, <3>1, <3>4, <3>10 DEF Starts
  <2> QED
    BY <2>1, <2>2
<1> QED
  BY <1>3, <1>4 DEF StartJobOf, WithJob

-----------------------------------------------------------------------------
(* The reports                                                             *)

(* What is deleted stays so, and what is over.                             *)
Onward ==
  /\ shares' \in Seq(Share) /\ Len(shares) <= Len(shares')
  /\ \A k \in 1 .. Len(shares) :
       /\ shares[k].job = "deleted" => shares'[k].job = "deleted"
       /\ Over(k) => Over(k)'

LEMMA MisreadKept ==
  ASSUME TypeOK, ReportsOnce, Onward
  PROVE  \A k \in misread : k \in DOMAIN shares' /\ Over(k)' /\ Overtaken(k)'
<1>1. /\ Len(shares) \in Nat /\ DOMAIN shares = 1 .. Len(shares)
      /\ misread \subseteq DOMAIN shares
      /\ Len(shares') \in Nat /\ DOMAIN shares' = 1 .. Len(shares')
      /\ Len(shares) <= Len(shares')
  BY DEF TypeOK, ViewTypeOK, ControllerTypeOK, Onward
<1> SUFFICES ASSUME NEW k \in misread
             PROVE  k \in DOMAIN shares' /\ Over(k)' /\ Overtaken(k)'
  OBVIOUS
<1>2. k \in 1 .. Len(shares) /\ k \in DOMAIN shares' /\ Over(k) /\ Overtaken(k)
  BY <1>1 DEF ReportsOnce
<1>3. Over(k)'
  BY <1>2 DEF Onward
<1>4. PICK l \in DOMAIN shares : l > k /\ shares[l].job = "deleted"
  BY <1>2 DEF Overtaken
<1>5. l \in DOMAIN shares' /\ shares'[l].job = "deleted"
  BY <1>1, <1>4 DEF Onward
<1> QED
  BY <1>2, <1>3, <1>4, <1>5 DEF Overtaken

(* A step that ends no job and reports none.                               *)
LEMMA ReportsSame ==
  ASSUME TypeOK, ReportsOnce, Onward,
         \A k \in 1 .. Len(shares') : Over(k)' <=> k <= Len(shares) /\ Over(k),
         reports' = reports, misread' = misread
  PROVE  ReportsOnce' /\ misread' \subseteq DOMAIN shares'
<1>1. /\ Len(shares) \in Nat /\ DOMAIN shares = 1 .. Len(shares)
      /\ Len(shares') \in Nat /\ DOMAIN shares' = 1 .. Len(shares')
      /\ Len(shares) <= Len(shares')
  BY DEF TypeOK, ViewTypeOK, ControllerTypeOK, Onward
<1>2. \A i \in DOMAIN reports : reports[i].source \in 0 .. Len(shares)
  BY DEF ReportsOnce
<1>3. ASSUME NEW k \in DOMAIN shares'
      PROVE  /\ Over(k)' => \/ k \in misread
                            \/ \E i \in DOMAIN reports : reports[i].source = k
             /\ ~ Over(k)' => \A i \in DOMAIN reports : reports[i].source # k
  <2>1. CASE k <= Len(shares)
    <3>1. k \in DOMAIN shares /\ (Over(k)' <=> Over(k))
      BY <1>1, <1>3, <2>1
    <3> QED
      BY <3>1 DEF ReportsOnce
  <2>2. CASE k > Len(shares)
    <3>1. ~ Over(k)'
      BY <1>1, <1>3, <2>2
    <3> QED
      BY <1>1, <1>2, <2>2, <3>1
  <2> QED
    BY <1>1, <1>3, <2>1, <2>2
<1>4. \A i \in DOMAIN reports' : reports'[i].source \in 0 .. Len(shares')
  BY <1>1, <1>2
<1>5. \A i, j \in DOMAIN reports' :
        reports'[i].source = reports'[j].source /\ i # j =>
          reports'[i].source = NoShare
  BY DEF ReportsOnce
<1>6. \A k \in misread' : k \in DOMAIN shares' /\ Over(k)' /\ Overtaken(k)'
  BY MisreadKept
<1> QED
  BY <1>3, <1>4, <1>5, <1>6 DEF ReportsOnce

(* What a step appends to the reports when it only cancels.                *)
Cancels ==
  /\ reports' \in Seq(Report) /\ Len(reports) <= Len(reports')
  /\ \A i \in 1 .. Len(reports) : reports'[i] = reports[i]
  /\ \A i \in 1 .. Len(reports') :
       i > Len(reports) => reports'[i].source = NoShare

(* A step that reports cancellations.                                      *)
LEMMA ReportsCancel ==
  ASSUME TypeOK, ReportsOnce, shares' = shares, misread' = misread, Cancels
  PROVE  ReportsOnce'
<1>1. PICK n \in Nat : /\ n = Len(reports) /\ DOMAIN reports = 1 .. n
                       /\ reports \in Seq(Report)
  BY DEF TypeOK
<1>2. PICK m \in Nat :
        /\ m = Len(reports') /\ DOMAIN reports' = 1 .. m /\ n <= m
        /\ \A i \in 1 .. n : reports'[i] = reports[i]
        /\ \A i \in 1 .. m : i > n => reports'[i].source = NoShare
  BY <1>1 DEF Cancels
<1>3. Len(shares) \in Nat /\ DOMAIN shares = 1 .. Len(shares)
  BY DEF TypeOK, ViewTypeOK, ControllerTypeOK
<1>4. \A k \in DOMAIN shares : (Over(k)' <=> Over(k)) /\ (Overtaken(k)' <=> Overtaken(k))
  BY DEF Over, Overtaken
<1>5. \A i \in DOMAIN reports' : reports'[i].source \in 0 .. Len(shares')
  BY <1>1, <1>2, <1>3 DEF ReportsOnce, NoShare
<1>6. ASSUME NEW k \in DOMAIN shares'
      PROVE  /\ Over(k)' => \/ k \in misread'
                            \/ \E i \in DOMAIN reports' : reports'[i].source = k
             /\ ~ Over(k)' => \A i \in DOMAIN reports' : reports'[i].source # k
  <2>1. k \in DOMAIN shares /\ k # NoShare /\ (Over(k)' <=> Over(k))
    BY <1>3, <1>4, <1>6 DEF NoShare
  <2>2. CASE Over(k)
    BY <1>1, <1>2, <2>1, <2>2 DEF ReportsOnce
  <2>3. CASE ~ Over(k)
    <3>1. \A i \in DOMAIN reports : reports[i].source # k
      BY <2>1, <2>3 DEF ReportsOnce
    <3> QED
      BY <1>1, <1>2, <2>1, <2>3, <3>1
  <2> QED
    BY <2>2, <2>3
<1>7. \A i, j \in DOMAIN reports' :
        reports'[i].source = reports'[j].source /\ i # j =>
          reports'[i].source = NoShare
  BY <1>1, <1>2 DEF ReportsOnce
<1>8. \A k \in misread' : Over(k)' /\ Overtaken(k)'
  BY <1>4 DEF ReportsOnce, TypeOK
<1> QED
  BY <1>5, <1>6, <1>7, <1>8 DEF ReportsOnce

(* One cancellation, or two.                                               *)
LEMMA CancelOnce ==
  ASSUME TypeOK, NEW r \in Report, r.source = NoShare,
         reports' = Append(reports, r)
  PROVE  Cancels
BY DEF Cancels, TypeOK

LEMMA CancelTwice ==
  ASSUME TypeOK, NEW r \in Report, r.source = NoShare,
         NEW again \in {<<>>, <<r>>}, reports' = reports \o <<r>> \o again
  PROVE  Cancels
<1>1. reports \in Seq(Report) /\ <<r>> \in Seq(Report) /\ <<>> \in Seq(Report)
  BY DEF TypeOK
<1>2. Len(<<r>>) = 1 /\ <<r>>[1] = r
  OBVIOUS
<1> DEFINE one == reports \o <<r>>
<1>3. /\ one \in Seq(Report) /\ Len(one) = Len(reports) + 1
      /\ \A i \in 1 .. Len(reports) : one[i] = reports[i]
      /\ one[Len(reports) + 1] = r
  BY <1>1, <1>2
<1> HIDE DEF one
<1>4. CASE again = <<>>
  <2>1. reports' = one
    <3>1. one \o <<>> = one
      BY <1>3
    <3> QED
      BY <1>4, <3>1, Zenon DEF one
  <2>2. Len(reports) \in Nat
    BY <1>1
  <2>3. /\ Len(reports) <= Len(one)
        /\ \A i \in 1 .. Len(one) : i > Len(reports) => one[i].source = NoShare
    <3>1. \A i \in 1 .. Len(one) : i > Len(reports) => i = Len(reports) + 1
      BY <1>3, <2>2
    <3> QED
      BY <1>3, <2>2, <3>1
  <2> QED
    BY <1>3, <2>1, <2>3, Zenon DEF Cancels
<1>5. CASE again = <<r>>
  <2>1. /\ reports' \in Seq(Report) /\ Len(reports') = Len(reports) + 2
        /\ \A i \in 1 .. Len(reports) + 1 : reports'[i] = one[i]
        /\ reports'[Len(reports) + 2] = r
    <3>1. reports' = one \o <<r>>
      BY <1>5 DEF one
    <3> QED
      BY <1>1, <1>2, <1>3, <3>1
  <2> QED
    BY <1>1, <1>3, <2>1 DEF Cancels
<1> QED
  BY <1>4, <1>5

(* A step that ends job n and reports it, or whose handler found a later   *)
(* job deleted.                                                            *)
LEMMA ReportsResult ==
  ASSUME TypeOK, ReportsOnce, Onward,
         NEW n \in 1 .. Len(shares'), ~ (n <= Len(shares) /\ Over(n)),
         \A k \in 1 .. Len(shares') :
           Over(k)' <=> k = n \/ (k <= Len(shares) /\ Over(k)),
         NEW r \in Report, r.source = n,
         reports' = Append(reports, r) \/ (reports' = reports /\ n \in misread'),
         misread' = misread \/ (misread' = misread \cup {n} /\ Overtaken(n)')
  PROVE  ReportsOnce' /\ misread' \subseteq DOMAIN shares'
<1>1. PICK m \in Nat : /\ m = Len(reports) /\ DOMAIN reports = 1 .. m
                       /\ reports \in Seq(Report)
  BY DEF TypeOK
<1>2. PICK d \in Nat :
        /\ m <= d /\ d <= m + 1 /\ DOMAIN reports' = 1 .. d
        /\ \A i \in 1 .. m : reports'[i] = reports[i]
        /\ \A i \in 1 .. d : i > m => reports'[i] = r
        /\ d = m + 1 \/ n \in misread'
  <2>1. CASE reports' = Append(reports, r)
    <3>1. /\ DOMAIN reports' = 1 .. m + 1 /\ reports'[m + 1] = r
          /\ \A i \in 1 .. m : reports'[i] = reports[i]
      BY <1>1, <2>1
    <3>2. \A i \in 1 .. m + 1 : i > m => i = m + 1
      BY <1>1
    <3> QED
      BY <1>1, <3>1, <3>2
  <2>2. CASE reports' = reports /\ n \in misread'
    BY <1>1, <2>2
  <2> QED
    BY <2>1, <2>2
<1>3. /\ Len(shares) \in Nat /\ DOMAIN shares = 1 .. Len(shares)
      /\ Len(shares') \in Nat /\ DOMAIN shares' = 1 .. Len(shares')
      /\ Len(shares) <= Len(shares')
  BY DEF TypeOK, ViewTypeOK, ControllerTypeOK, Onward
<1>4. \A i \in 1 .. m :
        /\ reports[i].source \in 0 .. Len(shares)
        /\ reports[i].source # n
  BY <1>1, <1>3 DEF ReportsOnce
<1>5. \A i \in DOMAIN reports' : reports'[i].source \in 0 .. Len(shares')
  BY <1>1, <1>2, <1>3, <1>4
<1>6. ASSUME NEW k \in DOMAIN shares'
      PROVE  /\ Over(k)' => \/ k \in misread'
                            \/ \E i \in DOMAIN reports' : reports'[i].source = k
             /\ ~ Over(k)' => \A i \in DOMAIN reports' : reports'[i].source # k
  <2>1. CASE k = n
    BY <1>2, <1>3, <2>1
  <2>2. CASE k # n /\ k <= Len(shares)
    <3>1. k \in DOMAIN shares /\ (Over(k)' <=> Over(k))
      BY <1>3, <1>6, <2>2
    <3>2. CASE Over(k)
      <4>1. k \in misread \/ \E i \in DOMAIN reports : reports[i].source = k
        BY <3>1, <3>2 DEF ReportsOnce
      <4> QED
        BY <1>1, <1>2, <3>1, <3>2, <4>1
    <3>3. CASE ~ Over(k)
      <4>1. \A i \in DOMAIN reports : reports[i].source # k
        BY <3>1, <3>3 DEF ReportsOnce
      <4> QED
        BY <1>1, <1>2, <2>2, <3>1, <3>3, <4>1
    <3> QED
      BY <3>2, <3>3
  <2>3. CASE k # n /\ k > Len(shares)
    <3>1. ~ Over(k)'
      BY <1>3, <1>6, <2>3
    <3> QED
      BY <1>1, <1>2, <1>3, <1>4, <1>6, <2>3, <3>1
  <2> QED
    BY <1>3, <1>6, <2>1, <2>2, <2>3
<1>7. ASSUME NEW i \in DOMAIN reports', NEW j \in DOMAIN reports',
             reports'[i].source = reports'[j].source, i # j
      PROVE  reports'[i].source = NoShare
  <2>1. i <= m \/ j <= m
    BY <1>2, <1>7
  <2>2. i <= m /\ j <= m
    BY <1>2, <1>4, <1>7, <2>1
  <2> QED
    BY <1>1, <1>2, <1>7, <2>2 DEF ReportsOnce
<1>8. \A k \in misread' : k \in DOMAIN shares' /\ Over(k)' /\ Overtaken(k)'
  <2>1. \A k \in misread : k \in DOMAIN shares' /\ Over(k)' /\ Overtaken(k)'
    BY MisreadKept
  <2> QED
    BY <1>3, <2>1
<1> QED
  BY <1>5, <1>6, <1>7, <1>8 DEF ReportsOnce

-----------------------------------------------------------------------------
(* Steps that start a job                                                  *)

(* What the Loader keeps or loads is a configuration, shown only while     *)
(* configuring.                                                            *)
LEMMA PageLoaded ==
  ASSUME TypeOK, Reload(Dialog), configuration'[Dialog] \in 0 .. Len(shares'),
         shares' \in Seq(Share), Len(shares) <= Len(shares')
  PROVE  /\ page' \in [Views -> 0 .. Len(shares')]
         /\ page'[Dialog] # NoShare => state'[Dialog] = "Configuring"
<1> USE OneDialog
<1>1. page \in [Views -> 0 .. Len(shares)] /\ Len(shares) \in Nat
  BY DEF TypeOK, ViewTypeOK, ControllerTypeOK
<1>2. Loader(Dialog) \in 0 .. Len(shares')
  BY <1>1 DEF Loader, NoShare
<1>3. page'[Dialog] = Loader(Dialog) /\ page' \in [Views -> 0 .. Len(shares')]
  BY <1>1, <1>2 DEF Reload
<1> QED
  BY <1>3 DEF Loader

(* startJob() is called for the newest share, which is ready and has no    *)
(* job: the one just made by configure(), or the one that was configured.  *)
Newest(k, ss) ==
  /\ ss \in Seq(Share) /\ k \in 1 .. MaxShares /\ k = Len(ss)
  /\ Len(shares) <= k /\ k <= Len(shares) + 1
  /\ \A j \in 1 .. Len(shares) : ss[j] = shares[j]
  /\ ss[k].ready /\ ss[k].job = "none"
  /\ configuration' = [configuration EXCEPT ![Dialog] = k]

LEMMA StartJobStep ==
  ASSUME IInv, ~ aborted, NEW k, NEW ss, Newest(k, ss), Reload(Dialog),
         NEW o \in {"running"} \cup Outcomes, Starts(k, ss, o),
         signals' \in Seq(Signal)
  PROVE  IInv'
<1> USE OneDialog, SharesAssumption
<1>1. /\ TypeOK /\ Len(shares) \in Nat /\ DOMAIN shares = 1 .. Len(shares)
      /\ Len(shares) <= MaxShares
  BY DEF IInv, TypeOK, ViewTypeOK, ControllerTypeOK
<1>2. /\ ss \in Seq(Share) /\ k \in 1 .. Len(ss) /\ k = Len(ss)
      /\ k <= MaxShares /\ Len(shares) <= k /\ k <= Len(shares) + 1
  BY DEF Newest
<1>3. /\ shares' \in Seq(Share) /\ Len(shares') = k /\ DOMAIN shares' = 1 .. k
      /\ shares'[k].job = o /\ shares'[k].ready
      /\ \A j \in 1 .. k : j # k => j <= Len(shares) /\ shares'[j] = shares[j]
  <2>1. o \in JobStates
    BY DEF JobStates
  <2>2. /\ shares' \in Seq(Share) /\ Len(shares') = Len(ss)
        /\ shares'[k].job = o /\ shares'[k].ready = ss[k].ready
        /\ \A j \in 1 .. Len(ss) : j # k => shares'[j] = ss[j]
    <3>1. shares' = WithJob(ss, k, o)
      BY DEF Starts
    <3>2. LET t == WithJob(ss, k, o)
          IN /\ t \in Seq(Share) /\ Len(t) = Len(ss)
             /\ t[k].job = o /\ t[k].ready = ss[k].ready
             /\ \A j \in 1 .. Len(ss) : j # k => t[j] = ss[j]
      BY <1>2, <2>1, SetJob, Zenon
    <3> QED
      BY <3>1, <3>2, Zenon
  <2> QED
    BY <1>1, <1>2, <2>2 DEF Newest
<1>4. /\ configuration' \in [Views -> 0 .. k] /\ configuration'[Dialog] = k
      /\ job' \in [Views -> 0 .. k] /\ job'[Dialog] = k
      /\ state' \in [Views -> States] /\ state'[Dialog] = "Running"
  <2>1. /\ configuration \in [Views -> 0 .. Len(shares)]
        /\ job \in [Views -> 0 .. Len(shares)]
        /\ state \in [Views -> States]
    BY <1>1 DEF TypeOK, ViewTypeOK, ControllerTypeOK
  <2> QED
    BY <1>1, <1>2, <2>1 DEF Newest, Starts, States
<1>5. /\ page' \in [Views -> 0 .. k]
      /\ page'[Dialog] # NoShare => state'[Dialog] = "Configuring"
  BY <1>1, <1>2, <1>3, <1>4, PageLoaded
<1>6. \A j \in 1 .. k : Over(j)' <=> \/ j = k /\ o # "running"
                                     \/ j # k /\ j <= Len(shares) /\ Over(j)
  BY <1>3 DEF Over, Outcomes
<1>7. ~ (k <= Len(shares) /\ Over(k))
  BY <1>1, <1>2 DEF Newest, Over, Outcomes
<1>8. Onward
  <2>1. \A j \in 1 .. Len(shares) : shares[j].job = "deleted" => shares'[j].job = "deleted"
    <3> TAKE j \in 1 .. Len(shares)
    <3>1. CASE j = k
      BY <1>1, <1>2, <3>1 DEF Newest
    <3>2. CASE j # k
      BY <1>1, <1>2, <1>3, <3>2
    <3> QED
      BY <3>1, <3>2
  <2>2. \A j \in 1 .. Len(shares) : Over(j) => Over(j)'
    BY <1>1, <1>2, <1>6, <1>7
  <2> QED
    BY <1>2, <1>3, <2>1, <2>2 DEF Onward
<1>9. TypeOK' /\ ReportsOnce'
  <2>1. CASE o = "running"
    <3>1. /\ visible' = TRUE /\ reports' = reports /\ aborted' = aborted
          /\ crashed' = crashed /\ misread' = misread
      BY <2>1 DEF Starts
    <3>2. \A j \in 1 .. Len(shares') : Over(j)' <=> j <= Len(shares) /\ Over(j)
      BY <1>2, <1>3, <1>6, <1>7, <2>1
    <3>3. ReportsOnce' /\ misread' \subseteq DOMAIN shares'
      BY <1>1, <1>8, <3>1, <3>2, ReportsSame DEF IInv
    <3>4. TypeOK'
      BY <1>1, <1>2, <1>3, <1>4, <1>5, <3>1, <3>3
        DEF TypeOK, ViewTypeOK, ControllerTypeOK
    <3> QED
      BY <3>3, <3>4
  <2>2. CASE o # "running"
    <3> DEFINE r == [share |-> k, source |-> k, seen |-> o]
    <3>1. r \in Report /\ r.source = k
      BY <1>2 DEF Report, ShareIds, JobStates
    <3> HIDE DEF r
    <3>2. /\ visible' = FALSE /\ reports' = Append(reports, r)
          /\ aborted' = aborted /\ crashed' = crashed /\ misread' = misread
      BY <2>2 DEF Starts, r
    <3>3. reports' \in Seq(Report)
      BY <1>1, <3>1, <3>2 DEF TypeOK
    <3>5. \A j \in 1 .. Len(shares') :
            Over(j)' <=> j = k \/ (j <= Len(shares) /\ Over(j))
      BY <1>2, <1>3, <1>6, <1>7, <2>2
    <3>6. k \in 1 .. Len(shares')
      BY <1>2, <1>3
    <3>7. ReportsOnce' /\ misread' \subseteq DOMAIN shares'
      BY <1>1, <1>7, <1>8, <3>1, <3>2, <3>5, <3>6, ReportsResult, Zenon DEF IInv
    <3>8. TypeOK'
      BY <1>1, <1>2, <1>3, <1>4, <1>5, <3>2, <3>3, <3>7
        DEF TypeOK, ViewTypeOK, ControllerTypeOK
    <3> QED
      BY <3>7, <3>8
  <2> QED
    BY <2>1, <2>2
<1>10. Latest'
  <2>1. shares' # <<>>
    BY <1>2, <1>3
  <2>2. \A j \in DOMAIN shares' : j <= job'[Dialog]
    BY <1>3, <1>4
  <2> QED
    BY <1>3, <1>4, <1>5, <2>1, <2>2 DEF Latest
<1>11. OpenWindowWaits'
  <2>1. visible' => o = "running"
    BY DEF Starts
  <2> QED
    BY <1>3, <1>4, <2>1 DEF OpenWindowWaits
<1>12. StartedReady'
  BY <1>1, <1>2, <1>3 DEF IInv, StartedReady
<1> QED
  BY <1>9, <1>10, <1>11, <1>12 DEF IInv

LEMMA StartNothingStep ==
  ASSUME IInv, NEW k, NEW ss, Newest(k, ss), Reload(Dialog),
         StartsNothing(ss), signals' \in Seq(Signal)
  PROVE  IInv'
<1> USE OneDialog, SharesAssumption
<1>1. /\ TypeOK /\ Len(shares) \in Nat /\ DOMAIN shares = 1 .. Len(shares)
      /\ Len(shares) <= MaxShares
  BY DEF IInv, TypeOK, ViewTypeOK, ControllerTypeOK
<1>2. /\ k \in 1 .. MaxShares /\ Len(shares) <= k /\ k <= Len(shares) + 1
      /\ shares' \in Seq(Share) /\ Len(shares') = k /\ DOMAIN shares' = 1 .. k
      /\ shares'[k].job = "none"
      /\ \A j \in 1 .. Len(shares) : shares'[j] = shares[j]
  BY DEF Newest, StartsNothing
<1>3. /\ configuration' \in [Views -> 0 .. k] /\ configuration'[Dialog] = k
      /\ job' \in [Views -> 0 .. k] /\ state' \in [Views -> States]
  <2>1. /\ configuration \in [Views -> 0 .. Len(shares)]
        /\ job \in [Views -> 0 .. Len(shares)]
        /\ state \in [Views -> States]
    BY <1>1 DEF TypeOK, ViewTypeOK, ControllerTypeOK
  <2> QED
    BY <1>1, <1>2, <2>1 DEF Newest, StartsNothing, NoShare
<1>4. /\ page' \in [Views -> 0 .. k]
      /\ page'[Dialog] # NoShare => state'[Dialog] = "Configuring"
  BY <1>1, <1>2, <1>3, PageLoaded
<1>5. /\ visible' = TRUE /\ reports' = reports /\ aborted' = TRUE
      /\ crashed' = crashed /\ misread' = misread
  BY DEF StartsNothing
<1>6. ReportsOnce' /\ misread' \subseteq DOMAIN shares'
  <2>1. \A j \in 1 .. Len(shares') : Over(j)' <=> j <= Len(shares) /\ Over(j)
    BY <1>1, <1>2 DEF Over, Outcomes
  <2>2. Onward
    BY <1>1, <1>2 DEF Onward, Over
  <2> QED
    BY <1>1, <1>5, <2>1, <2>2, ReportsSame DEF IInv
<1>7. TypeOK'
  BY <1>1, <1>2, <1>3, <1>4, <1>5, <1>6 DEF TypeOK, ViewTypeOK, ControllerTypeOK
<1>8. Latest'
  <2>1. shares' # <<>>
    BY <1>2
  <2> QED
    BY <1>2, <1>3, <1>4, <1>5, <2>1 DEF Latest
<1>9. OpenWindowWaits'
  BY <1>5 DEF OpenWindowWaits, Up
<1>10. StartedReady'
  <2>1. \A j \in 1 .. k : shares'[j].job # "none" => j \in 1 .. Len(shares)
    BY <1>1, <1>2
  <2> QED
    BY <1>1, <1>2, <2>1 DEF IInv, StartedReady
<1> QED
  BY <1>6, <1>8, <1>9, <1>10, <1>7 DEF IInv

LEMMA StartStep ==
  ASSUME IInv, ~ aborted, NEW k, NEW ss, Newest(k, ss),
         StartJobOf(Dialog, k, ss), Handle(TRUE), Reload(Dialog)
  PROVE  IInv'
<1>1. /\ TypeOK /\ ss \in Seq(Share) /\ k \in 1 .. Len(ss)
      /\ Len(ss) <= MaxShares
  BY SharesAssumption DEF IInv, Newest
<1>2. /\ \/ \E o \in {"running"} \cup Outcomes : Starts(k, ss, o)
         \/ StartsNothing(ss)
      /\ signals' \in Seq(Signal)
  BY <1>1, StartEffect, Zenon
<1> QED
  BY <1>2, StartJobStep, StartNothingStep, Zenon

-----------------------------------------------------------------------------
(* The steps                                                               *)

LEMMA InitIInv == Init => IInv
<1> SUFFICES ASSUME Init PROVE IInv
  OBVIOUS
<1> USE OneDialog, SharesAssumption DEF Init, ViewInit, ControllerInit, NoShare
<1>1. Len(shares) = 0 /\ shares \in Seq(Share) /\ DOMAIN shares = {}
  <2>1. shares = <<>>
    OBVIOUS
  <2>2. Len(<<>>) = 0 /\ <<>> \in Seq(Share) /\ DOMAIN <<>> = {}
    OBVIOUS
  <2> QED
    BY <2>1, <2>2, Zenon
<1>2. TypeOK
  <2>1. /\ state \in [Views -> States] /\ aborted \in BOOLEAN
        /\ visible \in BOOLEAN
    BY DEF States
  <2>2. /\ configuration \in [Views -> 0 .. 0] /\ job \in [Views -> 0 .. 0]
        /\ page \in [Views -> 0 .. 0]
    OBVIOUS
  <2>3. signals \in Seq(Signal) /\ reports \in Seq(Report)
    OBVIOUS
  <2>4. Len(shares) <= MaxShares
    BY <1>1
  <2> QED
    BY <1>1, <2>1, <2>2, <2>3, <2>4, Zenon DEF TypeOK, ViewTypeOK, ControllerTypeOK
<1>3. Latest
  BY <1>1 DEF Latest
<1>4. OpenWindowWaits /\ StartedReady
  BY <1>1 DEF OpenWindowWaits, StartedReady
<1>5. ReportsOnce
  <2>1. DOMAIN reports = {}
    OBVIOUS
  <2> QED
    BY <1>1, <2>1 DEF ReportsOnce
<1> QED
  BY <1>2, <1>3, <1>4, <1>5 DEF IInv

(* Signals that close nothing: nothing ends, nothing is reported.          *)
LEMMA QuietSignal ==
  ASSUME NEW c \in Signal, ~ Closes(c), signals' = <<c>>, Handle(TRUE)
  PROVE  /\ signals' \in Seq(Signal) /\ visible' = TRUE /\ reports' = reports
         /\ crashed' = crashed /\ misread' = misread
<1>1. signals' \in Seq(Signal) /\ Head(signals') = c
  OBVIOUS
<1> QED
  BY <1>1, HandleQuiet, Zenon

LEMMA ClosingSignal ==
  ASSUME NEW open \in BOOLEAN, NEW c \in Signal, Closes(c), signals' = <<c>>,
         ~ FindsDeleted(c), Handle(open), reports \in Seq(Report),
         ReportOf(c) \in Report
  PROVE  /\ signals' \in Seq(Signal)
         /\ visible' = FALSE /\ reports' = Append(reports, ReportOf(c))
         /\ crashed' = crashed /\ misread' = misread
<1>1. signals' \in Seq(Signal) /\ signals' # <<>> /\ Head(signals') = c
  OBVIOUS
<1> QED
  BY <1>1, HandleClosing, Zenon

LEMMA DeletedSignal ==
  ASSUME NEW open \in BOOLEAN, NEW c \in Signal, Closes(c), signals' = <<c>>,
         FindsDeleted(c), Handle(open), reports \in Seq(Report),
         ReportOf(c) \in Report
  PROVE  /\ signals' \in Seq(Signal) /\ misread' = misread \cup {c.source}
         /\ visible' \in BOOLEAN /\ crashed' \in {crashed, TRUE}
         /\ \/ visible' = FALSE /\ reports' = Append(reports, ReportOf(c))
            \/ visible' = open /\ reports' = reports
<1>1. signals' \in Seq(Signal) /\ signals' # <<>> /\ Head(signals') = c
  OBVIOUS
<1> QED
  BY <1>1, HandleMisread, Zenon

LEMMA TriggerStep ==
  ASSUME IInv, NEW p \in Plugins, Trigger(p)
  PROVE  IInv'
<1> USE OneDialog, SharesAssumption
<1>1. /\ TypeOK /\ Len(shares) \in Nat /\ DOMAIN shares = 1 .. Len(shares)
      /\ shares \in Seq(Share) /\ Len(shares) <= MaxShares
  BY DEF IInv, TypeOK, ViewTypeOK, ControllerTypeOK
<1>2. ~ aborted /\ Reload(Dialog) /\ Handle(TRUE)
  BY DEF Trigger, Up, ViewStart
<1> DEFINE k == Len(shares) + 1
           Made(r) == Append(shares, [plugin |-> p, view |-> Dialog,
                                      ready |-> r, job |-> "none"])
<1>3. PICK filled \in BOOLEAN : Configure(Dialog, p, filled)
  BY DEF Trigger, ViewStart
<1>4. /\ Len(shares) < MaxShares
      /\ configuration' = [configuration EXCEPT ![Dialog] = k]
  BY <1>3 DEF Configure
<1>5. ASSUME NEW r \in BOOLEAN
      PROVE  /\ Made(r) \in Seq(Share) /\ Len(Made(r)) = k
             /\ Made(r)[k].job = "none" /\ Made(r)[k].ready = r
             /\ \A j \in 1 .. Len(shares) : Made(r)[j] = shares[j]
  BY <1>1, NewShare
<1>6. CASE StartJobOf(Dialog, k, Made(TRUE))
  <2>1. Newest(k, Made(TRUE))
    <3> DEFINE ss == Made(TRUE)
    <3>1. /\ ss \in Seq(Share) /\ Len(ss) = k /\ ss[k].job = "none"
          /\ ss[k].ready = TRUE /\ \A j \in 1 .. Len(shares) : ss[j] = shares[j]
      BY <1>5
    <3> HIDE DEF ss
    <3>2. k \in 1 .. MaxShares /\ Len(shares) <= k /\ k <= Len(shares) + 1
      BY <1>1, <1>4
    <3>3. ss[k].ready
      BY <3>1, Zenon
    <3>4. Newest(k, ss)
      <4> HIDE DEF k
      <4> QED
        BY <1>4, <3>1, <3>2, <3>3, Zenon DEF Newest
    <3> QED
      BY <3>4 DEF ss
  <2> QED
    BY <1>2, <1>6, <2>1, StartStep, Zenon
<1>7. CASE /\ shares' = Made(filled)
           /\ state' = [state EXCEPT ![Dialog] = "Configuring"]
           /\ signals' = <<Changed(Dialog, "Configuring", NoShare)>>
           /\ job' = job /\ aborted' = aborted
  <2>1. /\ signals' \in Seq(Signal) /\ visible' = TRUE /\ reports' = reports
        /\ crashed' = crashed /\ misread' = misread
    <3>1. Changed(Dialog, "Configuring", NoShare) \in Signal
      BY DEF Changed, Signal, States, ShareIds, NoShare
    <3>2. ~ Closes(Changed(Dialog, "Configuring", NoShare))
      BY DEF Closes, Changed
    <3> QED
      BY <1>2, <1>7, <3>1, <3>2, QuietSignal, Zenon
  <2>2. /\ shares' \in Seq(Share) /\ Len(shares') = k /\ DOMAIN shares' = 1 .. k
        /\ shares'[k].job = "none"
        /\ \A j \in 1 .. Len(shares) : shares'[j] = shares[j]
    <3>1. /\ shares' \in Seq(Share) /\ Len(shares') = k
          /\ shares'[k].job = "none"
          /\ \A j \in 1 .. Len(shares) : shares'[j] = shares[j]
      BY <1>5, <1>7, Zenon
    <3> QED
      BY <3>1
  <2> HIDE DEF Made
  <2>3. /\ configuration' \in [Views -> 0 .. k] /\ configuration'[Dialog] = k
        /\ job' \in [Views -> 0 .. k]
        /\ state' \in [Views -> States] /\ state'[Dialog] = "Configuring"
    <3>1. /\ configuration \in [Views -> 0 .. Len(shares)]
          /\ job \in [Views -> 0 .. Len(shares)]
          /\ state \in [Views -> States]
      BY <1>1 DEF TypeOK, ViewTypeOK, ControllerTypeOK
    <3> QED
      BY <1>1, <1>4, <1>7, <3>1 DEF States
  <2>4. page' \in [Views -> 0 .. k]
    BY <1>1, <1>2, <2>2, <2>3, PageLoaded
  <2>5. ReportsOnce' /\ misread' \subseteq DOMAIN shares'
    <3>1. \A j \in 1 .. Len(shares') : Over(j)' <=> j <= Len(shares) /\ Over(j)
      BY <1>1, <2>2 DEF Over, Outcomes
    <3>2. Onward
      BY <1>1, <2>2 DEF Onward, Over
    <3> QED
      BY <1>1, <2>1, <3>1, <3>2, ReportsSame DEF IInv
  <2>6. TypeOK'
    BY <1>1, <1>4, <1>7, <2>1, <2>2, <2>3, <2>4, <2>5
      DEF TypeOK, ViewTypeOK, ControllerTypeOK
  <2>7. Latest'
    <3>1. shares' # <<>>
      BY <1>1, <2>2
    <3>2. \A j \in DOMAIN shares' : shares'[j].job # "none" =>
            j \in DOMAIN shares /\ shares'[j] = shares[j]
      BY <1>1, <2>2
    <3> QED
      BY <1>2, <1>7, <2>2, <2>3, <3>1, <3>2 DEF Latest, IInv
  <2>8. OpenWindowWaits'
    BY <2>2, <2>3 DEF OpenWindowWaits
  <2>9. StartedReady'
    BY <1>1, <2>2 DEF StartedReady, IInv
  <2> QED
    BY <2>5, <2>7, <2>8, <2>9, <2>6 DEF IInv
<1> QED
  BY <1>3, <1>6, <1>7 DEF Configure

(* The page belongs to an open window that waits for the newest share.     *)
LEMMA WaitsForPage ==
  ASSUME IInv, Up, visible, page[Dialog] # NoShare
  PROVE  /\ state[Dialog] = "Configuring"
         /\ configuration[Dialog] = Len(shares)
         /\ Len(shares) \in 1 .. MaxShares
         /\ shares[Len(shares)].job = "none"
<1>1. /\ Len(shares) \in Nat /\ shares \in Seq(Share) /\ Len(shares) <= MaxShares
  BY DEF IInv, TypeOK, ViewTypeOK, ControllerTypeOK
<1>2. state[Dialog] = "Configuring" /\ configuration[Dialog] = Len(shares)
  BY DEF IInv, Latest
<1>3. Len(shares) # 0
  BY <1>1 DEF IInv, Latest
<1>4. shares[Len(shares)].job = "none"
  BY <1>2 DEF IInv, OpenWindowWaits, LeftOpen
<1> QED
  BY <1>1, <1>2, <1>3, <1>4, SharesAssumption

LEMMA SendStep ==
  ASSUME IInv, SendShare
  PROVE  IInv'
<1> USE OneDialog, SharesAssumption
<1>1. /\ TypeOK /\ Len(shares) \in Nat /\ shares \in Seq(Share)
      /\ configuration \in [Views -> 0 .. Len(shares)]
  BY DEF IInv, TypeOK, ViewTypeOK, ControllerTypeOK
<1>2. Up /\ visible /\ page[Dialog] # NoShare /\ StartJob(Dialog)
      /\ Reload(Dialog) /\ Handle(TRUE)
  BY DEF SendShare, InWindow, Send
<1> DEFINE k == Len(shares)
<1>3. /\ configuration[Dialog] = k /\ k \in 1 .. MaxShares
      /\ shares[k].job = "none"
  BY <1>2, WaitsForPage
<1>4. shares[k].ready /\ StartJobOf(Dialog, k, shares)
      /\ configuration' = configuration
  BY <1>2, <1>3 DEF StartJob
<1>5. configuration' = [configuration EXCEPT ![Dialog] = k]
  BY <1>1, <1>3, <1>4
<1>6. Newest(k, shares)
  <2>1. Len(shares) <= k /\ k <= Len(shares) + 1
    BY <1>1
  <2> QED
    BY <1>1, <1>3, <1>4, <1>5, <2>1, Zenon DEF Newest
<1>7. ~ aborted
  BY <1>2 DEF Up
<1> QED
  BY <1>2, <1>4, <1>6, <1>7, StartStep, Zenon

LEMMA EditStep ==
  ASSUME IInv, Edit
  PROVE  IInv'
<1> USE OneDialog, SharesAssumption
<1>1. /\ TypeOK /\ Len(shares) \in Nat /\ shares \in Seq(Share)
      /\ DOMAIN shares = 1 .. Len(shares)
  BY DEF IInv, TypeOK, ViewTypeOK, ControllerTypeOK
<1>2. /\ Up /\ visible /\ page[Dialog] # NoShare
      /\ shares' = [shares EXCEPT ![configuration[Dialog]].ready = ~ @]
      /\ signals' = <<>> /\ state' = state /\ configuration' = configuration
      /\ job' = job /\ aborted' = aborted /\ page' = page
      /\ visible' = visible /\ reports' = reports
      /\ crashed' = crashed /\ misread' = misread
  BY DEF Edit, InWindow, EditPage
<1>3. PICK k \in 1 .. MaxShares :
        /\ k = Len(shares) /\ state[Dialog] = "Configuring"
        /\ configuration[Dialog] = k /\ shares[k].job = "none"
  BY <1>2, WaitsForPage
<1>4. /\ shares' \in Seq(Share) /\ Len(shares') = k /\ DOMAIN shares' = 1 .. k
      /\ shares'[k].job = "none"
      /\ \A j \in 1 .. k : j # k => shares'[j] = shares[j]
  <2>1. shares' = [shares EXCEPT ![k].ready = ~ @] /\ k \in 1 .. Len(shares)
    BY <1>2, <1>3
  <2> QED
    BY <1>1, <1>3, <2>1, SetReady
<1>5. TypeOK'
  <2>1. misread' \subseteq DOMAIN shares'
    BY <1>1, <1>2, <1>3, <1>4 DEF TypeOK
  <2> QED
    BY <1>1, <1>2, <1>3, <1>4, <2>1 DEF TypeOK, ViewTypeOK, ControllerTypeOK
<1>6. Latest'
  <2>1. shares' # <<>>
    BY <1>3, <1>4
  <2> QED
    BY <1>1, <1>2, <1>3, <1>4, <2>1 DEF IInv, Latest
<1>7. OpenWindowWaits'
  BY <1>2, <1>3, <1>4 DEF OpenWindowWaits
<1>8. StartedReady'
  BY <1>1, <1>3, <1>4 DEF IInv, StartedReady
<1>9. ReportsOnce'
  <2>1. \A j \in 1 .. k : shares'[j].job = shares[j].job
    BY <1>3, <1>4
  <2>2. Onward
    <3>1. \A j \in 1 .. Len(shares) :
            /\ shares[j].job = "deleted" => shares'[j].job = "deleted"
            /\ Over(j) => Over(j)'
      <4> TAKE j \in 1 .. Len(shares)
      <4>1. shares'[j].job = shares[j].job
        BY <1>3, <2>1
      <4> QED
        BY <4>1, Zenon DEF Over
    <3>2. shares' \in Seq(Share) /\ Len(shares) <= Len(shares')
      BY <1>3, <1>4
    <3> QED
      BY <3>1, <3>2, Zenon DEF Onward
  <2>3. \A j \in 1 .. Len(shares') : Over(j)' <=> j <= Len(shares) /\ Over(j)
    <3> TAKE j \in 1 .. Len(shares')
    <3>1. j \in 1 .. k /\ j <= Len(shares)
      BY <1>3, <1>4
    <3>2. Over(j)' <=> Over(j)
      BY <2>1, <3>1, Zenon DEF Over
    <3> QED
      BY <3>1, <3>2
  <2> QED
    BY <1>1, <1>2, <2>3, <2>2, ReportsSame DEF IInv
<1> QED
  BY <1>5, <1>6, <1>7, <1>8, <1>9 DEF IInv

(* A window that closes, whose share is left alone, with a cancellation.   *)
LEMMA CancelledStep ==
  ASSUME IInv, visible' = FALSE, shares' = shares, job' = job,
         configuration' = configuration, aborted' = aborted,
         crashed' = crashed, misread' = misread,
         state' \in [Views -> States], signals' \in Seq(Signal),
         page' \in [Views -> 0 .. Len(shares)],
         page'[Dialog] # NoShare => state'[Dialog] = "Configuring",
         Cancels
  PROVE  IInv'
<1> USE OneDialog
<1>1. /\ TypeOK /\ Len(shares) \in Nat /\ Len(shares) <= MaxShares
      /\ configuration \in [Views -> 0 .. Len(shares)]
  BY DEF IInv, TypeOK, ViewTypeOK, ControllerTypeOK
<1>2. TypeOK'
  <2>1. reports' \in Seq(Report)
    BY DEF Cancels
  <2> QED
    BY <1>1, <2>1 DEF TypeOK, ViewTypeOK, ControllerTypeOK
<1>3. Latest'
  BY DEF IInv, Latest
<1>4. OpenWindowWaits' /\ StartedReady'
  BY DEF IInv, OpenWindowWaits, StartedReady
<1>5. ReportsOnce'
  BY <1>1, ReportsCancel DEF IInv
<1> QED
  BY <1>2, <1>3, <1>4, <1>5 DEF IInv

LEMMA CancelStep ==
  ASSUME IInv, CancelShare
  PROVE  IInv'
<1> USE OneDialog, SharesAssumption
<1>1. /\ TypeOK /\ Len(shares) \in Nat /\ Len(shares) <= MaxShares
      /\ shares \in Seq(Share) /\ reports \in Seq(Report)
      /\ configuration \in [Views -> 0 .. Len(shares)]
      /\ state \in [Views -> States]
  BY DEF IInv, TypeOK, ViewTypeOK, ControllerTypeOK
<1> DEFINE c == Changed(Dialog, "Cancelled", NoShare)
<1>2. /\ state' = [state EXCEPT ![Dialog] = "Cancelled"] /\ signals' = <<c>>
      /\ configuration' = configuration /\ job' = job /\ shares' = shares
      /\ aborted' = aborted /\ Reload(Dialog) /\ Handle(TRUE)
  BY DEF CancelShare, CancelButton, Cancel
<1>3. /\ c \in Signal /\ Closes(c) /\ ReportOf(c) = CancelReport(Dialog)
      /\ ~ FindsDeleted(c)
  BY DEF Changed, Signal, States, ShareIds, NoShare, Closes, ReportOf, FindsDeleted
<1>4. CancelReport(Dialog) \in Report /\ CancelReport(Dialog).source = NoShare
  <2>1. configuration'[Dialog] \in ShareIds /\ NoShare \in ShareIds
    BY <1>1, <1>2 DEF ShareIds, NoShare
  <2> QED
    BY <2>1 DEF CancelReport, Report
<1> HIDE DEF c
<1>5. /\ signals' \in Seq(Signal) /\ visible' = FALSE
      /\ reports' = Append(reports, CancelReport(Dialog))
      /\ crashed' = crashed /\ misread' = misread
  <2>1. ReportOf(c) \in Report /\ TRUE \in BOOLEAN
    BY <1>3, <1>4
  <2>2. /\ signals' \in Seq(Signal) /\ visible' = FALSE
        /\ reports' = Append(reports, ReportOf(c))
        /\ crashed' = crashed /\ misread' = misread
    BY <1>1, <1>2, <1>3, <2>1, ClosingSignal, Zenon
  <2> QED
    BY <1>3, <2>2
<1>6. state' \in [Views -> States]
  BY <1>1, <1>2 DEF States
<1>7. /\ page' \in [Views -> 0 .. Len(shares)]
      /\ page'[Dialog] # NoShare => state'[Dialog] = "Configuring"
  <2>1. configuration'[Dialog] \in 0 .. Len(shares')
    BY <1>1, <1>2
  <2>2. Len(shares) <= Len(shares') /\ shares' \in Seq(Share)
    BY <1>1, <1>2
  <2> QED
    BY <1>1, <1>2, <2>1, <2>2, PageLoaded
<1>8. Cancels
  BY <1>1, <1>4, <1>5, CancelOnce
<1> QED
  BY <1>2, <1>5, <1>6, <1>7, <1>8, CancelledStep

LEMMA CloseStep ==
  ASSUME IInv, CloseWindow
  PROVE  IInv'
<1>1. /\ visible' = FALSE /\ signals' = <<>> /\ state' = state
      /\ configuration' = configuration /\ job' = job /\ shares' = shares
      /\ aborted' = aborted /\ page' = page
      /\ crashed' = crashed /\ misread' = misread
  BY DEF CloseWindow
<1>2. /\ state \in [Views -> States] /\ signals' \in Seq(Signal)
      /\ page \in [Views -> 0 .. Len(shares)] /\ reports \in Seq(Report)
      /\ configuration \in [Views -> 0 .. Len(shares)]
      /\ Len(shares) \in Nat /\ Len(shares) <= MaxShares
  BY <1>1 DEF IInv, TypeOK, ViewTypeOK, ControllerTypeOK
<1>3. OnClosing(state[Dialog]) \in {<<>>, <<CancelReport(Dialog)>>}
  BY DEF OnClosing
<1>4. CancelReport(Dialog) \in Report /\ CancelReport(Dialog).source = NoShare
  <2>1. configuration'[Dialog] \in ShareIds /\ NoShare \in ShareIds
    BY <1>1, <1>2, OneDialog, SharesAssumption DEF ShareIds, NoShare
  <2> QED
    BY <2>1 DEF CancelReport, Report
<1>5. Cancels
  <2> DEFINE r == CancelReport(Dialog)
             told == OnClosing(state[Dialog])
  <2>1. PICK again \in {<<>>, told} : reports' = reports \o told \o again
    BY DEF CloseWindow
  <2>2. told \in {<<>>, <<r>>}
    BY <1>3
  <2> HIDE DEF r, told
  <2>3. TypeOK /\ r \in Report /\ r.source = NoShare
    BY <1>4 DEF r, IInv
  <2>4. CASE told = <<r>>
    BY <2>1, <2>3, <2>4, CancelTwice, Zenon
  <2>5. CASE told = <<>>
    <3>1. reports \o <<>> = reports
      BY <1>2
    <3>2. reports' = reports
      BY <2>1, <2>5, <3>1
    <3> QED
      BY <1>2, <3>2 DEF Cancels
  <2> QED
    BY <2>2, <2>4, <2>5
<1>6. page'[Dialog] # NoShare => state'[Dialog] = "Configuring"
  BY <1>1 DEF IInv, Latest
<1> QED
  BY <1>1, <1>2, <1>5, <1>6, CancelledStep

(* The result of a job that runs, reported once whatever the window shows. *)
LEMMA ResultStep ==
  ASSUME IInv, NEW k \in DOMAIN shares, Result(k)
  PROVE  IInv'
<1> USE OneDialog, SharesAssumption
<1>1. PICK n \in Nat :
        /\ n = Len(shares) /\ n <= MaxShares /\ DOMAIN shares = 1 .. n
        /\ TypeOK /\ shares \in Seq(Share) /\ reports \in Seq(Report)
        /\ configuration \in [Views -> 0 .. n] /\ job \in [Views -> 0 .. n]
        /\ state \in [Views -> States] /\ visible \in BOOLEAN
  BY DEF IInv, TypeOK, ViewTypeOK, ControllerTypeOK
<1>2. k \in 1 .. n /\ shares[k] \in Share /\ shares[k].view = Dialog
  <2>1. k \in 1 .. n /\ shares[k] \in Share
    BY <1>1
  <2>2. shares[k].view \in Views
    BY <2>1 DEF Share
  <2> QED
    BY <2>1, <2>2
<1>3. /\ ~ aborted /\ shares[k].job = "running" /\ Handle(visible)
      /\ Reload(Dialog) /\ configuration' = configuration
      /\ job' = job /\ aborted' = aborted
  BY <1>2 DEF Result, Up, ViewResult, JobResult
<1>4. PICK o \in Outcomes :
        /\ shares' = WithJob(shares, k, o)
        /\ signals' = <<OnResult(Dialog, k, o)>>
        /\ state' = [state EXCEPT ![OnResult(Dialog, k, o).view]
                                    = OnResult(Dialog, k, o).state]
  BY <1>2 DEF Result, ViewResult, JobResult, WithJob
<1>5. /\ shares' \in Seq(Share) /\ Len(shares') = n /\ DOMAIN shares' = 1 .. n
      /\ shares'[k].job = o /\ shares'[k].ready = shares[k].ready
      /\ \A j \in 1 .. n : j # k => shares'[j] = shares[j]
  <2>1. o \in JobStates /\ k \in 1 .. Len(shares)
    BY <1>1, <1>2 DEF JobStates
  <2>2. /\ shares' \in Seq(Share) /\ Len(shares') = Len(shares)
        /\ shares'[k].job = o /\ shares'[k].ready = shares[k].ready
        /\ \A j \in 1 .. Len(shares) : j # k => shares'[j] = shares[j]
    BY <1>1, <1>4, <2>1, SetJob, Zenon
  <2> QED
    BY <1>1, <2>2
<1> DEFINE c == OnResult(Dialog, k, o)
<1>6. /\ c \in Signal /\ Closes(c) /\ c.source = k /\ c.view = Dialog
      /\ c.state \in {"Finished", "Error"}
  BY <1>1, <1>2 DEF OnResult, Changed, Signal, States, ShareIds, Closes, Outcomes
<1>7. state' \in [Views -> States] /\ state'[Dialog] \in {"Finished", "Error"}
  <2>1. state' = [state EXCEPT ![Dialog] = c.state]
    BY <1>4, <1>6
  <2> HIDE DEF c
  <2> QED
    BY <1>1, <1>6, <2>1 DEF States
<1>8. job[Dialog] \in 1 .. n /\ k <= job[Dialog]
  <2>1. k <= job[Dialog] /\ job[Dialog] \in 0 .. n
    BY <1>1, <1>2, <1>3 DEF IInv, Latest
  <2> QED
    BY <1>2, <2>1
<1> DEFINE r == ReportOf(c)
<1>9. r \in Report /\ r.source = k
  <2>1. r = [share |-> job[Dialog], source |-> k, seen |-> shares'[job[Dialog]].job]
    BY <1>3, <1>6 DEF ReportOf, ResultReport
  <2>2. shares'[job[Dialog]].job \in JobStates
    <3>1. shares'[job[Dialog]] \in Share
      BY <1>5, <1>8
    <3> QED
      BY <3>1 DEF Share
  <2>3. job[Dialog] \in ShareIds /\ k \in ShareIds
    BY <1>1, <1>2, <1>8 DEF ShareIds
  <2> HIDE DEF r
  <2> QED
    BY <2>1, <2>2, <2>3 DEF Report
<1>10. /\ signals' \in Seq(Signal) /\ visible' \in BOOLEAN
       /\ \/ visible' = FALSE /\ reports' = Append(reports, r)
          \/ visible' = visible /\ reports' = reports /\ k \in misread'
       /\ \/ crashed' = crashed /\ misread' = misread
          \/ /\ FindsDeleted(c) /\ crashed' \in {crashed, TRUE}
             /\ misread' = misread \cup {k}
  <2>1. signals' = <<c>>
    BY <1>4
  <2> HIDE DEF c, r
  <2>2. ReportOf(c) \in Report
    BY <1>9 DEF r
  <2>3. CASE FindsDeleted(c)
    <3>1. /\ signals' \in Seq(Signal) /\ misread' = misread \cup {c.source}
          /\ visible' \in BOOLEAN /\ crashed' \in {crashed, TRUE}
          /\ \/ visible' = FALSE /\ reports' = Append(reports, ReportOf(c))
             \/ visible' = visible /\ reports' = reports
      BY <1>1, <1>3, <1>6, <2>1, <2>2, <2>3, DeletedSignal, Zenon
    <3> QED
      BY <1>6, <2>3, <3>1 DEF r
  <2>4. CASE ~ FindsDeleted(c)
    <3>1. /\ signals' \in Seq(Signal)
          /\ visible' = FALSE /\ reports' = Append(reports, ReportOf(c))
          /\ crashed' = crashed /\ misread' = misread
      BY <1>1, <1>3, <1>6, <2>1, <2>2, <2>4, ClosingSignal, Zenon
    <3> QED
      BY <3>1 DEF r
  <2> QED
    BY <2>3, <2>4
<1>11. FindsDeleted(c) =>
         /\ shares'[job[Dialog]].job = "deleted" /\ k < job[Dialog]
         /\ Overtaken(k)'
  <2> HAVE FindsDeleted(c)
  <2>1. shares'[job[Dialog]].job = "deleted"
    BY <1>3 DEF FindsDeleted
  <2>2. job[Dialog] # k
    BY <1>5, <2>1 DEF Outcomes
  <2>3. k < job[Dialog]
    BY <1>2, <1>8, <2>2
  <2> QED
    BY <1>5, <1>8, <2>1, <2>3 DEF Overtaken
<1> HIDE DEF c, r
<1>12. /\ page' \in [Views -> 0 .. n]
       /\ page'[Dialog] # NoShare => state'[Dialog] = "Configuring"
  <2>1. configuration'[Dialog] \in 0 .. Len(shares')
    BY <1>1, <1>3, <1>5
  <2> QED
    BY <1>1, <1>3, <1>5, <2>1, PageLoaded
<1>13. ReportsOnce' /\ misread' \subseteq DOMAIN shares'
  <2>1. ~ (k <= Len(shares) /\ Over(k))
    BY <1>3 DEF Over, Outcomes
  <2>2. \A j \in 1 .. Len(shares') :
          Over(j)' <=> j = k \/ (j <= Len(shares) /\ Over(j))
    BY <1>1, <1>5 DEF Over, Outcomes
  <2>3. k \in 1 .. Len(shares')
    BY <1>2, <1>5
  <2>4. Onward
    <3>1. \A j \in 1 .. n : shares[j].job = "deleted" => shares'[j].job = "deleted"
      <4> TAKE j \in 1 .. n
      <4>1. CASE j = k
        BY <1>3, <4>1
      <4>2. CASE j # k
        BY <1>5, <4>2
      <4> QED
        BY <4>1, <4>2
    <3>2. \A j \in 1 .. n : Over(j) => Over(j)'
      BY <1>1, <1>5, <2>2
    <3> QED
      BY <1>1, <1>5, <3>1, <3>2 DEF Onward
  <2>5. /\ reports' = Append(reports, r) \/ (reports' = reports /\ k \in misread')
        /\ misread' = misread \/ (misread' = misread \cup {k} /\ Overtaken(k)')
    BY <1>10, <1>11
  <2> QED
    BY <1>1, <1>9, <2>1, <2>2, <2>3, <2>4, <2>5, ReportsResult, Zenon DEF IInv
<1>14. TypeOK'
  <2>1. reports' \in Seq(Report)
    <3>1. Append(reports, r) \in Seq(Report)
      BY <1>1, <1>9
    <3> QED
      BY <1>1, <1>10, <3>1
  <2>2. crashed' \in BOOLEAN
    BY <1>1, <1>10 DEF TypeOK
  <2> QED
    BY <1>1, <1>3, <1>5, <1>7, <1>10, <1>12, <1>13, <2>1, <2>2
      DEF TypeOK, ViewTypeOK, ControllerTypeOK
<1>15. Latest'
  <2>1. visible => shares' # <<>>
    BY <1>2, <1>5
  <2>2. \A j \in 1 .. n : shares'[j].job # "none" => shares[j].job # "none"
    BY <1>3, <1>5
  <2> QED
    BY <1>1, <1>2, <1>3, <1>5, <1>10, <1>12, <2>1, <2>2 DEF IInv, Latest
<1>16. OpenWindowWaits'
  <2> SUFFICES ASSUME visible' PROVE LeftOpen'
    BY DEF OpenWindowWaits
  <2>1. reports' = reports /\ k \in misread'
    BY <1>10
  <2>2. k \notin misread
    BY <1>3 DEF IInv, ReportsOnce, Over, Outcomes
  <2>3. FindsDeleted(c)
    BY <1>10, <2>1, <2>2
  <2>4. \A i \in DOMAIN reports : reports[i].source # k
    BY <1>3 DEF IInv, ReportsOnce, Over, Outcomes
  <2>5. About(k)' = {}
    BY <2>1, <2>4 DEF About
  <2> QED
    BY <1>3, <1>7, <1>11, <2>1, <2>3, <2>5 DEF LeftOpen
<1>17. StartedReady'
  <2> SUFFICES ASSUME NEW j \in 1 .. n, shares'[j].job # "none"
               PROVE  shares'[j].ready
    BY <1>5 DEF StartedReady
  <2>1. shares[j].ready
    <3>1. shares[j].job # "none"
      BY <1>3, <1>5
    <3> QED
      BY <1>1, <3>1, Zenon DEF IInv, StartedReady
  <2>2. shares'[j].ready = shares[j].ready
    BY <1>5
  <2> QED
    BY <2>1, <2>2, Zenon
<1> QED
  BY <1>14, <1>15, <1>16, <1>17, <1>13 DEF IInv

LEMMA DeleteStep ==
  ASSUME IInv, NEW k \in DOMAIN shares, Delete(k)
  PROVE  IInv'
<1>1. PICK n \in Nat :
        /\ n = Len(shares) /\ n <= MaxShares /\ DOMAIN shares = 1 .. n
        /\ TypeOK /\ shares \in Seq(Share)
  <2>1. /\ TypeOK /\ shares \in Seq(Share) /\ Len(shares) <= MaxShares
        /\ Len(shares) \in Nat /\ DOMAIN shares = 1 .. Len(shares)
    BY DEF IInv, TypeOK, ViewTypeOK, ControllerTypeOK
  <2> QED
    BY <2>1
<1>2. /\ shares[k].job \in Outcomes /\ signals' = <<>>
      /\ shares' = WithJob(shares, k, "deleted")
      /\ state' = state /\ configuration' = configuration /\ job' = job
      /\ aborted' = aborted /\ page' = page
      /\ visible' = visible /\ reports' = reports
      /\ crashed' = crashed /\ misread' = misread
  BY DEF Delete, ViewDeleteJob, DeleteJob, WithJob
<1>3. /\ shares' \in Seq(Share) /\ Len(shares') = n /\ DOMAIN shares' = 1 .. n
      /\ shares'[k].job = "deleted" /\ shares'[k].ready = shares[k].ready
      /\ \A j \in 1 .. n : j # k => shares'[j] = shares[j]
  <2>1. "deleted" \in JobStates /\ k \in 1 .. Len(shares)
    BY <1>1 DEF JobStates
  <2>2. /\ shares' \in Seq(Share) /\ Len(shares') = Len(shares)
        /\ shares'[k].job = "deleted" /\ shares'[k].ready = shares[k].ready
        /\ \A j \in 1 .. Len(shares) : j # k => shares'[j] = shares[j]
    BY <1>1, <1>2, <2>1, SetJob, Zenon
  <2> QED
    BY <1>1, <2>2
<1>4. k \in 1 .. n /\ shares[k].job \notin {"none", "running", "deleted"}
  BY <1>1, <1>2 DEF Outcomes
<1>5. TypeOK'
  <2>1. signals' \in Seq(Signal)
    BY <1>2
  <2>2. misread' \subseteq DOMAIN shares'
    BY <1>1, <1>2, <1>3 DEF TypeOK
  <2> QED
    BY <1>1, <1>2, <1>3, <2>1, <2>2 DEF TypeOK, ViewTypeOK, ControllerTypeOK
<1>6. Latest'
  <2>1. visible => shares' # <<>>
    BY <1>3, <1>4
  <2>2. \A j \in 1 .. n : shares'[j].job # "none" => shares[j].job # "none"
    BY <1>3, <1>4
  <2> QED
    BY <1>1, <1>2, <1>3, <2>1, <2>2 DEF IInv, Latest
<1>7. OpenWindowWaits'
  <2>1. configuration[Dialog] # k =>
          shares'[configuration[Dialog]] = shares[configuration[Dialog]]
    <3>1. configuration[Dialog] \in 0 .. n
      BY <1>1 DEF IInv, Latest
    <3>2. CASE configuration[Dialog] \in 1 .. n
      BY <1>3, <3>2
    <3>3. CASE configuration[Dialog] = 0
      BY <1>1, <1>4, <3>3 DEF IInv, Latest
    <3> QED
      BY <3>1, <3>2, <3>3
  <2> SUFFICES ASSUME visible, Up PROVE OpenWindowWaits'
    BY <1>2 DEF OpenWindowWaits, Up
  <2>2. CASE LeftOpen
    <3>1. PICK l \in misread : l < job[Dialog] /\ About(l) = {}
      BY <2>2 DEF LeftOpen
    <3>2. About(l)' = {}
      BY <1>2, <3>1 DEF About
    <3>3. job[Dialog] \in 0 .. n /\ l \in 1 .. n
      BY <1>1, OneDialog DEF TypeOK, ViewTypeOK, ControllerTypeOK
    <3>4. shares'[job[Dialog]].job = "deleted"
      <4>1. shares[job[Dialog]].job = "deleted"
        BY <2>2 DEF LeftOpen
      <4>2. job[Dialog] \in 1 .. n /\ job[Dialog] # k
        BY <1>4, <3>1, <3>3, <4>1
      <4> QED
        BY <1>3, <4>1, <4>2
    <3>5. LeftOpen'
      BY <1>2, <2>2, <3>1, <3>2, <3>4 DEF LeftOpen
    <3> QED
      BY <3>5 DEF OpenWindowWaits
  <2>3. CASE ~ LeftOpen
    <3>1. configuration[Dialog] # k
      BY <1>4, <2>3 DEF IInv, OpenWindowWaits
    <3> QED
      BY <1>2, <2>1, <2>3, <3>1 DEF IInv, OpenWindowWaits
  <2> QED
    BY <2>2, <2>3
<1>8. StartedReady'
  <2> SUFFICES ASSUME NEW j \in 1 .. n, shares'[j].job # "none"
               PROVE  shares'[j].ready
    BY <1>3 DEF StartedReady
  <2>1. shares[j].ready
    <3>1. shares[j].job # "none"
      BY <1>3, <1>4
    <3> QED
      BY <1>1, <3>1, Zenon DEF IInv, StartedReady
  <2>2. shares'[j].ready = shares[j].ready
    BY <1>3
  <2> QED
    BY <2>1, <2>2, Zenon
<1>9. ReportsOnce'
  <2>1. \A j \in 1 .. Len(shares') : Over(j)' <=> j <= Len(shares) /\ Over(j)
    BY <1>1, <1>2, <1>3 DEF Over
  <2>2. Onward
    <3>1. \A j \in 1 .. n : shares[j].job = "deleted" => shares'[j].job = "deleted"
      BY <1>3
    <3>2. \A j \in 1 .. n : Over(j) => Over(j)'
      BY <1>1, <1>3, <2>1
    <3> QED
      BY <1>1, <1>3, <3>1, <3>2 DEF Onward
  <2> QED
    BY <1>1, <1>2, <2>1, <2>2, ReportsSame DEF IInv
<1> QED
  BY <1>5, <1>6, <1>7, <1>8, <1>9 DEF IInv

LEMMA StepIInv == IInv /\ [Next]_vars => IInv'
<1> SUFFICES ASSUME IInv, [Next]_vars PROVE IInv'
  OBVIOUS
<1>1. ASSUME NEW p \in Plugins, Trigger(p) PROVE IInv'
  BY <1>1, TriggerStep
<1>2. CASE Edit
  BY <1>2, EditStep
<1>3. CASE SendShare
  BY <1>3, SendStep
<1>4. CASE CancelShare
  BY <1>4, CancelStep
<1>5. CASE CloseWindow
  BY <1>5, CloseStep
<1>6. ASSUME NEW k \in DOMAIN shares, Result(k) PROVE IInv'
  BY <1>6, ResultStep
<1>7. ASSUME NEW k \in DOMAIN shares, Delete(k) PROVE IInv'
  BY <1>7, DeleteStep
<1>8. CASE UNCHANGED vars
  <2>1. /\ TypeOK' = TypeOK /\ Latest' = Latest /\ ReportsOnce' = ReportsOnce
        /\ OpenWindowWaits' = OpenWindowWaits /\ StartedReady' = StartedReady
    BY <1>8 DEF vars, viewVars, controllerVars, TypeOK, ViewTypeOK,
      ControllerTypeOK, Latest, ReportsOnce, Over, Overtaken, OpenWindowWaits,
      LeftOpen, About, Up, StartedReady
  <2> QED
    BY <2>1 DEF IInv
<1> QED
  BY <1>1, <1>2, <1>3, <1>4, <1>5, <1>6, <1>7, <1>8 DEF Next

-----------------------------------------------------------------------------
(* Theorems                                                                *)

(* The invariant on which the properties of the dialog rest, whatever the  *)
(* order of triggers, closings and results (MCJobDialog checks it).        *)
THEOREM Invariant == Spec => []IInv
BY InitIInv, StepIInv, PTL DEF Spec

(* The state is well-formed: every id names a configuration made so far.   *)
THEOREM TypeCorrect == Spec => []TypeOK
<1>1. IInv => TypeOK
  BY DEF IInv
<1> QED
  BY <1>1, Invariant, PTL

(* An open window waits for the newest share, for its user or for its job, *)
(* or was left open by a result that found a later job deleted.            *)
THEOREM WindowWaits == Spec => []OpenWindowWaits
<1>1. IInv => OpenWindowWaits
  BY DEF IInv
<1> QED
  BY <1>1, Invariant, PTL

(* No job is started before its configuration has all it needs.            *)
THEOREM ReadyWhenStarted == Spec => []StartedReady
<1>1. IInv => StartedReady
  BY DEF IInv
<1> QED
  BY <1>1, Invariant, PTL

(* The result of every job is reported, once, whatever was triggered or    *)
(* closed meanwhile, unless the handler read a later job that was deleted: *)
(* then at most once.                                                      *)
THEOREM ResultsReportedOnce == Spec => []EachResultReported
<1>1. IInv => EachResultReported
  <2> SUFFICES ASSUME IInv, NEW k \in DOMAIN shares
               PROVE  IF k \in misread
                      THEN Over(k) /\ Overtaken(k) /\ Cardinality(About(k)) <= 1
                      ELSE Cardinality(About(k)) = IF Over(k) THEN 1 ELSE 0
    BY DEF EachResultReported
  <2>1. k # NoShare
    <3>1. shares \in Seq(Share)
      BY DEF IInv, TypeOK, ViewTypeOK, ControllerTypeOK
    <3> QED
      BY <3>1 DEF NoShare
  <2>2. /\ Over(k) => k \in misread \/ About(k) # {}
        /\ ~ Over(k) => About(k) = {}
        /\ k \in misread => Over(k) /\ Overtaken(k)
    BY DEF IInv, ReportsOnce, About
  <2>3. CASE About(k) # {}
    <3>1. PICK i \in DOMAIN reports : reports[i].source = k
      BY <2>3 DEF About
    <3>2. \A j \in DOMAIN reports : reports[j].source = k => j = i
      BY <2>1, <3>1 DEF IInv, ReportsOnce
    <3>3. About(k) = {i}
      BY <3>1, <3>2 DEF About
    <3>4. Cardinality(About(k)) = 1
      BY <3>3, FS_Singleton
    <3> QED
      BY <2>2, <2>3, <3>4
  <2>4. CASE About(k) = {}
    <3>1. Cardinality(About(k)) = 0
      BY <2>4, FS_EmptySet
    <3> QED
      BY <2>2, <2>4, <3>1
  <2> QED
    BY <2>3, <2>4
<1> QED
  BY <1>1, Invariant, PTL

LEMMA OneMore ==
  ASSUME reports \in Seq(Report), NEW x, NEW more \in {<<>>, <<x>>}
  PROVE  /\ Len(Append(reports, x) \o <<>>) = Len(reports) + 1
         /\ Len(reports \o <<x>> \o more) > Len(reports)
<1> DEFINE S == Report \cup {x}
<1>1. reports \in Seq(S) /\ <<x>> \in Seq(S) /\ <<>> \in Seq(S) /\ Len(reports) \in Nat
  OBVIOUS
<1> HIDE DEF S
<1>2. x \in S
  BY DEF S
<1>3. Append(reports, x) \in Seq(S) /\ Len(Append(reports, x)) = Len(reports) + 1
  BY <1>1, <1>2
<1>4. Len(Append(reports, x) \o <<>>) = Len(reports) + 1
  BY <1>1, <1>3
<1>5. more \in Seq(S)
  BY <1>1
<1>6. Len(more) \in Nat
  BY <1>5
<1>7. reports \o <<x>> \in Seq(S) /\ Len(reports \o <<x>>) = Len(reports) + 1
  BY <1>1
<1>8. Len(reports \o <<x>> \o more) = Len(reports) + 1 + Len(more)
  BY <1>1, <1>5, <1>7
<1> QED
  BY <1>1, <1>4, <1>6, <1>8

(* JobDialog.qml's onClosing and onStateChanged: a window that waits never *)
(* disappears without a report, and the close() of a result or of the      *)
(* Cancel button adds no cancellation to it.                               *)
THEOREM ClosingIsReported == Spec => ClosingReported
<1>1. IInv /\ [Next]_vars =>
        [visible /\ ~ visible' =>
           IF signals' = <<>> THEN LeftOpen \/ Len(reports') > Len(reports)
           ELSE Len(reports') = Len(reports) + 1]_vars
  <2> SUFFICES ASSUME IInv, Next, visible, ~ visible'
               PROVE  IF signals' = <<>>
                      THEN LeftOpen \/ Len(reports') > Len(reports)
                      ELSE Len(reports') = Len(reports) + 1
    OBVIOUS
  <2>1. reports \in Seq(Report) /\ Len(reports) \in Nat
    BY DEF IInv, TypeOK
  <2>2. CASE Handle(TRUE)
    <3>1. signals' # <<>> /\ Closes(Head(signals'))
      BY <2>2 DEF Handle
    <3>2. OnClosing(Head(signals').state) = <<>>
      BY <3>1 DEF OnClosing, Closes
    <3>3. reports' = Append(reports, ReportOf(Head(signals'))) \o <<>>
      BY <2>2, <3>1, <3>2 DEF Handle, Misread, Tell
    <3>4. Len(reports') = Len(reports) + 1
      BY <2>1, <3>3, OneMore
    <3> QED
      BY <3>1, <3>4
  <2>3. CASE CloseWindow /\ ~ LeftOpen
    <3> DEFINE x == CancelReport(Dialog)
    <3>1. OnClosing(state[Dialog]) = <<x>>
      BY <2>3 DEF CloseWindow, InWindow, IInv, OpenWindowWaits, OnClosing
    <3>2. PICK again \in {<<>>, <<x>>} : reports' = reports \o <<x>> \o again
      BY <2>3, <3>1 DEF CloseWindow
    <3>3. signals' = <<>>
      BY <2>3 DEF CloseWindow
    <3> HIDE DEF x
    <3>4. Len(reports') > Len(reports)
      BY <2>1, <3>2, OneMore
    <3> QED
      BY <3>3, <3>4
  <2>4. CASE CloseWindow /\ LeftOpen
    BY <2>4 DEF CloseWindow
  <2>5. visible = TRUE
    BY DEF IInv, TypeOK
  <2> QED
    BY <2>2, <2>3, <2>4, <2>5
      DEF Next, Trigger, Edit, SendShare, CancelShare, Result, Delete
<1> QED
  BY <1>1, Invariant, PTL DEF Spec, ClosingReported
=============================================================================
