------------------------ MODULE AlternativesViewProofs ------------------------
(* Proofs about AlternativesView, for any views, plugins and number of     *)
(* shares.                                                                 *)
EXTENDS AlternativesView, JobControllerProofs, FiniteSetTheorems

-----------------------------------------------------------------------------
(* The stack                                                               *)

(* What is left of a stack without its top.                                *)
LEMMA FrontOf ==
  ASSUME NEW s \in Seq(Views), s # <<>>, IsInjective(s)
  PROVE  /\ Front(s) \in Seq(Views) /\ IsInjective(Front(s))
         /\ ToSet(Front(s)) = ToSet(s) \ {Last(s)} /\ Last(s) \in ToSet(s)
<1>1. PICK n \in Nat : n = Len(s) /\ DOMAIN s = 1 .. n /\ n > 0
  OBVIOUS
<1>2. /\ Front(s) \in Seq(Views) /\ DOMAIN Front(s) = 1 .. n - 1
      /\ \A i \in 1 .. n - 1 : Front(s)[i] = s[i]
  BY <1>1 DEF Front
<1>3. Last(s) = s[n]
  BY <1>1 DEF Last
<1>4. \A i, j \in 1 .. n : s[i] = s[j] => i = j
  BY <1>1 DEF IsInjective
<1>5. IsInjective(Front(s))
  BY <1>1, <1>2, <1>4 DEF IsInjective
<1>6. ToSet(s) = {s[i] : i \in 1 .. n} /\ ToSet(Front(s)) = {s[i] : i \in 1 .. n - 1}
  BY <1>1, <1>2 DEF ToSet
<1>7. \A i \in 1 .. n : i \in 1 .. n - 1 \/ i = n
  BY <1>1
<1> QED
  BY <1>1, <1>2, <1>3, <1>4, <1>5, <1>6, <1>7

(* What can be on the stack before something is popped.                    *)
Stack(from) ==
  /\ from \in Seq(Views) /\ IsInjective(from)
  /\ ToSet(from) \cap (dying \cup destroyed) = {}

LEMMA PopStep ==
  ASSUME IInv, NEW from, Stack(from), NEW rest, PopTo(rest, from),
         rest \in {from, <<>>} \/ (from # <<>> /\ rest = Front(from))
  PROVE  /\ stack' \in Seq(Views) /\ dying' \subseteq Views
         /\ destroyed' \subseteq Views /\ Placed'
         /\ Stacked' \subseteq ToSet(from)
         /\ Used' = ToSet(from) \cup dying \cup destroyed
         /\ from # <<>> /\ rest = Front(from) => Last(from) \notin Stacked'
<1>1. /\ dying \subseteq Views /\ destroyed \subseteq Views
      /\ dying \cap destroyed = {}
  BY DEF IInv, TypeOK, Placed
<1>2. /\ stack' = rest /\ dying' = dying \cup (ToSet(from) \ ToSet(rest))
      /\ destroyed' = destroyed
  BY DEF PopTo
<1>3. /\ rest \in Seq(Views) /\ IsInjective(rest) /\ ToSet(rest) \subseteq ToSet(from)
      /\ from # <<>> /\ rest = Front(from) => Last(from) \notin ToSet(rest)
  <2>1. CASE from # <<>> /\ rest = Front(from)
    BY <2>1, FrontOf DEF Stack
  <2>2. CASE rest = <<>>
    BY <2>2, FrontOf DEF ToSet, IsInjective, Stack
  <2>3. CASE rest = from /\ ~ (from # <<>> /\ rest = Front(from))
    BY <2>3 DEF Stack
  <2> QED
    BY <2>1, <2>2, <2>3
<1>4. ToSet(from) \subseteq Views
  BY DEF ToSet, Stack
<1>5. Stacked' = ToSet(rest)
  BY <1>2 DEF Stacked, ToSet
<1> QED
  BY <1>1, <1>2, <1>3, <1>4, <1>5 DEF Placed, Used, Stack

(* onJobStateChanged pops the cancelled view, all of them or none.         *)
LEMMA Popped ==
  ASSUME NEW from, NEW resets \in BOOLEAN, OnJobStateChanged(from, resets)
  PROVE  /\ Tell(IsResult)
         /\ \E rest : /\ PopTo(rest, from)
                      /\ rest \in {from, <<>>} \/ (from # <<>> /\ rest = Front(from))
                      /\ Announced({"Cancelled"}) /\ from # <<>> => rest = Front(from)
<1> DEFINE rest == IF Announced({"Cancelled"}) /\ from # <<>> THEN Front(from)
                   ELSE IF IsResult /\ resets THEN <<>> ELSE from
<1>1. Tell(IsResult) /\ PopTo(rest, from)
  BY DEF OnJobStateChanged
<1> QED
  BY <1>1

-----------------------------------------------------------------------------
(* The reports                                                             *)

LEMMA Shape ==
  ASSUME IInv
  PROVE  /\ Len(shares) \in Nat /\ Len(shares) <= MaxShares
         /\ shares \in Seq(Share) /\ DOMAIN shares = 1 .. Len(shares)
         /\ Len(reports) \in Nat /\ reports \in Seq(Report)
         /\ DOMAIN reports = 1 .. Len(reports)
         /\ configuration \in [Views -> 0 .. Len(shares)]
         /\ job \in [Views -> 0 .. Len(shares)]
         /\ page \in [Views -> 0 .. Len(shares)]
         /\ state \in [Views -> States]
BY SMTT(30) DEF IInv, TypeOK, ViewTypeOK, ControllerTypeOK

(* A step that reports nothing: what is over in addition is orphaned.      *)
LEMMA ReportsSame ==
  ASSUME IInv, reports' = reports,
         shares' \in Seq(Share), Len(shares) <= Len(shares'),
         \A k \in 1 .. Len(shares) : Over(k) => Over(k)',
         \A k \in 1 .. Len(shares') :
           Over(k)' /\ k \notin orphaned' => k <= Len(shares) /\ Over(k) /\ k \notin orphaned,
         orphaned \subseteq orphaned',
         orphaned' \subseteq {k \in DOMAIN shares' : Over(k)'},
         \A k \in orphaned' : k \in orphaned \/ ~ (k <= Len(shares) /\ Over(k))
  PROVE  ReportsOnce'
<1>1. PICK n \in Nat : /\ n = Len(shares) /\ DOMAIN shares = 1 .. n
  BY Shape
<1>2. PICK m \in Nat : /\ m = Len(shares') /\ DOMAIN shares' = 1 .. m /\ n <= m
  BY <1>1
<1>3. \A k \in 1 .. n : Over(k) /\ k \notin orphaned <=>
                          \E i \in DOMAIN reports : reports[i].source = k
  BY <1>1 DEF IInv, ReportsOnce
<1>4. \A i \in DOMAIN reports : reports[i].source \in 1 .. n
  BY <1>1 DEF IInv, ReportsOnce
<1>5. \A k \in 1 .. m : Over(k)' /\ k \notin orphaned' <=>
                          \E i \in DOMAIN reports : reports[i].source = k
  BY <1>1, <1>2, <1>3, <1>4
<1> QED
  BY <1>1, <1>2, <1>4, <1>5 DEF IInv, ReportsOnce

(* A step that ends the job of share n and reports its result.             *)
LEMMA ReportsResult ==
  ASSUME IInv, orphaned' = orphaned,
         shares' \in Seq(Share), Len(shares) <= Len(shares'),
         Len(shares') <= MaxShares, NEW n \in 1 .. Len(shares'), ~ (n <= Len(shares) /\ Over(n)),
         \A k \in 1 .. Len(shares') :
           Over(k)' <=> k = n \/ (k <= Len(shares) /\ Over(k)),
         NEW o \in Outcomes,
         reports' = Append(reports, [share |-> n, source |-> n, seen |-> o])
  PROVE  ReportsOnce'
<1> DEFINE r == [share |-> n, source |-> n, seen |-> o]
<1>1. PICK l \in Nat : l = Len(shares) /\ DOMAIN shares = 1 .. l
  BY Shape
<1>2. PICK m \in Nat : m = Len(shares') /\ DOMAIN shares' = 1 .. m /\ l <= m
  BY <1>1
<1>3. r.source = n /\ r.share = n /\ r.seen = o /\ r \in Report
  BY <1>2, SharesAssumption DEF Report, ShareIds, JobStates
<1> HIDE DEF r
<1>4. PICK t \in Nat : /\ t = Len(reports) /\ DOMAIN reports = 1 .. t
                       /\ DOMAIN reports' = 1 .. t + 1
                       /\ reports'[t + 1] = r
                       /\ \A i \in 1 .. t : reports'[i] = reports[i]
  <2>1. reports' = Append(reports, r) /\ reports \in Seq(Report)
    BY Shape DEF r
  <2>2. /\ Len(reports) \in Nat /\ DOMAIN reports = 1 .. Len(reports)
        /\ DOMAIN reports' = 1 .. Len(reports) + 1
        /\ reports'[Len(reports) + 1] = r
        /\ \A i \in 1 .. Len(reports) : reports'[i] = reports[i]
    BY <1>3, <2>1
  <2> QED
    BY <2>2
<1>5. /\ orphaned \subseteq {k \in 1 .. l : Over(k)}
      /\ \A k \in 1 .. l :
           Over(k) /\ k \notin orphaned <=> \E i \in 1 .. t : reports[i].source = k
      /\ \A i \in 1 .. t :
           /\ reports[i].source \in 1 .. l
           /\ reports[i].share = reports[i].source /\ reports[i].seen \in Outcomes
      /\ \A i, j \in 1 .. t : reports[i].source = reports[j].source => i = j
  BY <1>1, <1>4 DEF IInv, ReportsOnce
<1>6. n \notin orphaned /\ \A i \in 1 .. t : reports[i].source # n
  BY <1>1, <1>5
<1>7. \A i \in 1 .. t + 1 : i \in 1 .. t \/ i = t + 1
  BY <1>4
<1>8. \A k \in 1 .. m : Over(k)' /\ k \notin orphaned' <=>
                          \E i \in 1 .. t + 1 : reports'[i].source = k
  <2> TAKE k \in 1 .. m
  <2>1. CASE k = n
    BY <1>2, <1>3, <1>4, <1>6, <2>1
  <2>2. CASE k # n
    <3>1. (\E i \in 1 .. t + 1 : reports'[i].source = k)
            <=> \E i \in 1 .. t : reports[i].source = k
      BY <1>3, <1>4, <1>7, <2>2
    <3>2. Over(k)' <=> k <= l /\ Over(k)
      BY <1>1, <1>2, <2>2
    <3>3. CASE k <= l
      <4>1. Over(k) /\ k \notin orphaned <=> \E i \in 1 .. t : reports[i].source = k
        BY <1>1, <1>2, <1>5, <3>3
      <4> QED
        BY <3>1, <3>2, <3>3, <4>1
    <3>4. CASE ~ k <= l
      <4>1. \A i \in 1 .. t : reports[i].source # k
        BY <1>1, <1>5, <3>4
      <4> QED
        BY <3>1, <3>2, <3>4, <4>1
    <3> QED
      BY <3>3, <3>4
  <2> QED
    BY <2>1, <2>2
<1>9. orphaned' \subseteq {k \in 1 .. m : Over(k)'}
  BY <1>1, <1>2, <1>5
<1>10. \A i \in 1 .. t + 1 :
         /\ reports'[i].source \in 1 .. m
         /\ reports'[i].share = reports'[i].source /\ reports'[i].seen \in Outcomes
  BY <1>2, <1>3, <1>4, <1>5, <1>7
<1>11. \A i, j \in 1 .. t + 1 : reports'[i].source = reports'[j].source => i = j
  BY <1>3, <1>4, <1>5, <1>6, <1>7, SMTT(30)
<1> QED
  BY <1>2, <1>4, <1>8, <1>9, <1>10, <1>11, ZenonT(40) DEF ReportsOnce

-----------------------------------------------------------------------------
(* Steps of one view                                                       *)

(* Among ss, k is the share of view v, the one it has or a new one, and    *)
(* the others are as they are.                                             *)
OfView(v, k, ss) ==
  /\ k \in 1 .. Len(ss)
  /\ \/ Len(ss) = Len(shares) /\ shares[k].view = v
     \/ Len(ss) = Len(shares) + 1 /\ k = Len(shares) + 1 /\ v \notin Used
  /\ ss \in Seq(Share) /\ Len(ss) <= MaxShares /\ ss[k].view = v
  /\ \A i \in 1 .. Len(shares) : i # k => ss[i] = shares[i]

(* StackShowsShares for one view, by whether its result has been reported. *)
Shows(st, jb, told) ==
  /\ st = "Configuring" => jb = "none"
  /\ st = "Running" => jb = "running" \/ told
  /\ st \notin {"Configuring", "Running"} => told

(* What the view and its share have to be left as.                         *)
LEMMA ViewStep ==
  ASSUME IInv, ~ aborted, NEW v \in Views, NEW k, OfView(v, k, shares'),
         configuration' = [configuration EXCEPT ![v] = k],
         NEW s \in States, state' = [state EXCEPT ![v] = s],
         NEW j \in 0 .. Len(shares'), job' = [job EXCEPT ![v] = j],
         NEW pg \in {NoShare, k}, page' = [page EXCEPT ![v] = pg],
         pg # NoShare => s = "Configuring",
         aborted' \in BOOLEAN, signals' \in Seq(Signal),
         shares'[k].job # "none" => j = k /\ shares'[k].ready,
         stack' \in Seq(Views), dying' \subseteq Views, destroyed' \subseteq Views,
         Placed', Used' = Used \cup {v}, Stacked' \subseteq Stacked \cup {v},
         orphaned' \subseteq DOMAIN shares', reports' \in Seq(Report), ReportsOnce',
         \A i \in DOMAIN reports : i \in DOMAIN reports' /\ reports'[i] = reports[i],
         v \in Stacked' /\ ~ aborted' =>
           \/ s = "Configuring" /\ shares'[k].job = "none"
           \/ s = "Running" /\ shares'[k].job = "running"
           \/ s # "Configuring" /\ \E i \in DOMAIN reports' : reports'[i].source = k
  PROVE  IInv'
<1>1. PICK n \in Nat : n = Len(shares) /\ DOMAIN shares = 1 .. n
  BY Shape
<1>2. PICK m \in Nat :
        /\ m = Len(shares') /\ DOMAIN shares' = 1 .. m /\ n <= m /\ m <= n + 1
        /\ m <= MaxShares
        /\ k \in 1 .. m
        /\ \A i \in 1 .. n : i # k => shares'[i] = shares[i]
        /\ \A i \in 1 .. m : i # k => i \in 1 .. n
  BY <1>1 DEF OfView
<1>3. /\ configuration' \in [Views -> 0 .. m] /\ configuration'[v] = k
      /\ \A w \in Views : w # v => configuration'[w] = configuration[w]
  BY <1>1, <1>2, Shape DEF OfView
<1>4. /\ job' \in [Views -> 0 .. m] /\ job'[v] = j
      /\ \A w \in Views : w # v => job'[w] = job[w]
  BY <1>1, <1>2, Shape DEF NoShare
<1>5. /\ page' \in [Views -> 0 .. m] /\ page'[v] = pg
      /\ \A w \in Views : w # v => page'[w] = page[w]
  BY <1>1, <1>2, Shape DEF NoShare
<1>6. /\ state' \in [Views -> States] /\ state'[v] = s
      /\ \A w \in Views : w # v => state'[w] = state[w]
  BY Shape
<1>7. shares'[k].view = v /\ shares' \in Seq(Share)
  BY DEF OfView
<1>8. \A i \in 1 .. n : i # k => shares[i].view # v
  <2>1. CASE k \in 1 .. n /\ shares[k].view = v
    <3>1. \A i \in 1 .. n : configuration[shares[i].view] = i
      BY <1>1 DEF IInv, Owned
    <3> QED
      BY <2>1, <3>1
  <2>2. CASE v \notin Used
    <3>1. configuration[v] = NoShare
      BY <2>2 DEF IInv, Owned
    <3>2. \A i \in 1 .. n : shares[i].view = v => configuration[v] = i
      BY <1>1 DEF IInv, Owned
    <3> QED
      BY <3>1, <3>2 DEF NoShare
  <2> QED
    BY <1>1, <1>2, <2>1, <2>2 DEF OfView
<1>9. \A w \in Views : w # v => configuration[w] # k
  <2> SUFFICES ASSUME NEW w \in Views, w # v, configuration[w] = k PROVE FALSE
    OBVIOUS
  <2>1. w \in Used
    BY <1>2 DEF IInv, Owned, NoShare
  <2>2. k \in 1 .. n /\ shares[k].view = w
    BY <1>1, <2>1 DEF IInv, Owned
  <2> QED
    BY <1>1, <1>2, <2>2 DEF OfView
<1>10. TypeOK'
  BY <1>2, <1>3, <1>4, <1>5, <1>6, <1>7 DEF TypeOK, ViewTypeOK, ControllerTypeOK
<1>11. Owned'
  <2>1. \A i \in 1 .. m :
          /\ configuration'[shares'[i].view] = i
          /\ shares'[i].job # "none" => job'[shares'[i].view] = i
    <3> TAKE i \in 1 .. m
    <3>1. CASE i = k
      BY <1>3, <1>4, <1>7, <3>1
    <3>2. CASE i # k
      <4> i \in 1 .. n /\ shares'[i] = shares[i] /\ shares[i].view # v
        BY <1>2, <1>8, <3>2
      <4> shares[i] \in Share
        BY <1>1, Shape
      <4>1. shares[i].view \in Views
        BY DEF Share
      <4>2. /\ configuration[shares[i].view] = i
            /\ shares[i].job # "none" => job[shares[i].view] = i
        BY <1>1, <4>1 DEF IInv, Owned
      <4> QED
        BY <1>3, <1>4, <4>1, <4>2
    <3> QED
      BY <3>1, <3>2
  <2>2. \A w \in Views :
          /\ w \notin Used' => configuration'[w] = NoShare /\ page'[w] = NoShare
          /\ w \in Used' => /\ configuration'[w] \in 1 .. m
                            /\ shares'[configuration'[w]].view = w
          /\ page'[w] # NoShare =>
               page'[w] = configuration'[w] /\ state'[w] = "Configuring"
    <3> TAKE w \in Views
    <3>1. CASE w = v
      BY <1>2, <1>3, <1>5, <1>6, <1>7, <3>1
    <3>2. CASE w # v
      <4>1. /\ configuration'[w] = configuration[w] /\ page'[w] = page[w]
            /\ state'[w] = state[w] /\ (w \in Used' <=> w \in Used)
            /\ configuration[w] # k
        BY <1>3, <1>5, <1>6, <1>9, <3>2
      <4>2. w \in Used => /\ configuration[w] \in 1 .. n
                          /\ shares[configuration[w]].view = w
        BY <1>1 DEF IInv, Owned
      <4>3. w \in Used => shares'[configuration[w]] = shares[configuration[w]]
        BY <1>2, <4>1, <4>2
      <4> QED
        BY <1>1, <1>2, <4>1, <4>2, <4>3 DEF IInv, Owned
    <3> QED
      BY <3>1, <3>2
  <2> QED
    BY <1>2, <2>1, <2>2 DEF Owned
<1>12. StackShowsShares'
  <2> SUFFICES ASSUME NEW w \in Stacked', ~ aborted'
               PROVE  Shows(state'[w], shares'[configuration'[w]].job,
                            \E i \in DOMAIN reports' :
                              reports'[i].source = configuration'[w])
    BY DEF StackShowsShares, Reported, Shows
  <2>1. CASE w = v
    BY <1>3, <1>6, <2>1 DEF Shows
  <2>2. CASE w # v
    <3>1. w \in Stacked /\ w \in Views /\ w \in Used
      <4>1. w \in Stacked /\ stack \in Seq(Views)
        BY <2>2 DEF IInv, TypeOK
      <4> QED
        BY <4>1 DEF Stacked, Used
    <3>2. /\ configuration'[w] = configuration[w] /\ state'[w] = state[w]
          /\ configuration[w] # k
      BY <1>3, <1>6, <1>9, <2>2, <3>1
    <3>3. configuration[w] \in 1 .. n /\ shares'[configuration[w]] = shares[configuration[w]]
      BY <1>1, <1>2, <3>1, <3>2 DEF IInv, Owned
    <3>4. Shows(state[w], shares[configuration[w]].job,
                \E i \in DOMAIN reports : reports[i].source = configuration[w])
      BY <3>1 DEF IInv, StackShowsShares, Reported, Shows
    <3>5. (\E i \in DOMAIN reports : reports[i].source = configuration[w])
            => \E i \in DOMAIN reports' : reports'[i].source = configuration[w]
      OBVIOUS
    <3> QED
      BY <3>2, <3>3, <3>4, <3>5 DEF Shows
  <2> QED
    BY <2>1, <2>2
<1>13. StartedReady'
  BY <1>1, <1>2 DEF IInv, StartedReady
<1> QED
  BY <1>10, <1>11, <1>12, <1>13 DEF IInv

(* The page of a view was loaded for its share, and is kept or reloaded    *)
(* for that one.                                                           *)
LEMMA PageKept ==
  ASSUME IInv, NEW v \in Views, NEW k, NEW ss, OfView(v, k, ss),
         configuration' = [configuration EXCEPT ![v] = k], Reload(v)
  PROVE  \E pg \in {NoShare, k} : /\ page' = [page EXCEPT ![v] = pg]
                                  /\ pg # NoShare => state'[v] = "Configuring"
<1>1. page[v] \in {NoShare, k}
  <2>1. CASE v \notin Used
    BY <2>1 DEF IInv, Owned
  <2>2. CASE Len(ss) = Len(shares) /\ shares[k].view = v
    <3>1. k \in DOMAIN shares
      BY <2>2, Shape DEF OfView
    <3> QED
      BY <2>2, <3>1 DEF IInv, Owned
  <2> QED
    BY <2>1, <2>2 DEF OfView
<1>2. configuration'[v] = k
  BY Shape
<1>3. Loader(v) \in {NoShare, k} /\ (Loader(v) # NoShare => state'[v] = "Configuring")
  BY <1>1, <1>2 DEF Loader
<1> QED
  BY <1>3 DEF Reload

LEMMA WithJobOfView ==
  ASSUME NEW v, NEW k, NEW ss, OfView(v, k, ss), NEW o \in JobStates
  PROVE  /\ OfView(v, k, WithJob(ss, k, o))
         /\ Len(WithJob(ss, k, o)) = Len(ss)
         /\ WithJob(ss, k, o)[k].job = o
         /\ WithJob(ss, k, o)[k].ready = ss[k].ready
<1> DEFINE t == WithJob(ss, k, o)
<1>1. ss \in Seq(Share) /\ k \in 1 .. Len(ss)
  BY DEF OfView
<1>2. /\ t \in Seq(Share) /\ Len(t) = Len(ss)
      /\ t[k].job = o /\ t[k].ready = ss[k].ready /\ t[k].view = ss[k].view
      /\ \A j \in 1 .. Len(ss) : j # k => t[j] = ss[j]
  BY <1>1, SetJob
<1> HIDE DEF t
<1>3. \A i \in 1 .. Len(shares) : i # k => t[i] = shares[i]
  BY <1>2 DEF OfView
<1>4. OfView(v, k, t)
  BY <1>2, <1>3 DEF OfView
<1> QED
  BY <1>2, <1>4 DEF t

-----------------------------------------------------------------------------
(* The signals                                                             *)

LEMMA TellNothing ==
  ASSUME Tell(IsResult), ~ Announced({"Finished", "Error"})
  PROVE  reports' = reports
BY DEF Tell, IsResult

(* The report reads the job whose result is announced, for that is m_job.  *)
LEMMA TellResult ==
  ASSUME NEW v, NEW k, NEW o \in Outcomes, Tell(IsResult),
         signals' # <<>>, Head(signals') = OnResult(v, k, o),
         job'[v] = k, shares'[k].job = o
  PROVE  /\ reports' = Append(reports, [share |-> k, source |-> k, seen |-> o])
         /\ ~ Announced({"Cancelled"})
<1> DEFINE r == OnResult(v, k, o)
<1>1. /\ r.view = v /\ r.source = k /\ r.state \in {"Finished", "Error"}
  BY DEF OnResult, Changed
<1> HIDE DEF r
<1>2. Head(signals') = r
  BY DEF r
<1>3. ReportOf(Head(signals')) = [share |-> k, source |-> k, seen |-> o]
  BY <1>1, <1>2 DEF ReportOf
<1>4. IsResult /\ ~ Announced({"Cancelled"})
  BY <1>1, <1>2 DEF IsResult, Announced
<1> QED
  BY <1>3, <1>4 DEF Tell

LEMMA ResultSignal ==
  ASSUME NEW v \in Views, NEW k \in ShareIds, NEW o \in Outcomes
  PROVE  OnResult(v, k, o) \in Signal
BY DEF OnResult, Changed, Signal, States

LEMMA StateSignal ==
  ASSUME NEW v \in Views, NEW s \in States
  PROVE  Changed(v, s, NoShare) \in Signal
BY SharesAssumption DEF Changed, Signal, ShareIds, NoShare

(* The first of two signals.                                               *)
LEMMA First ==
  ASSUME NEW a \in Signal, NEW b \in Signal
  PROVE  LET t == <<a>> \o <<b>>
         IN t \in Seq(Signal) /\ t # <<>> /\ Head(t) = a
<1> DEFINE t == <<a>> \o <<b>>
<1>1. <<a>> \in Seq(Signal) /\ <<b>> \in Seq(Signal)
  OBVIOUS
<1>2. t \in Seq(Signal) /\ Len(t) = 2 /\ t[1] = a
  BY <1>1
<1>3. t # <<>>
  BY <1>2
<1>4. Head(t) = a
  BY <1>2
<1> QED
  BY <1>2, <1>3, <1>4

-----------------------------------------------------------------------------
(* Starting a job                                                          *)

(* The ends of startJob(): the job runs or has finished inside start() and *)
(* is reported, or there is no job.                                        *)
Starts(v, k, ss, o) ==
  /\ shares' = WithJob(ss, k, o)
  /\ job' = [job EXCEPT ![v] = k]
  /\ state' = [state EXCEPT ![v] = "Running"]
  /\ aborted' = aborted
  /\ reports' = IF o = "running" THEN reports
                ELSE Append(reports, [share |-> k, source |-> k, seen |-> o])

StartsNothing(v, ss) ==
  /\ shares' = ss /\ aborted' = TRUE
  /\ job' = [job EXCEPT ![v] = NoShare]
  /\ state' = state /\ reports' = reports

LEMMA StartEffect ==
  ASSUME IInv, NEW v \in Views, NEW k, NEW ss, OfView(v, k, ss),
         StartJobOf(v, k, ss), Tell(IsResult)
  PROVE  /\ \/ \E o \in {"running"} \cup Outcomes : Starts(v, k, ss, o)
            \/ StartsNothing(v, ss)
         /\ signals' \in Seq(Signal) /\ ~ Announced({"Cancelled"})
<1>1. k \in ShareIds
  BY SharesAssumption DEF ShareIds, OfView
<1>2. Changed(v, "Running", NoShare) \in Signal
  BY StateSignal DEF States
<1>3. CASE /\ job' = [job EXCEPT ![v] = NoShare] /\ shares' = ss
           /\ aborted' = TRUE /\ signals' = <<>> /\ state' = state
  <2>1. reports' = reports /\ ~ Announced({"Cancelled"})
    BY <1>3, TellNothing DEF Announced
  <2> QED
    BY <1>3, <2>1 DEF StartsNothing
<1>4. ASSUME NEW o \in {"running"} \cup Outcomes,
             job' = [job EXCEPT ![v] = k],
             shares' = WithJob(ss, k, o),
             state' = [state EXCEPT ![v] = "Running"],
             signals' = (IF o = "running" THEN <<>> ELSE <<OnResult(v, k, o)>>)
                          \o <<Changed(v, "Running", NoShare)>>,
             aborted' = aborted
      PROVE  Starts(v, k, ss, o) /\ signals' \in Seq(Signal) /\ ~ Announced({"Cancelled"})
  <2>1. CASE o = "running"
    <3>1. signals' = <<Changed(v, "Running", NoShare)>>
      BY <1>2, <1>4, <2>1
    <3>2. ~ Announced({"Finished", "Error"}) /\ ~ Announced({"Cancelled"})
      BY <3>1 DEF Announced, Changed
    <3> QED
      BY <1>2, <1>4, <2>1, <3>1, <3>2, TellNothing DEF Starts
  <2>2. CASE o # "running"
    <3> DEFINE r == OnResult(v, k, o)
    <3>1. o \in Outcomes
      BY <2>2
    <3>2. r \in Signal
      BY <1>1, <3>1, ResultSignal
    <3>3. signals' = <<r>> \o <<Changed(v, "Running", NoShare)>>
      BY <1>4, <2>2
    <3>4. signals' \in Seq(Signal) /\ signals' # <<>> /\ Head(signals') = r
      BY <1>2, <3>2, <3>3, First
    <3>5. job'[v] = k
      BY <1>4, Shape
    <3>6. shares'[k].job = o
      <4>1. o \in JobStates
        BY <3>1 DEF JobStates
      <4>2. WithJob(ss, k, o)[k].job = o
        BY ONLY <4>1, OfView(v, k, ss), WithJobOfView
      <4> QED
        BY <1>4, <4>2, Zenon
    <3>7. /\ reports' = Append(reports, [share |-> k, source |-> k, seen |-> o])
          /\ ~ Announced({"Cancelled"})
      BY <3>1, <3>4, <3>5, <3>6, TellResult
    <3> QED
      BY <1>4, <2>2, <3>4, <3>7 DEF Starts
  <2> QED
    BY <2>1, <2>2
<1> QED
  BY <1>3, <1>4 DEF StartJobOf, WithJob

LEMMA Kept ==
  ASSUME IInv
  PROVE  Stack(stack) /\ ToSet(stack) = Stacked
BY DEF IInv, TypeOK, Placed, Stack, Stacked, ToSet

LEMMA Pushed ==
  ASSUME IInv, NEW v \in Views \ Used
  PROVE  Stack(Append(stack, v)) /\ ToSet(Append(stack, v)) = Stacked \cup {v}
<1>1. PICK n \in Nat : n = Len(stack) /\ DOMAIN stack = 1 .. n /\ stack \in Seq(Views)
  BY DEF IInv, TypeOK
<1> DEFINE t == Append(stack, v)
<1>2. /\ t \in Seq(Views) /\ DOMAIN t = 1 .. n + 1 /\ t[n + 1] = v
      /\ \A i \in 1 .. n : t[i] = stack[i]
  BY <1>1
<1> HIDE DEF t
<1>3. \A i \in 1 .. n + 1 : i \in 1 .. n \/ i = n + 1
  BY <1>1
<1>4. \A i \in 1 .. n : stack[i] # v
  BY <1>1 DEF Used, Stacked
<1>5. \A i, j \in 1 .. n : stack[i] = stack[j] => i = j
  BY <1>1 DEF IInv, Placed, IsInjective
<1>6. IsInjective(t)
  BY <1>2, <1>3, <1>4, <1>5 DEF IsInjective
<1>7. ToSet(t) = Stacked \cup {v}
  <2>1. \A x \in ToSet(t) : x \in Stacked \cup {v}
    BY <1>1, <1>2, <1>3 DEF ToSet, Stacked
  <2>2. v \in ToSet(t)
    BY <1>1, <1>2 DEF ToSet
  <2>3. \A x \in Stacked : x \in ToSet(t)
    BY <1>1, <1>2 DEF ToSet, Stacked
  <2> QED
    BY <2>1, <2>2, <2>3
<1>8. Stacked \cap (dying \cup destroyed) = {}
  BY DEF IInv, Placed
<1> QED
  BY <1>2, <1>6, <1>7, <1>8 DEF Stack, Used, t

(* What the stack is after onJobStateChanged in a step of view v.          *)
LEMMA Stacks ==
  ASSUME IInv, NEW v \in Views, NEW from, Stack(from), ToSet(from) = Stacked \cup {v},
         NEW resets \in BOOLEAN, OnJobStateChanged(from, resets)
  PROVE  /\ Tell(IsResult)
         /\ stack' \in Seq(Views) /\ dying' \subseteq Views
         /\ destroyed' \subseteq Views /\ Placed'
         /\ Used' = Used \cup {v} /\ Stacked' \subseteq Stacked \cup {v}
         /\ Announced({"Cancelled"}) /\ from # <<>> => Last(from) \notin Stacked'
<1>1. PICK rest : /\ PopTo(rest, from)
                  /\ rest \in {from, <<>>} \/ (from # <<>> /\ rest = Front(from))
                  /\ Announced({"Cancelled"}) /\ from # <<>> => rest = Front(from)
  BY Popped
<1>2. Tell(IsResult)
  BY Popped
<1>3. /\ stack' \in Seq(Views) /\ dying' \subseteq Views
      /\ destroyed' \subseteq Views /\ Placed'
      /\ Stacked' \subseteq ToSet(from)
      /\ Used' = ToSet(from) \cup dying \cup destroyed
      /\ from # <<>> /\ rest = Front(from) => Last(from) \notin Stacked'
  BY <1>1, PopStep
<1>4. Used' = Used \cup {v}
  BY <1>3 DEF Used
<1> QED
  BY <1>1, <1>2, <1>3, <1>4

LEMMA KeptStacks ==
  ASSUME IInv, NEW resets \in BOOLEAN, OnJobStateChanged(stack, resets)
  PROVE  /\ Tell(IsResult)
         /\ stack' \in Seq(Views) /\ dying' \subseteq Views
         /\ destroyed' \subseteq Views /\ Placed'
         /\ Used' = Used /\ Stacked' \subseteq Stacked
         /\ Announced({"Cancelled"}) /\ stack # <<>> => Last(stack) \notin Stacked'
<1>1. PICK rest : /\ PopTo(rest, stack)
                  /\ rest \in {stack, <<>>} \/ (stack # <<>> /\ rest = Front(stack))
                  /\ Announced({"Cancelled"}) /\ stack # <<>> => rest = Front(stack)
  BY Popped
<1>2. Stack(stack) /\ ToSet(stack) = Stacked
  BY Kept
<1> QED
  BY <1>1, <1>2, Popped, PopStep DEF Used

(* A step that appends a report keeps the others.                          *)
LEMMA Appended ==
  ASSUME IInv, NEW r \in Report, reports' \in {reports, Append(reports, r)}
  PROVE  /\ reports' \in Seq(Report)
         /\ \A i \in DOMAIN reports : i \in DOMAIN reports' /\ reports'[i] = reports[i]
         /\ reports' = Append(reports, r) =>
              \E i \in DOMAIN reports' : reports'[i] = r
<1>1. PICK n \in Nat : n = Len(reports) /\ DOMAIN reports = 1 .. n /\ reports \in Seq(Report)
  BY Shape
<1> DEFINE t == Append(reports, r)
<1>2. /\ t \in Seq(Report) /\ DOMAIN t = 1 .. n + 1 /\ t[n + 1] = r
      /\ \A i \in 1 .. n : t[i] = reports[i]
  BY <1>1
<1> HIDE DEF t
<1>3. reports' = reports \/ reports' = t
  BY DEF t
<1>4. n + 1 \in 1 .. n + 1 /\ \A i \in 1 .. n : i \in 1 .. n + 1
  BY <1>1
<1>5. reports' = t => \E i \in DOMAIN reports' : reports'[i] = r
  BY <1>2, <1>4
<1> QED
  BY <1>1, <1>2, <1>3, <1>4, <1>5, SMTT(30) DEF t

(* startJob() in a view, for its share.                                    *)
LEMMA StartStep ==
  ASSUME IInv, ~ aborted, NEW v \in Views, NEW k, NEW ss, OfView(v, k, ss),
         ss[k].ready, ss[k].job = "none", k <= Len(shares) => ss = shares,
         configuration' = [configuration EXCEPT ![v] = k],
         StartJobOf(v, k, ss), Reload(v),
         NEW from, Stack(from), ToSet(from) = Stacked \cup {v},
         NEW resets \in BOOLEAN, OnJobStateChanged(from, resets), orphaned' = orphaned
  PROVE  IInv'
<1>1. PICK n \in Nat : n = Len(shares) /\ DOMAIN shares = 1 .. n
  BY Shape
<1>2. PICK m \in Nat : /\ m = Len(ss) /\ DOMAIN ss = 1 .. m /\ n <= m /\ m <= MaxShares
                       /\ k \in 1 .. m /\ \A i \in 1 .. m : i # k => i \in 1 .. n
                       /\ \A i \in 1 .. n : i # k => ss[i] = shares[i]
  BY <1>1 DEF OfView
<1>3. /\ Tell(IsResult)
      /\ stack' \in Seq(Views) /\ dying' \subseteq Views
      /\ destroyed' \subseteq Views /\ Placed'
      /\ Used' = Used \cup {v} /\ Stacked' \subseteq Stacked \cup {v}
  BY Stacks
<1>4. PICK pg \in {NoShare, k} : /\ page' = [page EXCEPT ![v] = pg]
                                 /\ pg # NoShare => state'[v] = "Configuring"
  BY PageKept
<1>5. ~ (k <= n /\ Over(k))
  BY <1>1, <1>2 DEF Over, Outcomes
<1>6. /\ \/ \E o \in {"running"} \cup Outcomes : Starts(v, k, ss, o)
         \/ StartsNothing(v, ss)
      /\ signals' \in Seq(Signal)
  BY <1>3, StartEffect
<1>7. orphaned \subseteq {i \in 1 .. n : Over(i)}
  BY <1>1 DEF IInv, ReportsOnce
<1>8. ASSUME NEW o \in {"running"} \cup Outcomes, Starts(v, k, ss, o)
      PROVE  IInv'
  <2>1. o \in JobStates
    BY DEF JobStates
  <2>2. /\ OfView(v, k, shares') /\ Len(shares') = m
        /\ shares'[k].job = o /\ shares'[k].ready
    BY <1>2, <1>8, <2>1, WithJobOfView DEF Starts
  <2>3. /\ shares' \in Seq(Share) /\ DOMAIN shares' = 1 .. m
        /\ \A i \in 1 .. n : i # k => shares'[i] = shares[i]
    BY <1>1, <1>2, <2>2 DEF OfView
  <2>4. \A i \in 1 .. m : Over(i)' <=> \/ i = k /\ o # "running"
                                       \/ i # k /\ i <= n /\ Over(i)
    BY <1>1, <1>2, <2>2, <2>3 DEF Over, Outcomes
  <2>5. state'[v] = "Running" /\ pg = NoShare
    BY <1>4, <1>8, Shape DEF Starts
  <2>6. /\ state' = [state EXCEPT ![v] = "Running"] /\ "Running" \in States
        /\ job' = [job EXCEPT ![v] = k] /\ page' = [page EXCEPT ![v] = NoShare]
        /\ aborted' \in BOOLEAN /\ k \in 0 .. m
    BY <1>2, <1>4, <1>8, <2>5 DEF Starts, States, IInv, TypeOK, ViewTypeOK, ControllerTypeOK
  <2>7. orphaned' \subseteq DOMAIN shares'
    BY <1>1, <1>2, <1>7, <2>3
  <2> DEFINE r == [share |-> k, source |-> k, seen |-> o]
  <2>8. CASE o = "running"
    <3>1. reports' = reports
      BY <1>8, <2>8 DEF Starts
    <3>2. ReportsOnce'
      BY <1>1, <1>2, <1>5, <1>7, <2>3, <2>4, <2>8, <3>1, <2>2, ReportsSame
    <3> QED
      BY <1>2, <1>3, <1>6, <2>2, <2>6, <2>7, <2>8, <3>1, <3>2, Shape, ViewStep
  <2>9. CASE o # "running"
    <3>1. reports' = Append(reports, r) /\ o \in Outcomes
      BY <1>8, <2>9 DEF Starts
    <3>2. r \in Report /\ r.source = k
      BY <1>2, <2>1, SharesAssumption DEF Report, ShareIds
    <3>3. \A i \in 1 .. m : Over(i)' <=> i = k \/ (i <= n /\ Over(i))
      BY <1>5, <2>4, <2>9
    <3>4. ReportsOnce'
      BY <1>1, <1>2, <1>5, <2>2, <2>3, <3>1, <3>3, ReportsResult
    <3> HIDE DEF r
    <3>5. /\ reports' \in Seq(Report)
          /\ \A i \in DOMAIN reports : i \in DOMAIN reports' /\ reports'[i] = reports[i]
          /\ \E i \in DOMAIN reports' : reports'[i].source = k
      BY <3>1, <3>2, Appended
    <3> QED
      BY <1>2, <1>3, <1>6, <2>2, <2>6, <2>7, <2>9, <3>4, <3>5, ViewStep
  <2> QED
    BY <2>8, <2>9
<1>9. CASE StartsNothing(v, ss)
  <2>1. /\ shares' = ss /\ aborted' = TRUE /\ job' = [job EXCEPT ![v] = NoShare]
        /\ state' = state /\ reports' = reports
    BY <1>9 DEF StartsNothing
  <2>2. state' = [state EXCEPT ![v] = state[v]] /\ state[v] \in States
    BY <2>1, Shape
  <2>3. pg # NoShare => state[v] = "Configuring"
    BY <1>4, <2>1
  <2>4. OfView(v, k, shares') /\ shares'[k].job = "none"
    BY <2>1
  <2>5. shares' \in Seq(Share) /\ Len(shares') = m /\ DOMAIN shares' = 1 .. m
    BY <1>2, <2>1 DEF OfView
  <2>6. \A i \in 1 .. m : Over(i)' <=> i <= n /\ Over(i)
    BY <1>1, <1>2, <1>5, <2>1 DEF Over, Outcomes
  <2>7. ReportsOnce'
    BY <1>1, <1>2, <1>7, <2>1, <2>5, <2>6, ReportsSame
  <2>8. orphaned' \subseteq DOMAIN shares' /\ NoShare \in 0 .. Len(shares')
    BY <1>1, <1>2, <1>7, <2>5 DEF NoShare
  <2> QED
    BY <1>3, <1>4, <1>6, <2>1, <2>2, <2>3, <2>4, <2>7, <2>8, Shape, ViewStep
<1> QED
  BY <1>6, <1>8, <1>9, SMTT(30)

-----------------------------------------------------------------------------
(* Steps                                                                   *)

(* A step of view v that tells the application nothing.                    *)
LEMMA QuietReports ==
  ASSUME IInv, reports' = reports, orphaned' = orphaned,
         NEW v, NEW k, OfView(v, k, shares'),
         Over(k)' <=> k <= Len(shares) /\ Over(k)
  PROVE  /\ ReportsOnce' /\ orphaned' \subseteq DOMAIN shares'
         /\ reports' \in Seq(Report)
         /\ \A i \in DOMAIN reports : i \in DOMAIN reports' /\ reports'[i] = reports[i]
<1>1. PICK n \in Nat : n = Len(shares) /\ DOMAIN shares = 1 .. n
  BY Shape
<1>2. PICK m \in Nat :
        /\ m = Len(shares') /\ DOMAIN shares' = 1 .. m /\ n <= m
        /\ shares' \in Seq(Share) /\ \A i \in 1 .. m : i # k => i \in 1 .. n
        /\ \A i \in 1 .. n : i # k => shares'[i] = shares[i]
  BY <1>1 DEF OfView
<1>3. orphaned \subseteq {i \in 1 .. n : Over(i)}
  BY <1>1 DEF IInv, ReportsOnce
<1>4. \A i \in 1 .. m : Over(i)' <=> i <= n /\ Over(i)
  <2> TAKE i \in 1 .. m
  <2>1. CASE i = k
    BY <1>1, <2>1
  <2>2. CASE i # k
    BY <1>1, <1>2, <2>2 DEF Over
  <2> QED
    BY <2>1, <2>2
<1>5. ReportsOnce'
  BY <1>1, <1>2, <1>3, <1>4, ReportsSame
<1> QED
  BY <1>1, <1>2, <1>3, <1>5, Shape, SMTT(30)

LEMMA CreateJobStep ==
  ASSUME IInv, ~ aborted, NEW p \in Plugins, CreateJob(p)
  PROVE  IInv'
<1>1. PICK v \in Views \ Used :
        /\ ViewStart(v, p) /\ OnJobStateChanged(Append(stack, v), FALSE)
        /\ orphaned' = orphaned
  BY DEF CreateJob
<1>2. PICK filled \in {FALSE, page[v] = NoShare} : Configure(v, p, filled) /\ Reload(v)
  BY <1>1 DEF ViewStart
<1> DEFINE Made(r) == Append(shares,
                             [plugin |-> p, view |-> v, ready |-> r, job |-> "none"])
           from == Append(stack, v)
<1>3. PICK n \in Nat : n = Len(shares) /\ DOMAIN shares = 1 .. n /\ shares \in Seq(Share)
  BY Shape
<1> DEFINE k == n + 1
<1>4. n < MaxShares /\ configuration' = [configuration EXCEPT ![v] = k]
  BY <1>2, <1>3 DEF Configure
<1>5. ASSUME NEW r \in BOOLEAN
      PROVE  /\ OfView(v, k, Made(r)) /\ Made(r)[k].job = "none"
             /\ Made(r)[k].ready = r
  <2>1. /\ Made(r) \in Seq(Share) /\ Len(Made(r)) = n + 1
        /\ Made(r)[n + 1].job = "none" /\ Made(r)[n + 1].ready = r
        /\ Made(r)[n + 1].view = v
        /\ \A j \in 1 .. n : Made(r)[j] = shares[j]
    BY <1>3, NewShare
  <2> HIDE DEF Made
  <2> QED
    BY <1>3, <1>4, <2>1, SharesAssumption DEF OfView
<1>6. Stack(from) /\ ToSet(from) = Stacked \cup {v}
  BY Pushed
<1>7. CASE StartJobOf(v, k, Made(TRUE))
  <2>1. Made(TRUE)[k].ready
    BY <1>5
  <2>2. ~ k <= Len(shares)
    BY <1>3
  <2> HIDE DEF Made, k, from
  <2> QED
    BY <1>1, <1>2, <1>4, <1>5, <1>6, <1>7, <2>1, <2>2, StartStep DEF from
<1>8. CASE /\ shares' = Made(filled)
           /\ state' = [state EXCEPT ![v] = "Configuring"]
           /\ signals' = <<Changed(v, "Configuring", NoShare)>>
           /\ UNCHANGED <<job, aborted>>
  <2>1. filled \in BOOLEAN
    OBVIOUS
  <2>2. OfView(v, k, shares') /\ shares'[k].job = "none"
    BY <1>5, <1>8, <2>1
  <2>3. ~ k <= Len(shares)
    BY <1>3
  <2> HIDE DEF Made, k, from
  <2>4. /\ Tell(IsResult)
        /\ stack' \in Seq(Views) /\ dying' \subseteq Views
        /\ destroyed' \subseteq Views /\ Placed'
        /\ Used' = Used \cup {v} /\ Stacked' \subseteq Stacked \cup {v}
    BY <1>1, <1>6, Stacks DEF from
  <2>5. "Configuring" \in States
    BY DEF States
  <2>6. signals' \in Seq(Signal) /\ ~ Announced({"Finished", "Error"})
    <3>1. Changed(v, "Configuring", NoShare) \in Signal
      BY <2>5, StateSignal
    <3> QED
      BY <1>8, <3>1 DEF Announced, Changed
  <2>7. reports' = reports
    BY <2>4, <2>6, TellNothing
  <2>8. /\ ReportsOnce' /\ orphaned' \subseteq DOMAIN shares'
        /\ reports' \in Seq(Report)
        /\ \A i \in DOMAIN reports : i \in DOMAIN reports' /\ reports'[i] = reports[i]
    <3>1. ~ Over(k)'
      BY <2>2 DEF Over, Outcomes
    <3> QED
      BY <1>1, <2>2, <2>3, <2>7, <3>1, QuietReports
  <2>9. PICK pg \in {NoShare, k} : /\ page' = [page EXCEPT ![v] = pg]
                                   /\ pg # NoShare => state'[v] = "Configuring"
    BY <1>2, <1>4, <2>2, PageKept
  <2>10. /\ aborted' \in BOOLEAN
         /\ job[v] \in 0 .. Len(shares') /\ job' = [job EXCEPT ![v] = job[v]]
    <3>1. Len(shares') \in Nat /\ Len(shares) <= Len(shares')
      BY <1>3, <2>2 DEF OfView
    <3>2. aborted' \in BOOLEAN
      BY <1>8 DEF IInv, TypeOK, ViewTypeOK, ControllerTypeOK
    <3> QED
      BY <1>3, <1>8, <3>1, <3>2, Shape
  <2> QED
    BY <1>4, <1>8, <2>2, <2>4, <2>5, <2>6, <2>8, <2>9, <2>10, ViewStep
<1> QED
  BY <1>2, <1>3, <1>7, <1>8 DEF Configure

(* The share of a view that has one.                                       *)
LEMMA OwnShare ==
  ASSUME IInv, NEW v \in Views, v \in Used
  PROVE  /\ OfView(v, configuration[v], shares)
         /\ configuration[v] \in DOMAIN shares
         /\ page[v] \in {NoShare, configuration[v]}
         /\ page[v] # NoShare => state[v] = "Configuring"
         /\ shares[configuration[v]].job # "none" => job[v] = configuration[v]
<1>1. configuration[v] \in DOMAIN shares /\ shares[configuration[v]].view = v
  BY DEF IInv, Owned
<1>2. OfView(v, configuration[v], shares)
  BY <1>1, Shape DEF OfView
<1> QED
  BY <1>1, <1>2 DEF IInv, Owned

(* What a view on the stack shows.                                         *)
LEMMA Shown ==
  ASSUME IInv, ~ aborted, NEW v \in Stacked
  PROVE  /\ v \in Views /\ v \in Used
         /\ Shows(state[v], shares[configuration[v]].job,
                  \E i \in DOMAIN reports : reports[i].source = configuration[v])
<1>1. stack \in Seq(Views)
  BY DEF IInv, TypeOK
<1>2. v \in Views /\ v \in Used
  BY <1>1 DEF Stacked, Used
<1> QED
  BY <1>2 DEF IInv, StackShowsShares, Reported, Shows

LEMMA TopShown ==
  ASSUME IInv, NEW v, OnTop(v)
  PROVE  v \in Stacked
BY Kept, FrontOf DEF OnTop, Stack

(* A step that only edits or ends the share of a view changes nothing else *)
(* of it.                                                                  *)
LEMMA SameView ==
  ASSUME IInv, ~ aborted, NEW v \in Views, v \in Used, NEW k, k = configuration[v],
         OfView(v, k, shares'),
         UNCHANGED <<state, configuration, job, aborted, page, stackVars, reports>>,
         signals' = <<>>, ReportsOnce', orphaned' \subseteq DOMAIN shares',
         shares'[k].job # "none" => job[v] = k /\ shares'[k].ready,
         v \in Stacked =>
           \/ state[v] = "Configuring" /\ shares'[k].job = "none"
           \/ state[v] # "Configuring" /\ \E i \in DOMAIN reports : reports[i].source = k
  PROVE  IInv'
<1> PICK s, j, pg : s = state[v] /\ j = job[v] /\ pg = page[v]
  OBVIOUS
<1>1. /\ configuration' = [configuration EXCEPT ![v] = k]
      /\ state' = [state EXCEPT ![v] = s] /\ s \in States
      /\ job' = [job EXCEPT ![v] = j] /\ page' = [page EXCEPT ![v] = pg]
  BY Shape
<1>2. j \in 0 .. Len(shares')
  BY Shape DEF OfView
<1>3. pg \in {NoShare, k} /\ (pg # NoShare => s = "Configuring")
  BY OwnShare
<1>4. aborted' \in BOOLEAN /\ signals' \in Seq(Signal)
  BY DEF IInv, TypeOK, ViewTypeOK, ControllerTypeOK
<1>5. /\ stack' = stack /\ dying' = dying /\ destroyed' = destroyed /\ reports' = reports
  BY DEF stackVars
<1>6. /\ stack' \in Seq(Views) /\ dying' \subseteq Views /\ destroyed' \subseteq Views
      /\ reports' \in Seq(Report)
  BY <1>5 DEF IInv, TypeOK
<1>7. Stacked' = Stacked /\ Used' = Used
  BY <1>5 DEF Stacked, Used
<1>8. Placed'
  BY <1>5, <1>7 DEF IInv, Placed
<1>9. /\ Used' = Used \cup {v} /\ Stacked' \subseteq Stacked \cup {v}
      /\ \A i \in DOMAIN reports : i \in DOMAIN reports' /\ reports'[i] = reports[i]
  BY <1>5, <1>7
<1>10. /\ shares'[k].job # "none" => j = k /\ shares'[k].ready
       /\ v \in Stacked' /\ ~ aborted' =>
            \/ s = "Configuring" /\ shares'[k].job = "none"
            \/ s # "Configuring" /\ \E i \in DOMAIN reports' : reports'[i].source = k
  BY <1>5, <1>7
<1>11. ~ aborted /\ ReportsOnce' /\ orphaned' \subseteq DOMAIN shares'
  OBVIOUS
<1> QED
  BY ONLY IInv, OfView(v, k, shares'), v \in Views, <1>1, <1>2, <1>3, <1>4, <1>6,
          <1>8, <1>9, <1>10, <1>11, ViewStep

LEMMA EditStep ==
  ASSUME IInv, ~ aborted, NEW v \in Views, Edit(v)
  PROVE  IInv'
<1>1. v \in Stacked /\ v \in Used
  BY TopShown, Shown DEF Edit
<1>2. PICK k : k = configuration[v]
  OBVIOUS
<1>3. /\ page[v] # NoShare /\ shares' = [shares EXCEPT ![k].ready = ~ @]
      /\ signals' = <<>>
      /\ UNCHANGED <<state, configuration, job, aborted, page>>
      /\ UNCHANGED <<stackVars, orphaned, reports>>
  BY <1>2 DEF Edit, EditPage
<1>4. state[v] = "Configuring" /\ OfView(v, k, shares) /\ k \in 1 .. Len(shares)
  BY <1>1, <1>2, <1>3, OwnShare DEF OfView
<1>5. shares[k].job = "none"
  BY <1>1, <1>2, <1>4, Shown DEF Shows
<1>6. /\ shares' \in Seq(Share) /\ Len(shares') = Len(shares)
      /\ shares'[k].job = "none" /\ shares'[k].view = shares[k].view
      /\ \A j \in 1 .. Len(shares) : j # k => shares'[j] = shares[j]
  BY <1>3, <1>4, <1>5, SetReady, Shape
<1>7. OfView(v, k, shares')
  BY <1>4, <1>6 DEF OfView
<1>8. ~ Over(k) /\ ~ Over(k)'
  BY <1>5, <1>6 DEF Over, Outcomes
<1>9. ReportsOnce' /\ orphaned' \subseteq DOMAIN shares'
  BY <1>3, <1>7, <1>8, QuietReports
<1> QED
  BY <1>1, <1>2, <1>3, <1>4, <1>6, <1>7, <1>9, SameView

LEMMA DeleteStep ==
  ASSUME IInv, ~ aborted, NEW k \in DOMAIN shares, Delete(k)
  PROVE  IInv'
<1>1. PICK v : v = shares[k].view
  OBVIOUS
<1>2. /\ shares[k].job \in Outcomes /\ shares' = WithJob(shares, k, "deleted")
      /\ signals' = <<>>
      /\ UNCHANGED <<state, configuration, job, aborted, page>>
      /\ UNCHANGED <<stackVars, orphaned, reports>>
  BY DEF Delete, ViewDeleteJob, DeleteJob, WithJob
<1>3. v \in Views /\ configuration[v] = k /\ job[v] = k /\ shares[k].ready
  <2>1. shares[k] \in Share
    BY Shape
  <2> QED
    BY <1>1, <1>2, <2>1 DEF IInv, Owned, StartedReady, Share, Outcomes
<1>4. v \in Used
  BY <1>3, Shape DEF IInv, Owned, NoShare
<1>5. OfView(v, k, shares)
  BY <1>3, <1>4, OwnShare
<1>6. "deleted" \in JobStates
  BY DEF JobStates
<1>7. /\ OfView(v, k, shares') /\ shares'[k].job = "deleted" /\ shares'[k].ready
  BY <1>2, <1>3, <1>5, <1>6, WithJobOfView
<1>8. Over(k) /\ Over(k)' /\ k <= Len(shares)
  BY <1>2, <1>7, Shape DEF Over
<1>9. ReportsOnce' /\ orphaned' \subseteq DOMAIN shares'
  BY <1>2, <1>7, <1>8, QuietReports
<1>10. v \in Stacked => state[v] # "Configuring" /\ \E i \in DOMAIN reports : reports[i].source = k
  BY <1>2, <1>3, Shown DEF Shows, Outcomes
<1> QED
  BY <1>2, <1>3, <1>4, <1>7, <1>9, <1>10, SameView

LEMMA OrphanResultStep ==
  ASSUME IInv, ~ aborted, NEW k \in DOMAIN shares, OrphanResult(k)
  PROVE  IInv'
<1>1. PICK v : v = shares[k].view
  OBVIOUS
<1>2. PICK o \in Outcomes :
        /\ v \in destroyed /\ shares[k].job = "running"
        /\ shares' = WithJob(shares, k, o)
        /\ signals' = <<>> /\ orphaned' = orphaned \cup {k}
        /\ UNCHANGED <<state, configuration, job, aborted, page, stackVars, reports>>
  BY <1>1 DEF OrphanResult, WithJob
<1>3. v \in Views /\ configuration[v] = k /\ job[v] = k /\ shares[k].ready
  <2>1. shares[k] \in Share
    BY Shape
  <2> QED
    BY <1>1, <1>2, <2>1 DEF IInv, Owned, StartedReady, Share
<1>4. v \in Used /\ v \notin Stacked
  BY <1>2 DEF Used, IInv, Placed
<1>5. OfView(v, k, shares)
  BY <1>3, <1>4, OwnShare
<1>6. o \in JobStates
  BY DEF JobStates
<1>7. /\ OfView(v, k, shares') /\ shares'[k].job = o /\ shares'[k].ready
      /\ Len(shares') = Len(shares)
  BY <1>2, <1>3, <1>5, <1>6, WithJobOfView
<1>8. /\ shares' \in Seq(Share) /\ DOMAIN shares' = DOMAIN shares
      /\ \A i \in 1 .. Len(shares) : i # k => shares'[i] = shares[i]
  BY <1>7, Shape DEF OfView
<1>9. ~ Over(k) /\ Over(k)' /\ \A i \in 1 .. Len(shares) : i # k => (Over(i)' <=> Over(i))
  BY <1>2, <1>7, <1>8 DEF Over, Outcomes
<1>10. orphaned \subseteq {i \in DOMAIN shares : Over(i)}
  BY DEF IInv, ReportsOnce
<1>11. \A i \in DOMAIN shares : Over(i) => Over(i)'
  BY <1>9, Shape
<1>12. orphaned' \subseteq {i \in DOMAIN shares' : Over(i)'}
  BY <1>2, <1>8, <1>9, <1>10, <1>11
<1>13. \A i \in 1 .. Len(shares') :
         Over(i)' /\ i \notin orphaned' => i <= Len(shares) /\ Over(i) /\ i \notin orphaned
  <2> TAKE i \in 1 .. Len(shares')
  <2>1. k \in orphaned' /\ orphaned \subseteq orphaned'
    BY <1>2
  <2>2. i \in 1 .. Len(shares) /\ i <= Len(shares)
    BY <1>7, Shape
  <2> QED
    BY <1>9, <2>1, <2>2
<1>14. ReportsOnce'
  <2>1. \A i \in orphaned' : i \in orphaned \/ ~ (i <= Len(shares) /\ Over(i))
    BY <1>2, <1>9
  <2>2. reports' = reports /\ orphaned \subseteq orphaned'
    BY <1>2
  <2>3. /\ Len(shares) <= Len(shares')
        /\ \A i \in 1 .. Len(shares) : Over(i) => Over(i)'
    <3>1. Len(shares') = Len(shares) /\ DOMAIN shares = 1 .. Len(shares)
      BY <1>7, Shape
    <3>2. Len(shares) \in Nat
      BY Shape
    <3> QED
      BY <1>11, <3>1, <3>2
  <2> QED
    BY <1>8, <1>12, <1>13, <2>1, <2>2, <2>3, ReportsSame
<1> QED
  BY <1>2, <1>3, <1>4, <1>7, <1>12, <1>14, SameView

LEMMA SendStep ==
  ASSUME IInv, ~ aborted, NEW v \in Views, OnTop(v), Send(v),
         NEW resets \in BOOLEAN, OnJobStateChanged(stack, resets), orphaned' = orphaned
  PROVE  IInv'
<1>1. v \in Stacked /\ v \in Used
  BY TopShown, Shown
<1>2. PICK k : k = configuration[v]
  OBVIOUS
<1>3. /\ page[v] # NoShare /\ shares[k].ready /\ StartJobOf(v, k, shares)
      /\ configuration' = configuration /\ Reload(v)
  BY <1>2 DEF Send, StartJob
<1>4. configuration' = [configuration EXCEPT ![v] = k]
  BY <1>2, <1>3, Shape
<1>5. state[v] = "Configuring" /\ OfView(v, k, shares)
  BY <1>1, <1>2, <1>3, OwnShare
<1>6. shares[k].job = "none"
  BY <1>1, <1>2, <1>5, Shown DEF Shows
<1>7. Stack(stack) /\ ToSet(stack) = Stacked \cup {v}
  BY <1>1, Kept
<1> QED
  BY <1>3, <1>4, <1>5, <1>6, <1>7, StartStep

LEMMA CancelStep ==
  ASSUME IInv, ~ aborted, NEW v \in Views, OnTop(v), CancelButton(v),
         NEW resets \in BOOLEAN, OnJobStateChanged(stack, resets), orphaned' = orphaned
  PROVE  IInv'
<1>1. v \in Stacked /\ v \in Used /\ stack # <<>> /\ v = Last(stack)
  BY TopShown, Shown DEF OnTop
<1>2. PICK k, j : k = configuration[v] /\ j = job[v]
  OBVIOUS
<1>3. /\ page[v] # NoShare /\ Reload(v)
      /\ state' = [state EXCEPT ![v] = "Cancelled"]
      /\ signals' = <<Changed(v, "Cancelled", NoShare)>>
      /\ configuration' = configuration /\ job' = job /\ shares' = shares
      /\ aborted' = aborted
  BY DEF CancelButton, Cancel
<1>4. /\ configuration' = [configuration EXCEPT ![v] = k]
      /\ job' = [job EXCEPT ![v] = j] /\ j \in 0 .. Len(shares')
  BY <1>2, <1>3, Shape
<1>5. /\ state[v] = "Configuring" /\ OfView(v, k, shares) /\ OfView(v, k, shares')
      /\ k <= Len(shares)
  BY <1>1, <1>2, <1>3, OwnShare DEF OfView
<1>6. shares'[k].job = "none"
  BY <1>1, <1>2, <1>3, <1>5, Shown DEF Shows
<1>7. /\ "Cancelled" \in States /\ signals' \in Seq(Signal)
      /\ Announced({"Cancelled"}) /\ ~ Announced({"Finished", "Error"})
  <2>1. "Cancelled" \in States
    BY DEF States
  <2>2. Changed(v, "Cancelled", NoShare) \in Signal
    BY <2>1, StateSignal
  <2> QED
    BY <1>3, <2>1, <2>2 DEF Announced, Changed
<1>8. Stack(stack) /\ ToSet(stack) = Stacked \cup {v}
  BY <1>1, Kept
<1>9. /\ Tell(IsResult)
      /\ stack' \in Seq(Views) /\ dying' \subseteq Views
      /\ destroyed' \subseteq Views /\ Placed'
      /\ Used' = Used \cup {v} /\ Stacked' \subseteq Stacked \cup {v}
      /\ v \notin Stacked'
  BY <1>1, <1>7, <1>8, Stacks
<1>10. reports' = reports
  BY <1>7, <1>9, TellNothing
<1>11. /\ ReportsOnce' /\ orphaned' \subseteq DOMAIN shares'
       /\ reports' \in Seq(Report)
       /\ \A i \in DOMAIN reports : i \in DOMAIN reports' /\ reports'[i] = reports[i]
  <2>1. Over(k)' <=> k <= Len(shares) /\ Over(k)
    BY <1>3, <1>5 DEF Over
  <2> QED
    BY <1>5, <1>10, <2>1, QuietReports
<1>12. PICK pg \in {NoShare, k} : /\ page' = [page EXCEPT ![v] = pg]
                                  /\ pg # NoShare => state'[v] = "Configuring"
  BY <1>3, <1>4, <1>5, PageKept
<1>13. pg = NoShare /\ aborted' \in BOOLEAN
  BY <1>3, <1>12, Shape DEF IInv, TypeOK, ViewTypeOK, ControllerTypeOK
<1> QED
  BY <1>3, <1>4, <1>5, <1>6, <1>7, <1>9, <1>11, <1>12, <1>13, ViewStep

LEMMA ResultStep ==
  ASSUME IInv, ~ aborted, NEW k \in DOMAIN shares, Result(k)
  PROVE  IInv'
<1>1. PICK v : v = shares[k].view
  OBVIOUS
<1>2. PICK resets \in BOOLEAN : OnJobStateChanged(stack, resets)
  BY DEF Result
<1>3. PICK o \in Outcomes :
        /\ shares[k].job = "running" /\ shares' = WithJob(shares, k, o)
        /\ signals' = <<OnResult(v, k, o)>>
        /\ state' = [state EXCEPT ![OnResult(v, k, o).view] = OnResult(v, k, o).state]
        /\ configuration' = configuration /\ job' = job /\ aborted' = aborted
        /\ Reload(v) /\ orphaned' = orphaned /\ v \notin destroyed
  BY <1>1 DEF Result, ViewResult, JobResult, WithJob
<1>4. v \in Views /\ configuration[v] = k /\ job[v] = k /\ shares[k].ready
  <2>1. shares[k] \in Share
    BY Shape
  <2> QED
    BY <1>1, <1>3, <2>1 DEF IInv, Owned, StartedReady, Share
<1>5. v \in Used
  BY <1>4, Shape DEF IInv, Owned, NoShare
<1>6. OfView(v, k, shares)
  BY <1>4, <1>5, OwnShare
<1>7. o \in JobStates
  BY DEF JobStates
<1>8. /\ OfView(v, k, shares') /\ shares'[k].job = o /\ shares'[k].ready
      /\ Len(shares') = Len(shares)
  BY <1>3, <1>4, <1>6, <1>7, WithJobOfView
<1>9. PICK s \in {"Finished", "Error"} : /\ state' = [state EXCEPT ![v] = s]
                                         /\ s \in States
  BY <1>3 DEF OnResult, Changed, States
<1>10. /\ configuration' = [configuration EXCEPT ![v] = k]
       /\ job' = [job EXCEPT ![v] = k] /\ k \in 0 .. Len(shares')
  BY <1>3, <1>4, <1>8, Shape
<1>11. signals' \in Seq(Signal) /\ signals' # <<>> /\ Head(signals') = OnResult(v, k, o)
  <2>1. k \in ShareIds
    BY <1>6, SharesAssumption DEF OfView, ShareIds
  <2>2. OnResult(v, k, o) \in Signal
    BY <1>4, <2>1, ResultSignal
  <2> QED
    BY <1>3, <2>2
<1>13. /\ Tell(IsResult)
       /\ stack' \in Seq(Views) /\ dying' \subseteq Views
       /\ destroyed' \subseteq Views /\ Placed'
       /\ Used' = Used /\ Stacked' \subseteq Stacked
  BY <1>2, KeptStacks
<1>14. reports' = Append(reports, [share |-> k, source |-> k, seen |-> o])
  BY <1>3, <1>4, <1>8, <1>11, <1>13, TellResult
<1> DEFINE r == [share |-> k, source |-> k, seen |-> o]
<1>15. r \in Report /\ r.source = k
  BY <1>6, <1>7, SharesAssumption DEF Report, ShareIds, OfView
<1>16. ReportsOnce'
  <2>1. /\ shares' \in Seq(Share) /\ DOMAIN shares' = 1 .. Len(shares)
        /\ k \in 1 .. Len(shares') /\ Len(shares) <= Len(shares')
        /\ Len(shares') <= MaxShares
        /\ \A i \in 1 .. Len(shares) : i # k => shares'[i] = shares[i]
    BY <1>8, Shape DEF OfView
  <2>2. ~ Over(k) /\ \A i \in 1 .. Len(shares') : Over(i)' <=> i = k \/ (i <= Len(shares) /\ Over(i))
    BY <1>3, <1>8, <2>1, Shape DEF Over, Outcomes
  <2> QED
    BY <1>3, <1>14, <2>1, <2>2, ReportsResult
<1> HIDE DEF r
<1>17. /\ reports' \in Seq(Report)
       /\ \A i \in DOMAIN reports : i \in DOMAIN reports' /\ reports'[i] = reports[i]
       /\ \E i \in DOMAIN reports' : reports'[i].source = k
  BY <1>14, <1>15, Appended DEF r
<1>18. PICK pg \in {NoShare, k} : /\ page' = [page EXCEPT ![v] = pg]
                                  /\ pg # NoShare => state'[v] = "Configuring"
  BY <1>3, <1>4, <1>8, <1>10, PageKept
<1>19. /\ pg = NoShare /\ aborted' \in BOOLEAN /\ orphaned' \subseteq DOMAIN shares'
  BY <1>3, <1>4, <1>8, <1>9, <1>18, Shape DEF IInv, TypeOK, ViewTypeOK, ControllerTypeOK, OfView
<1> QED
  BY <1>4, <1>5, <1>8, <1>9, <1>10, <1>11, <1>13, <1>16, <1>17, <1>18, <1>19, ViewStep

(* A step of the stack alone.                                              *)
LEMMA StackStep ==
  ASSUME IInv, UNCHANGED <<state, configuration, job, shares, aborted, page>>,
         UNCHANGED <<orphaned, reports>>, signals' = <<>>,
         stack' \in Seq(Views), dying' \subseteq Views, destroyed' \subseteq Views,
         Placed', Used' = Used, Stacked' \subseteq Stacked
  PROVE  IInv'
<1>1. TypeOK'
  BY DEF IInv, TypeOK, ViewTypeOK, ControllerTypeOK
<1>2. Owned' /\ ReportsOnce' /\ StartedReady'
  BY DEF IInv, Owned, ReportsOnce, StartedReady, Over
<1>3. StackShowsShares'
  <2>1. \A k : Reported(k)' = Reported(k)
    BY DEF Reported
  <2> QED
    BY <2>1 DEF IInv, StackShowsShares
<1> QED
  BY <1>1, <1>2, <1>3 DEF IInv

LEMMA ResetStep ==
  ASSUME IInv, Reset
  PROVE  IInv'
<1>1. PopTo(<<>>, stack)
  BY DEF Reset
<1>2. Stack(stack) /\ ToSet(stack) = Stacked
  BY Kept
<1>3. /\ stack' \in Seq(Views) /\ dying' \subseteq Views
      /\ destroyed' \subseteq Views /\ Placed'
      /\ Stacked' \subseteq Stacked /\ Used' = Used
  BY <1>1, <1>2, PopStep DEF Used
<1> QED
  BY <1>3, StackStep DEF Reset

LEMMA DestroyStep ==
  ASSUME IInv, Destroy
  PROVE  IInv'
<1>1. stack' = stack /\ destroyed' = destroyed \cup dying /\ dying' = {}
  BY DEF Destroy
<1>2. /\ stack' \in Seq(Views) /\ dying' \subseteq Views
      /\ destroyed' \subseteq Views
  BY <1>1 DEF IInv, TypeOK
<1>3. Stacked' = Stacked /\ Used' = Used
  BY <1>1 DEF Stacked, Used
<1>4. Placed'
  BY <1>1, <1>3 DEF IInv, Placed
<1> QED
  BY <1>2, <1>3, <1>4, StackStep DEF Destroy

-----------------------------------------------------------------------------
(* The invariant                                                           *)

LEMMA InitIInv == Init => IInv
<1> SUFFICES ASSUME Init PROVE IInv
  OBVIOUS
<1>1. /\ state = [v \in Views |-> "Inactive"]
      /\ configuration = [v \in Views |-> NoShare] /\ job = [v \in Views |-> NoShare]
      /\ page = [v \in Views |-> NoShare]
      /\ shares = <<>> /\ aborted = FALSE /\ signals = <<>>
      /\ stack = <<>> /\ dying = {} /\ destroyed = {}
      /\ orphaned = {} /\ reports = <<>>
  BY DEF Init, ViewInit, ControllerInit
<1>2. Stacked = {} /\ Used = {}
  BY <1>1 DEF Stacked, Used
<1>3. TypeOK
  <2>1. /\ shares \in Seq(Share) /\ Len(shares) = 0 /\ DOMAIN shares = {}
        /\ signals \in Seq(Signal) /\ stack \in Seq(Views) /\ reports \in Seq(Report)
    BY <1>1
  <2>2. /\ configuration \in [Views -> 0 .. Len(shares)]
        /\ job \in [Views -> 0 .. Len(shares)] /\ page \in [Views -> 0 .. Len(shares)]
        /\ state \in [Views -> States]
    BY <1>1, <2>1 DEF NoShare, States
  <2>3. Len(shares) <= MaxShares /\ aborted \in BOOLEAN
    <3>1. MaxShares \in Nat
      BY SharesAssumption
    <3>2. 0 <= MaxShares
      BY <3>1
    <3> QED
      BY <1>1, <2>1, <3>2
  <2>4. dying \subseteq Views /\ destroyed \subseteq Views /\ orphaned \subseteq DOMAIN shares
    BY <1>1
  <2> QED
    BY <2>1, <2>2, <2>3, <2>4 DEF TypeOK, ViewTypeOK, ControllerTypeOK
<1>4. Owned /\ ReportsOnce /\ StartedReady /\ StackShowsShares
  BY <1>1, <1>2 DEF Owned, ReportsOnce, StartedReady, StackShowsShares
<1>5. Placed
  BY <1>1, <1>2 DEF Placed, IsInjective
<1> QED
  BY <1>3, <1>4, <1>5 DEF IInv

LEMMA StepIInv == IInv /\ [Next]_vars => IInv'
<1> SUFFICES ASSUME IInv, [Next]_vars PROVE IInv'
  OBVIOUS
<1>1. CASE Next
  <2> ~ aborted
    BY <1>1 DEF Next, Up
  <2>1. ASSUME NEW p \in Plugins, CreateJob(p) PROVE IInv'
    BY <2>1, CreateJobStep
  <2>2. ASSUME NEW v \in Views, Edit(v) PROVE IInv'
    BY <2>2, EditStep
  <2>3. ASSUME NEW v \in Views, Buttons(v) PROVE IInv'
    <3>1. PICK resets \in BOOLEAN : OnJobStateChanged(stack, resets)
      BY <2>3 DEF Buttons
    <3>2. OnTop(v) /\ (Send(v) \/ CancelButton(v)) /\ orphaned' = orphaned
      BY <2>3 DEF Buttons
    <3> QED
      BY <3>1, <3>2, SendStep, CancelStep
  <2>4. ASSUME NEW k \in DOMAIN shares, Result(k) PROVE IInv'
    BY <2>4, ResultStep
  <2>5. ASSUME NEW k \in DOMAIN shares, OrphanResult(k) PROVE IInv'
    BY <2>5, OrphanResultStep
  <2>6. ASSUME NEW k \in DOMAIN shares, Delete(k) PROVE IInv'
    BY <2>6, DeleteStep
  <2> QED
    BY <1>1, <2>1, <2>2, <2>3, <2>4, <2>5, <2>6, ResetStep, DestroyStep DEF Next
<1>2. CASE UNCHANGED vars
  <2>1. UNCHANGED <<state, configuration, job, shares, aborted, signals, page, stack,
                    dying, destroyed, orphaned, reports>>
    BY <1>2 DEF vars, viewVars, controllerVars, stackVars
  <2>2. TypeOK' /\ Owned' /\ Placed' /\ ReportsOnce' /\ StartedReady'
    BY <2>1 DEF IInv, TypeOK, ViewTypeOK, ControllerTypeOK, Owned, Placed,
                ReportsOnce, StartedReady, Stacked, Used, Over
  <2>3. StackShowsShares'
    BY <2>1 DEF IInv, StackShowsShares, Stacked, Reported
  <2> QED
    BY <2>2, <2>3 DEF IInv
<1> QED
  BY <1>1, <1>2

(* The inductive invariant: each view belongs to the share it was pushed   *)
(* for, and each result has one report unless its view was gone.           *)
THEOREM Invariant == Spec => []IInv
BY InitIInv, StepIInv, PTL DEF Spec

(* The views, the stack and the reports are of the expected types.         *)
THEOREM TypeCorrect == Spec => []TypeOK
<1>1. IInv => TypeOK
  BY DEF IInv
<1> QED
  BY <1>1, Invariant, PTL

(* onJobStateChanged (AlternativesView.qml): every result is reported once *)
(* and from its own job, however many shares are stacked; only those whose *)
(* view was destroyed before are not.                                      *)
THEOREM ResultsReportedOnce == Spec => []ResultsReported
<1>1. IInv => ResultsReported
  <2> SUFFICES ASSUME IInv, NEW k \in DOMAIN shares
               PROVE  Cardinality(Reported(k)) = IF Over(k) /\ k \notin orphaned THEN 1 ELSE 0
    BY DEF ResultsReported, IInv, ReportsOnce
  <2>1. Over(k) /\ k \notin orphaned <=> \E i \in DOMAIN reports : reports[i].source = k
    BY DEF IInv, ReportsOnce
  <2>2. CASE Over(k) /\ k \notin orphaned
    <3>1. PICK i \in DOMAIN reports : reports[i].source = k
      BY <2>1, <2>2
    <3>2. \A j \in DOMAIN reports : reports[j].source = k => j = i
      BY <3>1 DEF IInv, ReportsOnce
    <3>3. Reported(k) = {i}
      BY <3>1, <3>2 DEF Reported
    <3> QED
      BY <2>2, <3>3, FS_Singleton
  <2>3. CASE ~ (Over(k) /\ k \notin orphaned)
    <3>1. Reported(k) = {}
      BY <2>1, <2>3 DEF Reported
    <3> QED
      BY <2>3, <3>1, FS_EmptySet
  <2> QED
    BY <2>2, <2>3
<1> QED
  BY <1>1, Invariant, PTL

(* createJob() pushes a view of its own for each share: the page shown was *)
(* always loaded for the configuration it edits.                           *)
THEOREM PageIsOwn == Spec => []OwnPage
<1>1. IInv => OwnPage
  <2> SUFFICES ASSUME IInv PROVE OwnPage
    OBVIOUS
  <2>1. \A k, l \in DOMAIN shares : shares[k].view = shares[l].view => k = l
    BY DEF IInv, Owned
  <2>2. \A v \in Views : page[v] \in {NoShare, configuration[v]}
    BY DEF IInv, Owned
  <2> QED
    BY <2>1, <2>2 DEF OwnPage
<1> QED
  BY <1>1, Invariant, PTL

(* The stack holds no view of a share that is over and was not reported.   *)
THEOREM StackIsCurrent == Spec => []StackShowsShares
<1>1. IInv => StackShowsShares
  BY DEF IInv
<1> QED
  BY <1>1, Invariant, PTL

(* The Send button of each page (JobView.qml): a job that was started was  *)
(* ready.                                                                  *)
THEOREM OnlyReadyStarted == Spec => []StartedReady
<1>1. IInv => StartedReady
  BY DEF IInv
<1> QED
  BY <1>1, Invariant, PTL
=============================================================================
