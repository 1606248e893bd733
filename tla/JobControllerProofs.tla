------------------------- MODULE JobControllerProofs -------------------------
(* Lemmas about the shares of JobController, for the proofs about the      *)
(* dialog and about the stack of views.                                    *)
EXTENDS JobController, TLAPS

-----------------------------------------------------------------------------
(* The configurations and their jobs                                       *)

WithJob(ss, k, o) == [ss EXCEPT ![k].job = o]

(* The next state of a job touches nothing else.                           *)
LEMMA SetJob ==
  ASSUME NEW ss \in Seq(Share), NEW k \in 1 .. Len(ss), NEW o \in JobStates
  PROVE  /\ WithJob(ss, k, o) \in Seq(Share)
         /\ Len(WithJob(ss, k, o)) = Len(ss)
         /\ WithJob(ss, k, o)[k].job = o
         /\ WithJob(ss, k, o)[k].ready = ss[k].ready
         /\ WithJob(ss, k, o)[k].view = ss[k].view
         /\ \A j \in 1 .. Len(ss) : j # k => WithJob(ss, k, o)[j] = ss[j]
<1> DEFINE t == WithJob(ss, k, o)
<1>1. ss[k] \in Share
  OBVIOUS
<1>2. [ss[k] EXCEPT !.job = o] \in Share
  BY <1>1 DEF Share
<1>3. t = [ss EXCEPT ![k] = [ss[k] EXCEPT !.job = o]]
  BY DEF WithJob
<1>4. t \in Seq(Share) /\ Len(t) = Len(ss)
  BY <1>2, <1>3
<1>5. /\ t[k] = [ss[k] EXCEPT !.job = o]
      /\ \A j \in 1 .. Len(ss) : j # k => t[j] = ss[j]
  BY <1>3
<1>6. t[k].job = o /\ t[k].ready = ss[k].ready /\ t[k].view = ss[k].view
  BY <1>1, <1>5 DEF Share
<1> QED
  BY <1>4, <1>5, <1>6

LEMMA SetReady ==
  ASSUME NEW ss \in Seq(Share), NEW k \in 1 .. Len(ss)
  PROVE  LET t == [ss EXCEPT ![k].ready = ~ @]
         IN /\ t \in Seq(Share) /\ Len(t) = Len(ss)
            /\ t[k].job = ss[k].job /\ t[k].view = ss[k].view
            /\ \A j \in 1 .. Len(ss) : j # k => t[j] = ss[j]
<1> DEFINE t == [ss EXCEPT ![k].ready = ~ @]
<1>1. ss[k] \in Share
  OBVIOUS
<1>2. [ss[k] EXCEPT !.ready = ~ @] \in Share
  BY <1>1 DEF Share
<1>3. t = [ss EXCEPT ![k] = [ss[k] EXCEPT !.ready = ~ @]]
  OBVIOUS
<1>4. t \in Seq(Share) /\ Len(t) = Len(ss)
  BY <1>2, <1>3
<1>5. /\ t[k] = [ss[k] EXCEPT !.ready = ~ @]
      /\ \A j \in 1 .. Len(ss) : j # k => t[j] = ss[j]
  BY <1>3
<1>6. t[k].job = ss[k].job /\ t[k].view = ss[k].view
  BY <1>1, <1>5 DEF Share
<1> QED
  BY <1>4, <1>5, <1>6

LEMMA NewShare ==
  ASSUME NEW ss \in Seq(Share), NEW v \in Views, NEW p \in Plugins, NEW r \in BOOLEAN
  PROVE  LET t == Append(ss, [plugin |-> p, view |-> v, ready |-> r,
                              job |-> "none"])
         IN /\ t \in Seq(Share) /\ Len(t) = Len(ss) + 1
            /\ t[Len(ss) + 1].job = "none" /\ t[Len(ss) + 1].ready = r
            /\ t[Len(ss) + 1].view = v
            /\ \A j \in 1 .. Len(ss) : t[j] = ss[j]
<1> DEFINE s == [plugin |-> p, view |-> v, ready |-> r, job |-> "none"]
<1>1. s \in Share
  BY DEF Share, JobStates
<1>2. /\ Append(ss, s) \in Seq(Share) /\ Len(Append(ss, s)) = Len(ss) + 1
      /\ Append(ss, s)[Len(ss) + 1] = s
      /\ \A j \in 1 .. Len(ss) : Append(ss, s)[j] = ss[j]
  BY <1>1
<1> QED
  BY <1>2
=============================================================================
