----------------------------- MODULE ReviewJobs -----------------------------
(***************************************************************************)
(* TheReviewboardJob and PhabricatorJob (src/src/plugins/reviewboard and   *)
(* phabricator): the patch behind the first url becomes a review, a new    *)
(* one or one that is named in the data, "given".                          *)
(***************************************************************************)
EXTENDS PluginJob

(* What a review server answers, and HttpCall::onFinished(): the error of  *)
(* an answer that cannot be parsed is overwritten, for it has no stat.     *)
Replies == {"stat ok", "stat fail", "not json"}
HttpError(reply) == IF reply = "stat ok" THEN 0 ELSE 2

(* The requests, each an HttpCall.  The parts of SubmitPatchRequest have   *)
(* the contents of a local file, nothing of another url.                   *)
HttpCall(what, u) == Req(what, u)
NewRequest == HttpCall("review", All)
UpdateRequest == HttpCall("metadata", All)
SubmitPatchRequest(u) == HttpCall("patch", u)
UrlToData(u) == {u} \cap Local

(* The done() of each of them.                                             *)
NewRequestError(reply) == IF HttpError(reply) # 0 THEN 2 ELSE 0
SubmitPatchError(reply) == IF HttpError(reply) # 0 THEN 3 ELSE 0

ReviewboardStart ==
  /\ Starting("reviewboard") /\ GoOn
  /\ \/ \E first \in shared :
          target' = "given" /\ requests' = {SubmitPatchRequest(first)}
     \/ requests' = {NewRequest} /\ UNCHANGED target
  /\ UNCHANGED <<error, output, pending, delivered, quiet>>

(* Fault: the patch is sent after an error too.                            *)
ReviewCreated_GoOn(r) ==
  /\ Answered("reviewboard", r)
  /\ \/ /\ error' = TRUE
        /\ \E first \in shared : Sent(r, {SubmitPatchRequest(first)})
        /\ UNCHANGED <<output, pending, target, delivered, quiet>>
        /\ EmitResult
     \/ /\ target' = "made" /\ GoOn
        /\ \E first \in shared : Sent(r, {SubmitPatchRequest(first)})
        /\ UNCHANGED <<error, output, pending, delivered, quiet>>

(* reviewCreated(): the metadata, if there are any, and the patch are sent *)
(* together; no handler awaits the metadata.                               *)
ReviewCreated(r) ==
  /\ Answered("reviewboard", r)
  /\ \E reply \in Replies :
       \/ NewRequestError(reply) # 0 /\ Fail(r)
       \/ /\ NewRequestError(reply) = 0 /\ target' = "made" /\ GoOn
          /\ \E first \in shared, extra \in {{}, {UpdateRequest}} :
               Sent(r, {SubmitPatchRequest(first)} \cup extra)
          /\ UNCHANGED <<error, output, pending, delivered, quiet>>

(* UpdateRequest::done(): its error stays in its own job.                  *)
UpdateRequestDone(r) ==
  /\ Answered("reviewboard", r) /\ Sent(r, {}) /\ GoOn
  /\ UNCHANGED <<memberVars, delivered, quiet>>

(* Fault: the url is set before the error is looked at.                    *)
ReviewDone_Url(r) ==
  /\ Answered("reviewboard", r) /\ Sent(r, {}) /\ output' = TRUE
  /\ \/ error' = TRUE /\ UNCHANGED delivered
     \/ UNCHANGED error /\ delivered' = delivered \cup UrlToData(r.url)
  /\ UNCHANGED <<pending, target, quiet>> /\ EmitResult

ReviewDone(r) ==
  /\ Answered("reviewboard", r)
  /\ \E reply \in Replies :
       \/ SubmitPatchError(reply) # 0 /\ Fail(r)
       \/ /\ SubmitPatchError(reply) = 0 /\ Sent(r, {}) /\ output' = TRUE
          /\ delivered' = delivered \cup UrlToData(r.url)
          /\ UNCHANGED <<error, pending, target, quiet>> /\ EmitResult

(* DifferentialRevision: the arc command is found and starts, or not, and  *)
(* of that only an error of its own is kept: no result is emitted.         *)
ArcFound(arc) == arc # "absent"
StartArc(u, arc) ==
  IF ArcFound(arc) /\ arc = "starts"
    THEN requests' = {Req("arc", u)} /\ GoOn /\ UNCHANGED quiet
    ELSE Silence /\ UNCHANGED requests

(* start() of phabricator: a patch that is empty or no local file, or a    *)
(* revision left undecided, is an error.                                   *)
PhabricatorStart ==
  /\ Starting("phabricator") /\ UNCHANGED <<output, pending, delivered>>
  /\ \/ /\ error' = TRUE /\ EmitResult
        /\ UNCHANGED <<target, requests, quiet>>
     \/ \E first \in shared \cap Local, arc \in {"absent", "broken", "starts"} :
          /\ StartArc(first, arc) /\ target' \in {"given", "made"}
          /\ UNCHANGED error

(* done() of NewDiffRev and UpdateDiffRev: arc crashed, exited with an     *)
(* error, or printed the url, which in the absence of a line of its own is *)
(* all of the output.                                                      *)
ArcExits == {"crash", "error", "uri", "other output"}
DiffRevError(exit) == exit \in {"crash", "error"}

DiffCreatedOrUpdated(r) ==
  /\ Answered("phabricator", r)
  /\ \E exit \in ArcExits :
       \/ DiffRevError(exit) /\ Fail(r)
       \/ /\ ~ DiffRevError(exit) /\ Sent(r, {}) /\ output' = TRUE
          /\ delivered' = delivered \cup {r.url}
          /\ UNCHANGED <<error, pending, target, quiet>> /\ EmitResult
=============================================================================
