----------------------------- MODULE YoutubeJob -----------------------------
(***************************************************************************)
(* YoutubeJobComposite and its YoutubeJobs (src/src/plugins/youtube): one  *)
(* job per url that asks for an upload location, fetches the file and      *)
(* posts it.                                                               *)
(***************************************************************************)
EXTENDS PluginJob

(* doUpload(): no urls, no jobs, no result.                                *)
YoutubeUpload ==
  /\ requests' = {Req("location", u) : u \in shared}
  /\ pending' = Cardinality(shared)
  /\ IF shared = {} THEN Silence ELSE GoOn /\ UNCHANGED quiet
  /\ UNCHANGED <<error, output>>

(* start(), for every build and every answer of the account services,      *)
(* which it waits for: an error of KAccounts ends the job; one of          *)
(* KOnlineAccounts, or a build with neither, is not reported.              *)
YoutubeStart ==
  /\ Starting("youtube") /\ UNCHANGED <<target, delivered>>
  /\ \/ /\ error' = TRUE
        /\ UNCHANGED <<output, requests, pending, quiet>> /\ EmitResult
     \/ Silence /\ UNCHANGED <<error, output, requests, pending>>
     \/ YoutubeUpload

(* subjobFinished() of a job that failed: the others go on.                *)
SubjobFailed(r) ==
  /\ Sent(r, {}) /\ pending' = pending - 1
  /\ error' = TRUE
  /\ UNCHANGED <<output, target, delivered, quiet>> /\ EmitResult

LocationCreated(r) ==
  /\ Answered("youtube", r)
  /\ \/ SubjobFailed(r)
     \/ Sent(r, {Req("fetch", r.url)}) /\ GoOn
        /\ UNCHANGED <<memberVars, delivered, quiet>>

(* fileFetched(): after an error it goes on and posts the upload all the   *)
(* same; that job is deleted before an answer can come.                    *)
VideoFetched(r) ==
  /\ Answered("youtube", r)
  /\ \/ SubjobFailed(r)
     \/ Sent(r, {Req("upload", r.url)}) /\ GoOn
        /\ UNCHANGED <<memberVars, delivered, quiet>>

VideoUploaded(r) ==
  /\ Answered("youtube", r)
  /\ \/ SubjobFailed(r)
     \/ /\ Sent(r, {}) /\ pending' = pending - 1
        /\ delivered' = delivered \cup {r.url}
        /\ output' = IF pending' = 0 /\ ~ error THEN TRUE ELSE output
        /\ UNCHANGED <<error, target, quiet>>
        /\ IF pending' = 0 THEN EmitResult ELSE GoOn
=============================================================================
