------------------------------ MODULE ImgurJob ------------------------------
(***************************************************************************)
(* ImgurShareJob (src/src/plugins/imgur/imgurplugin.cpp): an album if      *)
(* there are several urls, then each url is fetched and uploaded.          *)
(***************************************************************************)
EXTENDS PluginJob

(* Fault: the transfers are not counted.                                   *)
StartUploading_Uncounted(r) ==
  Sent(r, {Req("fetch", u) : u \in shared}) /\ UNCHANGED pending

StartUploading(r) ==
  /\ Sent(r, {Req("fetch", u) : u \in shared})
  /\ pending' = pending + Cardinality(shared)

ImgurStart ==
  /\ Starting("imgur")
  /\ UNCHANGED <<error, output, target, delivered, quiet>>
  /\ \/ shared = {} /\ EmitResult /\ UNCHANGED <<requests, pending>>
     \/ /\ Cardinality(shared) > 1 /\ GoOn
        /\ requests' = {Req("album", All)} /\ UNCHANGED pending
     \/ Cardinality(shared) = 1 /\ GoOn /\ StartUploading(Req("album", All))

(* processResponse() of a failure is Fail; of a success it gives the data, *)
(* and data that are empty end the handler.                                *)
EmptyResponse(r) ==
  /\ Sent(r, {}) /\ Silence
  /\ UNCHANGED <<memberVars, delivered>>

AlbumCreated(r) ==
  /\ Answered("imgur", r)
  /\ \/ Fail(r) \/ EmptyResponse(r)
     \/ /\ target' = "made" /\ StartUploading(r) /\ GoOn
        /\ UNCHANGED <<error, output, delivered, quiet>>

(* Fault: a file that cannot be fetched is dropped.                        *)
FileFetched_Skip(r) ==
  /\ Answered("imgur", r)
  /\ \/ /\ Sent(r, {}) /\ GoOn /\ UNCHANGED <<memberVars, delivered, quiet>>
     \/ /\ Sent(r, {Req("upload", r.url)}) /\ GoOn
        /\ UNCHANGED <<memberVars, delivered, quiet>>

FileFetched(r) ==
  /\ Answered("imgur", r)
  /\ \/ Fail(r)
     \/ /\ Sent(r, {Req("upload", r.url)}) /\ GoOn
        /\ UNCHANGED <<memberVars, delivered, quiet>>

(* Fault: the counter is decremented after it is looked at.                *)
ImageUploaded_Late(r) ==
  /\ Answered("imgur", r)
  /\ \/ Fail(r) \/ EmptyResponse(r)
     \/ /\ Sent(r, {}) /\ pending' = pending - 1
        /\ delivered' = delivered \cup {r.url}
        /\ UNCHANGED <<error, output, target, quiet>>
        /\ IF pending = 1 \/ pending = 2 THEN EmitResult ELSE GoOn

(* The last upload ends the job; the urls it offers are not its output.    *)
ImageUploaded(r) ==
  /\ Answered("imgur", r)
  /\ \/ Fail(r) \/ EmptyResponse(r)
     \/ /\ Sent(r, {}) /\ pending' = pending - 1
        /\ delivered' = delivered \cup {r.url}
        /\ UNCHANGED <<error, output, target, quiet>>
        /\ IF pending' = 0 THEN EmitResult ELSE GoOn
=============================================================================
