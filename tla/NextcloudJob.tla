---------------------------- MODULE NextcloudJob ----------------------------
(***************************************************************************)
(* NextcloudJob (src/src/plugins/nextcloud/nextcloudjob.cpp): credentials, *)
(* then one copy of all the urls.                                          *)
(***************************************************************************)
EXTENDS PluginJob

(* doUpload().                                                             *)
NextcloudUpload(r) ==
  /\ Sent(r, {Req("copy", All)}) /\ GoOn
  /\ UNCHANGED <<memberVars, delivered, quiet>>

(* start(): with KAccounts the credentials come later; KOnlineAccounts is  *)
(* waited for, and its errors, or the lack of both, are not reported.      *)
NextcloudStart ==
  /\ Starting("nextcloud")
  /\ \/ /\ requests' = {Req("credentials", All)} /\ GoOn
        /\ UNCHANGED <<memberVars, delivered, quiet>>
     \/ Silence /\ UNCHANGED <<memberVars, delivered, requests>>
     \/ NextcloudUpload(Req("credentials", All))

(* Fault: the error of the credentials is only logged.                     *)
GotCredentials_Log(r) ==
  /\ Answered("nextcloud", r)
  /\ \/ Sent(r, {}) /\ GoOn /\ UNCHANGED <<memberVars, delivered, quiet>>
     \/ NextcloudUpload(r)

GotCredentials(r) ==
  Answered("nextcloud", r) /\ (Fail(r) \/ NextcloudUpload(r))

(* The copy has ended; no url is offered as output.                        *)
NextcloudCopied(r) ==
  /\ Answered("nextcloud", r)
  /\ \/ Fail(r)
     \/ /\ Sent(r, {}) /\ delivered' = shared
        /\ UNCHANGED <<memberVars, quiet>> /\ EmitResult
=============================================================================
