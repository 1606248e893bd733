----------------------------- MODULE SmallJobs -----------------------------
(***************************************************************************)
(* The jobs of one request (src/src/plugins): bluetooth, clipboard, email, *)
(* kdeconnect, kdeconnect_sms and telegram.                                *)
(***************************************************************************)
EXTENDS PluginJob

OneRequest(p, what) ==
  /\ Starting(p) /\ GoOn /\ requests' = {Req(what, All)}
  /\ UNCHANGED <<memberVars, delivered, quiet>>

BluetoothStart == OneRequest("bluetooth", "process")
ClipboardStart == OneRequest("clipboard", "timer")
EmailStart == OneRequest("email", "launch")
KdeconnectStart == OneRequest("kdeconnect", "call")
SmsStart == OneRequest("sms", "launch")

(* Telegram's desktop file is there or not.                                *)
TelegramStart ==
  OneRequest("telegram", "launch") \/ OneRequest("telegram", "timer")

(* The request succeeds with these urls, and the job with or without one.  *)
Done(r, urls, url) ==
  /\ Sent(r, {}) /\ delivered' = delivered \cup urls /\ output' = url
  /\ UNCHANGED <<error, pending, target, quiet>> /\ EmitResult

(* processError(): the process did not start, or a read or a write failed  *)
(* while it goes on.                                                       *)
ProcessError(r) ==
  /\ Answered("bluetooth", r)
  /\ error' = TRUE
  /\ Sent(r, {}) \/ UNCHANGED requests
  /\ UNCHANGED <<output, pending, target, delivered, quiet>>
  /\ EmitResult

(* jobFinished(), with the exit code: what was not a local file was never  *)
(* given to the process.                                                   *)
JobFinished(r) ==
  /\ Answered("bluetooth", r) /\ Sent(r, {})
  /\ error' \in BOOLEAN /\ output' = TRUE
  /\ delivered' = IF error' THEN delivered ELSE shared \cap Local
  /\ UNCHANGED <<pending, target, quiet>> /\ EmitResult

(* A crash runs both handlers, whose second overwrites the error of a      *)
(* result that the first has emitted.                                      *)
ProcessCrashed(r) ==
  /\ Answered("bluetooth", r) /\ Sent(r, {})
  /\ error' \in BOOLEAN /\ output' = TRUE
  /\ phase' = "ended"
  /\ result' = IF phase = "started"
                 THEN [error |-> TRUE, url |-> output,
                       missing |-> shared \ delivered]
                 ELSE result
  /\ UNCHANGED <<pending, target, delivered, quiet>>

(* The text has all the urls.                                              *)
ClipboardSet(r) == Answered("clipboard", r) /\ Done(r, shared, FALSE)

(* Local files are attached, the others written into the body.             *)
EmailLaunched(r) ==
  Answered("email", r) /\ (Fail(r) \/ Done(r, shared, FALSE))

(* Fault: the reply is not looked at.                                      *)
KdeconnectShared_Any(r) ==
  /\ Answered("kdeconnect", r)
  /\ Done(r, {}, TRUE) \/ Done(r, shared, TRUE)

KdeconnectShared(r) ==
  Answered("kdeconnect", r) /\ (Fail(r) \/ Done(r, shared, TRUE))

(* The launcher's error is not looked at.                                  *)
SmsLaunched(r) ==
  /\ Answered("sms", r)
  /\ Done(r, {}, FALSE) \/ Done(r, shared, FALSE)

TelegramMissing(r) ==
  /\ Answered("telegram", r)
  /\ Sent(r, {}) /\ error' = TRUE /\ output' = TRUE
  /\ UNCHANGED <<pending, target, delivered, quiet>> /\ EmitResult

TelegramLaunched(r) ==
  Answered("telegram", r) /\ (Fail(r) \/ Done(r, shared, TRUE))
=============================================================================
