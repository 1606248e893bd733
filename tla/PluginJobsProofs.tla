--------------------------- MODULE PluginJobsProofs ---------------------------
(* Proofs about PluginJobs, for any plugins and any finite sets of urls.   *)
EXTENDS PluginJobs, FiniteSetTheorems, TLAPS

-----------------------------------------------------------------------------
(* Results                                                                 *)

(* What a handler that ends the job has to have seen to.                   *)
Promise(err, out, dlv) ==
  /\ ~ err => Covered \subseteq dlv
  /\ HasOutput /\ ~ err /\ Covered = shared => out
  /\ plugin \notin {"telegram", "bluetooth"} => (out => ~ err)

Honest == /\ SuccessDelivers /\ UrlOfSuccess
          /\ result \in [error : BOOLEAN, url : BOOLEAN, missing : SUBSET Urls]

LEMMA CoveredSame ==
  ASSUME UNCHANGED <<plugin, shared>>
  PROVE  Covered' = Covered /\ HasOutput' = HasOutput
BY DEF Covered, HasOutput

(* emitResult() keeps what results say, if the promise is kept.            *)
LEMMA EmitHonest ==
  ASSUME IInv, EmitResult, UNCHANGED <<plugin, shared>>,
         error' \in BOOLEAN, output' \in BOOLEAN,
         phase \in {"new", "started"} => Promise(error', output', delivered')
  PROVE  /\ Honest'
         /\ phase' = IF phase \in {"new", "started"} THEN "ended" ELSE phase
<1>1. CASE phase \in {"new", "started"}
  <2>1. /\ phase' = "ended"
        /\ result' = [error |-> error', url |-> output',
                      missing |-> shared \ delivered']
    BY <1>1 DEF EmitResult
  <2>2. result' \in [error : BOOLEAN, url : BOOLEAN, missing : SUBSET Urls]
    BY <2>1 DEF IInv, TypeOK
  <2>3. SuccessDelivers'
    BY <1>1, <2>1, CoveredSame DEF Promise, SuccessDelivers
  <2>4. UrlOfSuccess'
    BY <1>1, <2>1, CoveredSame DEF Promise, UrlOfSuccess
  <2> QED
    BY <1>1, <2>1, <2>2, <2>3, <2>4 DEF Honest
<1>2. CASE phase \notin {"new", "started"}
  <2>1. phase' = phase /\ result' = result
    BY <1>2 DEF EmitResult
  <2>2. SuccessDelivers' /\ UrlOfSuccess'
    BY <2>1, CoveredSame DEF IInv, SuccessDelivers, UrlOfSuccess, Over
  <2> QED
    BY <1>2, <2>1, <2>2 DEF Honest, IInv, TypeOK
<1> QED
  BY <1>1, <1>2

(* A handler that goes on leaves the result alone.                         *)
LEMMA GoOnHonest ==
  ASSUME IInv, GoOn, UNCHANGED <<plugin, shared>>
  PROVE  Honest' /\ phase' = IF phase = "new" THEN "started" ELSE phase
BY CoveredSame DEF IInv, TypeOK, GoOn, Honest, SuccessDelivers, UrlOfSuccess, Over

-----------------------------------------------------------------------------
(* The steps of the jobs that count nothing                                *)

(* What a step of theirs has to leave behind.                              *)
LEMMA UncountedStep ==
  ASSUME IInv, UNCHANGED <<plugin, shared>>, plugin \notin {"imgur", "youtube"},
         Honest', phase' \in {"started", "ended", "deleted"},
         error' \in BOOLEAN, output' \in BOOLEAN, quiet' \in BOOLEAN,
         pending' = pending, target' \in {"none", "given", "made"},
         delivered' \in SUBSET shared, requests' \subseteq Asked,
         phase' = "started" => ~ error' /\ ~ output',
         FirstAlone'
  PROVE  IInv'
<1>1. Asked' = Asked
  BY DEF Asked, AskedOfAll, AskedOfOne
<1>2. Asked \subseteq Request
  BY DEF Asked
<1>3. TypeOK'
  BY <1>1, <1>2 DEF IInv, TypeOK, Honest
<1> QED
  BY <1>1, <1>3 DEF IInv, FreshUntilResult, Counting, Honest

OneRequestPlugins == {"bluetooth", "clipboard", "email", "kdeconnect", "sms",
                      "telegram"}

LEMMA OneRequestStep ==
  ASSUME IInv, NEW p \in OneRequestPlugins, NEW what,
         Req(what, All) \in Asked,
         what \notin {"album", "review", "credentials"}, OneRequest(p, what)
  PROVE  IInv'
<1>1. /\ plugin = p /\ phase = "new" /\ GoOn
      /\ UNCHANGED <<plugin, shared, memberVars, delivered, quiet>>
      /\ requests' = {Req(what, All)}
  BY DEF OneRequest, Starting
<1>2. Honest' /\ phase' = "started"
  BY <1>1, GoOnHonest
<1>3. FirstAlone'
  BY <1>1 DEF FirstAlone, Req
<1> QED
  BY <1>1, <1>2, <1>3, UncountedStep
  DEF IInv, TypeOK, memberVars, FreshUntilResult, OneRequestPlugins
(* An answer that leaves fewer requests leaves none that has to be alone.  *)
LEMMA FirstGone ==
  ASSUME IInv, NEW r \in requests, requests' = requests \ {r}
  PROVE  FirstAlone'
BY DEF IInv, FirstAlone

(* A handler that ends its job.                                            *)
LEMMA EndStep ==
  ASSUME IInv, UNCHANGED <<plugin, shared>>, plugin \notin {"imgur", "youtube"},
         NEW r \in requests, requests' = requests \ {r},
         phase \in {"started", "ended"}, EmitResult,
         error' \in BOOLEAN, output' \in BOOLEAN, quiet' = quiet,
         pending' = pending, target' = target, delivered' \in SUBSET shared,
         phase = "started" => Promise(error', output', delivered')
  PROVE  IInv'
<1>1. Honest' /\ phase' = "ended"
  BY EmitHonest
<1>2. FirstAlone'
  BY FirstGone
<1> QED
  BY <1>1, <1>2, UncountedStep DEF IInv, TypeOK

LEMMA FailStep ==
  ASSUME IInv, UNCHANGED <<plugin, shared>>, plugin \notin {"imgur", "youtube"},
         NEW r \in requests, phase \in {"started", "ended"}, Fail(r)
  PROVE  IInv'
<1>1. /\ error' = TRUE /\ requests' = requests \ {r} /\ EmitResult
      /\ UNCHANGED <<output, pending, target, delivered, quiet>>
  BY DEF Fail, Sent
<1>2. phase = "started" => Promise(error', output', delivered')
  BY <1>1 DEF IInv, FreshUntilResult, Promise
<1> QED
  BY <1>1, <1>2, EndStep DEF IInv, TypeOK

LEMMA DoneStep ==
  ASSUME IInv, UNCHANGED <<plugin, shared>>, plugin \notin {"imgur", "youtube"},
         NEW r \in requests, phase \in {"started", "ended"},
         NEW urls \in SUBSET shared, NEW url \in BOOLEAN, Done(r, urls, url),
         Covered \subseteq urls, HasOutput => url
  PROVE  IInv'
<1>1. /\ output' = url /\ requests' = requests \ {r} /\ EmitResult
      /\ delivered' = delivered \cup urls
      /\ UNCHANGED <<error, pending, target, quiet>>
  BY DEF Done, Sent
<1>2. phase = "started" => Promise(error', output', delivered')
  BY <1>1 DEF IInv, FreshUntilResult, Promise
<1> QED
  BY <1>1, <1>2, EndStep DEF IInv, TypeOK

LEMMA StartsOfOne ==
  ASSUME IInv,
         \/ BluetoothStart \/ ClipboardStart \/ EmailStart \/ KdeconnectStart
         \/ SmsStart \/ TelegramStart
  PROVE  IInv'
<1>1. \A what : Req(what, All) \in Request /\ what \in AskedOfAll
                 => Req(what, All) \in Asked
  BY DEF Asked, Req
<1>2. ASSUME NEW p \in OneRequestPlugins, NEW what, OneRequest(p, what),
             \/ <<p, what>> \in {<<"bluetooth", "process">>, <<"clipboard", "timer">>,
                               <<"email", "launch">>, <<"kdeconnect", "call">>}
             \/ <<p, what>> \in {<<"sms", "launch">>, <<"telegram", "launch">>,
                               <<"telegram", "timer">>}
      PROVE  IInv'
  <2>1. plugin = p
    BY <1>2 DEF OneRequest, Starting
  <2>2. what \in AskedOfAll
    BY <1>2, <2>1 DEF AskedOfAll
  <2>3. Req(what, All) \in Request /\ what \notin {"album", "review", "credentials"}
    BY <1>2 DEF Request, Req
  <2> QED
    BY <1>1, <1>2, <2>2, <2>3, OneRequestStep
<1> QED
  BY <1>2 DEF BluetoothStart, ClipboardStart, EmailStart, KdeconnectStart,
    SmsStart, TelegramStart, OneRequestPlugins
LEMMA AnswersOfOne ==
  ASSUME IInv, NEW r \in requests,
         \/ ClipboardSet(r) \/ EmailLaunched(r) \/ KdeconnectShared(r)
         \/ SmsLaunched(r) \/ TelegramMissing(r) \/ TelegramLaunched(r)
  PROVE  IInv'
<1> USE DEF Answered
<1>1. CASE ClipboardSet(r)
  BY <1>1, DoneStep DEF ClipboardSet, Covered, HasOutput
<1>2. CASE EmailLaunched(r)
  BY <1>2, DoneStep, FailStep DEF EmailLaunched, Covered, HasOutput
<1>3. CASE KdeconnectShared(r)
  BY <1>3, DoneStep, FailStep DEF KdeconnectShared, Covered, HasOutput
<1>4. CASE SmsLaunched(r)
  BY <1>4, DoneStep DEF SmsLaunched, Covered, HasOutput
<1>5. CASE TelegramLaunched(r)
  BY <1>5, DoneStep, FailStep DEF TelegramLaunched, Covered, HasOutput
<1>6. CASE TelegramMissing(r)
  BY <1>6, EndStep DEF TelegramMissing, Sent, Promise, IInv, TypeOK
<1> QED
  BY <1>1, <1>2, <1>3, <1>4, <1>5, <1>6

LEMMA BluetoothAnswers ==
  ASSUME IInv, NEW r \in requests,
         ProcessError(r) \/ JobFinished(r) \/ ProcessCrashed(r)
  PROVE  IInv'
<1>1. /\ plugin = "bluetooth" /\ phase \in {"started", "ended"}
      /\ UNCHANGED <<plugin, shared>> /\ Covered = shared \cap Local
  BY DEF ProcessError, JobFinished, ProcessCrashed, Answered, Covered
<1>2. CASE ProcessError(r)
  <2>1. /\ error' = TRUE /\ UNCHANGED <<output, pending, target, delivered, quiet>>
        /\ EmitResult
        /\ requests' = requests \ {r} \/ requests' = requests
    BY <1>2 DEF ProcessError, Sent
  <2>2. Honest' /\ phase' = "ended"
    BY <1>1, <2>1, EmitHonest DEF Promise, IInv, TypeOK
  <2>3. \A q \in requests : q.what = "process"
    BY <1>1 DEF IInv, Asked, AskedOfAll, AskedOfOne
  <2>4. FirstAlone'
    BY <2>1, <2>3 DEF FirstAlone
  <2> QED
    BY <1>1, <2>1, <2>2, <2>4, UncountedStep DEF IInv, TypeOK
<1>3. CASE JobFinished(r)
  <2>1. /\ requests' = requests \ {r} /\ error' \in BOOLEAN /\ output' = TRUE
        /\ delivered' = (IF error' THEN delivered ELSE shared \cap Local)
        /\ UNCHANGED <<pending, target, quiet>> /\ EmitResult
    BY <1>3 DEF JobFinished, Sent
  <2>2. Promise(error', output', delivered')
    BY <1>1, <2>1 DEF Promise
  <2> QED
    BY <1>1, <2>1, <2>2, EndStep DEF IInv, TypeOK
<1>4. CASE ProcessCrashed(r)
  <2>1. /\ requests' = requests \ {r} /\ error' \in BOOLEAN /\ output' = TRUE
        /\ phase' = "ended"
        /\ UNCHANGED <<pending, target, delivered, quiet>>
        /\ result' = (IF phase = "started"
                        THEN [error |-> TRUE, url |-> output,
                              missing |-> shared \ delivered]
                        ELSE result)
    BY <1>4 DEF ProcessCrashed, Sent
  <2>2. Honest'
    BY <1>1, <2>1, CoveredSame
    DEF Honest, IInv, TypeOK, SuccessDelivers, UrlOfSuccess, Over
  <2>3. FirstAlone'
    BY <2>1, FirstGone
  <2> QED
    BY <1>1, <2>1, <2>2, <2>3, UncountedStep DEF IInv, TypeOK
<1> QED
  BY <1>2, <1>3, <1>4

-----------------------------------------------------------------------------
(* nextcloud, saveas                                                       *)

(* A step that goes on with these requests.                                *)
LEMMA GoOnStep ==
  ASSUME IInv, UNCHANGED <<plugin, shared>>, plugin \notin {"imgur", "youtube"},
         GoOn, phase \in {"new", "started", "ended"},
         UNCHANGED <<error, output, pending, delivered>>,
         quiet' \in BOOLEAN, target' \in {"none", "given", "made"},
         requests' \subseteq Asked, FirstAlone'
  PROVE  IInv'
<1>1. Honest' /\ phase' = IF phase = "new" THEN "started" ELSE phase
  BY GoOnHonest
<1>2. phase' = "started" => ~ error' /\ ~ output'
  BY <1>1 DEF IInv, FreshUntilResult
<1> QED
  BY <1>1, <1>2, UncountedStep DEF IInv, TypeOK

LEMMA AskedReq ==
  ASSUME NEW what, NEW u, Req(what, u) \in Request,
         \/ u = All /\ what \in AskedOfAll
         \/ u \in shared /\ what \in AskedOfOne /\ (what = "arc" => u \in Local)
  PROVE  Req(what, u) \in Asked
BY DEF Asked, Req

LEMMA NextcloudUploadStep ==
  ASSUME IInv, plugin = "nextcloud", UNCHANGED <<plugin, shared>>,
         phase \in {"new", "started", "ended"}, NEW r, NextcloudUpload(r),
         requests \ {r} = {}
  PROVE  IInv'
<1>1. /\ requests' = {Req("copy", All)} /\ GoOn
      /\ UNCHANGED <<memberVars, delivered, quiet>>
  BY DEF NextcloudUpload, Sent
<1>2. Req("copy", All) \in Asked
  BY AskedReq DEF AskedOfAll, Request, Req
<1>3. FirstAlone'
  BY <1>1 DEF FirstAlone, Req
<1> QED
  BY <1>1, <1>2, <1>3, GoOnStep DEF IInv, TypeOK, memberVars

LEMMA NextcloudStarts ==
  ASSUME IInv, NextcloudStart
  PROVE  IInv'
<1>1. plugin = "nextcloud" /\ phase = "new" /\ UNCHANGED <<plugin, shared>>
  BY DEF NextcloudStart, Starting
<1>2. requests = {} /\ pending = 0 /\ delivered = {} /\ ~ quiet
  BY <1>1 DEF IInv, FreshUntilResult
<1>3. CASE /\ requests' = {Req("credentials", All)} /\ GoOn
           /\ UNCHANGED <<memberVars, delivered, quiet>>
  <2>1. Req("credentials", All) \in Asked
    BY <1>1, AskedReq DEF AskedOfAll, Request, Req
  <2>2. FirstAlone'
    BY <1>1, <1>2, <1>3 DEF FirstAlone, Req, GoOn, memberVars
  <2> QED
    BY <1>1, <1>3, <2>1, <2>2, GoOnStep DEF IInv, TypeOK, memberVars
<1>4. CASE Silence /\ UNCHANGED <<memberVars, delivered, requests>>
  <2>1. FirstAlone'
    BY <1>2, <1>4 DEF FirstAlone
  <2> QED
    BY <1>1, <1>4, <2>1, GoOnStep DEF IInv, TypeOK, memberVars, Silence
<1>5. CASE NextcloudUpload(Req("credentials", All))
  BY <1>1, <1>2, <1>5, NextcloudUploadStep
<1> QED
  BY <1>3, <1>4, <1>5 DEF NextcloudStart

LEMMA NextcloudAnswers ==
  ASSUME IInv, NEW r \in requests,
         \/ r.what = "credentials" /\ GotCredentials(r)
         \/ NextcloudCopied(r)
  PROVE  IInv'
<1>1. /\ plugin = "nextcloud" /\ phase \in {"started", "ended"}
      /\ UNCHANGED <<plugin, shared>>
  BY DEF GotCredentials, NextcloudCopied, Answered
<1>2. CASE r.what = "credentials" /\ GotCredentials(r)
  <2>1. requests = {r}
    BY <1>2 DEF IInv, FirstAlone
  <2>2. Fail(r) \/ NextcloudUpload(r)
    BY <1>2 DEF GotCredentials
  <2> QED
    BY <1>1, <2>1, <2>2, FailStep, NextcloudUploadStep
<1>3. CASE NextcloudCopied(r) /\ ~ Fail(r)
  <2>1. /\ requests' = requests \ {r} /\ delivered' = shared
        /\ UNCHANGED <<memberVars, quiet>> /\ EmitResult
    BY <1>3 DEF NextcloudCopied, Sent
  <2>2. Promise(error', output', delivered') \/ phase # "started"
    BY <1>1, <2>1 DEF Promise, memberVars, Covered, HasOutput, IInv, FreshUntilResult
  <2> QED
    BY <1>1, <2>1, <2>2, EndStep DEF IInv, TypeOK, memberVars
<1> QED
  BY <1>1, <1>2, <1>3, FailStep
LEMMA SaveAsStarts ==
  ASSUME IInv, SaveAsStart
  PROVE  IInv'
<1>1. /\ plugin = "saveas" /\ phase = "new" /\ UNCHANGED <<plugin, shared>>
      /\ UNCHANGED <<output, pending, target, delivered, quiet>>
  BY DEF SaveAsStart, Starting
<1>2. requests = {}
  BY <1>1 DEF IInv, FreshUntilResult
<1>3. CASE error' = TRUE /\ EmitResult /\ UNCHANGED requests
  <2>1. Promise(error', output', delivered')
    BY <1>1, <1>3 DEF Promise, IInv, FreshUntilResult
  <2>2. Honest' /\ phase' = "ended"
    BY <1>1, <1>3, <2>1, EmitHonest DEF IInv, TypeOK
  <2>3. FirstAlone'
    BY <1>2, <1>3 DEF FirstAlone
  <2> QED
    BY <1>1, <1>2, <1>3, <2>2, <2>3, UncountedStep DEF IInv, TypeOK
<1>4. CASE /\ GoOn /\ UNCHANGED error
           /\ \E toFile \in BOOLEAN :
                requests' = IF Separate(toFile)
                              THEN {Req("copy", u) : u \in shared}
                              ELSE {Req("copy", All)}
  <2>1. \/ requests' = {Req("copy", All)}
        \/ /\ shared \cap DataUrls # {}
           /\ requests' = {Req("copy", u) : u \in shared}
    BY <1>4 DEF Separate
  <2>2. Req("copy", All) \in Asked
    BY <1>1, AskedReq DEF AskedOfAll, Request, Req
  <2>3. ASSUME shared \cap DataUrls # {}, NEW u \in shared
        PROVE  Req("copy", u) \in Asked
    <3>1. Req("copy", u) \in Request /\ "copy" \in AskedOfOne
      BY <1>1, <2>3 DEF AskedOfOne, Request, Req, IInv, TypeOK
    <3> QED
      BY <3>1, AskedReq
  <2>4. requests' \subseteq Asked
    BY <2>1, <2>2, <2>3
  <2>5. FirstAlone'
    BY <2>1 DEF FirstAlone, Req
  <2> QED
    BY <1>1, <1>4, <2>4, <2>5, GoOnStep DEF IInv, TypeOK
<1> QED
  BY <1>3, <1>4 DEF SaveAsStart

LEMMA SaveAsAnswers ==
  ASSUME IInv, NEW r \in requests, SaveAsCopied(r)
  PROVE  IInv'
<1>1. /\ plugin = "saveas" /\ phase \in {"started", "ended"}
      /\ UNCHANGED <<plugin, shared>>
  BY DEF SaveAsCopied, Answered
<1>2. PICK ok \in BOOLEAN : FileCopied(r, ok)
  BY DEF SaveAsCopied
<1>3. /\ requests' = requests \ {r} /\ error' = (error \/ ~ ok)
      /\ delivered' = IF ok THEN delivered \cup Copies(r) ELSE delivered
      /\ output' = (output \/ (ok /\ requests' = {}))
      /\ EmitResult /\ UNCHANGED <<pending, target, quiet>>
  BY <1>2 DEF FileCopied, Sent
<1>4. r \in Asked
  BY DEF IInv
<1>5. error' \in BOOLEAN /\ output' \in BOOLEAN /\ delivered' \in SUBSET shared
  BY <1>1, <1>3, <1>4 DEF Copies, IInv, TypeOK, Asked, AskedOfAll
<1>6. ASSUME phase = "started" PROVE Promise(error', output', delivered')
  <2>1. error' = ~ ok /\ output' = (ok /\ requests' = {})
    BY <1>3, <1>6 DEF IInv, FreshUntilResult, TypeOK
  <2>2. CASE shared \cap DataUrls = {}
    <3>1. \A q \in requests : q = Req("copy", All)
      BY <1>1, <2>2 DEF IInv, Asked, AskedOfAll, AskedOfOne, Request, Req
    <3>2. r.url = All /\ requests' = {}
      BY <1>3, <3>1 DEF Req
    <3>3. Copies(r) = shared
      BY <3>2 DEF Copies
    <3> QED
      BY <1>1, <1>3, <2>1, <2>2, <3>2, <3>3 DEF Promise, Covered
  <2>3. CASE shared \cap DataUrls # {}
    BY <1>1, <2>1, <2>3 DEF Promise, Covered
  <2> QED
    BY <2>2, <2>3
<1> QED
  BY <1>1, <1>3, <1>5, <1>6, EndStep

LEMMA KillStep ==
  ASSUME IInv, Kill
  PROVE  IInv'
<1>1. /\ plugin = "saveas" /\ phase = "started" /\ UNCHANGED <<plugin, shared>>
      /\ requests' \subseteq requests /\ error' = TRUE
      /\ UNCHANGED <<output, pending, target, delivered, quiet>> /\ EmitResult
  BY DEF Kill
<1>2. Promise(error', output', delivered')
  BY <1>1 DEF Promise, IInv, FreshUntilResult
<1>3. Honest' /\ phase' = "ended"
  BY <1>1, <1>2, EmitHonest DEF IInv, TypeOK
<1>4. \A q \in requests : q.what = "copy"
  BY <1>1 DEF IInv, Asked, AskedOfAll, AskedOfOne
<1>5. FirstAlone'
  BY <1>1, <1>4 DEF FirstAlone
<1> QED
  BY <1>1, <1>3, <1>5, UncountedStep DEF IInv, TypeOK
-----------------------------------------------------------------------------
(* reviewboard, phabricator                                                *)

LEMMA PatchAsked ==
  ASSUME TypeOK, plugin = "reviewboard", NEW first \in shared
  PROVE  /\ SubmitPatchRequest(first) \in Asked /\ NewRequest \in Asked
         /\ UpdateRequest \in Asked
<1>1. /\ Req("patch", first) \in Request /\ "patch" \in AskedOfOne
      /\ Req("review", All) \in Request /\ "review" \in AskedOfAll
      /\ Req("metadata", All) \in Request /\ "metadata" \in AskedOfAll
  BY DEF TypeOK, Request, Req, AskedOfOne, AskedOfAll
<1> QED
  BY <1>1, AskedReq DEF SubmitPatchRequest, NewRequest, UpdateRequest, HttpCall

LEMMA ReviewboardStarts ==
  ASSUME IInv, ReviewboardStart
  PROVE  IInv'
<1>1. /\ plugin = "reviewboard" /\ phase = "new" /\ GoOn
      /\ UNCHANGED <<plugin, shared, error, output, pending, delivered, quiet>>
  BY DEF ReviewboardStart, Starting
<1>2. phase' = "started" /\ pending = 0 /\ delivered = {} /\ ~ quiet
  BY <1>1 DEF GoOn, IInv, FreshUntilResult
<1>3. CASE \E first \in shared :
             target' = "given" /\ requests' = {SubmitPatchRequest(first)}
  <2>1. PICK first \in shared :
          target' = "given" /\ requests' = {SubmitPatchRequest(first)}
    BY <1>3
  <2>2. FirstAlone'
    BY <2>1 DEF FirstAlone, SubmitPatchRequest, HttpCall, Req
  <2> QED
    BY <1>1, <2>1, <2>2, PatchAsked, GoOnStep DEF IInv, TypeOK
<1>4. CASE requests' = {NewRequest} /\ UNCHANGED target
  <2>1. NewRequest \in Asked
    BY <1>1, AskedReq DEF NewRequest, HttpCall, Request, Req, AskedOfAll
  <2>2. FirstAlone'
    BY <1>1, <1>2, <1>4 DEF FirstAlone
  <2> QED
    BY <1>1, <1>4, <2>1, <2>2, GoOnStep DEF IInv, TypeOK
<1> QED
  BY <1>3, <1>4 DEF ReviewboardStart

LEMMA ReviewCreatedStep ==
  ASSUME IInv, NEW r \in requests, r.what = "review", ReviewCreated(r)
  PROVE  IInv'
<1>1. /\ plugin = "reviewboard" /\ phase \in {"started", "ended"}
      /\ UNCHANGED <<plugin, shared>>
  BY DEF ReviewCreated, Answered
<1>2. requests = {r}
  BY DEF IInv, FirstAlone
<1>3. CASE Fail(r)
  BY <1>1, <1>3, FailStep
<1>4. CASE ~ Fail(r)
  <2>1. PICK first \in shared, extra \in {{}, {UpdateRequest}} :
          /\ requests' = {SubmitPatchRequest(first)} \cup extra
          /\ target' = "made" /\ GoOn
          /\ UNCHANGED <<error, output, pending, delivered, quiet>>
    BY <1>2, <1>4 DEF ReviewCreated, Sent
  <2>2. requests' \subseteq Asked
    BY <1>1, <2>1, PatchAsked DEF IInv
  <2>3. \A q \in requests' : q.what \in {"patch", "metadata"}
    BY <2>1 DEF SubmitPatchRequest, UpdateRequest, HttpCall, Req
  <2>4. FirstAlone'
    BY <2>3 DEF FirstAlone
  <2> QED
    BY <1>1, <2>1, <2>2, <2>4, GoOnStep DEF IInv, TypeOK
<1> QED
  BY <1>3, <1>4

LEMMA ReviewboardAnswers ==
  ASSUME IInv, NEW r \in requests,
         \/ UpdateRequestDone(r)
         \/ r.what = "patch" /\ ReviewDone(r)
  PROVE  IInv'
<1>1. /\ plugin = "reviewboard" /\ phase \in {"started", "ended"}
      /\ UNCHANGED <<plugin, shared>>
  BY DEF UpdateRequestDone, ReviewDone, Answered
<1>2. CASE UpdateRequestDone(r)
  <2>1. /\ requests' = requests \ {r} /\ GoOn
        /\ UNCHANGED <<memberVars, delivered, quiet>>
    BY <1>2 DEF UpdateRequestDone, Sent
  <2>2. FirstAlone'
    BY <2>1, FirstGone
  <2> QED
    BY <1>1, <2>1, <2>2, GoOnStep DEF IInv, TypeOK, memberVars
<1>3. CASE r.what = "patch" /\ ReviewDone(r) /\ ~ Fail(r)
  <2>1. /\ requests' = requests \ {r} /\ output' = TRUE
        /\ delivered' = delivered \cup UrlToData(r.url)
        /\ UNCHANGED <<error, pending, target, quiet>> /\ EmitResult
    BY <1>3 DEF ReviewDone, Sent
  <2>2. r \in Asked /\ r.what = "patch"
    BY <1>3 DEF IInv
  <2>3. r.url \in shared
    BY <1>1, <2>2 DEF Asked, AskedOfAll
  <2>4. Covered \subseteq UrlToData(r.url)
    <3>1. CASE Cardinality(shared) = 1
      <4>1. shared = {r.url}
        BY <2>3, <3>1, FS_Singleton DEF IInv
      <4> QED
        BY <1>1, <3>1, <4>1 DEF Covered, UrlToData
    <3>2. CASE Cardinality(shared) # 1
      BY <1>1, <3>2 DEF Covered
    <3> QED
      BY <3>1, <3>2
  <2>5. phase = "started" => Promise(error', output', delivered')
    BY <2>1, <2>4 DEF Promise, IInv, FreshUntilResult
  <2>6. delivered' \in SUBSET shared
    BY <2>1, <2>3 DEF UrlToData, IInv, TypeOK
  <2> QED
    BY <1>1, <2>1, <2>5, <2>6, EndStep DEF IInv, TypeOK
<1> QED
  BY <1>1, <1>2, <1>3, FailStep

LEMMA PhabricatorStarts ==
  ASSUME IInv, PhabricatorStart
  PROVE  IInv'
<1>1. /\ plugin = "phabricator" /\ phase = "new"
      /\ UNCHANGED <<plugin, shared, output, pending, delivered>>
  BY DEF PhabricatorStart, Starting
<1>2. requests = {} /\ ~ quiet
  BY <1>1 DEF IInv, FreshUntilResult
<1>3. CASE error' = TRUE /\ EmitResult /\ UNCHANGED <<target, requests, quiet>>
  <2>1. Promise(error', output', delivered')
    BY <1>1, <1>3 DEF Promise, IInv, FreshUntilResult
  <2>2. Honest' /\ phase' = "ended"
    BY <1>1, <1>3, <2>1, EmitHonest DEF IInv, TypeOK
  <2>3. FirstAlone'
    BY <1>2, <1>3 DEF FirstAlone
  <2> QED
    BY <1>1, <1>3, <2>2, <2>3, UncountedStep DEF IInv, TypeOK
<1>4. CASE /\ \E first \in shared \cap Local, arc \in {"absent", "broken", "starts"} :
                StartArc(first, arc) /\ target' \in {"given", "made"}
           /\ UNCHANGED error
  <2>1. PICK first \in shared \cap Local, arc \in {"absent", "broken", "starts"} :
          StartArc(first, arc) /\ target' \in {"given", "made"}
    BY <1>4
  <2>2. CASE Silence /\ UNCHANGED requests
    <3>1. FirstAlone'
      BY <1>2, <2>2 DEF FirstAlone
    <3> QED
      BY <1>1, <1>4, <2>1, <2>2, <3>1, GoOnStep DEF Silence, IInv, TypeOK
  <2>3. CASE requests' = {Req("arc", first)} /\ GoOn /\ UNCHANGED quiet
    <3>1. Req("arc", first) \in Request /\ "arc" \in AskedOfOne
      BY <1>1 DEF IInv, TypeOK, Request, Req, AskedOfOne
    <3>2. requests' \subseteq Asked
      BY <2>3, <3>1, AskedReq
    <3>3. FirstAlone'
      BY <2>3 DEF FirstAlone, Req
    <3> QED
      BY <1>1, <1>4, <2>1, <2>3, <3>2, <3>3, GoOnStep DEF IInv, TypeOK
  <2> QED
    BY <2>1, <2>2, <2>3 DEF StartArc
<1> QED
  BY <1>3, <1>4 DEF PhabricatorStart

LEMMA PhabricatorAnswers ==
  ASSUME IInv, NEW r \in requests, DiffCreatedOrUpdated(r)
  PROVE  IInv'
<1>1. /\ plugin = "phabricator" /\ phase \in {"started", "ended"}
      /\ UNCHANGED <<plugin, shared>>
  BY DEF DiffCreatedOrUpdated, Answered
<1>2. CASE ~ Fail(r)
  <2>1. /\ requests' = requests \ {r} /\ output' = TRUE
        /\ delivered' = delivered \cup {r.url}
        /\ UNCHANGED <<error, pending, target, quiet>> /\ EmitResult
    BY <1>2 DEF DiffCreatedOrUpdated, Sent
  <2>2. r.url \in shared
    BY <1>1 DEF IInv, Asked, AskedOfAll
  <2>3. Covered \subseteq {r.url}
    <3>1. CASE Cardinality(shared) = 1
      <4>1. shared = {r.url}
        BY <2>2, <3>1, FS_Singleton DEF IInv
      <4> QED
        BY <1>1, <3>1, <4>1 DEF Covered
    <3>2. CASE Cardinality(shared) # 1
      BY <1>1, <3>2 DEF Covered
    <3> QED
      BY <3>1, <3>2
  <2>4. phase = "started" => Promise(error', output', delivered')
    BY <2>1, <2>3 DEF Promise, IInv, FreshUntilResult
  <2> QED
    BY <1>1, <2>1, <2>2, <2>4, EndStep DEF IInv, TypeOK
<1> QED
  BY <1>1, <1>2, FailStep
-----------------------------------------------------------------------------
(* imgur, youtube                                                          *)

Transfers(reqs) == {q \in reqs : q.url # All}

LEMMA CountedStep ==
  ASSUME IInv, UNCHANGED <<plugin, shared>>, plugin \in {"imgur", "youtube"},
         Honest', phase' \in {"started", "ended", "deleted"},
         error' \in BOOLEAN, output' \in BOOLEAN, quiet' \in BOOLEAN,
         pending' \in 0 .. Cardinality(shared),
         target' \in {"none", "given", "made"},
         delivered' \in SUBSET shared, requests' \subseteq Asked,
         phase' = "started" => ~ error' /\ ~ output',
         FirstAlone', Counting'
  PROVE  IInv'
<1>1. Asked' = Asked
  BY DEF Asked, AskedOfAll, AskedOfOne
<1>2. Asked \subseteq Request
  BY DEF Asked
<1>3. TypeOK'
  BY <1>1, <1>2 DEF IInv, TypeOK, Honest
<1> QED
  BY <1>1, <1>3 DEF IInv, FreshUntilResult, Honest

(* One request for each of the urls.                                       *)
Each(what, S) == {Req(what, u) : u \in S}

LEMMA OneForEach ==
  ASSUME NEW S, IsFiniteSet(S), All \notin S, NEW what
  PROVE  /\ IsFiniteSet(Each(what, S))
         /\ Cardinality(Each(what, S)) = Cardinality(S)
         /\ Transfers(Each(what, S)) = Each(what, S)
         /\ \A u \in S : \E r \in Each(what, S) : r.url = u
         /\ \A q, r \in Each(what, S) : q.url = r.url => q = r
<1> DEFINE T == {Req(what, u) : u \in S}
           f == [u \in S |-> Req(what, u)]
<1>1. f \in [S -> T] /\ \A t \in T : \E u \in S : f[u] = t
  OBVIOUS
<1>2. \A u, v \in S : f[u] = f[v] => u = v
  BY DEF Req
<1>3. f \in Bijection(S, T)
  BY <1>1, <1>2 DEF Bijection, Injection, Surjection, IsInjective
<1>4. IsFiniteSet(T) /\ Cardinality(T) = Cardinality(S)
  BY <1>3, FS_Bijection DEF ExistsBijection
<1>5. Transfers(T) = T /\ \A q, r \in T : q.url = r.url => q = r
  BY DEF Transfers, Req
<1>6. \A u \in S : Req(what, u) \in T /\ Req(what, u).url = u
  BY DEF Req
<1> QED
  BY <1>4, <1>5, <1>6 DEF Each

(* A request is answered, or answered and followed by one for its url.     *)
LEMMA Answering ==
  ASSUME NEW reqs, IsFiniteSet(reqs), NEW r \in reqs, r.url # All
  PROVE  /\ IsFiniteSet(Transfers(reqs)) /\ IsFiniteSet(reqs \ {r})
         /\ Cardinality(Transfers(reqs)) \in Nat \ {0}
         /\ Cardinality(Transfers(reqs \ {r})) = Cardinality(Transfers(reqs)) - 1
         /\ \A n : n.url = r.url /\ n \notin reqs \ {r} =>
              LET t == (reqs \ {r}) \cup {n}
              IN /\ IsFiniteSet(t)
                 /\ Cardinality(Transfers(t)) = Cardinality(Transfers(reqs))
<1>1. Transfers(reqs) \in SUBSET reqs /\ r \in Transfers(reqs)
  BY DEF Transfers
<1>2. IsFiniteSet(Transfers(reqs))
  BY <1>1, FS_Subset
<1>3. Cardinality(Transfers(reqs)) \in Nat
  BY <1>2, FS_CardinalityType
<1>4. Cardinality(Transfers(reqs)) # 0
  BY <1>1, <1>2, FS_EmptySet
<1>5. Transfers(reqs \ {r}) = Transfers(reqs) \ {r}
  BY DEF Transfers
<1>6. /\ IsFiniteSet(Transfers(reqs \ {r}))
      /\ Cardinality(Transfers(reqs \ {r})) = Cardinality(Transfers(reqs)) - 1
  BY <1>1, <1>2, <1>5, FS_RemoveElement
<1>7. IsFiniteSet(reqs \ {r})
  BY FS_RemoveElement
<1>8. ASSUME NEW n, n.url = r.url, n \notin reqs \ {r}
      PROVE  LET t == (reqs \ {r}) \cup {n}
             IN /\ IsFiniteSet(t)
                /\ Cardinality(Transfers(t)) = Cardinality(Transfers(reqs))
  <2> DEFINE t == (reqs \ {r}) \cup {n}
  <2>1. IsFiniteSet(t)
    BY <1>7, FS_AddElement
  <2>2. Transfers(t) = Transfers(reqs \ {r}) \cup {n} /\ n \notin Transfers(reqs \ {r})
    BY <1>8 DEF Transfers
  <2>3. Cardinality(Transfers(t)) = Cardinality(Transfers(reqs \ {r})) + 1
    BY <1>6, <2>2, FS_AddElement
  <2> QED
    BY <1>3, <1>6, <2>1, <2>3
<1> QED
  BY <1>2, <1>3, <1>4, <1>6, <1>7, <1>8
(* The transfer of a url is under way, and no album.                       *)
LEMMA OneTransfer ==
  ASSUME IInv, plugin \in {"imgur", "youtube"}, NEW r \in requests,
         r.what # "album"
  PROVE  /\ r.url \in shared /\ r.url # All
         /\ Transfers(requests) = requests
         /\ \A q \in requests : q.what \notin {"album", "review", "credentials"}
         /\ pending \in 1 .. Cardinality(shared)
         /\ Cardinality(requests) \in 1 .. pending
         /\ Cardinality(shared) \in Nat
<1>1. r \in Asked /\ r.what \in AskedOfOne /\ r.url \in shared
  BY DEF IInv, Asked, AskedOfAll
<1>2. r.url # All
  BY <1>1, UrlsAssumption DEF IInv, TypeOK
<1>3. \A q \in requests : q.what # "album"
  BY DEF IInv, FirstAlone
<1>4. \A q \in requests : q.what \in AskedOfOne /\ q.url \in shared
  BY <1>3 DEF IInv, Asked, AskedOfAll
<1>5. Transfers(requests) = requests
  BY <1>4, UrlsAssumption DEF Transfers, IInv, TypeOK
<1>6. \A q \in requests : q.what \notin {"album", "review", "credentials"}
  BY <1>4 DEF AskedOfOne
<1>7. IsFiniteSet(requests) /\ Cardinality(Transfers(requests)) <= pending
  BY DEF IInv, Counting, InProgress, Transfers
<1>8. Cardinality(requests) \in Nat \ {0}
  BY <1>2, <1>5, <1>7, Answering
<1>9. Cardinality(shared) \in Nat
  BY FS_CardinalityType DEF IInv
<1> QED
  BY <1>1, <1>2, <1>5, <1>6, <1>7, <1>8, <1>9 DEF IInv, TypeOK

(* One transfer has led to the next of the same url.                       *)
LEMMA NextTransfer ==
  ASSUME IInv, plugin \in {"imgur", "youtube"}, UNCHANGED <<plugin, shared>>,
         phase \in {"started", "ended"}, NEW r \in requests, r.what # "album",
         NEW what \in {"fetch", "upload"}, what \in AskedOfOne,
         Sent(r, {Req(what, r.url)}), GoOn,
         UNCHANGED <<memberVars, delivered, quiet>>
  PROVE  IInv'
<1> DEFINE n == Req(what, r.url)
<1>1. requests' = (requests \ {r}) \cup {n} /\ n.url = r.url
  BY DEF Sent, Req
<1>2. Honest' /\ phase' = phase
  BY GoOnHonest
<1>3. r.url \in shared /\ Transfers(requests) = requests /\ r.url # All
  BY OneTransfer
<1>4. \A p, q \in requests : p.url = q.url => p = q
  BY DEF IInv, Counting
<1>5. n \notin requests \ {r}
  BY <1>1, <1>4
<1>6. /\ IsFiniteSet(requests')
      /\ Cardinality(Transfers(requests')) = Cardinality(Transfers(requests))
  BY <1>1, <1>3, <1>5, Answering DEF IInv, Counting
<1>7. n \in Asked
  <2>1. n \in Request
    BY <1>3 DEF Req, Request, IInv, TypeOK
  <2> QED
    BY <1>3, <2>1, AskedReq
<1>8. FirstAlone'
  <2>1. n.what \notin {"album", "review", "credentials"}
    BY DEF Req
  <2> QED
    BY <1>1, <2>1, OneTransfer DEF FirstAlone
<1>9. Counting'
  <2>1. \A p, q \in requests' : p.url = q.url => p = q
    BY <1>1, <1>4
  <2>2. {q.url : q \in requests'} = {q.url : q \in requests}
    BY <1>1
  <2>3. requests # {} /\ requests # {Req("album", All)}
    BY <1>3 DEF Req
  <2> QED
    BY <1>2, <1>6, <2>1, <2>2, <2>3
    DEF IInv, Counting, InProgress, Transfers, memberVars
<1> QED
  BY <1>1, <1>2, <1>7, <1>8, <1>9, CountedStep
  DEF IInv, TypeOK, FreshUntilResult, memberVars

(* A transfer has failed; imgur counts it still, youtube does not.         *)
LEMMA TransferFails ==
  ASSUME IInv, plugin \in {"imgur", "youtube"}, UNCHANGED <<plugin, shared>>,
         phase \in {"started", "ended"}, NEW r \in requests, r.what # "album",
         error' = TRUE, Sent(r, {}),
         UNCHANGED <<output, target, delivered, quiet>>,
         pending' \in {pending, pending - 1}, EmitResult
  PROVE  IInv'
<1>1. requests' = requests \ {r}
  BY DEF Sent
<1>2. phase = "started" => Promise(error', output', delivered')
  BY DEF Promise, IInv, FreshUntilResult
<1>3. Honest' /\ phase' = "ended"
  BY <1>2, EmitHonest DEF IInv, TypeOK
<1>4. FirstAlone'
  BY <1>1, FirstGone
<1>5. /\ pending \in 1 .. Cardinality(shared) /\ r.url # All
      /\ Cardinality(shared) \in Nat
  BY OneTransfer
<1>6. /\ IsFiniteSet(requests')
      /\ Cardinality(Transfers(requests')) = Cardinality(Transfers(requests)) - 1
      /\ Cardinality(Transfers(requests)) \in Nat
  BY <1>1, <1>5, Answering DEF IInv, Counting
<1>7. Counting'
  BY <1>1, <1>3, <1>5, <1>6 DEF IInv, Counting, InProgress, Transfers
<1> QED
  BY <1>1, <1>3, <1>4, <1>5, <1>7, CountedStep DEF IInv, TypeOK

(* A transfer has brought its url to its destination.                      *)
LEMMA TransferDone ==
  ASSUME IInv, plugin \in {"imgur", "youtube"}, UNCHANGED <<plugin, shared>>,
         phase \in {"started", "ended"}, NEW r \in requests, r.what # "album",
         Sent(r, {}), pending' = pending - 1,
         delivered' = delivered \cup {r.url}, UNCHANGED <<error, target, quiet>>,
         output' \in BOOLEAN,
         output' = output \/ (pending' = 0 /\ ~ error),
         plugin = "youtube" /\ pending' = 0 /\ ~ error => output',
         IF pending' = 0 THEN EmitResult ELSE GoOn
  PROVE  IInv'
<1>1. requests' = requests \ {r}
  BY DEF Sent
<1>2. /\ pending \in 1 .. Cardinality(shared) /\ r.url \in shared /\ r.url # All
      /\ Cardinality(shared) \in Nat /\ Transfers(requests) = requests
      /\ Cardinality(requests) \in 1 .. pending
  BY OneTransfer
<1>3. /\ IsFiniteSet(requests')
      /\ Cardinality(Transfers(requests')) = Cardinality(Transfers(requests)) - 1
  BY <1>1, <1>2, Answering DEF IInv, Counting
<1>4. requests # {} /\ requests # {Req("album", All)}
  BY DEF Req
<1>5. phase = "started" /\ quiet => Cardinality(requests) < pending
  BY <1>2, <1>4 DEF IInv, Counting, InProgress, Transfers
<1>6. phase = "started" /\ ~ quiet =>
        /\ pending = Cardinality(requests)
        /\ shared \subseteq delivered \cup {q.url : q \in requests}
  BY <1>2, <1>4 DEF IInv, Counting, InProgress, Transfers
<1>7. ASSUME pending' = 0, phase = "started"
      PROVE  Promise(error', output', delivered')
  <2>1. pending = 1 /\ ~ quiet /\ Cardinality(requests) = 1
    BY <1>2, <1>5, <1>6, <1>7
  <2>2. requests = {r}
    BY <2>1, FS_Singleton DEF IInv, Counting
  <2>3. shared \subseteq delivered'
    BY <1>6, <1>7, <2>1, <2>2
  <2>4. ~ error /\ ~ output /\ Covered = shared
    BY <1>7 DEF IInv, FreshUntilResult, Covered
  <2> QED
    BY <1>7, <2>3, <2>4 DEF Promise, HasOutput
<1>8. /\ Honest'
      /\ phase' = IF pending' = 0 THEN "ended" ELSE phase
  BY <1>7, EmitHonest, GoOnHonest DEF IInv, TypeOK
<1>9. FirstAlone'
  BY <1>1, FirstGone
<1>10. Counting'
  <2>1. \A p, q \in requests' : p.url = q.url => p = q
    BY <1>1 DEF IInv, Counting
  <2>2. Cardinality(Transfers(requests')) <= pending'
    BY <1>2, <1>3
  <2>3. phase' = "started" => phase = "started"
    BY <1>8
  <2>4. phase' = "started" /\ ~ quiet =>
          shared \subseteq delivered' \cup {q.url : q \in requests'}
    BY <1>1, <1>6, <2>3
  <2>5. phase' = "started" /\ quiet => Cardinality(Transfers(requests')) < pending'
    BY <1>2, <1>3, <1>5, <2>3
  <2>6. phase' = "started" /\ ~ quiet => pending' = Cardinality(Transfers(requests'))
    BY <1>2, <1>3, <1>6, <2>3
  <2> QED
    BY <1>3, <2>1, <2>2, <2>4, <2>5, <2>6 DEF Counting, InProgress, Transfers
<1>11. phase' = "started" => ~ error' /\ ~ output'
  BY <1>8 DEF IInv, FreshUntilResult
<1> QED
  BY <1>1, <1>2, <1>8, <1>9, <1>10, <1>11, CountedStep DEF IInv, TypeOK
(* A request has been sent for each of the urls.                           *)
LEMMA EachStep ==
  ASSUME IInv, plugin \in {"imgur", "youtube"}, UNCHANGED <<plugin, shared>>,
         shared # {}, ~ quiet, ~ error, ~ output, phase' = "started", Honest',
         NEW what \in {"fetch", "location"}, what \in AskedOfOne,
         requests' = Each(what, shared), pending' = Cardinality(shared),
         UNCHANGED <<error, output, delivered, quiet>>,
         target' \in {"none", "given", "made"}
  PROVE  IInv'
<1>1. IsFiniteSet(shared) /\ All \notin shared /\ Cardinality(shared) \in Nat
  BY UrlsAssumption, FS_CardinalityType DEF IInv, TypeOK
<1>2. /\ IsFiniteSet(requests') /\ Cardinality(requests') = pending'
      /\ Transfers(requests') = requests'
      /\ \A u \in shared : \E r \in requests' : r.url = u
      /\ \A q, r \in requests' : q.url = r.url => q = r
  BY <1>1, OneForEach
<1>3. \A r \in requests' : \E u \in shared : r = Req(what, u)
  BY DEF Each
<1>4. requests' \subseteq Asked
  <2>1. ASSUME NEW u \in shared PROVE Req(what, u) \in Asked
    <3>1. Req(what, u) \in Request
      BY <2>1 DEF IInv, TypeOK, Request, Req
    <3> QED
      BY <3>1, AskedReq
  <2> QED
    BY <1>3, <2>1
<1>5. FirstAlone'
  BY <1>3 DEF FirstAlone, Req
<1>6. shared \subseteq delivered' \cup {r.url : r \in requests'}
  BY <1>2
<1>7. InProgress' = requests'
  BY <1>2 DEF InProgress, Transfers
<1>8. Counting'
  BY <1>1, <1>2, <1>6, <1>7 DEF Counting
<1> QED
  BY <1>1, <1>4, <1>5, <1>8, CountedStep DEF IInv, TypeOK

LEMMA UploadingStep ==
  ASSUME IInv, plugin = "imgur", UNCHANGED <<plugin, shared>>,
         phase \in {"new", "started"}, shared # {}, ~ quiet,
         NEW r, requests \ {r} = {}, pending = 0, StartUploading(r), GoOn,
         UNCHANGED <<error, output, delivered, quiet>>,
         target' \in {"none", "given", "made"}
  PROVE  IInv'
<1>1. requests' = Each("fetch", shared) /\ pending' = Cardinality(shared)
  <2>1. pending' = 0 + Cardinality(shared) /\ Cardinality(shared) \in Nat
    BY FS_CardinalityType DEF StartUploading, IInv
  <2> QED
    BY <2>1 DEF StartUploading, Sent, Each
<1>2. Honest' /\ phase' = "started"
  BY GoOnHonest
<1>3. "fetch" \in AskedOfOne /\ ~ error /\ ~ output
  BY DEF AskedOfOne, IInv, FreshUntilResult
<1> QED
  BY <1>1, <1>2, <1>3, EachStep

LEMMA ImgurStarts ==
  ASSUME IInv, ImgurStart
  PROVE  IInv'
<1>1. /\ plugin = "imgur" /\ phase = "new" /\ UNCHANGED <<plugin, shared>>
      /\ UNCHANGED <<error, output, target, delivered, quiet>>
  BY DEF ImgurStart, Starting
<1>2. /\ requests = {} /\ pending = 0 /\ ~ error /\ ~ output /\ ~ quiet
      /\ delivered = {}
  BY <1>1 DEF IInv, FreshUntilResult
<1>3. Transfers({}) = {} /\ IsFiniteSet({}) /\ Cardinality({}) = 0
  BY FS_EmptySet DEF Transfers
<1>4. CASE shared = {} /\ EmitResult /\ UNCHANGED <<requests, pending>>
  <2>1. Promise(error', output', delivered')
    BY <1>1, <1>2, <1>4 DEF Promise, Covered, HasOutput
  <2>2. Honest' /\ phase' = "ended"
    BY <1>1, <1>4, <2>1, EmitHonest DEF IInv, TypeOK
  <2>3. FirstAlone' /\ Counting'
    BY <1>2, <1>3, <1>4, <2>2 DEF FirstAlone, Counting, InProgress, Transfers
  <2> QED
    BY <1>1, <1>4, <2>2, <2>3, CountedStep DEF IInv, TypeOK
<1>5. CASE /\ GoOn /\ requests' = {Req("album", All)} /\ UNCHANGED pending
  <2>1. Honest' /\ phase' = "started"
    BY <1>1, <1>5, GoOnHonest
  <2>2. Req("album", All) \in Asked
    BY <1>1, AskedReq DEF AskedOfAll, Request, Req
  <2>3. FirstAlone'
    BY <1>1, <1>2, <1>5, <2>1 DEF FirstAlone
  <2>4. IsFiniteSet(requests')
    BY <1>5, FS_Singleton
  <2>5. Transfers(requests') = {}
    BY <1>5 DEF Transfers, Req
  <2>6. Counting'
    BY <1>1, <1>2, <1>3, <1>5, <2>1, <2>4, <2>5 DEF Counting, InProgress, Transfers
  <2> QED
    BY <1>1, <1>2, <1>5, <2>1, <2>2, <2>3, <2>6, CountedStep DEF IInv, TypeOK
<1>6. CASE Cardinality(shared) = 1 /\ GoOn /\ StartUploading(Req("album", All))
  <2>1. shared # {}
    BY <1>3, <1>6
  <2> QED
    BY <1>1, <1>2, <1>6, <2>1, UploadingStep DEF IInv, TypeOK
<1> QED
  BY <1>4, <1>5, <1>6 DEF ImgurStart

(* A failure and an empty answer to the request of the album.              *)
LEMMA AlbumLost ==
  ASSUME IInv, plugin = "imgur", UNCHANGED <<plugin, shared>>,
         NEW r \in requests, r.what = "album", Fail(r) \/ EmptyResponse(r)
  PROVE  IInv'
<1>1. /\ requests = {r} /\ phase = "started" /\ pending = 0
      /\ delivered = {} /\ ~ quiet
  BY DEF IInv, FirstAlone
<1>2. /\ requests' = {} /\ UNCHANGED <<output, pending, target, delivered>>
      /\ error' \in BOOLEAN /\ quiet' \in BOOLEAN
  BY <1>1 DEF Fail, EmptyResponse, Sent, Silence, memberVars, IInv, TypeOK
<1>3. /\ Honest' /\ phase' \in {"started", "ended"}
      /\ phase' = "started" => quiet' /\ error' = error
  <2>1. CASE Fail(r)
    <3>1. EmitResult /\ error' = TRUE
      BY <2>1 DEF Fail
    <3>2. Promise(error', output', delivered')
      BY <1>1, <1>2, <3>1 DEF Promise, IInv, FreshUntilResult
    <3> QED
      BY <1>1, <1>2, <3>1, <3>2, EmitHonest DEF IInv, TypeOK
  <2>2. CASE EmptyResponse(r)
    BY <1>1, <2>2, GoOnHonest DEF EmptyResponse, Silence, memberVars
  <2> QED
    BY <2>1, <2>2
<1>4. Transfers({}) = {} /\ IsFiniteSet({}) /\ Cardinality({}) = 0
  BY FS_EmptySet DEF Transfers
<1>5. FirstAlone' /\ Counting'
  BY <1>1, <1>2, <1>3, <1>4 DEF FirstAlone, Counting, InProgress, Transfers
<1> QED
  BY <1>1, <1>2, <1>3, <1>5, CountedStep DEF IInv, TypeOK, FreshUntilResult

LEMMA AlbumCreatedStep ==
  ASSUME IInv, NEW r \in requests, r.what = "album", AlbumCreated(r)
  PROVE  IInv'
<1>1. plugin = "imgur" /\ UNCHANGED <<plugin, shared>>
  BY DEF AlbumCreated, Answered
<1>2. /\ requests = {r} /\ phase = "started" /\ pending = 0
      /\ delivered = {} /\ ~ quiet
  BY DEF IInv, FirstAlone
<1>3. CASE Fail(r) \/ EmptyResponse(r)
  BY <1>1, <1>3, AlbumLost
<1>4. CASE /\ target' = "made" /\ StartUploading(r) /\ GoOn
           /\ UNCHANGED <<error, output, delivered, quiet>>
  <2>1. CASE shared # {}
    BY <1>1, <1>2, <1>4, <2>1, UploadingStep
  <2>2. CASE shared = {}
    <3>1. requests' = {} /\ pending' = 0
      BY <1>2, <1>4, <2>2, FS_EmptySet DEF StartUploading, Sent
    <3>2. Honest' /\ phase' = "started"
      BY <1>1, <1>2, <1>4, GoOnHonest
    <3>3. FirstAlone' /\ Counting'
      <4>1. Transfers({}) = {} /\ IsFiniteSet({}) /\ Cardinality({}) = 0
        BY FS_EmptySet DEF Transfers
      <4> QED
        BY <1>1, <1>2, <1>4, <2>2, <3>1, <3>2, <4>1
        DEF FirstAlone, Counting, InProgress, Transfers
    <3>4. Cardinality(shared) = 0
      BY <2>2, FS_EmptySet
    <3> QED
      BY <1>1, <1>2, <1>4, <3>1, <3>2, <3>3, <3>4, CountedStep
      DEF IInv, TypeOK, FreshUntilResult
  <2> QED
    BY <2>1, <2>2
<1> QED
  BY <1>3, <1>4 DEF AlbumCreated

LEMMA ImgurTransfers ==
  ASSUME IInv, NEW r \in requests, r.what # "album",
         FileFetched(r) \/ ImageUploaded(r)
  PROVE  IInv'
<1>1. /\ plugin = "imgur" /\ phase \in {"started", "ended"}
      /\ UNCHANGED <<plugin, shared>>
  BY DEF FileFetched, ImageUploaded, Answered
<1>2. CASE Fail(r)
  BY <1>1, <1>2, TransferFails DEF Fail
<1>3. CASE /\ Sent(r, {Req("upload", r.url)}) /\ GoOn
           /\ UNCHANGED <<memberVars, delivered, quiet>>
  <2>1. "upload" \in AskedOfOne
    BY <1>1 DEF AskedOfOne
  <2> QED
    BY <1>1, <1>3, <2>1, NextTransfer
<1>4. CASE EmptyResponse(r)
  <2>1. /\ requests' = requests \ {r} /\ GoOn /\ quiet' = TRUE
        /\ UNCHANGED <<memberVars, delivered>>
    BY <1>4 DEF EmptyResponse, Sent, Silence
  <2>2. Honest' /\ phase' = phase
    BY <1>1, <2>1, GoOnHonest
  <2>3. FirstAlone'
    BY <2>1, FirstGone
  <2>4. /\ pending \in 1 .. Cardinality(shared) /\ r.url # All
        /\ Transfers(requests) = requests /\ Cardinality(requests) \in 1 .. pending
    BY <1>1, OneTransfer
  <2>5. /\ IsFiniteSet(requests')
        /\ Cardinality(Transfers(requests')) = Cardinality(Transfers(requests)) - 1
    BY <1>1, <2>1, <2>4, Answering DEF IInv, Counting
  <2>6. Cardinality(Transfers(requests')) < pending
    BY <2>4, <2>5
  <2>7. Cardinality(Transfers(requests')) <= pending
    BY <2>4, <2>5
  <2>8. \A p, q \in requests' : p.url = q.url => p = q
    BY <1>1, <2>1 DEF IInv, Counting
  <2>9. Counting'
    BY <2>1, <2>5, <2>6, <2>7, <2>8 DEF Counting, InProgress, Transfers, memberVars
  <2> QED
    BY <1>1, <2>1, <2>2, <2>3, <2>9, CountedStep
    DEF IInv, TypeOK, FreshUntilResult, memberVars
<1>5. CASE /\ Sent(r, {}) /\ pending' = pending - 1
           /\ delivered' = delivered \cup {r.url}
           /\ UNCHANGED <<error, output, target, quiet>>
           /\ IF pending' = 0 THEN EmitResult ELSE GoOn
  BY <1>1, <1>5, TransferDone DEF IInv, TypeOK
<1> QED
  BY <1>2, <1>3, <1>4, <1>5 DEF FileFetched, ImageUploaded

LEMMA YoutubeStarts ==
  ASSUME IInv, YoutubeStart
  PROVE  IInv'
<1>1. /\ plugin = "youtube" /\ phase = "new"
      /\ UNCHANGED <<plugin, shared, target, delivered>>
  BY DEF YoutubeStart, Starting
<1>2. /\ requests = {} /\ pending = 0 /\ ~ error /\ ~ output /\ ~ quiet
      /\ delivered = {}
  BY <1>1 DEF IInv, FreshUntilResult
<1>3. /\ Transfers({}) = {} /\ IsFiniteSet({}) /\ Cardinality({}) = 0
      /\ Each("location", {}) = {}
  BY FS_EmptySet DEF Transfers, Each
<1>4. CASE /\ error' = TRUE
           /\ UNCHANGED <<output, requests, pending, quiet>> /\ EmitResult
  <2>1. Promise(error', output', delivered')
    BY <1>2, <1>4 DEF Promise
  <2>2. Honest' /\ phase' = "ended"
    BY <1>1, <1>4, <2>1, EmitHonest DEF IInv, TypeOK
  <2>3. FirstAlone' /\ Counting'
    BY <1>2, <1>3, <1>4, <2>2 DEF FirstAlone, Counting, InProgress, Transfers
  <2> QED
    BY <1>1, <1>4, <2>2, <2>3, CountedStep DEF IInv, TypeOK
<1>5. ASSUME requests' = {}, pending' = 0, Silence, UNCHANGED <<error, output>>
      PROVE  IInv'
  <2>1. Honest' /\ phase' = "started" /\ quiet'
    BY <1>1, <1>5, GoOnHonest DEF Silence
  <2>2. FirstAlone' /\ Counting'
    BY <1>3, <1>5, <2>1 DEF FirstAlone, Counting, InProgress, Transfers
  <2> QED
    BY <1>1, <1>2, <1>5, <2>1, <2>2, CountedStep DEF IInv, TypeOK, Silence
<1>6. CASE Silence /\ UNCHANGED <<error, output, requests, pending>>
  BY <1>2, <1>5, <1>6
<1>7. CASE YoutubeUpload
  <2>1. /\ requests' = Each("location", shared) /\ pending' = Cardinality(shared)
        /\ UNCHANGED <<error, output>>
    BY <1>7 DEF YoutubeUpload, Each
  <2>2. CASE shared = {}
    BY <1>3, <1>5, <1>7, <2>1, <2>2 DEF YoutubeUpload
  <2>3. CASE shared # {}
    <3>1. GoOn /\ UNCHANGED quiet
      BY <1>7, <2>3 DEF YoutubeUpload
    <3>2. Honest' /\ phase' = "started"
      BY <1>1, <3>1, GoOnHonest
    <3>3. "location" \in AskedOfOne
      BY <1>1 DEF AskedOfOne
    <3> QED
      BY <1>1, <1>2, <2>1, <2>3, <3>1, <3>2, <3>3, EachStep DEF IInv, TypeOK
  <2> QED
    BY <2>2, <2>3
<1> QED
  BY <1>4, <1>6, <1>7 DEF YoutubeStart

LEMMA YoutubeAnswers ==
  ASSUME IInv, NEW r \in requests,
         LocationCreated(r) \/ VideoFetched(r) \/ VideoUploaded(r)
  PROVE  IInv'
<1>1. /\ plugin = "youtube" /\ phase \in {"started", "ended"}
      /\ UNCHANGED <<plugin, shared>>
  BY DEF LocationCreated, VideoFetched, VideoUploaded, Answered
<1>2. r.what # "album"
  BY <1>1 DEF IInv, Asked, AskedOfAll, AskedOfOne
<1>3. CASE SubjobFailed(r)
  BY <1>1, <1>2, <1>3, TransferFails DEF SubjobFailed
<1>4. ASSUME NEW what \in {"fetch", "upload"}, Sent(r, {Req(what, r.url)}), GoOn,
             UNCHANGED <<memberVars, delivered, quiet>>
      PROVE  IInv'
  <2>1. what \in AskedOfOne
    BY <1>1 DEF AskedOfOne
  <2> QED
    BY <1>1, <1>2, <1>4, <2>1, NextTransfer
<1>5. CASE /\ Sent(r, {}) /\ pending' = pending - 1
           /\ delivered' = delivered \cup {r.url}
           /\ output' = IF pending' = 0 /\ ~ error THEN TRUE ELSE output
           /\ UNCHANGED <<error, target, quiet>>
           /\ IF pending' = 0 THEN EmitResult ELSE GoOn
  BY <1>1, <1>2, <1>5, TransferDone DEF IInv, TypeOK
<1> QED
  BY <1>3, <1>4, <1>5 DEF LocationCreated, VideoFetched, VideoUploaded

-----------------------------------------------------------------------------
(* All of them                                                             *)

LEMMA DeleteStep ==
  ASSUME IInv, DeleteLater
  PROVE  IInv'
<1>1. /\ phase = "ended" /\ phase' = "deleted" /\ requests' = {}
      /\ UNCHANGED <<plugin, shared, error, output, pending, target, delivered,
                     quiet, result>>
  BY DEF DeleteLater, memberVars
<1>2. Honest'
  BY <1>1, CoveredSame DEF IInv, TypeOK, Honest, SuccessDelivers, UrlOfSuccess, Over
<1>3. FirstAlone' /\ Counting'
  <2>1. Transfers({}) = {} /\ IsFiniteSet({}) /\ Cardinality({}) = 0
    BY FS_EmptySet DEF Transfers
  <2>2. plugin \in {"imgur", "youtube"} => pending >= 0
    BY FS_CardinalityType DEF IInv, TypeOK
  <2> QED
    BY <1>1, <2>1, <2>2 DEF FirstAlone, Counting, InProgress, Transfers
<1> QED
  BY <1>1, <1>2, <1>3, CountedStep, UncountedStep DEF IInv, TypeOK

LEMMA InitIInv ==
  ASSUME Init
  PROVE  IInv
<1>1. /\ requests = {} /\ pending = 0 /\ phase = "new" /\ delivered = {}
      /\ IsFiniteSet(shared) /\ ~ quiet /\ ~ error /\ ~ output
  BY DEF Init
<1>2. IsFiniteSet({}) /\ Cardinality({}) = 0 /\ Cardinality(shared) \in Nat
  BY <1>1, FS_EmptySet, FS_CardinalityType
<1>3. TypeOK
  <2>1. result \in [error : BOOLEAN, url : BOOLEAN, missing : SUBSET Urls]
    BY DEF Init, NoResult
  <2>2. pending \in 0 .. Cardinality(shared)
    BY <1>1, <1>2
  <2> QED
    BY <1>1, <2>1, <2>2 DEF Init, TypeOK
<1>4. Counting
  <2>1. InProgress = {}
    BY <1>1 DEF InProgress
  <2> QED
    BY <1>1, <1>2, <2>1 DEF Counting
<1> QED
  BY <1>1, <1>3, <1>4
  DEF IInv, FreshUntilResult, FirstAlone, SuccessDelivers, UrlOfSuccess, Over

LEMMA StartsIInv ==
  ASSUME IInv, Starts
  PROVE  IInv'
BY ImgurStarts, YoutubeStarts, NextcloudStarts, SaveAsStarts, ReviewboardStarts,
   PhabricatorStarts, StartsOfOne DEF Starts

LEMMA AnswersIInv ==
  ASSUME IInv, Answers
  PROVE  IInv'
<1>1. PICK r \in requests :
        \/ r.what = "album" /\ AlbumCreated(r)
        \/ r.what = "fetch" /\ (FileFetched(r) \/ VideoFetched(r))
        \/ r.what = "upload" /\ (ImageUploaded(r) \/ VideoUploaded(r))
        \/ LocationCreated(r)
        \/ r.what = "credentials" /\ GotCredentials(r)
        \/ NextcloudCopied(r) \/ SaveAsCopied(r)
        \/ r.what = "review" /\ ReviewCreated(r)
        \/ UpdateRequestDone(r)
        \/ r.what = "patch" /\ ReviewDone(r)
        \/ DiffCreatedOrUpdated(r)
        \/ ProcessError(r) \/ JobFinished(r) \/ ProcessCrashed(r)
        \/ ClipboardSet(r) \/ TelegramMissing(r)
        \/ EmailLaunched(r) \/ SmsLaunched(r) \/ TelegramLaunched(r)
        \/ KdeconnectShared(r)
  BY DEF Answers, Waiting
<1> QED
  BY <1>1, AlbumCreatedStep, ImgurTransfers, YoutubeAnswers, NextcloudAnswers,
     SaveAsAnswers, ReviewCreatedStep, ReviewboardAnswers, PhabricatorAnswers,
     BluetoothAnswers, AnswersOfOne

LEMMA StepIInv ==
  ASSUME IInv, [Next]_vars
  PROVE  IInv'
<1>1. CASE UNCHANGED vars
  BY <1>1
  DEF vars, memberVars, IInv, TypeOK, Asked, AskedOfAll, AskedOfOne,
    FreshUntilResult, FirstAlone, Counting, InProgress, SuccessDelivers,
    UrlOfSuccess, Over, Covered, HasOutput
<1> QED
  BY <1>1, StartsIInv, AnswersIInv, KillStep, DeleteStep DEF Next

-----------------------------------------------------------------------------
(* Theorems                                                                *)

(* Every state of the jobs satisfies the inductive invariant: each has     *)
(* sent only what its plugin asks for, each url of imgur and youtube has   *)
(* one request at a time, and the counter is exact until a result.         *)
THEOREM Invariant == Spec => []IInv
<1>1. Init => IInv
  BY InitIInv
<1>2. IInv /\ [Next]_vars => IInv'
  BY StepIInv
<1> QED
  BY <1>1, <1>2, PTL DEF Spec

(* The variables of the jobs keep their types.                             *)
THEOREM TypeCorrect == Spec => []TypeOK
<1>1. IInv => TypeOK
  BY DEF IInv
<1> QED
  BY <1>1, Invariant, PTL

(* m_pendingJobs of imgur and youtube is the number of uploads that are in *)
(* progress, for any number of urls and any order of their answers: the    *)
(* last of them ends the job.                                              *)
THEOREM UploadsCounted == Spec => []PendingCounts
<1>1. IInv => PendingCounts
  BY DEF IInv, Counting, InProgress, PendingCounts
<1> QED
  BY <1>1, Invariant, PTL

(* A result without error is one whose urls reached their destination.     *)
THEOREM SuccessIsDelivery == Spec => []SuccessDelivers
<1>1. IInv => SuccessDelivers
  BY DEF IInv
<1> QED
  BY <1>1, Invariant, PTL

(* The output has the url of the share if and only if the share went       *)
(* through.                                                                *)
THEOREM UrlIsSuccess == Spec => []UrlOfSuccess
<1>1. IInv => UrlOfSuccess
  BY DEF IInv
<1> QED
  BY <1>1, Invariant, PTL

-----------------------------------------------------------------------------

(* A step of a job that counts nothing, and that sends something new, does *)
(* not leave the job ended.                                                *)
LEMMA StartsAreFirst ==
  ASSUME IInv, Starts, plugin \notin {"imgur", "youtube"}, phase' = "ended"
  PROVE  requests' \subseteq requests
BY DEF Starts, Starting, ImgurStart, YoutubeStart, NextcloudStart, SaveAsStart,
  ReviewboardStart, PhabricatorStart, BluetoothStart, ClipboardStart, EmailStart,
  KdeconnectStart, SmsStart, TelegramStart, OneRequest, NextcloudUpload, StartArc,
  GoOn, Silence

LEMMA AnswersEndNothingNew ==
  ASSUME IInv, Answers, plugin \notin {"imgur", "youtube"}, phase' = "ended"
  PROVE  requests' \subseteq requests
<1>1. CASE \E r \in Waiting("review") : ReviewCreated(r)
  <2>1. PICK r \in requests : r.what = "review" /\ ReviewCreated(r)
    BY <1>1 DEF Waiting
  <2>2. phase = "started"
    BY <2>1 DEF IInv, FirstAlone
  <2>3. Fail(r)
    BY <2>1, <2>2 DEF ReviewCreated, GoOn
  <2> QED
    BY <2>3 DEF Fail, Sent
<1>2. CASE \E r \in Waiting("credentials") : GotCredentials(r)
  <2>1. PICK r \in requests : r.what = "credentials" /\ GotCredentials(r)
    BY <1>2 DEF Waiting
  <2>2. phase = "started"
    BY <2>1 DEF IInv, FirstAlone
  <2>3. Fail(r)
    BY <2>1, <2>2 DEF GotCredentials, NextcloudUpload, GoOn
  <2> QED
    BY <2>3 DEF Fail, Sent
<1>3. CASE \E r \in requests :
             \/ NextcloudCopied(r) \/ SaveAsCopied(r) \/ UpdateRequestDone(r)
             \/ ReviewDone(r) \/ DiffCreatedOrUpdated(r)
  BY <1>3 DEF NextcloudCopied, SaveAsCopied, FileCopied, UpdateRequestDone,
    ReviewDone, DiffCreatedOrUpdated, Fail, Sent
<1>4. CASE \E r \in requests :
             \/ ProcessError(r) \/ JobFinished(r) \/ ProcessCrashed(r)
             \/ ClipboardSet(r) \/ TelegramMissing(r) \/ EmailLaunched(r)
             \/ SmsLaunched(r) \/ TelegramLaunched(r) \/ KdeconnectShared(r)
  BY <1>4 DEF ProcessError, JobFinished, ProcessCrashed, ClipboardSet,
    TelegramMissing, EmailLaunched, SmsLaunched, TelegramLaunched,
    KdeconnectShared, Done, Fail, Sent
<1> QED
  BY <1>1, <1>2, <1>3, <1>4
  DEF Answers, Waiting, AlbumCreated, FileFetched, VideoFetched, ImageUploaded,
    VideoUploaded, LocationCreated, Answered

(* A job that has failed sends nothing more, with or after its result.     *)
THEOREM NothingAfter == Spec => NothingAfterResult
<1>1. ASSUME IInv, [Next]_vars
      PROVE  [plugin \notin {"imgur", "youtube"} /\ phase' = "ended" =>
                requests' \subseteq requests]_vars
  <2>1. CASE Kill \/ DeleteLater
    BY <2>1 DEF Kill, DeleteLater
  <2> QED
    BY <1>1, <2>1, StartsAreFirst, AnswersEndNothingNew DEF Next
<1> QED
  BY <1>1, Invariant, PTL DEF Spec, NothingAfterResult
=============================================================================
