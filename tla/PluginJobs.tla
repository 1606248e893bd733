----------------------------- MODULE PluginJobs -----------------------------
(***************************************************************************)
(* The jobs of all the plugins, one in each behaviour: what the promise of *)
(* Purpose::Job and of its plugin type (src/src/plugins/                   *)
(* ExportPluginType.json: the output has a "url") comes to.                *)
(***************************************************************************)
EXTENDS ImgurJob, YoutubeJob, NextcloudJob, SaveAsJob, ReviewJobs, SmallJobs

(* Every answer that a job may be waiting for.                             *)
Answers ==
  \/ \E r \in Waiting("album") : AlbumCreated(r)
  \/ \E r \in Waiting("fetch") : FileFetched(r) \/ VideoFetched(r)
  \/ \E r \in Waiting("upload") : ImageUploaded(r) \/ VideoUploaded(r)
  \/ \E r \in Waiting("location") : LocationCreated(r)
  \/ \E r \in Waiting("credentials") : GotCredentials(r)
  \/ \E r \in Waiting("copy") : NextcloudCopied(r) \/ SaveAsCopied(r)
  \/ \E r \in Waiting("review") : ReviewCreated(r)
  \/ \E r \in Waiting("metadata") : UpdateRequestDone(r)
  \/ \E r \in Waiting("patch") : ReviewDone(r)
  \/ \E r \in Waiting("arc") : DiffCreatedOrUpdated(r)
  \/ \E r \in Waiting("process") :
       ProcessError(r) \/ JobFinished(r) \/ ProcessCrashed(r)
  \/ \E r \in Waiting("timer") : ClipboardSet(r) \/ TelegramMissing(r)
  \/ \E r \in Waiting("launch") :
       EmailLaunched(r) \/ SmsLaunched(r) \/ TelegramLaunched(r)
  \/ \E r \in Waiting("call") : KdeconnectShared(r)

Starts ==
  \/ ImgurStart \/ YoutubeStart \/ NextcloudStart \/ SaveAsStart
  \/ ReviewboardStart \/ PhabricatorStart
  \/ BluetoothStart \/ ClipboardStart \/ EmailStart \/ KdeconnectStart
  \/ SmsStart \/ TelegramStart

Next == Starts \/ Answers \/ Kill \/ DeleteLater

Spec == Init /\ [][Next]_vars

(* Every transfer, process, timer and D-Bus call ends, in some way.        *)
FairSpec == Spec /\ WF_vars(Answers)

---------------------------------------------------------------------------

Over == phase \in {"ended", "deleted"}

(* The uploads that m_pendingJobs counts are the ones in progress, so that *)
(* the last of them ends the job, in whatever order they are answered.     *)
PendingCounts ==
  plugin \in {"imgur", "youtube"} /\ phase = "started" /\ ~ quiet =>
    pending = Cardinality({r \in requests : r.url # All})

(* What a result without error stands for in each plugin.  The launcher of *)
(* sms is not asked, bluetooth leaves out what is not local, the review    *)
(* plugins send one patch, and of several copies saveas reports the first. *)
Covered ==
  CASE plugin = "sms" -> {}
    [] plugin = "bluetooth" -> shared \cap Local
    [] plugin = "saveas" -> IF shared \cap DataUrls = {} THEN shared ELSE {}
    [] plugin \in {"reviewboard", "phabricator"} ->
         IF Cardinality(shared) = 1 THEN shared \cap Local ELSE {}
    [] OTHER -> shared

(* A result without error is the end of a share that reached its           *)
(* destination: every url that the plugin answers for got there.           *)
SuccessDelivers ==
  Over /\ ~ result.error => Covered \cap result.missing = {}

(* The plugins that give an output: the others (imgur, nextcloud,          *)
(* clipboard, email, sms) never set the url that their type announces.     *)
HasOutput == plugin \in {"youtube", "saveas", "reviewboard", "phabricator",
                         "bluetooth", "kdeconnect", "telegram"}

(* The result has the url of the share if and only if the share is through *)
(* and without error; telegram and bluetooth set an empty one either way.  *)
UrlOfSuccess ==
  /\ Over /\ HasOutput /\ ~ result.error /\ Covered = shared => result.url
  /\ Over /\ plugin \notin {"telegram", "bluetooth"} =>
       (result.url => ~ result.error)

(* What a job may be waiting for: requests about all of the urls, and      *)
(* requests about one of them.                                             *)
AskedOfAll ==
  CASE plugin = "imgur" -> {"album"}
    [] plugin = "nextcloud" -> {"credentials", "copy"}
    [] plugin = "saveas" -> {"copy"}
    [] plugin = "reviewboard" -> {"review", "metadata"}
    [] plugin = "bluetooth" -> {"process"}
    [] plugin = "clipboard" -> {"timer"}
    [] plugin \in {"email", "sms"} -> {"launch"}
    [] plugin = "kdeconnect" -> {"call"}
    [] plugin = "telegram" -> {"launch", "timer"}
    [] OTHER -> {}

AskedOfOne ==
  CASE plugin = "imgur" -> {"fetch", "upload"}
    [] plugin = "youtube" -> {"location", "fetch", "upload"}
    [] plugin = "saveas" -> IF shared \cap DataUrls = {} THEN {} ELSE {"copy"}
    [] plugin = "reviewboard" -> {"patch"}
    [] plugin = "phabricator" -> {"arc"}
    [] OTHER -> {}

Asked ==
  {r \in Request :
     \/ r.url = All /\ r.what \in AskedOfAll
     \/ /\ r.url \in shared /\ r.what \in AskedOfOne
        /\ r.what = "arc" => r.url \in Local}

(* Nothing is said before the result, and nothing is sent before start().  *)
FreshUntilResult ==
  /\ phase \in {"new", "started"} => ~ error /\ ~ output
  /\ phase = "new" => requests = {} /\ pending = 0 /\ delivered = {} /\ ~ quiet

(* What has to be answered before anything else is sent is alone.          *)
FirstAlone ==
  \A r \in requests : r.what \in {"album", "review", "credentials"} =>
    /\ requests = {r} /\ phase = "started"
    /\ pending = 0 /\ delivered = {} /\ ~ quiet

InProgress == {r \in requests : r.url # All}

(* Each url has one request at a time.  A transfer that fails is still     *)
(* counted by imgur, so that the counter may be too high after a result or *)
(* a silence but never too low, and what is neither in progress nor        *)
(* delivered is nothing as long as it is exact.                            *)
Counting ==
  plugin \in {"imgur", "youtube"} =>
    /\ IsFiniteSet(requests)
    /\ \A q, r \in requests : q.url = r.url => q = r
    /\ Cardinality(InProgress) <= pending
    /\ phase = "started" /\ quiet =>
         requests = {} \/ Cardinality(InProgress) < pending
    /\ phase = "started" /\ ~ quiet =>
         /\ pending = Cardinality(InProgress)
         /\ \/ requests = {Req("album", All)}
            \/ shared \subseteq delivered \cup {r.url : r \in requests}

(* The inductive invariant of the proofs.                                  *)
IInv ==
  /\ TypeOK /\ IsFiniteSet(shared) /\ requests \subseteq Asked
  /\ FreshUntilResult /\ FirstAlone /\ Counting
  /\ SuccessDelivers /\ UrlOfSuccess

(* A job that has failed sends nothing more, with or after its result: no  *)
(* patch without a review, no copy without credentials.  (The fetches of   *)
(* imgur and youtube that are under way go on to upload.)                  *)
NothingAfterResult ==
  [][plugin \notin {"imgur", "youtube"} /\ phase' = "ended" =>
       requests' \subseteq requests]_vars

(* Once started, a job comes to its result, unless a handler of it gave up *)
(* in silence: an account that cannot be read, an arc that is missing, an  *)
(* answer of imgur with no data.                                           *)
ComesToResult == phase = "started" ~> Over \/ quiet

(* The plugins that never give up in silence.                              *)
Reliable == plugin \notin {"imgur", "youtube", "nextcloud", "phabricator"}

(* Their jobs always come to a result.                                     *)
ReliableComesToResult == Reliable /\ phase = "started" ~> Over

(* job.h:32: "when the job emits finished, we'll know it's over", and      *)
(* menu.h:65: "error will be 0 if the execution was successful".  A result *)
(* without error says that everything has been shared.                     *)
SuccessMeansShared == Over /\ ~ result.error => result.missing = {}
=============================================================================
