----------------------------- MODULE PluginJob -----------------------------
(***************************************************************************)
(* What the jobs of the plugins (src/src/plugins) have in common: a        *)
(* Purpose::Job that sends requests (transfers, D-Bus calls, processes,    *)
(* timers) and handles their answers until it emits its result, and is     *)
(* deleted some time later.  Its plugin's module has one action for each   *)
(* of its handlers.                                                        *)
(***************************************************************************)
EXTENDS Integers, FiniteSets

CONSTANTS
  Urls,      \* what can be shared
  Local,     \* those that are local files
  DataUrls,  \* those of the data: scheme
  All,       \* stands for all of them in a request
  Plugins    \* the plugins looked at

ASSUME UrlsAssumption == /\ Local \subseteq Urls /\ DataUrls \subseteq Urls
                         /\ Local \cap DataUrls = {} /\ All \notin Urls

VARIABLES
  plugin, shared,  \* whose job this is, and the urls in its data
  phase,           \* "new", "started", "ended" (after the result), "deleted"
  error, output,   \* error() # 0; the output has a url
  requests,        \* sent and not answered
  pending,         \* m_pendingJobs (imgur, youtube)
  target,          \* where an upload goes: album, review, revision
  delivered,       \* history: the urls that reached their destination
  quiet,           \* history: a handler gave up with no result
  result           \* history: what the result said, and what was missing then

memberVars == <<error, output, pending, target>>
vars == <<plugin, shared, phase, memberVars, requests, delivered, quiet, result>>

Request == [what : {"album", "fetch", "upload", "location", "credentials",
                    "copy", "process", "timer", "call", "launch",
                    "review", "metadata", "patch", "arc"},
            url : Urls \cup {All}]
Req(what, u) == [what |-> what, url |-> u]
NoResult == [error |-> FALSE, url |-> FALSE, missing |-> {}]

TypeOK ==
  /\ plugin \in Plugins /\ shared \subseteq Urls
  /\ phase \in {"new", "started", "ended", "deleted"}
  /\ error \in BOOLEAN /\ output \in BOOLEAN /\ quiet \in BOOLEAN
  /\ requests \subseteq Request /\ delivered \subseteq shared
  /\ pending \in 0 .. Cardinality(shared)
  /\ target \in {"none", "given", "made"}
  /\ result \in [error : BOOLEAN, url : BOOLEAN, missing : SUBSET Urls]

(* The urls are an array in the data.  The review plugins read the first   *)
(* of them without looking whether there is one: data with none is         *)
(* undefined for them.                                                     *)
Init ==
  /\ plugin \in Plugins /\ shared \in SUBSET Urls /\ IsFiniteSet(shared)
  /\ plugin \in {"reviewboard", "phabricator"} => shared # {}
  /\ phase = "new" /\ error = FALSE /\ output = FALSE
  /\ requests = {} /\ pending = 0 /\ target = "none"
  /\ delivered = {} /\ quiet = FALSE /\ result = NoResult

(* KJob::emitResult(): nothing the second time.                            *)
EmitResult ==
  IF phase \in {"new", "started"}
    THEN /\ phase' = "ended"
         /\ result' = [error |-> error', url |-> output',
                       missing |-> shared \ delivered']
    ELSE UNCHANGED <<phase, result>>

GoOn == /\ phase' = IF phase = "new" THEN "started" ELSE phase
        /\ UNCHANGED result

(* A return with neither a result nor a request that would lead to one.    *)
Silence == GoOn /\ quiet' = TRUE

Starting(p) == plugin = p /\ phase = "new" /\ UNCHANGED <<plugin, shared>>

(* The answer to request r reaches its handler, unless the job is gone.    *)
Answered(p, r) ==
  plugin = p /\ phase \in {"started", "ended"} /\ UNCHANGED <<plugin, shared>>

Sent(r, new) == requests' = (requests \ {r}) \cup new
Waiting(what) == {r \in requests : r.what = what}

(* A handler that sets the error and ends.                                 *)
Fail(r) == /\ error' = TRUE /\ Sent(r, {})
           /\ UNCHANGED <<output, pending, target, delivered, quiet>>
           /\ EmitResult

(* Job deletion, from the event loop after the result.  Handlers of what   *)
(* is still outstanding are disconnected.                                  *)
DeleteLater ==
  /\ phase = "ended" /\ phase' = "deleted" /\ requests' = {}
  /\ UNCHANGED <<plugin, shared, memberVars, delivered, quiet, result>>
=============================================================================
