-------------------------------- MODULE Job --------------------------------
(***************************************************************************)
(* What a client of Purpose::Job (src/src/job.h) may rely on when the      *)
(* plugin's own job runs in another process: the client sees the job start,*)
(* change its properties and finish once; it finishes only when the plugin *)
(* has stopped working, and if nothing the plugin reported went missing,   *)
(* the properties it finishes with are the plugin's.                       *)
(***************************************************************************)

CONSTANTS PropMap,   \* the values the properties of a job can have together
          InitProps  \* the values a job is constructed with

VARIABLES phase,     \* "idle", "running", "done", "gone", or "crashed"
          props,     \* the properties the client sees
          remote,    \* the properties of the plugin's job
          ended,     \* the plugin does no more work
          complete   \* everything the plugin reported was heard

vars == <<phase, props, remote, ended, complete>>

TypeInv == /\ phase \in {"idle", "running", "done", "gone", "crashed"}
           /\ props \in PropMap /\ remote \in PropMap
           /\ ended \in BOOLEAN /\ complete \in BOOLEAN

Init == /\ phase = "idle" /\ props = InitProps /\ remote = InitProps
        /\ ended = FALSE /\ complete = TRUE

(* Job::start().                                                           *)
Start == /\ phase = "idle" /\ phase' = "running"
         /\ UNCHANGED <<props, remote, ended, complete>>

(* The plugin works on, heard or unheard.                                  *)
Work == /\ phase = "running" /\ ~ended
        /\ remote' \in PropMap
        /\ complete' \in {complete, FALSE}
        /\ UNCHANGED <<phase, props, ended>>

(* The plugin stops, its last words perhaps unheard.                       *)
End == /\ ~ended /\ ended' = TRUE
       /\ complete' \in {complete, FALSE}
       /\ UNCHANGED <<phase, props, remote>>

(* The client sees a change: only between start and result.                *)
Report == /\ phase = "running"
          /\ props' \in PropMap
          /\ UNCHANGED <<phase, remote, ended, complete>>

(* result is emitted.                                                      *)
Finish == /\ phase = "running" /\ phase' = "done"
          /\ ended
          /\ complete => props = remote
          /\ UNCHANGED <<props, remote, ended, complete>>

(* The job is deleted, with or without a result.                           *)
Delete == /\ phase # "crashed" /\ phase' = "gone"
          /\ UNCHANGED <<props, remote, ended, complete>>

(* The client's process dies with it.                                      *)
Abort == /\ phase = "running" /\ phase' = "crashed"
         /\ ended' \in {ended, TRUE}
         /\ complete' \in {complete, FALSE}
         /\ UNCHANGED <<props, remote>>

Next == Start \/ Work \/ End \/ Report \/ Finish \/ Delete \/ Abort

Spec == Init /\ [][Next]_vars
=============================================================================
