----------------------------- MODULE SaveAsJob -----------------------------
(***************************************************************************)
(* SaveAsShareJob (src/src/plugins/saveas/saveasplugin.cpp): one copy of   *)
(* all the urls, or, when some of them are data: urls, one for each.       *)
(***************************************************************************)
EXTENDS PluginJob

(* Whether the data: urls, which have no name, get one copy each; a single *)
(* one whose destination is a file does not.                               *)
Separate(toFile) ==
  shared \cap DataUrls # {} /\ ~ (Cardinality(shared) = 1 /\ toFile)

SaveAsStart ==
  /\ Starting("saveas")
  /\ UNCHANGED <<output, pending, target, delivered, quiet>>
  /\ \/ /\ shared = {} /\ error' = TRUE /\ EmitResult /\ UNCHANGED requests
     \/ /\ shared # {} /\ GoOn /\ UNCHANGED error
        /\ \E toFile \in BOOLEAN :
             requests' = IF Separate(toFile)
                           THEN {Req("copy", u) : u \in shared}
                           ELSE {Req("copy", All)}

Copies(r) == IF r.url = All THEN shared ELSE {r.url}

(* Fault: the result is left to the last copy, if that one succeeds.       *)
FileCopied_Last(r, ok) ==
  /\ Sent(r, {}) /\ error' = (error \/ ~ ok)
  /\ delivered' = IF ok THEN delivered \cup Copies(r) ELSE delivered
  /\ output' = (output \/ (ok /\ requests' = {}))
  /\ UNCHANGED <<pending, target, quiet>>
  /\ IF output' THEN EmitResult ELSE GoOn

(* fileCopied(): the result is that of the first copy that ends; copies to *)
(* the same destination go on.                                             *)
FileCopied(r, ok) ==
  /\ Sent(r, {}) /\ error' = (error \/ ~ ok)
  /\ delivered' = IF ok THEN delivered \cup Copies(r) ELSE delivered
  /\ output' = (output \/ (ok /\ requests' = {}))
  /\ EmitResult /\ UNCHANGED <<pending, target, quiet>>

SaveAsCopied(r) ==
  Answered("saveas", r) /\ \E ok \in BOOLEAN : FileCopied(r, ok)

(* kill(): doKill() kills the copies while fileCopied() takes each out of  *)
(* the set it iterates over, so that some may be passed over.              *)
Kill ==
  /\ plugin = "saveas" /\ phase = "started"
  /\ UNCHANGED <<plugin, shared>>
  /\ \E killed \in SUBSET requests \ {{}} : requests' = requests \ killed
  /\ error' = TRUE
  /\ UNCHANGED <<output, pending, target, delivered, quiet>>
  /\ EmitResult
=============================================================================
