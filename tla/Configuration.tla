--------------------------- MODULE Configuration ---------------------------
(***************************************************************************)
(* Purpose::Configuration (src/src/configuration.cpp): one plugin, the     *)
(* plugin type and the data a job of it will be given.                     *)
(***************************************************************************)
EXTENDS FiniteSets

CONSTANTS
  PageFiles,  \* ids of the native plugins with an installed page
  LocalJobs   \* KDE_PURPOSE_LOCAL_JOBS is set in the environment

ASSUME LocalJobsAssumption == LocalJobs \in BOOLEAN

NewConfiguration(data, type, plugin) ==
  [data |-> data, type |-> type, plugin |-> plugin,
   useSeparateProcess |-> ~ LocalJobs]

IsScript(plugin) == plugin.file = "script"

NeededArguments(c) == c.type.inbound \cup c.plugin.needs

IsReady(c) == NeededArguments(c) \subseteq DOMAIN c.data

(* configSourceCode(): a package's page is not looked for.                 *)
ConfigSourceCode(c) ==
  IF IsScript(c.plugin) THEN "package"
  ELSE IF c.plugin.id \in PageFiles THEN "installed" ELSE "none"

(* Fault: a package is loaded as a library when it was asked for locally.  *)
InternalCreateJob_Library(c) ==
  IF c.useSeparateProcess THEN {"process"} ELSE {"plugin", "null"}

(* internalCreateJob() and createJob(): a script is always a process, a    *)
(* library only if asked for; one that does not load gives a null job.     *)
InternalCreateJob(c) ==
  IF c.useSeparateProcess \/ IsScript(c.plugin)
    THEN {"process"} ELSE {"plugin", "null"}

(* Fault: the guard of createJob() is left to the callers.                 *)
CreateJob_Unguarded(c) == InternalCreateJob(c)

(* createJob(): what it can return.                                        *)
CreateJob(c) == IF IsReady(c) THEN InternalCreateJob(c) ELSE {"null"}
=============================================================================
