------------------------- MODULE AlternativesModel -------------------------
(***************************************************************************)
(* Purpose::AlternativesModel (src/src/alternativesmodel.cpp) and the      *)
(* files it reads (src/src/helper.cpp): the plugins offered for a plugin   *)
(* type and the application's data.  The rows are computed when one of the *)
(* three settings changes; D-Bus services, programs and the                *)
(* administrator's list change by themselves and are not watched.          *)
(***************************************************************************)
EXTENDS Constraints, Integers, Sequences, FiniteSets

CONSTANTS
  PluginTypes,  \* [names of types -> [inbound : arguments]], as installed
  Native,       \* native plugins, in the order they are found
  Packages,     \* scripted packages, in the order of the directories
  Inputs,       \* input data the application may set
  Disabled,     \* values of disabledPlugins the application may set
  System        \* what dbus, exec and application constraints can find

NoType == [inbound |-> {}]

(* readPluginType(): an empty object if there is no such file.             *)
ReadPluginType(type) ==
  IF type \in DOMAIN PluginTypes THEN PluginTypes[type] ELSE NoType

(* KPluginMetaData() and what createMetaData() makes of a package.         *)
NoMetaData == [id |-> Blank, file |-> Blank, types |-> {}, constraints |-> {},
               needs |-> {}, display |-> 0]
CreateMetaData(package) ==
  IF package.file = "absent" THEN NoMetaData ELSE package

MetaData(files) ==
  [id : STRING, file : files, types : SUBSET STRING,
   constraints : SUBSET SUBSET [property : STRING, value : STRING],
   needs : SUBSET STRING, display : Int]
AllPlugins == {Native[i] : i \in DOMAIN Native}
                \cup {Packages[i] : i \in DOMAIN Packages}

(* KPluginMetaData::findPlugins() gives no id twice.                       *)
ASSUME PluginsAssumption ==
  /\ Native \in Seq(MetaData({"native"}))
  /\ Packages \in Seq(MetaData({"script", "absent"}))
  /\ \A i, j \in DOMAIN Native : Native[i].id = Native[j].id => i = j

(* The arguments a plugin asks for are none of those its types come with:  *)
(* X-Purpose-Configuration in the json files of src/src/plugins.           *)
ASSUME OwnArguments ==
  \A p \in AllPlugins : \A t \in p.types \cap DOMAIN PluginTypes :
    p.needs \cap PluginTypes[t].inbound = {}

(* The default of disabledPlugins, which can be set as well.               *)
Default == {"saveas"}
ASSUME DefaultAssumption == Default \in Disabled

VARIABLES
  pluginType, inputData, disabledPlugins,  \* the settings
  plugins,      \* m_plugins, the rows
  present,      \* the system: what is there now
  admin,        \* the system: "disabled" in purposerc
  evaluated     \* history: settings and system of the last initializeModel()

systemVars == <<present, admin>>
modelVars == <<pluginType, inputData, disabledPlugins, plugins, evaluated>>

-----------------------------------------------------------------------------
(* Fault: the type is left to the caller.                                  *)
IsPluginAcceptable_AnyType(meta, s) ==
  /\ meta.id \notin s.disabled \cup s.admin
  /\ \A c \in meta.constraints : ConstraintMatches(c, s.input, s.present)

(* Fault: an own setting replaces the administrator's.                     *)
IsPluginAcceptable_OwnList(meta, s) ==
  /\ s.type \in meta.types
  /\ meta.id \notin s.disabled
  /\ \A c \in meta.constraints : ConstraintMatches(c, s.input, s.present)

(* isPluginAcceptable() for settings and system s.                         *)
IsPluginAcceptable(meta, s) ==
  /\ s.type \in meta.types
  /\ meta.id \notin s.disabled \cup s.admin
  /\ \A c \in meta.constraints : ConstraintMatches(c, s.input, s.present)

(* The places kept of a list, in its order.                                *)
InOrder(places) ==
  CHOOSE order \in [1 .. Cardinality(places) -> places] :
    \A i, j \in 1 .. Cardinality(places) : i < j => order[i] < order[j]

Meta(i) == CreateMetaData(Packages[i])

(* findScriptedPackages(): the first acceptable package of each id.        *)
FindScriptedPackages(s) ==
  LET wanted == {i \in DOMAIN Packages : IsPluginAcceptable(Meta(i), s)}
      kept == InOrder({i \in wanted : \A j \in wanted : j < i => Meta(j).id # Meta(i).id})
  IN [k \in DOMAIN kept |-> Meta(kept[k])]

FindPlugins(s) ==
  LET kept == InOrder({i \in DOMAIN Native : IsPluginAcceptable(Native[i], s)})
  IN [k \in DOMAIN kept |-> Native[kept[k]]]

InboundGiven(type, data) == ReadPluginType(type).inbound \subseteq DOMAIN data

(* Fault: data without an inbound argument is not refused.                 *)
NewPlugins_AnyData(s) ==
  IF s.type = Blank \/ DOMAIN s.input = {}
    THEN <<>>
    ELSE FindPlugins(s) \o FindScriptedPackages(s)

(* initializeModel()'s list: empty without a type, without data, or when   *)
(* an argument the type makes mandatory is missing.                        *)
NewPlugins(s) ==
  IF s.type = Blank \/ DOMAIN s.input = {} \/ ~ InboundGiven(s.type, s.input)
    THEN <<>>
    ELSE FindPlugins(s) \o FindScriptedPackages(s)

(* initializeModel(); rows that do not change are not reset.               *)
InitializeModel(type, input, disabled) ==
  LET s == [type |-> type, input |-> input, disabled |-> disabled,
            present |-> present, admin |-> admin]
  IN plugins' = NewPlugins(s) /\ evaluated' = s

-----------------------------------------------------------------------------
ModelInit ==
  /\ pluginType = Blank /\ inputData = <<>> /\ disabledPlugins = Default
  /\ plugins = <<>>
  /\ present \in SUBSET System /\ admin \in Disabled
  /\ evaluated = [type |-> Blank, input |-> <<>>, disabled |-> Default,
                  present |-> present, admin |-> admin]

(* A setter returns early when nothing changes: the rows are not           *)
(* recomputed even if the system has changed.                              *)
SetPluginType(type) ==
  /\ type # pluginType /\ pluginType' = type
  /\ InitializeModel(type, inputData, disabledPlugins)
  /\ UNCHANGED <<inputData, disabledPlugins>>

SetInputData(input) ==
  /\ input # inputData /\ inputData' = input
  /\ InitializeModel(pluginType, input, disabledPlugins)
  /\ UNCHANGED <<pluginType, disabledPlugins>>

(* Fault: the setting is stored and the rows are left.                     *)
SetDisabledPlugins_Later(ids) ==
  /\ ids # disabledPlugins /\ disabledPlugins' = ids
  /\ UNCHANGED <<pluginType, inputData, plugins, evaluated>>

SetDisabledPlugins(ids) ==
  /\ ids # disabledPlugins /\ disabledPlugins' = ids
  /\ InitializeModel(pluginType, inputData, ids)
  /\ UNCHANGED <<pluginType, inputData>>

(* A service comes or goes, a program is installed or removed, or the      *)
(* administrator's list changes.                                           *)
SystemChange ==
  /\ \/ \E x \in System : present' = (present \ {x}) \cup ({x} \ present)
        /\ UNCHANGED admin
     \/ admin' \in Disabled \ {admin} /\ UNCHANGED present
  /\ UNCHANGED modelVars
=============================================================================
