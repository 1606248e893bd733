-------------------------------- MODULE Menu --------------------------------
(***************************************************************************)
(* Purpose::Menu (src/src/widgets/menu.cpp) as a list of actions over its  *)
(* AlternativesModel, and the Configuration that triggering one makes.     *)
(* What happens to that configuration in the window is module JobDialog.   *)
(* ShareFileItemAction (src/src/fileitemactionplugin) is one client.       *)
(***************************************************************************)
EXTENDS AlternativesModel, Configuration

VARIABLES
  actions,        \* the menu's, each with "pluginId" and "row"
  behind,         \* history: type or disabled list set since reload()
  configuration,  \* of the last trigger, None before it
  choice,         \* history: the action triggered, and what it met
  job             \* what createJob() last returned for the configuration

menuVars == <<actions, behind, configuration, choice, job>>
vars == <<systemVars, modelVars, menuVars>>

None == [data |-> <<>>, type |-> NoType, plugin |-> NoMetaData,
         useSeparateProcess |-> FALSE]
NoChoice == [id |-> Blank, fresh |-> FALSE, undisturbed |-> FALSE,
             offered |-> FALSE, made |-> FALSE]

Init == /\ ModelInit
        /\ actions = <<>> /\ behind = FALSE
        /\ configuration = None /\ choice = NoChoice /\ job = "none"

-----------------------------------------------------------------------------
Sorted(rows, order) ==
  \A i, j \in DOMAIN rows :
    i < j => rows[order[i]].display <= rows[order[j]].display

Orders(rows) ==
  {order \in [DOMAIN rows -> DOMAIN rows] :
     Sorted(rows, order) /\ \A i, j \in DOMAIN rows : order[i] = order[j] => i = j}

(* Fault: the row is the place in the menu.                                *)
Actions_Position(rows, order) ==
  [i \in DOMAIN rows |-> [pluginId |-> rows[order[i]].id, row |-> i]]

Actions(rows, order) ==
  [i \in DOMAIN rows |-> [pluginId |-> rows[order[i]].id, row |-> order[i]]]

(* reload(), for the rows the model has by then; actions that read alike   *)
(* come in any order.                                                      *)
Reload == /\ \E order \in Orders(plugins') : actions' = Actions(plugins', order)
          /\ behind' = FALSE

KeepConfiguration == UNCHANGED <<configuration, choice, job>>

(* Fault: the menu is connected to a signal sent before the rows change.   *)
MenuInputData_Early(input) ==
  /\ SetInputData(input)
  /\ \E order \in Orders(plugins) : actions' = Actions(plugins, order)
  /\ behind' = FALSE

(* setInputData(): the only setter whose signal reloads the menu.          *)
MenuInputData(input) == SetInputData(input) /\ Reload

InputDataChange ==
  /\ \E input \in Inputs : MenuInputData(input)
  /\ UNCHANGED systemVars /\ KeepConfiguration

TypeChange ==
  /\ \E type \in DOMAIN PluginTypes \cup {Blank} : SetPluginType(type)
  /\ behind' = TRUE /\ UNCHANGED <<actions, systemVars>> /\ KeepConfiguration

DisabledChange ==
  /\ \E ids \in Disabled : SetDisabledPlugins(ids)
  /\ behind' = TRUE /\ UNCHANGED <<actions, systemVars>> /\ KeepConfiguration

(* Menu::reload() called by the application.                               *)
ForcedReload == UNCHANGED <<modelVars, systemVars>> /\ Reload /\ KeepConfiguration

(* ShareFileItemAction::actions(): input data for the files, then a reload *)
(* for the case that the input was the same.                               *)
FileItemActions ==
  \E input \in Inputs :
    /\ \/ SetInputData(input)
       \/ input = inputData /\ UNCHANGED modelVars
    /\ Reload
    /\ UNCHANGED systemVars /\ KeepConfiguration

SystemChanges == SystemChange /\ UNCHANGED menuVars

(* A handler of aboutToShare() may set the input data, which resets the    *)
(* model and reloads the menu, or leave all as it is.                      *)
AboutToShare ==
  \/ \E input \in Inputs : MenuInputData(input)
  \/ UNCHANGED <<modelVars, actions, behind>>

(* configureJob(), with the model as it is after aboutToShare.             *)
ConfigureJob(row) ==
  NewConfiguration(inputData', ReadPluginType(pluginType'), plugins'[row])

(* JobController::configure(): jobs run in the application.                *)
Configure(row) ==
  configuration' = [ConfigureJob(row) EXCEPT !.useSeparateProcess = FALSE]

(* The triggered action: its row is read, aboutToShare is emitted, and the *)
(* row then used.  Beyond the rows, the access is undefined: "unmade".     *)
Trigger(i) ==
  LET row == actions[i].row
  IN /\ AboutToShare
     /\ \/ row \in DOMAIN plugins' /\ Configure(row)
        \/ row \notin DOMAIN plugins' /\ configuration' = None
     /\ choice' = [id |-> actions[i].pluginId,
                   fresh |-> ~ behind, undisturbed |-> plugins' = plugins,
                   offered |-> \E r \in DOMAIN plugins' :
                                 plugins'[r].id = actions[i].pluginId,
                   made |-> row \in DOMAIN plugins']
     /\ job' = "none"
     /\ UNCHANGED systemVars

(* The page of the plugin, if it has one, gives or takes back arguments.   *)
EditConfiguration ==
  /\ choice.made /\ job = "none"
  /\ ConfigSourceCode(configuration) # "none"
  /\ \E key \in configuration.plugin.needs :
       configuration' =
         [configuration EXCEPT !.data =
            [k \in (DOMAIN @ \cup {key}) \ ({key} \cap DOMAIN @) |->
               IF k \in DOMAIN @ THEN @[k] ELSE "given"]]
  /\ UNCHANGED <<systemVars, modelVars, actions, behind, choice, job>>

(* The application may have the job run in a process after all.            *)
SetUseSeparateProcess ==
  /\ choice.made /\ job = "none"
  /\ \E use \in BOOLEAN :
       configuration' = [configuration EXCEPT !.useSeparateProcess = use]
  /\ UNCHANGED <<systemVars, modelVars, actions, behind, choice, job>>

(* createJob(), asked by the controller or the application at any time.    *)
CreateJobs ==
  /\ choice.made /\ job = "none"
  /\ job' \in CreateJob(configuration)
  /\ UNCHANGED <<systemVars, modelVars, actions, behind, configuration, choice>>

(* Bound: one share is followed to its job; a second trigger would read    *)
(* nothing of the first.  Nothing follows an access beyond the rows.       *)
Choosing == choice = NoChoice

Next ==
  \/ /\ Choosing
     /\ \/ InputDataChange \/ TypeChange \/ DisabledChange \/ SystemChanges
        \/ ForcedReload \/ FileItemActions
        \/ \E i \in DOMAIN actions : Trigger(i)
  \/ EditConfiguration \/ SetUseSeparateProcess \/ CreateJobs

Spec == Init /\ [][Next]_vars

-----------------------------------------------------------------------------
(* Properties                                                              *)

Rows == {plugins[i] : i \in DOMAIN plugins}

TypeOK ==
  /\ pluginType \in DOMAIN PluginTypes \cup {Blank}
  /\ inputData \in Inputs \cup {<<>>} /\ disabledPlugins \in Disabled
  /\ present \subseteq System /\ admin \in Disabled
  /\ plugins \in Seq(AllPlugins)
  /\ actions \in Seq([pluginId : {p.id : p \in AllPlugins}, row : Nat])
  /\ behind \in BOOLEAN
  /\ choice \in [id : {p.id : p \in AllPlugins} \cup {Blank}, fresh : BOOLEAN,
                 undisturbed : BOOLEAN, offered : BOOLEAN, made : BOOLEAN]
  /\ DOMAIN configuration = DOMAIN None
  /\ configuration.plugin \in AllPlugins \cup {NoMetaData}
  /\ job \in {"none", "null", "process", "plugin"}

(* No setter leaves the rows behind its setting, although each returns     *)
(* early when its own value does not change and none is told of the        *)
(* changes of the system (alternativesmodel.cpp:84-131).                   *)
RowsFollowSettings ==
  /\ evaluated.type = pluginType /\ evaluated.input = inputData
  /\ evaluated.disabled = disabledPlugins
  /\ DOMAIN inputData = {} \/ pluginType = Blank => plugins = <<>>

(* Who must and who must not be offered, by id, for the system as it was   *)
(* looked at.  README.md:57-71 and alternativesmodeltest.cpp: admin        *)
(* settings have precedence, an array is an OR, a constraint on the mime   *)
(* type hides nothing from data without one, and an id appears once among  *)
(* the packages whatever a broken copy of it holds.                        *)
Hidden(p, e) ==
  \/ e.type \notin p.types \/ p.id \in e.admin \/ p.id \in e.disabled
  \/ p.file = "absent"
  \/ \E c \in p.constraints : \A o \in c :
       \/ o = Malformed
       \/ o.property \in {"dbus", "exec", "application"} /\ o \notin e.present
       \/ /\ o.property = "mimeType" /\ "mimeType" \in DOMAIN e.input
          /\ ~ MimeTypeMatch(o.value, e.input["mimeType"])
       \/ /\ o.property \notin {"dbus", "exec", "application", "mimeType"}
          /\ o.property \notin DOMAIN e.input \/ e.input[o.property] # o.value

OfferedExactly ==
  LET e == evaluated
      Offered == {p \in AllPlugins : ~ Hidden(p, e)}
      possible == /\ e.type # Blank /\ DOMAIN e.input # {}
                  /\ ReadPluginType(e.type).inbound \subseteq DOMAIN e.input
  IN /\ Rows \subseteq Offered
     /\ {p.id : p \in Rows} = IF possible THEN {p.id : p \in Offered} ELSE {}
     /\ \A i, j \in DOMAIN plugins :
          plugins[i].id = plugins[j].id /\ plugins[i].file = plugins[j].file => i = j

(* Unless the type or the disabled list was set since the last reload, the *)
(* menu has one action for each row, which knows its row and plugin, in    *)
(* the order of what is displayed (menu.cpp:81-109).                       *)
MenuShowsRows ==
  ~ behind =>
    /\ Len(actions) = Len(plugins)
    /\ \A r \in DOMAIN plugins : \E i \in DOMAIN actions :
         actions[i] = [pluginId |-> plugins[r].id, row |-> r]
    /\ \A i \in DOMAIN actions : i > 1 =>
         plugins[actions[i - 1].row].display <= plugins[actions[i].row].display

(* The plugin configured is the one the user chose, when the menu was not  *)
(* behind and no handler of aboutToShare changed the rows.                 *)
ChosenPlugin ==
  choice.fresh /\ choice.undisturbed =>
    choice.made /\ configuration.plugin.id = choice.id

(* README.md:52-55, :93-95: "having the inbound arguments as a given".  A  *)
(* configuration from the model has all of them, for a type its plugin     *)
(* tackles, whatever was set between the menu's reload and its trigger: at *)
(* most the plugin's own arguments are missing.                            *)
InboundAsGiven ==
  choice.made =>
    /\ configuration.type.inbound \subseteq DOMAIN configuration.data
    /\ \E t \in configuration.plugin.types :
         ReadPluginType(t) = configuration.type

(* job.h:35: a job is created only when all its data has been filled in; a *)
(* script's job is never a library's, wherever it was asked to run.        *)
JobHasItsData ==
  job \in {"process", "plugin"} =>
    /\ configuration.plugin.needs \subseteq DOMAIN configuration.data
    /\ configuration.type.inbound \subseteq DOMAIN configuration.data
    /\ job = "plugin" => configuration.plugin.file = "native"

(* What these rest on: the rows are those of the last evaluation, the menu *)
(* shows them in one of their orders, and what was chosen is one of the    *)
(* plugins there are.                                                      *)
IInv ==
  /\ TypeOK /\ RowsFollowSettings /\ plugins = NewPlugins(evaluated)
  /\ ~ behind => \E order \in Orders(plugins) : actions = Actions(plugins, order)
  /\ ChosenPlugin /\ InboundAsGiven /\ JobHasItsData
  /\ choice.made => configuration.plugin \in AllPlugins /\ configuration.plugin.file # "absent"

(* menu.h:53-59: aboutToShare "can be used to do adjustments to the        *)
(* configuration, such as setting a new Url": the plugin the user chose    *)
(* in an up to date menu is the one that is configured, as long as it is   *)
(* still offered for the adjusted data.                                    *)
TriggeredPlugin ==
  choice.fresh /\ choice.offered =>
    choice.made /\ configuration.plugin.id = choice.id
=============================================================================
