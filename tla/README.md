# A TLA+ model of Purpose

Purpose offers an application actions ("share", "export") that plugins carry
out. The application hands a type and input data to a model of the fitting
plugins, the user picks one, fills in what the plugin still needs, and a job
does the work, in the application's process or in one of its own. The modules
here model the parts that carry this out, TLC checks them on small instances,
and TLAPS proves every invariant, action property and refinement that the runs
check for every instance of their constants.

All line numbers are those of `src/src/...`.

## 1. Inventory

| Component | State | Operations | What is hard |
|---|---|---|---|
| **ProcessJob** (`externalprocess/processjob.cpp`) | process, server, accepted socket, the job's properties | constructor, start, writeSocket, readSocket, processStateChanged, destructor | two processes; exit overtaking data; destructor re-entering a handler; null socket |
| **purposeprocess** (`externalprocess/purposeprocess_main.cpp`) | socket, payload read so far, the plugin's job | constructor of Communication (blocking handshake), propertyChanged, send | blocking reads against the host's event loop; timeouts; a job that ends inside `start()`; unsent lines at exit |
| **Job** (`job.cpp`, KJob) | data, output, error, percent | start, setters, emitResult | the contract all jobs owe their clients |
| **Configuration** (`configuration.cpp`) | input data, plugin | setData, isReady, neededArguments, createJob, configSourceCode | readiness checked in one place and used in another |
| **JobController** (`jobcontroller.cpp`) | state, current configuration, current job | configure, startJob, cancel, handler of `result` | results of jobs that are no longer current; a result before `Running` |
| **JobView** (`quick/JobView.qml`) | the page loaded | start, Loader, page edits, Send, Cancel | a page that outlives its configuration |
| **Menu and JobDialog** (`widgets/menu.cpp`, `JobDialog.qml`) | one window for all triggers | trigger, closing, handler of the state | triggers, closings and results in any order |
| **AlternativesModel** (`alternativesmodel.cpp`) | type, input data, disabled plugins, rows | setters, initializeModel, configureJob, data | rows used after a reset; row off by one |
| **Constraints** (`constrainthelpers.cpp`, `helper.cpp`) | none | matching of mime types and constraints | boundary inputs |
| **AlternativesView** (`quick/AlternativesView.qml`) | stack of JobViews | createJob, reset, finish | views removed while their job runs |
| **Plugins** (`plugins/*`) | requests pending, results so far | start, answers | requests that fail in part; no result at all; more than one |
| **DevicesModel, AccountsModel, review lists** | rows | asynchronous loads, signals | answers out of order |

How they interact: the Menu owns an AlternativesModel and, once it is
triggered, one JobDialog. The dialog's JobView owns a JobController, which
obtains a Configuration from the model (`configureJob`) and a Job from the
Configuration (`createJob`). A Job is a plugin's own or a ProcessJob, which
drives a purposeprocess that again makes a Configuration and the plugin's own
Job. Everything inside a process is a synchronous Qt signal or a call; between
the two processes there is a local socket and the process state.

Two more views of the same: AlternativesView stacks a JobView per share where
the Menu has one for all of them, and ShareFileItemAction is a client of the
Menu. On the page of a plugin, list models ask the services which devices,
accounts, reviews or revisions there are.

`PROJECT.json` lists the components with their status, and every hazard at its
line with the properties that cover it.

## 2. Modules

### Job
The abstract specification: what a client may rely on when the plugin's job
runs elsewhere. Properties change only between start and result; there is one
result, after the plugin has stopped; if nothing that the plugin said went
missing, the properties the client ends with are the plugin's. A host that
crashes takes the job along.

### ProcessJob
Host and process, one action per handler or per turn of a waiting loop, in any
interleaving.

| Variables | In the code |
|---|---|
| `job`, `ppc` | life of the ProcessJob; whether the host is in its event loop or in the drain loop of processStateChanged (from the event loop or from the destructor); `crashed` is the null `m_localSocket` |
| `proc` | `QProcess::state()` as the host has seen it |
| `mirror` / `child` | the properties of the host's and of the plugin's job |
| `conn`, `delivered`, `stream`, `flushed` | the socket: accepted or not; units of the transmission that have arrived; lines the process wrote; how many of them left its buffer |
| `cpc`, `pos`, `cjob` | the process: where in the handshake, what it has read, the plugin's job |
| `program`, `asserts` | purposeprocess or a packaged plugin's executable; with or without assertions |
| `exitCode`, `lost` | exit code; history of why a report was never sent |

The transmission is counted in units, the first of which is the size line. A
packaged plugin's executable is not in the repository: it connects, writes
lines (also senseless ones) and exits as it likes. `Crash` ends the process
anywhere. Reports lost before the connection of the signals or in the write
buffer at exit are part of the model, recorded in `lost`.

### JobController, JobView, JobDialog
`JobController` keeps, for each view, the state, the current configuration and
the current job, and the sequence `shares` of all configurations ever made with
the state of their job: a job is never forgotten by the model though the
controller forgets it. Signals are synchronous, so an operation writes the
signals it emits into `signals`, and the handlers of `JobView` (the Loader) and
`JobDialog` (reports, closing) complete the same step. `JobDialog` adds the
window and `reports`, the sequence of `finished` signals of the Menu: for each,
the share it is about, the job whose result caused it and what was read from
the job. `aborted` is the null job of `startJob()`.

A job deletes itself after its result, and nothing resets `m_job`. The handler
of a result in JobDialog.qml:66-70 reads `errorString`, `output` and `error` of
whatever `m_job` is, which may be a later job that is deleted by then
(`FindsDeleted`). That is undefined behaviour, and `Misread` takes each of its
outcomes: the handler goes on and reports what it finds, it stops there with
nothing reported and the window as it was, or the process ends (`crashed`).
`misread` remembers the results whose handler met such a job.

The Loader depends on the state alone, so that a second trigger while
configuring keeps the page of the earlier configuration. `dataHasChanged()`
writes every argument that the page has and the current configuration needs:
`EditPage` makes a configuration ready from a page of another plugin when their
arguments have the same names. `Common` says which plugins that is: those that
need `device` (bluetooth, kdeconnect), `accountId` (youtube, nextcloud) or
`localBaseDir` (reviewboard, phabricator), as well as a plugin and itself.

The user can trigger again, edit the page, send, cancel and close in any order;
jobs end and are deleted in any order. Closing the window while a job runs, or
cancelling, stops no job: a share that was reported as cancelled may be reported
again, by its result. When the window system closes the
window, onClosing calls `close()` again; whether that delivers another closing
event is up to Qt, so the cancellation is reported once or twice.

### Constraints, AlternativesModel, Configuration, Menu
`Constraints` has `constraintMatches()` with its match functions as operators;
the mime database and the wildcards are constants (Qt's, not the repository's),
and `present` is what D-Bus, the path and the desktop files hold now.
`AlternativesModel` keeps the three settings and the rows `plugins`; a setter
is an action with the early return as its guard and `initializeModel()` as part
of it. `present` and `admin` (purposerc) change by themselves; `evaluated`
records what the rows were computed from. `Configuration` is a record and
operators on it, as in the code it has no handlers. `Menu` composes them:
`actions` are the QActions with the row that their lambda captured, `Reload` is
`reload()` with any order of actions that read alike, and `Trigger` is the
lambda: row, `aboutToShare`, `configureJob()` with the model as it is then. The
rows are lists in the order of what is found (`InOrder` of the places kept);
what a package without its main file leaves is `NoMetaData`, which no type
accepts. A row beyond the rows is read there without a check; `made` is FALSE
then and nothing follows. `EditConfiguration`, `SetUseSeparateProcess` and
`CreateJobs` go on to the job, whose kind is all that is kept.

### AlternativesView
The stack of JobViews over the `JobController` and `JobView` of above, now with
several views. A popped view is `dying` until the transition has ended and then
`destroyed`: from then on nobody hears its job. As in `JobDialog`, signals are
synchronous and `onJobStateChanged` completes the step that emits them; the
application's handler of `finished` may call `reset()`.

### PluginJob and the jobs of the plugins
`PluginJob` has what the jobs share: `requests` sent and not answered, `error`,
`output`, `pending` (m_pendingJobs), `target`, and histories (`delivered`,
`quiet`, `result`). A request is what is asked and for which url; `All` stands
for one request about all of them. `ImgurJob`, `YoutubeJob`, `NextcloudJob`,
`SaveAsJob`, `ReviewJobs` and `SmallJobs` have one action for `start()` and one
for each handler, with every answer and failure of the service it is connected
to; services are external and choose freely. `quiet` marks a handler that
returned with neither a result nor a request. `PluginJobs` puts them together,
one plugin per behaviour: jobs share nothing. Several builds exist of youtube
and nextcloud (KAccounts, KOnlineAccounts or neither); a behaviour takes one.

### DevicesModel, AccountsModel, ListRequests, DiffListModel
Each keeps the rows, what the views were told of them (`devTold`, `accTold`:
begin/endInsertRows, removes and resets, as counts), and the service behind.
Signals and answers of the KDE Connect daemon are in one queue, in bus order,
but whether a device is paired and reachable is asked when a message is
handled. The daemon is up or down when the page opens, and knows any devices
then and after a restart. The device list may be answered by an error, which
empties the rows, and a device may not answer what it is asked, which counts as
a no: `seen` are those that say yes, and `devFailed` remembers the devices about
which the last call failed. Grants of KOnlineAccounts are visible before they
are signalled; the list of accounts or the properties of any of them may fail to
be read (`Readable`, `accFailed`). A change of the settings of a review list
starts a request and leaves the earlier ones; pages come with any number of
entries up to `MaxPage`, or an error. The phabricator list makes a temporary
directory the working directory of the process, which several pages can do at
once. `ConfigPages` puts them together, one page per behaviour: the lists share
nothing.

## 3. Runs

| Run | Shows | Instance |
|---|---|---|
| `processjob` | Job's contract (`ContractSpec`), the final properties (`FinalMirror`), the whole payload (`PayloadComplete`), the inductive invariant, and that a job whose plugin or process ended gets its result and a started plugin gets its data | 2 programs, 2 builds, 2 percents, 2 outputs, 2 error codes, 3 units, at most 3 lines in flight |
| `processjob_exit` | violation: the assertion at processjob.cpp:112 | same |
| `processjob_error` | violation: an error inside `start()` is not reported | same, with assertions |
| `jobdialog` | each result is reported once, or it found a later, deleted job (`EachResultReported`); an open window waits for something, unless such a result left it open (`OpenWindowWaits`); only complete configurations are started, although a page may be kept (`StartedReady`); no window closes in silence (`ClosingReported`); the inductive invariant | 3 triggers; 3 plugins, two of which share an argument's name; 2,378,481 states |
| `jobdialog_dead` | violation: a result of which nothing is reported | same |
| `jobdialog_page` | violation: the page of another configuration | same |
| `alternatives` | who is offered (`OfferedExactly`, stated by who must be hidden), that rows and menu keep up with the settings (`RowsFollowSettings`, `MenuShowsRows`), which plugin is configured (`ChosenPlugin`) and what it is given (`InboundAsGiven`, `JobHasItsData`), the inductive invariant | see MCMenu: native plugins and packages with mime type, D-Bus, array, default and broken constraints, a duplicate id, a broken copy |
| `alternatives_row` | violation: another plugin than the one chosen | same |
| `views` | each result is reported once by its own view unless that was destroyed (`ResultsReported`), a view serves one share and its page (`OwnPage`), what the stack shows (`StackShowsShares`), `StartedReady`, the inductive invariant | 3 views, 3 shares, 2 plugins with no argument in common; views are permuted (symmetry), plugins and shares are not; 517,405 states |
| `pluginjobs` | what a success stands for (`SuccessDelivers`, `UrlOfSuccess`), the counting of parallel uploads (`PendingCounts`), nothing is sent after a result (`NothingAfterResult`), which jobs always end (`ComesToResult`, `ReliableComesToResult`), the inductive invariant | 12 plugins, every set of 2 documents, a page of the web and some data |
| `pluginjobs_success` | violation: error 0 and a url that was not shared | same |
| `pages` | one row for each (`OneRowEach`), the rows are current at rest (`RowsAtRest`), the views know them (`RowsAnnounced`), a list is whole and current (`ListWhole`, `ListCurrent`) and ends (`ListEnds`), the working directory comes back (`CwdRestored`), the inductive invariants of the four | 2 devices, 3 accounts of 2 types, lists of 3 and 2 entries, 3 pages of revisions; 1,439,071 states |

Each inductive invariant has `TypeOK` of its module as its first part.

Bounds. `MaxInFlight` bounds lines unread, not lines sent: behaviours are
unbounded in length, and three lines are enough for two values of one property
and one of another to be reordered. `Chunks = 3` lets the payload be cut after
the size line, inside the payload, or not at all. `MaxShares = 3` lets a share
be overtaken while it is being overtaken; nothing depends on the number of
shares beyond "older than the newest", and the proofs remove the bound. `Menu`
follows one share (`Choosing`): the settings may change without limit before
it, and a second trigger reads nothing of the first. `MaxChanges = 5` is
enough for a device to come, change, go and come back while a list is under
way, or for the daemon to stop and start in between; `MaxGrants = 4` for an
account to be granted, revoked and granted again. `MaxPage = 2` with lists of
three and two entries gives lists of one, two and more pages, full, short and
empty ones; `MaxRefresh = 4` lets a request be overtaken by one that asks
nothing and by one that asks something. Three pages of revisions let lists
cross with one in between.

Deadlock is not checked: a finished and deleted job, a dialog or a stack whose
shares are used up, an access beyond the rows and a page whose bound is reached
have nothing more to do.

Fairness. `processjob`: each side is an event loop that serves what is
pending: weak fairness of the host's handlers, of the process's reads when data
is there, and of its exit when its job is over. Nothing is assumed of timeouts,
crashes, the plugin's own work, or foreign executables. `pluginjobs`: weak
fairness of `Answers`: KIO, QProcess, QTimer and D-Bus deliver some answer, a
failure among them; nothing is assumed of which. `pages`: weak fairness of
`AnyPage`: a review server is answered for, if only by an error. The other
modules have none: users and jobs owe nothing.

What the properties leave out is named in them, each a history of something
that the code meets and does not handle: a result that found a deleted job
(`misread`, `LeftOpen`); devices and accounts about which a call failed
(`devFailed`, `accFailed`: no row, and nothing asks again); a list of devices
some of which are unusable by the time it comes (`devRaced`: rows announced and
not there); an account read before its grant is signalled (`accAhead`: two
rows), revoked without a word (`accRevoked`), or of another type (`accOther`: a
row announced and not there); a page of a list that ended in an error (`lost`);
an answer that came after a later one's (`shown` is not the last refresh);
revisions that came in another order than they were asked for or not at all
(`crossed`, `broken`: the process stays in a temporary directory or in one that
is gone); handlers of jobs that give up in silence (`quiet`); and, of a
plugin's success, the urls it stands for (`Covered`).

Such a property does not guard against what it excepts: it says that nothing
else goes wrong. Two of the exceptions have a violation run that shows them,
`misread` (`jobdialog_dead`) and `Covered` (`pluginjobs_success`). The others
are documented by the exception alone, and their hazards in `PROJECT.json` say
so. That a job gives up in silence is against job.h:32 ("when the job emits
finished, we'll know it's over"), and the directory that a failed list leaves
behind against difflistmodel.cpp:44 ("the directory will be removed in
receivedDiffRevs()"). A job's `result` is what error and output were in the
handlers of the result signal; bluetooth's second handler overwrites them
afterwards, which no property is about.

What the violations say: the findings in `PROJECT.json` quote the line of the
repository each contradicts. `processjob_exit`: a process that cannot be
executed has exit code 0 and no socket. `processjob_error`: the signals are
connected after `start()`. `jobdialog_dead`: `m_job` outlives its job.
`jobdialog_page`: the Loader follows the state only. `alternatives_row`: the
row is read before `aboutToShare` and used after. `pluginjobs_success`: urls
that a job cannot handle are left out without an error.

## 4. Proofs

`ProcessJobProofs` proves, for every value of the constants allowed by
`ConstantsAssumption`, the invariant `IInv`, with it `TypeOK`,
`PayloadComplete`, `FinalMirror`, and that `ProcessJob` implements `Job`.
`FinalMirror` is not inductive: between a report and its reading the two sides
differ. `MirrorCatchesUp` strengthens it: the unread lines, applied in order to
what the host shows, give what the plugin said. It needs to know that nothing
is said before the plugin runs (`QuietBeforePlugin`), that nothing crosses an
unaccepted socket (`SocketOrder`), that unsent lines die with the process
(`NothingAfterExit`), and that the host drains and finishes only after the end
(`ResultAfterExit`). The refinement maps each action to a step or a stutter of
`Job` under that invariant.

`JobControllerProofs` has what the dialog and the stack of views both need: what
the steps of a share's job, its readiness and a new share leave of `shares`.

`JobDialogProofs` proves, for any plugins and any number of shares, `IInv` of
the dialog, with it `TypeOK`, `OpenWindowWaits`, `StartedReady`,
`EachResultReported`, and the action property `ClosingReported`.
`EachResultReported` is a cardinality; its inductive form is `ReportsOnce`: a
job is over exactly when some report names it or its handler read a deleted
job, and no two reports name the same. That a deleted job can only be a later
one (`Overtaken`) rests on jobs being started in order: `Latest` says that
`m_job` is the latest job that was started. `Latest` also gives what the
handlers rely on: the current configuration is the newest, a page is shown only
while configuring, and once anything was started the controller holds a job.
Lemma `StartEffect` reduces `startJob()` with its handlers to the ways it can
end; every other step has a lemma of its own. `ClosingReported` compares the
reports of a step with the window before and after it; a step adds at most the
two reports its handlers write (`OneMore`).

`AlternativesViewProofs` proves the properties of the stack for any views,
plugins and number of shares. `ResultsReported` needs three strengthenings. By
`Owned` a view belongs to one share, whose configuration, page and job are all
it ever has, so that the handler which reads "the current job" reads the one
that ended. By `Placed` a view is in one place, on the stack once, popped or
destroyed. `ReportsOnce` then says that a result has exactly one report unless
it is in `orphaned`.

`PluginJobsProofs` proves, for any finite set of urls in the data, the
properties of the twelve jobs; a lemma for each handler says what it asks,
counts and ends. `PendingCounts` is a cardinality that is exact only until a
result: imgur counts a transfer that has failed. `Counting` is its inductive
form: one request per url at a time, a counter that is never too low, and,
while nothing has failed or gone silent, every url delivered or in progress,
which is what makes the counter's zero a success. `FirstAlone` keeps the
requests that precede the uploads out of the count.

`DevicesModelProofs` and `ConfigPagesProofs` prove the properties of the four
lists, for any finite sets of devices and accounts, any listing of a server and
any size of its pages. The difficulty is what is still under way. For the
devices, `AddedIsNew` says that an addition in the queue has a removal or an
unregistration before it and after whatever gives the device a row;
`RowsFollow` says that the rows are right, but for calls that failed, or that
what rights them is in the queue, with nothing after it that undoes it, or a
call is on its way. It holds at the start, where a daemon that knows devices
has been asked for its list, and after an error, which leaves `devFailed` where
the rows were. `AskedEffect` says what asking a device does, answered or not.
Both quantify over places in the queue; `Handled`, `DaemonStep` and the lemmas
of their kind say what a step does to those places. `AccInv` says it of the
signals of the accounts, `LatestAsks` ties the answer of the newest request to
the settings, and `Nested` says that the temporary directories belong to pages
that wait, which go back to one of them.

`MenuProofs` proves the properties of model, menu and configuration for any
plugins, packages, types, data and mime database. The rows are `NewPlugins` of
what they were evaluated for, at all times; what that list contains is lemma
`RowsTaken`: acceptable ones only, every id that can be offered, no plugin
twice. The first package of an id is the least of the places with that id. The
menu shows the rows in one of `Orders` unless it is behind, and an injective
order of finitely many rows reaches them all. `OfferedExactly` states
acceptance by what hides a plugin, `NotHidden` that this is the same.
`InboundAsGiven` survives the page, which may take back an argument it has
given, because a plugin's own arguments are none of its type's (`OwnArguments`).

Finite sets. An induction theorem takes the statement as an operator, which the
provers cannot instantiate. Lemma `Minimal` of `MenuProofs` has the same
strength in a form they can use: among the subsets of a finite set with some
property one contains no other. From it come the least and the greatest of a
finite set of numbers and the increasing enumeration that `InOrder` chooses.

Assumptions, evaluated by TLC in the passing runs:

| Assumption | Why |
|---|---|
| `ConstantsAssumption` (ProcessJob) | an error code is not 0, percents are percents, the payload has a size line and a body |
| `SharesAssumption`, `OneDialog` | a number of triggers; the Menu has one window |
| `CommonAssumption` | which pairs of plugins have arguments of the same name |
| `UrlsAssumption` | a url is local or holds data or neither, `All` is no url |
| `DevicesAssumption`, `TypeOfAssumption` | finitely many devices and accounts, each account of a type; "no type asked for" is not a type |
| `ListingAssumption`, `LaunchAssumption` | what a server lists; the directory of the start is no page's |
| `PluginsAssumption` | the fields of plugin metadata; `KPluginMetaData::findPlugins()` gives no id twice |
| `OwnArguments` | `X-Purpose-Configuration` of each json file in `plugins/` against `X-Purpose-InboundArguments` of the types in its `X-Purpose-PluginTypes` |
| `DefaultAssumption` | the default of `disabledPlugins` is a value it can have |
| `LocalJobsAssumption` | the environment variable is set or not |

`MaxInFlight`, `MaxShares`, `MaxChanges`, `MaxGrants`, `MaxPage` and
`MaxRefresh` are parameters in the proofs: what is proved holds for every value
of them.

Only model-checked: the liveness properties `EndLeadsToResult`,
`StartLeadsToPlugin`, `ComesToResult`, `ReliableComesToResult` and `ListEnds`
(fairness and ENABLED are outside the prover's reach), and the violations.
Induction over data and RECURSIVE operators are also out of reach; no module
uses RECURSIVE.

## 5. Not modelled

`PROJECT.json` gives the reason per component. The multipart writer formats
bytes; registration, build files and tests have no behaviour; barcode has a page
and no job. Of ShareFileItemAction, the two handlers of `finished` only show or
open what is reported. Of the review plugins, the readers of .reviewboardrc and
.arcconfig and `findRepository` look things up once, in files.

Within the modelled parts:

- The text of errors goes with the error code; titles, icons and the progress
  shown in the view are left out.
- `JobController::setModel` and `setIndex` choose the plugin of the next
  `configure()`, which is a parameter of `Configure`.
- An access beyond the rows (menu.cpp:77 after the rows have shrunk) ends the
  behaviour. `data()` lets a row equal to the count through
  (alternativesmodel.cpp:161), but no caller makes such an index. Only
  installed types are set: others are asserted against
  (alternativesmodel.cpp:106).
- A `reset()` from inside the push of `createJob()` is up to Qt.
- A second closing event when onClosing calls `close()` is up to Qt; both
  outcomes are in `JobDialog`.
- A plugin that does not load gives a null job, asserted against and then used
  (jobcontroller.cpp:31): `aborted`, nothing follows.
- Reading a deleted `m_job` ends in one of three ways, as said above; that it
  corrupts what else there is in memory is not modelled.
- The review server's lists do not change while they are paged. KOnlineAccounts
  does not appear or go while a page is open.
- `devicesmodel.cpp:65` asserts that a device interface is valid, which depends
  on the daemon's version.
- The names that phabricator's status map is keyed by (phabricatorjobs.cpp:222)
  and the sorting of repositories are formatting.
- `Kill` of saveas is the KJob interface's; no caller is in the repository.

## 6. Plan

The parts that have behaviour are modelled, and the safety of each is proved.
What can follow:

1. An abstract specification of what a share promises an application (one
   answer for each trigger, unless its view was destroyed), which `JobDialog`
   and `AlternativesView` both implement, in the way that `ProcessJob`
   implements `Job`.
2. The same for the lists of `ConfigPages`: rows that follow a set with some
   delay.
3. The jobs of the plugins as implementations of the part of `Job` that does not
   depend on the process boundary.
