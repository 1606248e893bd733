---------------------------- MODULE DevicesModel ----------------------------
(***************************************************************************)
(* The list of KDE Connect devices on the page of that plugin              *)
(* (src/src/plugins/kdeconnect/devicesmodel.cpp).  Signals and answers of  *)
(* the daemon come through the bus in the order they were sent, while a    *)
(* handler that asks a device whether it is paired and reachable gets the  *)
(* answer of that moment, or an error, which counts as no: devices is what *)
(* it is asked about, and seen those that say yes.                         *)
(***************************************************************************)
EXTENDS Naturals, Sequences, FiniteSets, SequencesExt

CONSTANTS Devices, MaxChanges   \* a bound on what the daemon does

ASSUME DevicesAssumption == IsFiniteSet(Devices) /\ MaxChanges \in Nat

VARIABLES
  devices,   \* m_devices, the rows
  devTold,   \* how many rows the views were told of
  daemon,    \* "up" or "down"
  known,     \* the devices of the daemon
  usable,    \* those that are paired and reachable
  bus,       \* what is on its way to the model, in order
  calls,     \* devices() calls on their way to the daemon
  changes,   \* how much the daemon has done
  devRaced,  \* history: not all devices of the last list said yes
  devFailed  \* history: those about which the last call failed

devVars == <<devices, devTold, daemon, known, usable, bus, calls, changes,
             devRaced, devFailed>>

Message == [what : {"added", "removed", "visibility", "name"}, id : Devices]
             \cup [what : {"registered", "unregistered", "error"}]
             \cup [what : {"list"}, ids : SUBSET Devices]

DevTypeOK ==
  /\ devices \in Seq(Devices) /\ devTold \in Nat
  /\ daemon \in {"up", "down"} /\ known \subseteq Devices
  /\ usable \subseteq known /\ bus \in Seq(Message)
  /\ calls \in Nat /\ changes \in 0 .. MaxChanges /\ devRaced \in BOOLEAN
  /\ devFailed \subseteq Devices

(* The constructor: loadDeviceList() asks a daemon that is there, which    *)
(* may know its devices.                                                   *)
DevInit ==
  /\ devices = <<>> /\ devTold = 0 /\ bus = <<>> /\ changes = 0
  /\ devRaced = FALSE /\ devFailed = {} /\ daemon \in {"up", "down"}
  /\ known \in SUBSET Devices /\ usable \in SUBSET known
  /\ daemon = "down" => known = {}
  /\ calls = IF daemon = "up" THEN 1 ELSE 0

---------------------------------------------------------------------------
(* The daemon.                                                             *)

Change == changes < MaxChanges /\ changes' = changes + 1
Signal(m) == bus' = Append(bus, m)
DaemonOnly == UNCHANGED <<devices, devTold, devRaced, devFailed>>

DeviceAppears(d) ==
  /\ daemon = "up" /\ d \notin known /\ Change
  /\ known' = known \cup {d} /\ usable' \in {usable, usable \cup {d}}
  /\ Signal([what |-> "added", id |-> d])
  /\ DaemonOnly /\ UNCHANGED <<daemon, calls>>

DeviceChanges(d) ==
  /\ d \in known /\ Change
  /\ usable' = IF d \in usable THEN usable \ {d} ELSE usable \cup {d}
  /\ Signal([what |-> "visibility", id |-> d])
  /\ DaemonOnly /\ UNCHANGED <<daemon, known, calls>>

DeviceRenamed(d) ==
  /\ d \in known /\ Change /\ Signal([what |-> "name", id |-> d])
  /\ DaemonOnly /\ UNCHANGED <<daemon, known, usable, calls>>

DeviceGoes(d) ==
  /\ d \in known /\ Change
  /\ known' = known \ {d} /\ usable' = usable \ {d}
  /\ Signal([what |-> "removed", id |-> d])
  /\ DaemonOnly /\ UNCHANGED <<daemon, calls>>

(* The answer to devices(onlyReachable, onlyPaired), or an error.          *)
Serve ==
  /\ daemon = "up" /\ calls > 0 /\ calls' = calls - 1
  /\ Signal([what |-> "list", ids |-> usable]) \/ Signal([what |-> "error"])
  /\ DaemonOnly /\ UNCHANGED <<daemon, known, usable, changes>>

DaemonStops ==
  /\ daemon = "up" /\ Change /\ daemon' = "down" /\ calls' = 0
  /\ known' = {} /\ usable' = {}
  /\ bus' = bus \o [i \in 1 .. calls |-> [what |-> "error"]]
                \o <<[what |-> "unregistered"]>>
  /\ DaemonOnly

DaemonStarts ==
  /\ daemon = "down" /\ Change /\ daemon' = "up"
  /\ known' \in SUBSET Devices /\ usable' \in SUBSET known'
  /\ Signal([what |-> "registered"])
  /\ DaemonOnly /\ UNCHANGED calls

---------------------------------------------------------------------------
(* The model: each operator is what a handler makes of the rows.           *)

RowForDevice(d) == {i \in DOMAIN devices : devices[i] = d}

SameRows == UNCHANGED <<devices, devTold, devRaced, devFailed>>

(* Asked(d): the history of a call that d does not answer.                 *)
Asked(d, seen) ==
  devFailed' = (devFailed \ {d}) \cup {x \in {d} : x \in usable \ seen}

ClearDevices(failed) ==
  devices' = <<>> /\ devTold' = 0 /\ devRaced' = FALSE /\ devFailed' = failed

(* In a release build the assertion of deviceAdded() is an early return.   *)
DeviceAdded(d, seen) ==
  \/ RowForDevice(d) # {} /\ SameRows
  \/ /\ RowForDevice(d) = {} /\ Asked(d, seen) /\ UNCHANGED devRaced
     /\ IF d \in seen THEN devices' = Append(devices, d) /\ devTold' = devTold + 1
        ELSE UNCHANGED <<devices, devTold>>

(* Fault: the views are not told that a row goes.                          *)
RemoveRow_Untold(i) ==
  devices' = RemoveAt(devices, i) /\ UNCHANGED <<devTold, devRaced>>

RemoveRow(i) == /\ devices' = RemoveAt(devices, i) /\ devTold' = devTold - 1
                /\ UNCHANGED devRaced

DeviceRemoved(d) ==
  /\ IF RowForDevice(d) = {} THEN UNCHANGED <<devices, devTold, devRaced>>
     ELSE RemoveRow(CHOOSE i \in RowForDevice(d) : TRUE)
  /\ UNCHANGED devFailed

(* Fault: a device that has become unusable keeps its row.                 *)
DeviceUpdated_Keep(d, seen) ==
  IF RowForDevice(d) = {} THEN DeviceAdded(d, seen) ELSE SameRows

DeviceUpdated(d, seen) ==
  \/ RowForDevice(d) = {} /\ DeviceAdded(d, seen)
  \/ /\ RowForDevice(d) # {} /\ Asked(d, seen)
     /\ IF d \in seen THEN UNCHANGED <<devices, devTold, devRaced>>
        ELSE RemoveRow(CHOOSE i \in RowForDevice(d) : TRUE)

(* nameChanged of the interface that a row owns.                           *)
NameChanged(d, seen) ==
  IF RowForDevice(d) = {} THEN SameRows ELSE DeviceUpdated(d, seen)

(* Fault: the list is added to the rows that are there.                    *)
GotDeviceList_Append(ids, seen) ==
  /\ devices' = devices \o SetToSeq(ids \cap seen)
  /\ devTold' = devTold + Cardinality(ids)
  /\ devRaced' = (devRaced \/ ids \cap seen # ids)
  /\ devFailed' = ids \cap (usable \ seen)

(* gotDeviceList(): rows are announced for all the ids, and those are left *)
(* out that have changed since or do not answer.                           *)
GotDeviceList(ids, seen) ==
  /\ devices' = SetToSeq(ids \cap seen)
  /\ devTold' = Cardinality(ids)
  /\ devRaced' = (ids \cap seen # ids)
  /\ devFailed' = ids \cap (usable \ seen)

(* A call to a daemon that is down again by then is answered by an error.  *)
LoadDeviceList ==
  IF daemon = "up" THEN calls' = calls + 1 /\ bus' = Tail(bus)
  ELSE bus' = Append(Tail(bus), [what |-> "error"]) /\ UNCHANGED calls

DevReceive ==
  /\ bus # <<>>
  /\ LET m == Head(bus) IN
     /\ \/ m.what = "removed" /\ DeviceRemoved(m.id)
        \/ m.what = "error" /\ ClearDevices(Devices)
        \/ m.what = "unregistered" /\ ClearDevices({})
        \/ m.what = "registered" /\ SameRows
        \/ \E seen \in SUBSET usable :
             \/ m.what = "added" /\ DeviceAdded(m.id, seen)
             \/ m.what = "visibility" /\ DeviceUpdated(m.id, seen)
             \/ m.what = "name" /\ NameChanged(m.id, seen)
             \/ m.what = "list" /\ GotDeviceList(m.ids, seen)
     /\ IF m.what = "registered" THEN LoadDeviceList
        ELSE bus' = Tail(bus) /\ UNCHANGED calls
  /\ UNCHANGED <<daemon, known, usable, changes>>

DevNext ==
  \/ Serve \/ DaemonStops \/ DaemonStarts \/ DevReceive
  \/ \E d \in Devices : \/ DeviceAppears(d) \/ DeviceChanges(d)
                        \/ DeviceRenamed(d) \/ DeviceGoes(d)

---------------------------------------------------------------------------

(* No device gets a second row, and deviceAdded() is not called for one    *)
(* that has a row (the assertion at devicesmodel.cpp:57): neither the      *)
(* lists, which may overtake the signals, nor a restart of the daemon      *)
(* make that happen.                                                       *)
DeviceOnce ==
  /\ IsInjective(devices)
  /\ bus # <<>> /\ Head(bus).what = "added" => RowForDevice(Head(bus).id) = {}

(* With nothing under way, the rows are the devices that can be shared to, *)
(* but for those about which the last call failed: nothing asks again      *)
(* after an error (devicesmodel.cpp:67, 95, 124 and 142).                  *)
DevicesAtRest ==
  bus = <<>> /\ calls = 0 =>
    /\ ToSet(devices) \subseteq usable
    /\ usable \ ToSet(devices) \subseteq devFailed

(* The views know as many rows as there are, but for a list whose devices  *)
(* changed before it arrived.                                              *)
DevicesAnnounced ==
  Len(devices) <= devTold /\ (devRaced \/ Len(devices) = devTold)

(* What these rest on: what is still to come from the bus.  A row that is  *)
(* there counts as something that came before all of it.                   *)
About(m, d, whats) == m.what \in whats /\ m.id = d
HasRow(d) == d \in ToSet(devices)

(* Where d may get a row, and where it loses it for good.                  *)
MayAdd(d) ==
  {i \in DOMAIN bus : \/ About(bus[i], d, {"added", "visibility", "name"})
                      \/ bus[i].what = "list" /\ d \in bus[i].ids}
    \cup {i \in {0} : HasRow(d)}
Drops(d) ==
  {i \in DOMAIN bus : bus[i].what = "unregistered" \/ About(bus[i], d, {"removed"})}

(* A device appears only after it has gone, which was said in between.     *)
AddedIsNew ==
  \A d \in Devices :
    /\ \A j \in DOMAIN bus : About(bus[j], d, {"added"}) =>
         \A i \in MayAdd(d) : i < j => \E k \in Drops(d) : i < k /\ k < j
    /\ d \notin known => \A i \in MayAdd(d) : \E k \in Drops(d) : i < k

(* Where d has or gets no row, where one that is usable gets it, or a call *)
(* fails, and where one that is not loses it.  The answer to a call comes  *)
(* after all there is.                                                     *)
Lacks(d) ==
  {i \in DOMAIN bus : \/ bus[i].what = "unregistered"
                      \/ About(bus[i], d, {"removed"})
                      \/ bus[i].what = "list" /\ d \notin bus[i].ids}
    \cup {i \in {0} : ~ HasRow(d) /\ d \notin devFailed}
Gets(d) ==
  {i \in DOMAIN bus : \/ About(bus[i], d, {"added", "visibility"})
                      \/ bus[i].what \in {"registered", "error"}
                      \/ bus[i].what = "list" /\ d \in bus[i].ids}
    \cup {i \in {Len(bus) + 1} : calls > 0}
Loses(d) ==
  {i \in DOMAIN bus : \/ About(bus[i], d, {"visibility", "name", "removed"})
                      \/ bus[i].what \in {"list", "error", "unregistered"}}

(* The rows are what they should be, or what makes them so is on its way   *)
(* and nothing after it undoes that.                                       *)
RowsFollow ==
  \A d \in Devices :
    /\ d \in usable => \A i \in Lacks(d) : \E k \in Gets(d) : i < k
    /\ d \notin usable /\ HasRow(d) => Loses(d) # {}

DevInv ==
  /\ DevTypeOK /\ IsInjective(devices) /\ DevicesAnnounced
  /\ AddedIsNew /\ RowsFollow
  /\ daemon = "down" => known = {}
=============================================================================
