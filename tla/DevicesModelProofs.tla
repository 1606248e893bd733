------------------------- MODULE DevicesModelProofs -------------------------
(* Proofs about DevicesModel, for any finite set of devices and any number *)
(* of changes; lemmas about rows that the other lists need too.            *)
EXTENDS DevicesModel, FiniteSetTheorems, TLAPS

-----------------------------------------------------------------------------
(* Rows                                                                    *)

(* A list made of a set has each of its elements once.                     *)
LEMMA SeqOfSet ==
  ASSUME NEW S, IsFiniteSet(S)
  PROVE  /\ SetToSeq(S) \in Seq(S) /\ Len(SetToSeq(S)) = Cardinality(S)
         /\ IsInjective(SetToSeq(S)) /\ ToSet(SetToSeq(S)) = S
<1> DEFINE n == Cardinality(S)
           f == SetToSeq(S)
<1>1. n \in Nat /\ ExistsBijection(1 .. n, S)
  BY FS_CardinalityType
<1>2. \E g \in [1 .. n -> S] : IsInjective(g)
  BY <1>1 DEF ExistsBijection, Bijection, Injection
<1>3. f \in [1 .. n -> S] /\ IsInjective(f)
  BY <1>2 DEF SetToSeq
<1>4. f \in Injection(1 .. n, S)
  BY <1>3 DEF Injection
<1>5. Cardinality(1 .. n) = n
  BY <1>1, FS_Interval
<1> HIDE DEF n, f
<1>6. f \in Surjection(1 .. n, S)
  BY <1>4, <1>5, FS_Injection DEF n
<1>7. \A x \in S : \E i \in 1 .. n : f[i] = x
  BY <1>6 DEF Surjection
<1>8. f \in Seq(S) /\ Len(f) = n
  BY <1>1, <1>3
<1>9. ToSet(f) = S
  BY <1>3, <1>7 DEF ToSet
<1> QED
  BY <1>3, <1>8, <1>9 DEF f, n

(* A sequence after another.                                               *)
LEMMA Joined ==
  ASSUME NEW T, NEW a \in Seq(T), NEW b \in Seq(T)
  PROVE  /\ a \o b \in Seq(T) /\ Len(a \o b) = Len(a) + Len(b)
         /\ \A i \in 1 .. Len(a) : (a \o b)[i] = a[i]
         /\ \A i \in Len(a) + 1 .. Len(a) + Len(b) : (a \o b)[i] = b[i - Len(a)]
OBVIOUS

(* A row that is appended.                                                 *)
LEMMA AppendRow ==
  ASSUME NEW T, NEW s \in Seq(T), NEW x \in T
  PROVE  /\ Append(s, x) \in Seq(T) /\ Len(Append(s, x)) = Len(s) + 1
         /\ ToSet(Append(s, x)) = ToSet(s) \cup {x}
         /\ IsInjective(s) /\ x \notin ToSet(s) => IsInjective(Append(s, x))
         /\ Append(s, x) # s
<1> DEFINE t == Append(s, x)
<1>1. PICK n \in Nat : n = Len(s) /\ DOMAIN s = 1 .. n
  OBVIOUS
<1>2. /\ t \in Seq(T) /\ Len(t) = n + 1 /\ DOMAIN t = 1 .. n + 1
      /\ t[n + 1] = x /\ \A i \in 1 .. n : t[i] = s[i]
  BY <1>1
<1> HIDE DEF t
<1>3. \A i \in 1 .. n + 1 : i \in 1 .. n \/ i = n + 1
  BY <1>1
<1>4. ToSet(t) = ToSet(s) \cup {x}
  <2>1. \A y \in ToSet(t) : y \in ToSet(s) \cup {x}
    BY <1>1, <1>2, <1>3 DEF ToSet
  <2>2. \A y \in ToSet(s) : y \in ToSet(t)
    BY <1>1, <1>2 DEF ToSet
  <2>3. x \in ToSet(t)
    BY <1>1, <1>2 DEF ToSet
  <2> QED
    BY <2>1, <2>2, <2>3
<1>5. IsInjective(s) /\ x \notin ToSet(s) => IsInjective(t)
  BY <1>1, <1>2, <1>3 DEF ToSet, IsInjective
<1>6. t # s
  BY <1>1, <1>2
<1> QED
  BY <1>1, <1>2, <1>4, <1>5, <1>6 DEF t

(* A row that is removed.                                                  *)
LEMMA WithoutRow ==
  ASSUME NEW T, NEW s \in Seq(T), IsInjective(s), NEW i \in DOMAIN s
  PROVE  /\ RemoveAt(s, i) \in Seq(T) /\ Len(RemoveAt(s, i)) = Len(s) - 1
         /\ ToSet(RemoveAt(s, i)) = ToSet(s) \ {s[i]}
         /\ IsInjective(RemoveAt(s, i))
<1> DEFINE a == SubSeq(s, 1, i - 1)
           b == SubSeq(s, i + 1, Len(s))
           t == RemoveAt(s, i)
<1>1. PICK n \in Nat : n = Len(s) /\ DOMAIN s = 1 .. n /\ i \in 1 .. n
  OBVIOUS
<1>2. /\ a \in Seq(T) /\ Len(a) = i - 1 /\ \A j \in 1 .. i - 1 : a[j] = s[j]
  BY <1>1
<1>3. /\ b \in Seq(T) /\ Len(b) = n - i /\ \A j \in 1 .. n - i : b[j] = s[j + i]
  BY <1>1
<1>4. t = a \o b
  BY DEF RemoveAt
<1> HIDE DEF a, b, t
<1>5. /\ t \in Seq(T) /\ Len(t) = n - 1 /\ DOMAIN t = 1 .. n - 1
      /\ \A j \in 1 .. n - 1 : t[j] = IF j < i THEN s[j] ELSE s[j + 1]
  <2>1. t \in Seq(T) /\ Len(t) = n - 1
    <3>1. t \in Seq(T) /\ Len(t) = Len(a) + Len(b)
      BY <1>2, <1>3, <1>4, Joined
    <3> QED
      BY <1>1, <1>2, <1>3, <3>1
  <2>2. \A j \in 1 .. n - 1 : j < i => t[j] = s[j]
    <3>1. \A j \in 1 .. Len(a) : t[j] = a[j]
      BY <1>2, <1>3, <1>4, Joined
    <3> QED
      BY <1>1, <1>2, <3>1
  <2>3. \A j \in 1 .. n - 1 : ~ j < i => t[j] = b[j - (i - 1)]
    <3>1. \A j \in Len(a) + 1 .. Len(a) + Len(b) : t[j] = b[j - Len(a)]
      BY <1>2, <1>3, <1>4, Joined
    <3> TAKE j \in 1 .. n - 1
    <3> HAVE ~ j < i
    <3>2. j \in (i - 1) + 1 .. (i - 1) + (n - i)
      BY <1>1
    <3> QED
      BY <1>2, <1>3, <3>1, <3>2
  <2>4. \A j \in 1 .. n - 1 : ~ j < i => t[j] = s[j + 1]
    <3> TAKE j \in 1 .. n - 1
    <3> HAVE ~ j < i
    <3>1. j - (i - 1) \in 1 .. n - i /\ (j - (i - 1)) + i = j + 1
      BY <1>1
    <3> QED
      BY <1>3, <2>3, <3>1
  <2> QED
    BY <2>1, <2>2, <2>4
<1>6. \A j, k \in 1 .. n : s[j] = s[k] => j = k
  BY <1>1 DEF IsInjective
<1>7. \A j \in 1 .. n - 1 : \E k \in 1 .. n : k # i /\ t[j] = s[k] /\ (k = j \/ k = j + 1)
  BY <1>1, <1>5
<1>8. \A k \in 1 .. n : k # i => \E j \in 1 .. n - 1 : t[j] = s[k]
  <2> TAKE k \in 1 .. n
  <2>1. CASE k < i
    BY <1>1, <1>5, <2>1
  <2>2. CASE k > i
    <3>1. k - 1 \in 1 .. n - 1 /\ ~ k - 1 < i
      BY <1>1, <2>2
    <3>2. t[k - 1] = s[(k - 1) + 1]
      BY <1>5, <3>1
    <3> QED
      BY <1>1, <3>1, <3>2
  <2> QED
    BY <1>1, <2>1, <2>2
<1>9. ToSet(t) = ToSet(s) \ {s[i]}
  <2>1. /\ ToSet(t) = {t[j] : j \in 1 .. n - 1}
        /\ ToSet(s) = {s[k] : k \in 1 .. n}
    BY <1>1, <1>5 DEF ToSet
  <2>2. \A j \in 1 .. n - 1 : t[j] \in {s[k] : k \in 1 .. n} /\ t[j] # s[i]
    BY <1>1, <1>6, <1>7
  <2>3. \A k \in 1 .. n : s[k] # s[i] => s[k] \in {t[j] : j \in 1 .. n - 1}
    BY <1>1, <1>8
  <2> QED
    BY <2>1, <2>2, <2>3
<1>10. IsInjective(t)
  <2>1. \A j, k \in 1 .. n - 1 : t[j] = t[k] => j = k
    BY <1>1, <1>5, <1>6
  <2> QED
    BY <1>5, <2>1 DEF IsInjective
<1> QED
  BY <1>1, <1>5, <1>9, <1>10 DEF t

-----------------------------------------------------------------------------
(* The handlers                                                            *)

LEMMA DevShape ==
  ASSUME DevInv
  PROVE  /\ devices \in Seq(Devices) /\ IsInjective(devices)
         /\ Len(devices) \in Nat /\ DOMAIN devices = 1 .. Len(devices)
         /\ bus \in Seq(Message) /\ Len(bus) \in Nat /\ DOMAIN bus = 1 .. Len(bus)
         /\ devTold \in Nat /\ devRaced \in BOOLEAN /\ devFailed \subseteq Devices
         /\ usable \subseteq known /\ known \subseteq Devices
BY DEF DevInv, DevTypeOK

LEMMA RowIs ==
  ASSUME DevInv, NEW d
  PROVE  RowForDevice(d) = {} <=> ~ HasRow(d)
BY DEF RowForDevice, HasRow, ToSet

(* What every handler keeps of the rows.                                   *)
RowsOK ==
  /\ devices \in Seq(Devices) /\ IsInjective(devices)
  /\ devTold \in Nat /\ devRaced \in BOOLEAN /\ devFailed \subseteq Devices
  /\ DevicesAnnounced

(* A device that can be shared to and has no row was asked in vain, or is  *)
(* not the one that was asked now and was in that state before.            *)
AskedOnly(d) ==
  \A x \in usable : x \notin ToSet(devices') /\ x \notin devFailed' =>
    x # d /\ x \notin ToSet(devices) /\ x \notin devFailed

LEMMA SameEffect ==
  ASSUME DevInv, SameRows
  PROVE  RowsOK' /\ ToSet(devices') = ToSet(devices) /\ devFailed' = devFailed
BY DevShape DEF SameRows, RowsOK, DevicesAnnounced, DevInv

LEMMA ClearEffect ==
  ASSUME DevInv, NEW failed \in SUBSET Devices, ClearDevices(failed)
  PROVE  RowsOK' /\ ToSet(devices') = {} /\ devFailed' = failed
<1>1. devices' = <<>> /\ devTold' = 0 /\ devRaced' = FALSE /\ devFailed' = failed
  BY DEF ClearDevices
<1>2. /\ devices' \in Seq(Devices) /\ Len(devices') = 0 /\ DOMAIN devices' = {}
  BY <1>1
<1>3. IsInjective(devices') /\ ToSet(devices') = {}
  BY <1>2 DEF IsInjective, ToSet
<1>4. DevicesAnnounced'
  BY <1>1, <1>2 DEF DevicesAnnounced
<1>5. devTold' \in Nat /\ devRaced' \in BOOLEAN /\ devFailed' \subseteq Devices
  BY <1>1
<1> QED
  BY <1>1, <1>2, <1>3, <1>4, <1>5 DEF RowsOK

LEMMA AskedEffect ==
  ASSUME DevInv, NEW d \in Devices, NEW seen \in SUBSET usable, Asked(d, seen),
         d \notin seen => ToSet(devices') = ToSet(devices) \ {d},
         d \in seen => ToSet(devices') = ToSet(devices) \cup {d}
  PROVE  devFailed' \subseteq Devices /\ AskedOnly(d)
<1>1. devFailed' = (devFailed \ {d}) \cup {x \in {d} : x \in usable \ seen}
  BY DEF Asked
<1>2. \A x \in usable : x # d => (x \in devFailed' <=> x \in devFailed)
  BY <1>1
<1>3. d \in usable /\ d \notin seen => d \in devFailed'
  BY <1>1
<1>4. devFailed' \subseteq Devices
  BY <1>1, DevShape
<1> QED
  BY <1>2, <1>3, <1>4 DEF AskedOnly

LEMMA AddedEffect ==
  ASSUME DevInv, NEW d \in Devices, NEW seen \in SUBSET usable, DeviceAdded(d, seen)
  PROVE  /\ RowsOK' /\ AskedOnly(d)
         /\ ToSet(devices') = ToSet(devices) \cup {x \in {d} : d \in seen}
<1>1. CASE HasRow(d)
  <2>1. SameRows
    BY <1>1, RowIs DEF DeviceAdded
  <2>2. RowsOK' /\ ToSet(devices') = ToSet(devices) /\ devFailed' = devFailed
    BY <2>1, SameEffect
  <2>3. d \in ToSet(devices)
    BY <1>1 DEF HasRow
  <2> QED
    BY <2>2, <2>3 DEF AskedOnly
<1>2. CASE ~ HasRow(d)
  <2>1. /\ Asked(d, seen) /\ devRaced' = devRaced
        /\ d \in seen => devices' = Append(devices, d) /\ devTold' = devTold + 1
        /\ d \notin seen => devices' = devices /\ devTold' = devTold
    BY <1>2, RowIs DEF DeviceAdded
  <2>2. CASE d \in seen
    <3>1. /\ devices' \in Seq(Devices) /\ Len(devices') = Len(devices) + 1
          /\ ToSet(devices') = ToSet(devices) \cup {d} /\ IsInjective(devices')
      <4>1. devices \in Seq(Devices) /\ IsInjective(devices)
        BY DevShape
      <4>2. devices' = Append(devices, d) /\ d \notin ToSet(devices)
        BY <1>2, <2>1, <2>2 DEF HasRow
      <4> QED
        BY ONLY d \in Devices, <4>1, <4>2, AppendRow
    <3>2. DevicesAnnounced'
      BY <2>1, <2>2, <3>1, DevShape DEF DevicesAnnounced, DevInv
    <3>3. devFailed' \subseteq Devices /\ AskedOnly(d)
      BY <2>1, <2>2, <3>1, AskedEffect
    <3>4. devTold' \in Nat /\ devRaced' \in BOOLEAN
      BY <2>1, <2>2, DevShape
    <3> QED
      BY <2>2, <3>1, <3>2, <3>3, <3>4 DEF RowsOK
  <2>3. CASE d \notin seen
    <3>1. devices' = devices /\ devTold' = devTold
      BY <2>1, <2>3
    <3>2. ToSet(devices') = ToSet(devices) \ {d}
      BY <1>2, <3>1 DEF HasRow
    <3>3. devFailed' \subseteq Devices /\ AskedOnly(d)
      BY <2>1, <2>3, <3>2, AskedEffect
    <3>4. RowsOK'
      BY <2>1, <3>1, <3>3, DevShape DEF RowsOK, DevicesAnnounced, DevInv
    <3> QED
      BY <2>3, <3>1, <3>3, <3>4
  <2> QED
    BY <2>2, <2>3
<1> QED
  BY <1>1, <1>2

LEMMA RemoveEffect ==
  ASSUME DevInv, NEW d \in Devices, HasRow(d),
         RemoveRow(CHOOSE i \in RowForDevice(d) : TRUE), devFailed' \subseteq Devices
  PROVE  RowsOK' /\ ToSet(devices') = ToSet(devices) \ {d}
<1> DEFINE i == CHOOSE i \in RowForDevice(d) : TRUE
<1>1. i \in RowForDevice(d)
  BY RowIs
<1>2. /\ devices' = RemoveAt(devices, i) /\ devTold' = devTold - 1
      /\ devRaced' = devRaced
  BY DEF RemoveRow
<1>3. i \in DOMAIN devices /\ devices[i] = d
  BY <1>1, SMTT(30) DEF RowForDevice
<1> HIDE DEF i
<1>4. /\ devices' \in Seq(Devices) /\ Len(devices') = Len(devices) - 1
      /\ ToSet(devices') = ToSet(devices) \ {d} /\ IsInjective(devices')
  BY <1>2, <1>3, DevShape, WithoutRow
<1>5. /\ Len(devices) <= devTold /\ (devRaced \/ Len(devices) = devTold)
      /\ Len(devices) > 0
  BY <1>3, DevShape DEF DevicesAnnounced, DevInv
<1>6. devTold' \in Nat /\ DevicesAnnounced'
  BY <1>2, <1>4, <1>5, DevShape DEF DevicesAnnounced
<1> QED
  BY <1>2, <1>4, <1>6, DevShape DEF RowsOK

LEMMA RemovedEffect ==
  ASSUME DevInv, NEW d \in Devices, DeviceRemoved(d)
  PROVE  RowsOK' /\ ToSet(devices') = ToSet(devices) \ {d} /\ devFailed' = devFailed
<1>1. devFailed' = devFailed /\ devFailed' \subseteq Devices
  BY DevShape DEF DeviceRemoved
<1>2. CASE ~ HasRow(d)
  <2>1. SameRows
    BY <1>1, <1>2, RowIs DEF DeviceRemoved, SameRows
  <2> QED
    BY <1>2, <2>1, SameEffect DEF HasRow
<1>3. CASE HasRow(d)
  <2>1. RemoveRow(CHOOSE i \in RowForDevice(d) : TRUE)
    BY <1>3, RowIs DEF DeviceRemoved
  <2> QED
    BY <1>1, <1>3, <2>1, RemoveEffect
<1> QED
  BY <1>2, <1>3

LEMMA UpdatedEffect ==
  ASSUME DevInv, NEW d \in Devices, NEW seen \in SUBSET usable, DeviceUpdated(d, seen)
  PROVE  /\ RowsOK' /\ AskedOnly(d)
         /\ ToSet(devices') = IF d \in seen THEN ToSet(devices) \cup {d}
                              ELSE ToSet(devices) \ {d}
<1>1. CASE ~ HasRow(d)
  <2>1. DeviceAdded(d, seen)
    BY <1>1, RowIs DEF DeviceUpdated
  <2> QED
    BY <1>1, <2>1, AddedEffect DEF HasRow
<1>2. CASE HasRow(d) /\ d \in seen
  <2>1. /\ devices' = devices /\ devTold' = devTold /\ devRaced' = devRaced
        /\ Asked(d, seen)
    BY <1>2, RowIs DEF DeviceUpdated
  <2>2. ToSet(devices') = ToSet(devices) \cup {d}
    BY <1>2, <2>1 DEF HasRow
  <2>3. devFailed' \subseteq Devices /\ AskedOnly(d)
    BY <1>2, <2>1, <2>2, AskedEffect
  <2>4. RowsOK'
    BY <2>1, <2>3, DevShape DEF RowsOK, DevicesAnnounced, DevInv
  <2> QED
    BY <1>2, <2>2, <2>3, <2>4
<1>3. CASE HasRow(d) /\ d \notin seen
  <2>1. RemoveRow(CHOOSE i \in RowForDevice(d) : TRUE) /\ Asked(d, seen)
    BY <1>3, RowIs DEF DeviceUpdated
  <2>2. devFailed' \subseteq Devices
    BY <2>1, DevShape DEF Asked
  <2>3. RowsOK' /\ ToSet(devices') = ToSet(devices) \ {d}
    BY <1>3, <2>1, <2>2, RemoveEffect
  <2>4. AskedOnly(d)
    BY <1>3, <2>1, <2>3, AskedEffect
  <2> QED
    BY <1>3, <2>3, <2>4
<1> QED
  BY <1>1, <1>2, <1>3

LEMMA ListEffect ==
  ASSUME DevInv, NEW ids \in SUBSET Devices, NEW seen \in SUBSET usable,
         GotDeviceList(ids, seen)
  PROVE  /\ RowsOK' /\ ToSet(devices') = ids \cap seen
         /\ devFailed' = ids \cap (usable \ seen)
<1>1. /\ devices' = SetToSeq(ids \cap seen) /\ devTold' = Cardinality(ids)
      /\ devRaced' = (ids \cap seen # ids) /\ devFailed' = ids \cap (usable \ seen)
  BY DEF GotDeviceList
<1>2. IsFiniteSet(ids)
  BY DevicesAssumption, FS_Subset
<1>3. /\ IsFiniteSet(ids \cap seen) /\ Cardinality(ids \cap seen) <= Cardinality(ids)
      /\ Cardinality(ids) \in Nat /\ Cardinality(ids \cap seen) \in Nat
  BY <1>2, FS_Subset, FS_CardinalityType
<1>4. /\ devices' \in Seq(ids \cap seen) /\ Len(devices') = Cardinality(ids \cap seen)
      /\ IsInjective(devices') /\ ToSet(devices') = ids \cap seen
  BY <1>1, <1>3, SeqOfSet
<1>5. devices' \in Seq(Devices)
  <2>1. ids \cap seen \subseteq Devices
    OBVIOUS
  <2> QED
    BY <1>4, <2>1
<1>6. Len(devices') <= devTold' /\ (devRaced' \/ Len(devices') = devTold')
  BY <1>1, <1>3, <1>4
<1>7. devFailed' \subseteq Devices /\ devRaced' \in BOOLEAN
  BY <1>1
<1> QED
  BY <1>1, <1>3, <1>4, <1>5, <1>6, <1>7 DEF RowsOK, DevicesAnnounced

-----------------------------------------------------------------------------
(* What is on the bus                                                      *)

(* deviceAdded() is not called for a device that has a row.                *)
LEMMA FirstIsNew ==
  ASSUME DevInv
  PROVE  DeviceOnce
<1> devices \in Seq(Devices) /\ bus \in Seq(Message) /\ AddedIsNew
  BY DevShape DEF DevInv
<1>0. IsInjective(devices)
  BY DevShape
<1> SUFFICES ASSUME bus # <<>>, Head(bus).what = "added" PROVE RowForDevice(Head(bus).id) = {}
  BY <1>0 DEF DeviceOnce
<1>1. 1 \in DOMAIN bus /\ Head(bus) = bus[1] /\ DOMAIN bus \subseteq Nat \ {0}
  OBVIOUS
<1> DEFINE d == bus[1].id
<1>2. bus[1] \in Message
  BY <1>1
<1>3. d \in Devices /\ About(bus[1], d, {"added"})
  BY <1>1, <1>2 DEF Message, About
<1>4. \A i \in MayAdd(d) : i < 1 => \E k \in Drops(d) : i < k /\ k < 1
  BY <1>1, <1>3 DEF AddedIsNew
<1>5. Drops(d) \subseteq Nat \ {0}
  BY <1>1 DEF Drops
<1>6. 0 \notin MayAdd(d)
  BY <1>4, <1>5
<1>7. ~ HasRow(d)
  BY <1>6 DEF MayAdd
<1> QED
  BY <1>1, <1>7 DEF HasRow, RowForDevice, ToSet

(* A message that gives d a row if it is usable, or shows a failed call.   *)
Brings(m, d) ==
  \/ About(m, d, {"added", "visibility"})
  \/ m.what \in {"registered", "error"}
  \/ m.what = "list" /\ d \in m.ids

(* A step of the daemon: the rows stay, and it may say something new.      *)
LEMMA DaemonStep ==
  ASSUME DevInv, DaemonOnly,
         NEW n \in Nat, n = Len(bus), NEW m \in Nat, m = Len(bus'), n <= m,
         bus' \in Seq(Message), \A i \in 1 .. n : bus'[i] = bus[i],
         daemon' \in {"up", "down"}, known' \subseteq Devices, usable' \subseteq known',
         calls' \in Nat, changes' \in 0 .. MaxChanges, daemon' = "down" => known' = {},
         \A d \in Devices :
           /\ \A j \in n + 1 .. m : About(bus'[j], d, {"added"}) => d \notin known /\ j = n + 1
           /\ d \notin known' =>
                \/ /\ d \notin known
                   /\ \A i \in n + 1 .. m :
                        /\ ~ About(bus'[i], d, {"added", "visibility", "name"})
                        /\ ~ (bus'[i].what = "list" /\ d \in bus'[i].ids)
                \/ m > n /\ (bus'[m].what = "unregistered" \/ About(bus'[m], d, {"removed"}))
           /\ d \in usable' =>
                \/ /\ d \in usable /\ calls' = calls
                   /\ \A i \in n + 1 .. m :
                        /\ bus'[i].what # "unregistered"
                        /\ ~ About(bus'[i], d, {"removed"})
                        /\ ~ (bus'[i].what = "list" /\ d \notin bus'[i].ids)
                \/ m > n /\ Brings(bus'[m], d)
           /\ d \notin usable' /\ d \in usable =>
                m > n /\ (bus'[m].what = "unregistered" \/ About(bus'[m], d, {"visibility", "removed"}))
  PROVE  DevInv'
<1>1. /\ devices' = devices /\ devTold' = devTold /\ devRaced' = devRaced
      /\ devFailed' = devFailed
  BY DEF DaemonOnly
<1>2. \A d : HasRow(d)' <=> HasRow(d)
  BY <1>1 DEF HasRow
<1>3. DOMAIN bus = 1 .. n /\ DOMAIN bus' = 1 .. m
  BY DevShape
<1>4. \A i \in 1 .. m : i \in 1 .. n \/ i \in n + 1 .. m
  OBVIOUS
<1>5. DevTypeOK'
  BY <1>1 DEF DevTypeOK, DevInv
<1>6. AddedIsNew'
  <2> SUFFICES ASSUME NEW d \in Devices
               PROVE  /\ \A j \in 1 .. m : About(bus'[j], d, {"added"}) =>
                           \A i \in MayAdd(d)' : i < j => \E k \in Drops(d)' : i < k /\ k < j
                      /\ d \notin known' => \A i \in MayAdd(d)' : \E k \in Drops(d)' : i < k
    BY <1>3 DEF AddedIsNew
  <2>1. /\ MayAdd(d)' \subseteq 0 .. m
        /\ \A i \in MayAdd(d)' : i <= n => i \in MayAdd(d)
    BY <1>2, <1>3 DEF MayAdd
  <2>2. Drops(d) \subseteq Drops(d)' /\ Drops(d) \subseteq 1 .. n
    BY <1>3 DEF Drops
  <2>3. ASSUME NEW j \in 1 .. m, About(bus'[j], d, {"added"}), NEW i \in MayAdd(d)', i < j
        PROVE  \E k \in Drops(d)' : i < k /\ k < j
    <3>1. CASE j \in 1 .. n
      <4>1. i \in MayAdd(d) /\ About(bus[j], d, {"added"})
        BY <2>1, <2>3, <3>1
      <4>2. \E k \in Drops(d) : i < k /\ k < j
        BY <1>3, <2>3, <3>1, <4>1 DEF DevInv, AddedIsNew
      <4> QED
        BY <2>2, <4>2
    <3>2. CASE j \in n + 1 .. m
      <4>1. d \notin known /\ j = n + 1
        BY <2>3, <3>2
      <4>2. i \in MayAdd(d)
        BY <2>1, <2>3, <4>1
      <4>3. \E k \in Drops(d) : i < k
        BY <4>1, <4>2 DEF DevInv, AddedIsNew
      <4> QED
        BY <2>2, <4>1, <4>3
    <3> QED
      BY <1>4, <3>1, <3>2
  <2>4. ASSUME d \notin known', NEW i \in MayAdd(d)'
        PROVE  \E k \in Drops(d)' : i < k
    <3>1. CASE /\ d \notin known
               /\ \A l \in n + 1 .. m :
                    /\ ~ About(bus'[l], d, {"added", "visibility", "name"})
                    /\ ~ (bus'[l].what = "list" /\ d \in bus'[l].ids)
      <4>1. i <= n
        BY <1>3, <2>1, <3>1 DEF MayAdd
      <4>2. \E k \in Drops(d) : i < k
        BY <2>1, <3>1, <4>1 DEF DevInv, AddedIsNew
      <4> QED
        BY <2>2, <4>2
    <3>2. CASE m > n /\ (bus'[m].what = "unregistered" \/ About(bus'[m], d, {"removed"}))
      <4>1. m \in Drops(d)' /\ m \notin MayAdd(d)'
        BY <1>3, <3>2 DEF Drops, MayAdd, About
      <4>2. i < m
        BY <2>1, <4>1
      <4> QED
        BY <4>1, <4>2
    <3> QED
      BY <2>4, <3>1, <3>2
  <2> QED
    BY <2>3, <2>4
<1>7. RowsFollow'
  <2> SUFFICES ASSUME NEW d \in Devices
               PROVE  /\ d \in usable' => \A i \in Lacks(d)' : \E k \in Gets(d)' : i < k
                      /\ d \notin usable' /\ HasRow(d)' => Loses(d)' # {}
    BY DEF RowsFollow
  <2>1. /\ Lacks(d)' \subseteq 0 .. m
        /\ \A i \in Lacks(d)' : i <= n => i \in Lacks(d)
    BY <1>1, <1>2, <1>3 DEF Lacks
  <2>2. /\ \A k \in Gets(d) : k \in Gets(d)' \/ (k = n + 1 /\ calls > 0)
        /\ calls' > 0 => m + 1 \in Gets(d)'
        /\ Loses(d) \subseteq Loses(d)'
    BY <1>3 DEF Gets, Loses
  <2>3. ASSUME d \in usable', NEW i \in Lacks(d)'
        PROVE  \E k \in Gets(d)' : i < k
    <3>1. CASE /\ d \in usable /\ calls' = calls
               /\ \A l \in n + 1 .. m :
                    /\ bus'[l].what # "unregistered"
                    /\ ~ About(bus'[l], d, {"removed"})
                    /\ ~ (bus'[l].what = "list" /\ d \notin bus'[l].ids)
      <4>1. i <= n /\ i \in Nat
        BY <1>3, <2>1, <3>1 DEF Lacks
      <4>2. PICK k \in Gets(d) : i < k
        BY <2>1, <3>1, <4>1 DEF DevInv, RowsFollow
      <4>3. CASE k \in Gets(d)'
        BY <4>2, <4>3
      <4>4. CASE k = n + 1 /\ calls > 0
        <5>1. m + 1 \in Gets(d)' /\ i < m + 1
          BY <2>2, <3>1, <4>1, <4>4
        <5> QED
          BY <5>1
      <4> QED
        BY <2>2, <4>3, <4>4
    <3>2. CASE m > n /\ Brings(bus'[m], d)
      <4>1. m \in Gets(d)' /\ m \notin Lacks(d)'
        BY <1>3, <3>2 DEF Gets, Lacks, About, Brings
      <4>2. i < m
        BY <2>1, <4>1
      <4> QED
        BY <4>1, <4>2
    <3> QED
      BY <2>3, <3>1, <3>2
  <2>4. ASSUME d \notin usable', HasRow(d)'
        PROVE  Loses(d)' # {}
    <3>1. CASE d \notin usable
      BY <1>2, <2>2, <2>4, <3>1 DEF DevInv, RowsFollow
    <3>2. CASE d \in usable
      <4>1. m > n /\ (bus'[m].what = "unregistered" \/ About(bus'[m], d, {"visibility", "removed"}))
        BY <2>4, <3>2
      <4>2. m \in Loses(d)'
        BY <1>3, <4>1 DEF Loses, About
      <4> QED
        BY <4>2
    <3> QED
      BY <3>1, <3>2
  <2> QED
    BY <2>3, <2>4
<1>8. IsInjective(devices')
  BY <1>1, DevShape
<1>9. DevicesAnnounced'
  BY <1>1 DEF DevicesAnnounced, DevInv
<1> QED
  BY <1>5, <1>6, <1>7, <1>8, <1>9 DEF DevInv

(* A step in which the first message is handled.                           *)
LEMMA ReceiveStep ==
  ASSUME DevInv, RowsOK',
         NEW n \in Nat, n = Len(bus), n > 0, NEW m \in Nat, m = Len(bus'), n - 1 <= m,
         bus' \in Seq(Message), \A i \in 1 .. n - 1 : bus'[i] = bus[i + 1],
         m >= n => daemon = "down" /\ \A i \in n .. m : bus'[i].what = "error",
         daemon' = daemon, known' = known, usable' = usable, changes' = changes,
         calls' \in Nat, calls > 0 => calls' > 0,
         \A d \in Devices :
           /\ HasRow(d)' => 1 \in MayAdd(d) \/ (0 \in MayAdd(d) /\ 1 \notin Drops(d))
           /\ d \in usable /\ ~ HasRow(d)' /\ d \notin devFailed' =>
                \/ 1 \in Lacks(d)
                \/ 0 \in Lacks(d) /\ (1 \notin Gets(d) \/ calls' > 0)
           /\ d \notin usable /\ HasRow(d)' => HasRow(d) /\ 1 \notin Loses(d)
  PROVE  DevInv'
<1>1. DOMAIN bus = 1 .. n /\ DOMAIN bus' = 1 .. m
  BY DevShape
<1>2. \A i \in 1 .. m : \/ i \in 1 .. n - 1 /\ i + 1 \in 1 .. n
                        \/ i \in n .. m /\ bus'[i].what = "error"
  OBVIOUS
<1>3. DevTypeOK'
  BY DEF DevTypeOK, DevInv, RowsOK
<1>4. ASSUME NEW d \in Devices
      PROVE  /\ \A i \in MayAdd(d)' : i > 0 => i \in 1 .. n - 1 /\ i + 1 \in MayAdd(d)
             /\ \A k \in Drops(d) : k > 1 => k - 1 \in Drops(d)'
             /\ MayAdd(d)' \subseteq Nat /\ Drops(d) \subseteq 1 .. n
  <2>1. \A i \in MayAdd(d)' : i > 0 => i \in 1 .. n - 1 /\ i + 1 \in MayAdd(d)
    BY <1>1, <1>2 DEF MayAdd, About
  <2>2. \A k \in Drops(d) : k > 1 => k - 1 \in Drops(d)'
    <3> SUFFICES ASSUME NEW k \in Drops(d), k > 1 PROVE k - 1 \in Drops(d)'
      OBVIOUS
    <3>1. k - 1 \in 1 .. n - 1 /\ (k - 1) + 1 = k
      BY <1>1 DEF Drops
    <3>2. bus'[k - 1] = bus[k] /\ k - 1 \in 1 .. m
      BY <3>1
    <3> QED
      BY <1>1, <3>2 DEF Drops
  <2>3. MayAdd(d)' \subseteq Nat /\ Drops(d) \subseteq 1 .. n
    BY <1>1 DEF MayAdd, Drops
  <2> QED
    BY <2>1, <2>2, <2>3
<1>5. AddedIsNew'
  <2> SUFFICES ASSUME NEW d \in Devices
               PROVE  /\ \A j \in 1 .. m : About(bus'[j], d, {"added"}) =>
                           \A i \in MayAdd(d)' : i < j => \E k \in Drops(d)' : i < k /\ k < j
                      /\ d \notin known' => \A i \in MayAdd(d)' : \E k \in Drops(d)' : i < k
    BY <1>1 DEF AddedIsNew
  (* Where the row was or came from, one message earlier.                  *)
  <2>1. ASSUME NEW i \in MayAdd(d)'
        PROVE  \E h \in MayAdd(d) : /\ i <= h /\ h <= i + 1
                                    /\ h = i => i = 0 /\ 1 \notin Drops(d)
    <3>1. CASE i > 0
      <4>1. i + 1 \in MayAdd(d)
        BY <1>4, <3>1
      <4> QED
        BY <1>4, <4>1
    <3>2. CASE i = 0
      <4>1. HasRow(d)'
        BY <1>1, <3>2 DEF MayAdd
      <4> QED
        BY <3>2, <4>1
    <3> QED
      BY <1>4, <3>1, <3>2
  (* And where it was dropped, one earlier too.                            *)
  <2>2. ASSUME NEW i \in MayAdd(d)', NEW h \in MayAdd(d), i <= h, h <= i + 1,
               h = i => i = 0 /\ 1 \notin Drops(d), NEW k \in Drops(d), h < k
        PROVE  k - 1 \in Drops(d)' /\ i < k - 1
    <3>1. k \in 1 .. n /\ i \in Nat /\ (h = i \/ h = i + 1)
      <4>1. k \in Nat /\ i \in Nat /\ h \in Nat
        BY <1>1, <1>4 DEF MayAdd
      <4> QED
        BY <1>4, <2>2, <4>1
    <3>2. k > 1 /\ i < k - 1
      BY <2>2, <3>1
    <3> QED
      BY <1>4, <3>2
  <2>3. ASSUME NEW j \in 1 .. m, About(bus'[j], d, {"added"}), NEW i \in MayAdd(d)', i < j
        PROVE  \E k \in Drops(d)' : i < k /\ k < j
    <3>1. j + 1 \in 1 .. n /\ About(bus[j + 1], d, {"added"})
      BY <1>2, <2>3 DEF About
    <3>2. PICK h \in MayAdd(d) : /\ i <= h /\ h <= i + 1
                                 /\ h = i => i = 0 /\ 1 \notin Drops(d)
      BY <2>1
    <3>3. i \in Nat /\ h \in Nat
      BY <1>1, <1>4 DEF MayAdd
    <3>4. h < j + 1
      BY <2>3, <3>2, <3>3
    <3>5. PICK k \in Drops(d) : h < k /\ k < j + 1
      BY <1>1, <3>1, <3>4 DEF DevInv, AddedIsNew
    <3>6. k - 1 \in Drops(d)' /\ i < k - 1
      BY <2>2, <3>2, <3>5
    <3>7. k \in 1 .. n
      BY <1>4
    <3> QED
      BY <3>5, <3>6, <3>7
  <2>4. ASSUME d \notin known', NEW i \in MayAdd(d)'
        PROVE  \E k \in Drops(d)' : i < k
    <3>1. PICK h \in MayAdd(d) : /\ i <= h /\ h <= i + 1
                                 /\ h = i => i = 0 /\ 1 \notin Drops(d)
      BY <2>1
    <3>2. PICK k \in Drops(d) : h < k
      BY <2>4 DEF DevInv, AddedIsNew
    <3> QED
      BY <2>2, <3>1, <3>2
  <2> QED
    BY <2>3, <2>4
<1>6. RowsFollow'
  <2> SUFFICES ASSUME NEW d \in Devices
               PROVE  /\ d \in usable' => \A i \in Lacks(d)' : \E k \in Gets(d)' : i < k
                      /\ d \notin usable' /\ HasRow(d)' => Loses(d)' # {}
    BY DEF RowsFollow
  <2>1. ASSUME d \in usable', NEW i \in Lacks(d)'
        PROVE  \E k \in Gets(d)' : i < k
    <3>1. daemon # "down"
      BY <2>1, DevShape DEF DevInv
    <3>2. PICK h \in Lacks(d) :
            /\ i \in Nat /\ i <= m
            /\ \/ h = i + 1
               \/ h = 0 /\ i = 0 /\ (1 \notin Gets(d) \/ calls' > 0)
      <4>1. CASE i = 0
        <5>1. ~ HasRow(d)' /\ d \notin devFailed'
          BY <1>1, <4>1 DEF Lacks
        <5> QED
          BY <2>1, <4>1, <5>1
      <4>2. CASE i # 0
        <5>1. i \in 1 .. n - 1 /\ i + 1 \in 1 .. n
          BY <1>1, <1>2, <2>1, <3>1, <4>2 DEF Lacks
        <5>2. i + 1 \in Lacks(d)
          BY <1>1, <2>1, <4>2, <5>1 DEF Lacks
        <5> QED
          BY <5>1, <5>2
      <4> QED
        BY <4>1, <4>2
    <3>3. PICK k \in Gets(d) : h < k
      BY <2>1 DEF DevInv, RowsFollow
    <3>4. k \in 1 .. n \/ (k = n + 1 /\ calls > 0)
      BY <1>1 DEF Gets
    <3>5. CASE calls' > 0
      <4>1. m + 1 \in Gets(d)'
        BY <3>5 DEF Gets
      <4>2. i < m + 1
        BY <3>2
      <4> QED
        BY <4>1, <4>2
    <3>6. CASE ~ calls' > 0
      <4>1. k \in 1 .. n
        BY <3>4, <3>6
      <4>2. k > 1 /\ i < k - 1
        BY <3>2, <3>3, <3>6, <4>1
      <4>3. k - 1 \in 1 .. n - 1 /\ (k - 1) + 1 = k
        BY ONLY n \in Nat, <4>1, <4>2
      <4>4. bus'[k - 1] = bus[k] /\ k - 1 \in 1 .. m
        BY <4>3
      <4>5. k - 1 \in Gets(d)'
        BY <1>1, <3>6, <4>1, <4>4 DEF Gets
      <4> QED
        BY <4>2, <4>5
    <3> QED
      BY <3>5, <3>6
  <2>2. ASSUME d \notin usable', HasRow(d)'
        PROVE  Loses(d)' # {}
    <3>1. HasRow(d) /\ 1 \notin Loses(d)
      BY <2>2
    <3>2. PICK k \in Loses(d) : TRUE
      BY <2>2, <3>1 DEF DevInv, RowsFollow
    <3>3. k \in 1 .. n /\ k # 1
      BY <1>1, <3>1 DEF Loses
    <3>4. k - 1 \in 1 .. n - 1 /\ (k - 1) + 1 = k
      BY <3>3
    <3>5. bus'[k - 1] = bus[k] /\ k - 1 \in 1 .. m
      BY <3>4
    <3>6. k - 1 \in Loses(d)'
      BY <1>1, <3>5 DEF Loses
    <3> QED
      BY <3>6
  <2> QED
    BY <2>1, <2>2
<1> QED
  BY <1>3, <1>5, <1>6 DEF DevInv, RowsOK

-----------------------------------------------------------------------------
(* Steps                                                                   *)

LEMMA Sent ==
  ASSUME DevInv, NEW msg \in Message, Signal(msg)
  PROVE  LET n == Len(bus)
         IN /\ bus' \in Seq(Message) /\ Len(bus') = n + 1 /\ n \in Nat
            /\ bus'[n + 1] = msg /\ \A i \in 1 .. n : bus'[i] = bus[i]
            /\ \A j \in n + 1 .. Len(bus') : j = n + 1
BY DevShape DEF Signal

LEMMA DevNumbers ==
  ASSUME DevInv
  PROVE  /\ daemon \in {"up", "down"} /\ calls \in Nat /\ changes \in 0 .. MaxChanges
         /\ MaxChanges \in Nat
         /\ daemon = "down" => known = {}
         /\ Change => changes' \in 0 .. MaxChanges
<1>1. daemon \in {"up", "down"} /\ calls \in Nat /\ changes \in 0 .. MaxChanges /\ MaxChanges \in Nat
  BY DevicesAssumption DEF DevInv, DevTypeOK
<1>2. Change => changes' \in 0 .. MaxChanges
  BY <1>1 DEF Change
<1> QED
  BY <1>1, <1>2 DEF DevInv

LEMMA AppearsStep ==
  ASSUME DevInv, NEW d \in Devices, DeviceAppears(d)
  PROVE  DevInv'
<1> DEFINE msg == [what |-> "added", id |-> d]
<1>1. /\ daemon = "up" /\ d \notin known /\ Change
      /\ known' = known \cup {d} /\ usable' \in {usable, usable \cup {d}}
      /\ Signal(msg) /\ DaemonOnly /\ daemon' = daemon /\ calls' = calls
  BY DEF DeviceAppears
<1>2. msg \in Message /\ msg.what = "added" /\ msg.id = d
  BY DEF Message
<1> HIDE DEF msg
<1>3. PICK n \in Nat : /\ n = Len(bus) /\ bus' \in Seq(Message) /\ Len(bus') = n + 1
                       /\ bus'[n + 1] = msg /\ \A i \in 1 .. n : bus'[i] = bus[i]
                       /\ \A j \in n + 1 .. Len(bus') : j = n + 1
  BY <1>1, <1>2, Sent
<1>4. \A e \in Devices :
        /\ \A j \in n + 1 .. n + 1 : About(bus'[j], e, {"added"}) => e \notin known /\ j = n + 1
        /\ e \notin known' => e \notin known /\ e # d
        /\ e \in usable' => e \in usable \/ Brings(bus'[n + 1], e)
        /\ e \notin usable' => e \notin usable
  BY <1>1, <1>2, <1>3 DEF About, Brings
<1>5. daemon' = "up" /\ changes' \in 0 .. MaxChanges /\ calls' \in Nat
  BY <1>1, DevNumbers
<1>6. known' \subseteq Devices /\ usable' \subseteq known'
  BY <1>1, DevShape
<1> QED
  BY <1>1, <1>2, <1>3, <1>4, <1>5, <1>6, DaemonStep DEF About

LEMMA ChangesStep ==
  ASSUME DevInv, NEW d \in Devices, DeviceChanges(d)
  PROVE  DevInv'
<1> DEFINE msg == [what |-> "visibility", id |-> d]
<1>1. /\ d \in known /\ Change
      /\ usable' = IF d \in usable THEN usable \ {d} ELSE usable \cup {d}
      /\ Signal(msg) /\ DaemonOnly
      /\ daemon' = daemon /\ known' = known /\ calls' = calls
  BY DEF DeviceChanges
<1>2. msg \in Message /\ msg.what = "visibility" /\ msg.id = d
  BY DEF Message
<1> HIDE DEF msg
<1>3. PICK n \in Nat : /\ n = Len(bus) /\ bus' \in Seq(Message) /\ Len(bus') = n + 1
                       /\ bus'[n + 1] = msg /\ \A i \in 1 .. n : bus'[i] = bus[i]
                       /\ \A j \in n + 1 .. Len(bus') : j = n + 1
  BY <1>1, <1>2, Sent
<1>4. \A e \in Devices :
        /\ \A j \in n + 1 .. n + 1 : ~ About(bus'[j], e, {"added"})
        /\ e \notin known' => e \notin known /\ e # d
        /\ e \in usable' => e \in usable \/ Brings(bus'[n + 1], e)
        /\ e \notin usable' /\ e \in usable => About(bus'[n + 1], e, {"visibility", "removed"})
  BY <1>1, <1>2, <1>3 DEF About, Brings
<1>5. daemon' = "up" /\ changes' \in 0 .. MaxChanges /\ calls' \in Nat
  <2>1. daemon = "up"
    BY <1>1, DevNumbers
  <2> QED
    BY <1>1, <2>1, DevNumbers
<1>6. known' \subseteq Devices /\ usable' \subseteq known'
  BY <1>1, DevShape
<1> QED
  BY <1>1, <1>2, <1>3, <1>4, <1>5, <1>6, DaemonStep DEF About

LEMMA RenamedStep ==
  ASSUME DevInv, NEW d \in Devices, DeviceRenamed(d)
  PROVE  DevInv'
<1> DEFINE msg == [what |-> "name", id |-> d]
<1>1. /\ d \in known /\ Change /\ Signal(msg) /\ DaemonOnly
      /\ daemon' = daemon /\ known' = known /\ usable' = usable /\ calls' = calls
  BY DEF DeviceRenamed
<1>2. msg \in Message /\ msg.what = "name" /\ msg.id = d
  BY DEF Message
<1> HIDE DEF msg
<1>3. PICK n \in Nat : /\ n = Len(bus) /\ bus' \in Seq(Message) /\ Len(bus') = n + 1
                       /\ bus'[n + 1] = msg /\ \A i \in 1 .. n : bus'[i] = bus[i]
                       /\ \A j \in n + 1 .. Len(bus') : j = n + 1
  BY <1>1, <1>2, Sent
<1>4. \A e \in Devices :
        /\ \A j \in n + 1 .. n + 1 : ~ About(bus'[j], e, {"added"})
        /\ e \notin known' => e \notin known /\ e # d
  BY <1>1, <1>2, <1>3 DEF About
<1>5. daemon' = "up" /\ changes' \in 0 .. MaxChanges /\ calls' \in Nat
  <2>1. daemon = "up"
    BY <1>1, DevNumbers
  <2> QED
    BY <1>1, <2>1, DevNumbers
<1>6. known' \subseteq Devices /\ usable' \subseteq known'
  BY <1>1, DevShape
<1> QED
  BY <1>1, <1>2, <1>3, <1>4, <1>5, <1>6, DaemonStep DEF About

LEMMA GoesStep ==
  ASSUME DevInv, NEW d \in Devices, DeviceGoes(d)
  PROVE  DevInv'
<1> DEFINE msg == [what |-> "removed", id |-> d]
<1>1. /\ d \in known /\ Change
      /\ known' = known \ {d} /\ usable' = usable \ {d}
      /\ Signal(msg) /\ DaemonOnly /\ daemon' = daemon /\ calls' = calls
  BY DEF DeviceGoes
<1>2. msg \in Message /\ msg.what = "removed" /\ msg.id = d
  BY DEF Message
<1> HIDE DEF msg
<1>3. PICK n \in Nat : /\ n = Len(bus) /\ bus' \in Seq(Message) /\ Len(bus') = n + 1
                       /\ bus'[n + 1] = msg /\ \A i \in 1 .. n : bus'[i] = bus[i]
                       /\ \A j \in n + 1 .. Len(bus') : j = n + 1
  BY <1>1, <1>2, Sent
<1>4. \A e \in Devices :
        /\ \A j \in n + 1 .. n + 1 : ~ About(bus'[j], e, {"added"})
        /\ e \notin known' => e \notin known \/ About(bus'[n + 1], e, {"removed"})
        /\ e \in usable' => e \in usable /\ e # d
        /\ e \notin usable' /\ e \in usable => About(bus'[n + 1], e, {"visibility", "removed"})
  BY <1>1, <1>2, <1>3 DEF About
<1>5. daemon' = "up" /\ changes' \in 0 .. MaxChanges /\ calls' \in Nat
  <2>1. daemon = "up"
    BY <1>1, DevNumbers
  <2> QED
    BY <1>1, <2>1, DevNumbers
<1>6. known' \subseteq Devices /\ usable' \subseteq known'
  BY <1>1, DevShape
<1> QED
  BY <1>1, <1>2, <1>3, <1>4, <1>5, <1>6, DaemonStep DEF About

LEMMA ServeStep ==
  ASSUME DevInv, Serve
  PROVE  DevInv'
<1>1. /\ daemon = "up" /\ calls > 0 /\ calls' = calls - 1 /\ DaemonOnly
      /\ Signal([what |-> "list", ids |-> usable]) \/ Signal([what |-> "error"])
      /\ daemon' = daemon /\ known' = known /\ usable' = usable /\ changes' = changes
  BY DEF Serve
<1>2. PICK msg \in Message :
        /\ Signal(msg)
        /\ (msg.what = "list" /\ msg.ids = usable) \/ msg.what = "error"
  BY <1>1, DevShape DEF Message
<1>3. PICK n \in Nat : /\ n = Len(bus) /\ bus' \in Seq(Message) /\ Len(bus') = n + 1
                       /\ bus'[n + 1] = msg /\ \A i \in 1 .. n : bus'[i] = bus[i]
                       /\ \A j \in n + 1 .. Len(bus') : j = n + 1
  BY <1>2, Sent
<1>4. \A e \in Devices :
        /\ \A j \in n + 1 .. n + 1 : ~ About(bus'[j], e, {"added"})
        /\ e \notin known' => e \notin known /\ ~ (msg.what = "list" /\ e \in msg.ids)
        /\ e \in usable' => Brings(msg, e)
        /\ e \notin usable' => e \notin usable
        /\ ~ About(msg, e, {"added", "visibility", "name"})
  BY <1>1, <1>2, <1>3, DevShape DEF About, Brings
<1>5. daemon' = "up" /\ changes' \in 0 .. MaxChanges /\ calls' \in Nat
  BY <1>1, DevNumbers
<1>6. known' \subseteq Devices /\ usable' \subseteq known'
  BY <1>1, DevShape
<1> QED
  BY <1>1, <1>3, <1>4, <1>5, <1>6, DaemonStep

LEMMA StartsStep ==
  ASSUME DevInv, DaemonStarts
  PROVE  DevInv'
<1> DEFINE msg == [what |-> "registered"]
<1>1. /\ daemon = "down" /\ Change /\ daemon' = "up" /\ Signal(msg) /\ DaemonOnly
      /\ known' \in SUBSET Devices /\ usable' \in SUBSET known' /\ calls' = calls
  BY DEF DaemonStarts
<1>2. msg \in Message /\ msg.what = "registered"
  BY DEF Message
<1> HIDE DEF msg
<1>3. PICK n \in Nat : /\ n = Len(bus) /\ bus' \in Seq(Message) /\ Len(bus') = n + 1
                       /\ bus'[n + 1] = msg /\ \A i \in 1 .. n : bus'[i] = bus[i]
                       /\ \A j \in n + 1 .. Len(bus') : j = n + 1
  BY <1>1, <1>2, Sent
<1>4. known = {} /\ usable = {}
  BY <1>1, DevNumbers, DevShape
<1>5. \A e \in Devices : /\ \A j \in n + 1 .. n + 1 :
                              /\ ~ About(bus'[j], e, {"added", "visibility", "name"})
                              /\ ~ About(bus'[j], e, {"added"})
                              /\ ~ (bus'[j].what = "list" /\ e \in bus'[j].ids)
                         /\ Brings(bus'[n + 1], e) /\ e \notin known /\ e \notin usable
  BY <1>2, <1>3, <1>4 DEF About, Brings
<1>6. changes' \in 0 .. MaxChanges /\ calls' \in Nat
  BY <1>1, DevNumbers
<1> QED
  BY <1>1, <1>3, <1>5, <1>6, DaemonStep

LEMMA StopsStep ==
  ASSUME DevInv, DaemonStops
  PROVE  DevInv'
<1> DEFINE errors == [i \in 1 .. calls |-> [what |-> "error"]]
           end == <<[what |-> "unregistered"]>>
<1>1. /\ Change /\ daemon' = "down" /\ calls' = 0 /\ known' = {} /\ usable' = {}
      /\ bus' = bus \o errors \o end /\ DaemonOnly
  BY DEF DaemonStops
<1>2. PICK c \in Nat : c = calls
  BY DevNumbers
<1>3. PICK n \in Nat : n = Len(bus) /\ bus \in Seq(Message)
  BY DevShape
<1>4. /\ errors \in Seq(Message) /\ Len(errors) = c
      /\ \A i \in 1 .. c : errors[i].what = "error"
  <2>1. [what |-> "error"] \in Message
    BY DEF Message
  <2> QED
    BY <1>2, <2>1
<1>5. end \in Seq(Message) /\ Len(end) = 1 /\ end[1].what = "unregistered"
  <2>1. [what |-> "unregistered"] \in Message
    BY DEF Message
  <2> QED
    BY <2>1
<1> HIDE DEF errors, end
<1> DEFINE b == bus \o errors
<1>6. /\ b \in Seq(Message) /\ Len(b) = n + c
      /\ \A i \in 1 .. n : b[i] = bus[i]
      /\ \A i \in n + 1 .. n + c : b[i] = errors[i - n]
  BY <1>3, <1>4
<1>7. \A i \in n + 1 .. n + c : b[i].what = "error"
  BY <1>3, <1>4, <1>6
<1> HIDE DEF b
<1>8. /\ bus' \in Seq(Message) /\ Len(bus') = n + c + 1
      /\ \A i \in 1 .. n + c : bus'[i] = b[i]
      /\ bus'[n + c + 1] = end[1]
  <2>1. bus' = b \o end
    BY <1>1 DEF b
  <2>2. /\ bus' \in Seq(Message) /\ Len(bus') = Len(b) + Len(end)
        /\ \A i \in 1 .. Len(b) : bus'[i] = b[i]
        /\ \A i \in Len(b) + 1 .. Len(b) + Len(end) : bus'[i] = end[i - Len(b)]
    <3>1. b \in Seq(Message) /\ end \in Seq(Message)
      BY <1>5, <1>6
    <3> QED
      BY ONLY <2>1, <3>1, Joined
  <2>3. Len(b) = n + c /\ Len(end) = 1
    BY <1>5, <1>6
  <2> QED
    BY ONLY n \in Nat, c \in Nat, <2>2, <2>3
<1> DEFINE m == n + c + 1
<1>9. /\ \A i \in 1 .. n : bus'[i] = bus[i]
      /\ \A i \in n + 1 .. m : bus'[i].what \in {"error", "unregistered"}
      /\ bus'[m].what = "unregistered" /\ n <= m /\ m > n /\ m \in Nat /\ m = Len(bus')
  BY <1>5, <1>6, <1>7, <1>8
<1> HIDE DEF m
<1>10. changes' \in 0 .. MaxChanges
  BY <1>1, DevNumbers
<1> QED
  BY <1>1, <1>3, <1>8, <1>9, <1>10, DaemonStep DEF About

(* What the bus is when its first message is handled.                      *)
LEMMA Handled ==
  ASSUME DevInv, bus # <<>>,
         \/ bus' = Tail(bus)
         \/ daemon = "down" /\ bus' = Append(Tail(bus), [what |-> "error"])
  PROVE  \E n, m \in Nat :
           /\ n = Len(bus) /\ n > 0 /\ m = Len(bus') /\ n - 1 <= m
           /\ bus' \in Seq(Message) /\ \A i \in 1 .. n - 1 : bus'[i] = bus[i + 1]
           /\ m >= n => daemon = "down" /\ \A i \in n .. m : bus'[i].what = "error"
<1>0. bus \in Seq(Message)
  BY DevShape
<1>1. PICK n \in Nat : n = Len(bus) /\ n > 0 /\ bus \in Seq(Message)
  BY ONLY <1>0, bus # <<>>
<1>2. PICK t : t = Tail(bus)
  OBVIOUS
<1>3. t \in Seq(Message) /\ Len(t) = n - 1 /\ \A i \in 1 .. n - 1 : t[i] = bus[i + 1]
  BY <1>1, <1>2
<1>4. CASE bus' = t
  <2>1. n - 1 \in Nat /\ ~ n - 1 >= n /\ n - 1 <= n - 1
    BY <1>1
  <2>2. /\ bus' \in Seq(Message) /\ n - 1 = Len(bus')
        /\ \A i \in 1 .. n - 1 : bus'[i] = bus[i + 1]
    BY <1>3, <1>4
  <2> WITNESS n \in Nat, n - 1 \in Nat
  <2> QED
    BY <1>1, <2>1, <2>2
<1>5. CASE daemon = "down" /\ bus' = Append(t, [what |-> "error"])
  <2>1. PICK e : e = [what |-> "error"]
    OBVIOUS
  <2>2. e \in Message /\ e.what = "error"
    BY <2>1 DEF Message
  <2>3. bus' = Append(t, e)
    BY <1>5, <2>1
  <2>4. /\ bus' \in Seq(Message) /\ Len(bus') = n
        /\ \A i \in 1 .. n - 1 : bus'[i] = t[i]
        /\ bus'[n] = e
    BY ONLY <1>1, <1>3, <2>2, <2>3
  <2>5. \A i \in n .. n : bus'[i].what = "error"
    BY <1>1, <2>2, <2>4
  <2>6. \A i \in 1 .. n - 1 : bus'[i] = bus[i + 1]
    BY <1>3, <2>4
  <2>7. n - 1 <= n /\ n = Len(bus')
    BY <1>1, <2>4
  <2> WITNESS n \in Nat, n \in Nat
  <2> QED
    BY <1>1, <1>5, <2>4, <2>5, <2>6, <2>7
<1> QED
  BY <1>2, <1>4, <1>5

(* Where the first message counts.                                         *)
LEMMA FirstCounts ==
  ASSUME DevInv, bus # <<>>, NEW d
  PROVE  LET msg == Head(bus)
         IN /\ 1 \in MayAdd(d) <=> \/ About(msg, d, {"added", "visibility", "name"})
                                   \/ msg.what = "list" /\ d \in msg.ids
            /\ 0 \in MayAdd(d) <=> HasRow(d)
            /\ 1 \in Drops(d) <=> msg.what = "unregistered" \/ About(msg, d, {"removed"})
            /\ 1 \in Lacks(d) <=> \/ msg.what = "unregistered"
                                  \/ About(msg, d, {"removed"})
                                  \/ msg.what = "list" /\ d \notin msg.ids
            /\ 0 \in Lacks(d) <=> ~ HasRow(d) /\ d \notin devFailed
            /\ 1 \in Gets(d) <=> Brings(msg, d)
            /\ 1 \in Loses(d) <=> \/ About(msg, d, {"visibility", "name", "removed"})
                                  \/ msg.what \in {"list", "error", "unregistered"}
<1>1. 1 \in DOMAIN bus /\ 0 \notin DOMAIN bus /\ Head(bus) = bus[1] /\ 1 # Len(bus) + 1
  BY DevShape
<1> QED
  BY <1>1 DEF MayAdd, Drops, Lacks, Gets, Loses, Brings

(* What a handler makes of the rows of each device.                        *)
LEMMA RowsAfter ==
  ASSUME DevInv, DevReceive
  PROVE  /\ RowsOK'
         /\ \A d \in Devices :
              /\ HasRow(d)' => 1 \in MayAdd(d) \/ (0 \in MayAdd(d) /\ 1 \notin Drops(d))
              /\ d \in usable /\ ~ HasRow(d)' /\ d \notin devFailed' =>
                   \/ 1 \in Lacks(d)
                   \/ 0 \in Lacks(d) /\ (1 \notin Gets(d) \/ Head(bus).what = "registered")
              /\ d \notin usable /\ HasRow(d)' => HasRow(d) /\ 1 \notin Loses(d)
<1>1. PICK msg : msg = Head(bus)
  OBVIOUS
<1>2. PICK seen \in SUBSET usable :
      /\ bus # <<>>
      /\ \/ msg.what = "added" /\ DeviceAdded(msg.id, seen)
         \/ msg.what = "removed" /\ DeviceRemoved(msg.id)
         \/ msg.what = "visibility" /\ DeviceUpdated(msg.id, seen)
         \/ msg.what = "name" /\ NameChanged(msg.id, seen)
         \/ msg.what = "list" /\ GotDeviceList(msg.ids, seen)
         \/ msg.what = "error" /\ ClearDevices(Devices)
         \/ msg.what = "unregistered" /\ ClearDevices({})
         \/ msg.what = "registered" /\ SameRows
  BY <1>1 DEF DevReceive
<1>3. msg \in Message
  BY <1>1, <1>2, DevShape
<1>4. /\ msg.what \in {"added", "removed", "visibility", "name"} => msg.id \in Devices
      /\ msg.what = "list" => msg.ids \in SUBSET Devices
  BY <1>3 DEF Message
<1>5. \A d \in Devices :
        /\ 1 \in MayAdd(d) <=> \/ About(msg, d, {"added", "visibility", "name"})
                               \/ msg.what = "list" /\ d \in msg.ids
        /\ 0 \in MayAdd(d) <=> HasRow(d)
        /\ 1 \in Drops(d) <=> msg.what = "unregistered" \/ About(msg, d, {"removed"})
        /\ 1 \in Lacks(d) <=> \/ msg.what = "unregistered"
                              \/ About(msg, d, {"removed"})
                              \/ msg.what = "list" /\ d \notin msg.ids
        /\ 0 \in Lacks(d) <=> ~ HasRow(d) /\ d \notin devFailed
        /\ 1 \in Gets(d) <=> Brings(msg, d)
        /\ 1 \in Loses(d) <=> \/ About(msg, d, {"visibility", "name", "removed"})
                              \/ msg.what \in {"list", "error", "unregistered"}
  BY <1>1, <1>2, FirstCounts
<1>6. \A d : (HasRow(d) <=> d \in ToSet(devices)) /\ (HasRow(d)' <=> d \in ToSet(devices'))
  BY DEF HasRow
<1>7. CASE msg.what = "added" /\ DeviceAdded(msg.id, seen)
  <2>1. /\ RowsOK' /\ AskedOnly(msg.id)
        /\ ToSet(devices') = ToSet(devices) \cup {x \in {msg.id} : msg.id \in seen}
    BY <1>4, <1>7, AddedEffect
  <2> QED
    BY <1>5, <1>6, <1>7, <2>1 DEF About, Brings, AskedOnly
<1>8. CASE msg.what = "removed" /\ DeviceRemoved(msg.id)
  <2>1. RowsOK' /\ ToSet(devices') = ToSet(devices) \ {msg.id} /\ devFailed' = devFailed
    BY <1>4, <1>8, RemovedEffect
  <2> QED
    BY <1>5, <1>6, <1>8, <2>1 DEF About, Brings
<1>9. CASE msg.what = "visibility" /\ DeviceUpdated(msg.id, seen)
  <2>1. /\ RowsOK' /\ AskedOnly(msg.id)
        /\ ToSet(devices') = IF msg.id \in seen THEN ToSet(devices) \cup {msg.id}
                             ELSE ToSet(devices) \ {msg.id}
    BY <1>4, <1>9, UpdatedEffect
  <2> QED
    BY <1>5, <1>6, <1>9, <2>1 DEF About, Brings, AskedOnly
<1>10. CASE msg.what = "name" /\ NameChanged(msg.id, seen)
  <2>1. CASE ~ HasRow(msg.id)
    <3>1. SameRows
      BY <1>10, <2>1, RowIs DEF NameChanged
    <3>2. RowsOK' /\ ToSet(devices') = ToSet(devices) /\ devFailed' = devFailed
      BY <3>1, SameEffect
    <3> QED
      BY <1>5, <1>6, <1>10, <2>1, <3>2 DEF About, Brings
  <2>2. CASE HasRow(msg.id)
    <3>1. DeviceUpdated(msg.id, seen)
      BY <1>10, <2>2, RowIs DEF NameChanged
    <3>2. /\ RowsOK' /\ AskedOnly(msg.id)
          /\ ToSet(devices') = IF msg.id \in seen THEN ToSet(devices) \cup {msg.id}
                               ELSE ToSet(devices) \ {msg.id}
      BY <1>4, <1>10, <3>1, UpdatedEffect
    <3> QED
      BY <1>5, <1>6, <1>10, <2>2, <3>2 DEF About, Brings, AskedOnly
  <2> QED
    BY <2>1, <2>2
<1>11. CASE msg.what = "list" /\ GotDeviceList(msg.ids, seen)
  <2>1. /\ RowsOK' /\ ToSet(devices') = msg.ids \cap seen
        /\ devFailed' = msg.ids \cap (usable \ seen)
    BY <1>4, <1>11, ListEffect
  <2> QED
    BY <1>5, <1>6, <1>11, <2>1 DEF About, Brings
<1>12. CASE msg.what = "error" /\ ClearDevices(Devices)
  <2>1. RowsOK' /\ ToSet(devices') = {} /\ devFailed' = Devices
    BY <1>12, ClearEffect
  <2> QED
    BY <1>5, <1>6, <1>12, <2>1
<1>13. CASE msg.what = "unregistered" /\ ClearDevices({})
  <2>1. RowsOK' /\ ToSet(devices') = {}
    BY <1>13, ClearEffect
  <2> QED
    BY <1>5, <1>6, <1>13, <2>1
<1>14. CASE msg.what = "registered" /\ SameRows
  <2>1. RowsOK' /\ ToSet(devices') = ToSet(devices) /\ devFailed' = devFailed
    BY <1>14, SameEffect
  <2> QED
    BY <1>1, <1>5, <1>6, <1>14, <2>1 DEF About, Brings
<1> QED
  BY <1>1, <1>2, <1>7, <1>8, <1>9, <1>10, <1>11, <1>12, <1>13, <1>14

LEMMA HandleStep ==
  ASSUME DevInv, DevReceive
  PROVE  DevInv'
<1>1. /\ bus # <<>> /\ calls' \in Nat
      /\ \/ bus' = Tail(bus)
         \/ daemon = "down" /\ bus' = Append(Tail(bus), [what |-> "error"])
      /\ daemon' = daemon /\ known' = known /\ usable' = usable /\ changes' = changes
  BY DevNumbers DEF DevReceive, LoadDeviceList
<1>2. /\ calls > 0 => calls' > 0
      /\ usable # {} /\ Head(bus).what = "registered" => calls' > 0
  <2>1. usable # {} => daemon = "up"
    BY DevNumbers, DevShape
  <2> QED
    BY <2>1, DevNumbers DEF DevReceive, LoadDeviceList
<1>3. PICK n, m \in Nat :
        /\ n = Len(bus) /\ n > 0 /\ m = Len(bus') /\ n - 1 <= m
        /\ bus' \in Seq(Message) /\ \A i \in 1 .. n - 1 : bus'[i] = bus[i + 1]
        /\ m >= n => daemon = "down" /\ \A i \in n .. m : bus'[i].what = "error"
  BY <1>1, Handled
<1>4. /\ RowsOK'
      /\ \A d \in Devices :
           /\ HasRow(d)' => 1 \in MayAdd(d) \/ (0 \in MayAdd(d) /\ 1 \notin Drops(d))
           /\ d \in usable /\ ~ HasRow(d)' /\ d \notin devFailed' =>
                \/ 1 \in Lacks(d)
                \/ 0 \in Lacks(d) /\ (1 \notin Gets(d) \/ calls' > 0)
           /\ d \notin usable /\ HasRow(d)' => HasRow(d) /\ 1 \notin Loses(d)
  BY <1>2, RowsAfter
<1> QED
  BY <1>1, <1>2, <1>3, <1>4, ReceiveStep

-----------------------------------------------------------------------------
(* The invariant                                                           *)

LEMMA DevStarts ==
  ASSUME DevInit
  PROVE  DevInv
<1>1. /\ devices = <<>> /\ devTold = 0 /\ bus = <<>> /\ changes = 0 /\ devRaced = FALSE
      /\ devFailed = {} /\ daemon \in {"up", "down"}
      /\ known \in SUBSET Devices /\ usable \in SUBSET known
      /\ daemon = "down" => known = {}
      /\ calls = IF daemon = "up" THEN 1 ELSE 0
  BY DEF DevInit
<1>2. DevTypeOK
  <2>1. devices \in Seq(Devices) /\ bus \in Seq(Message)
    BY <1>1
  <2>2. changes \in 0 .. MaxChanges /\ calls \in Nat
    BY <1>1, DevicesAssumption
  <2> QED
    BY <1>1, <2>1, <2>2 DEF DevTypeOK
<1>3. DOMAIN devices = {} /\ DOMAIN bus = {} /\ Len(devices) = 0 /\ Len(bus) = 0
  BY <1>1
<1>4. \A d : MayAdd(d) = {} /\ ~ HasRow(d) /\ Lacks(d) \subseteq {0}
  BY <1>3 DEF MayAdd, HasRow, ToSet, Lacks
<1>5. AddedIsNew
  BY <1>1, <1>3, <1>4 DEF AddedIsNew
<1>6. usable # {} => calls > 0
  BY <1>1
<1>7. \A d : calls > 0 => 1 \in Gets(d)
  BY <1>3 DEF Gets
<1>8. RowsFollow
  BY <1>4, <1>6, <1>7 DEF RowsFollow
<1> QED
  BY <1>1, <1>2, <1>3, <1>5, <1>8 DEF DevInv, IsInjective, DevicesAnnounced

LEMMA DevStep ==
  ASSUME DevInv, [DevNext]_devVars
  PROVE  DevInv'
<1>1. CASE DevNext
  BY <1>1, ServeStep, StopsStep, StartsStep, HandleStep, AppearsStep, ChangesStep,
     RenamedStep, GoesStep DEF DevNext
<1>2. CASE UNCHANGED devVars
  <2>1. /\ devices' = devices /\ devTold' = devTold /\ bus' = bus /\ changes' = changes
        /\ devRaced' = devRaced /\ devFailed' = devFailed
        /\ known' = known /\ usable' = usable
        /\ daemon' = daemon /\ calls' = calls
    BY <1>2 DEF devVars
  <2> QED
    BY <2>1 DEF DevInv, DevTypeOK, DevicesAnnounced, AddedIsNew, RowsFollow,
       MayAdd, Drops, Lacks, Gets, Loses, HasRow
<1> QED
  BY <1>1, <1>2

(* With nothing under way, the rows are the devices that can be shared to, *)
(* but for those about which the last call failed.                         *)
LEMMA DevicesSettled ==
  ASSUME DevInv
  PROVE  DevicesAtRest
<1> SUFFICES ASSUME bus = <<>>, calls = 0
             PROVE  /\ ToSet(devices) \subseteq usable
                    /\ usable \ ToSet(devices) \subseteq devFailed
  BY DEF DevicesAtRest
<1>1. DOMAIN bus = {}
  OBVIOUS
<1>2. \A d \in Devices : /\ Gets(d) = {} /\ Loses(d) = {}
                         /\ ~ HasRow(d) /\ d \notin devFailed => Lacks(d) # {}
  BY <1>1 DEF Gets, Loses, Lacks
<1>3. \A d \in Devices : /\ HasRow(d) => d \in usable
                         /\ d \in usable => HasRow(d) \/ d \in devFailed
  BY <1>2 DEF DevInv, RowsFollow
<1>4. ToSet(devices) \subseteq Devices /\ usable \subseteq Devices
  BY DevShape DEF ToSet
<1> QED
  BY <1>3, <1>4 DEF HasRow
=============================================================================
