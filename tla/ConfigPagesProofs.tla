------------------------- MODULE ConfigPagesProofs -------------------------
(* Proofs about ConfigPages, for any devices, accounts, servers and pages: *)
(* each list has an invariant of its own, which the steps of the others    *)
(* leave alone.  That of the devices is proved in DevicesModelProofs.      *)
EXTENDS ConfigPages, DevicesModelProofs

-----------------------------------------------------------------------------
(* Sequences                                                               *)

LEMMA HeadAndTail ==
  ASSUME NEW T, NEW s \in Seq(T), s # <<>>
  PROVE  /\ Head(s) \in T /\ Tail(s) \in Seq(T)
         /\ ToSet(s) = {Head(s)} \cup ToSet(Tail(s))
<1>1. PICK n \in Nat : n = Len(s) /\ n > 0 /\ DOMAIN s = 1 .. n
  OBVIOUS
<1>2. PICK t : t = Tail(s)
  OBVIOUS
<1>3. t \in Seq(T) /\ DOMAIN t = 1 .. n - 1 /\ \A i \in 1 .. n - 1 : t[i] = s[i + 1]
  BY <1>1, <1>2
<1>4. Head(s) = s[1] /\ s[1] \in T
  BY <1>1
<1>5. \A i \in 1 .. n : i = 1 \/ (i - 1 \in 1 .. n - 1 /\ s[i] = t[i - 1])
  BY <1>1, <1>3
<1>6. ToSet(s) = {s[1]} \cup ToSet(t)
  <2>1. \A y \in ToSet(s) : y = s[1] \/ y \in ToSet(t)
    BY <1>1, <1>3, <1>5, SMTT(30) DEF ToSet
  <2>2. \A y \in ToSet(t) : y \in ToSet(s)
    BY <1>1, <1>3, SMTT(30) DEF ToSet
  <2>3. s[1] \in ToSet(s)
    BY <1>1 DEF ToSet
  <2> QED
    BY <2>1, <2>2, <2>3
<1> QED
  BY <1>2, <1>3, <1>4, <1>6

LEMMA PrefixIs ==
  ASSUME NEW T, NEW s \in Seq(T), NEW t \in Seq(T)
  PROVE  IsPrefix(s, t) <=> Len(s) <= Len(t) /\ \A i \in 1 .. Len(s) : s[i] = t[i]
<1>1. PICK n, m \in Nat : n = Len(s) /\ m = Len(t) /\ DOMAIN s = 1 .. n
  OBVIOUS
<1>2. CASE n <= m
  <2>1. PICK a, b : a = SubSeq(s, 1, n) /\ b = SubSeq(t, 1, n)
    OBVIOUS
  <2>2. /\ a \in Seq(T) /\ Len(a) = n /\ \A i \in 1 .. n : a[i] = s[i]
        /\ b \in Seq(T) /\ Len(b) = n /\ \A i \in 1 .. n : b[i] = t[i]
    BY <1>1, <1>2, <2>1
  <2>3. a = b <=> \A i \in 1 .. n : a[i] = b[i]
    BY <1>1, <2>2
  <2> QED
    BY <1>1, <1>2, <2>1, <2>2, <2>3 DEF IsPrefix
<1>3. CASE ~ n <= m
  BY <1>1, <1>3 DEF IsPrefix
<1> QED
  BY <1>2, <1>3

(* A prefix that goes on for k more.                                       *)
LEMMA NextPart ==
  ASSUME NEW T, NEW s \in Seq(T), NEW t \in Seq(T), IsPrefix(s, t),
         NEW k \in Nat, k <= Len(t) - Len(s)
  PROVE  LET g == s \o SubSeq(t, Len(s) + 1, Len(s) + k)
         IN /\ g \in Seq(T) /\ IsPrefix(g, t) /\ Len(g) = Len(s) + k
            /\ Len(g) >= Len(t) => g = t
<1>1. PICK n, m \in Nat : n = Len(s) /\ m = Len(t) /\ n + k <= m
  OBVIOUS
<1>2. n <= m /\ \A i \in 1 .. n : s[i] = t[i]
  BY <1>1, PrefixIs
<1>3. PICK b : b = SubSeq(t, n + 1, n + k)
  OBVIOUS
<1>4. b \in Seq(T) /\ Len(b) = k /\ \A i \in 1 .. k : b[i] = t[i + n]
  BY <1>1, <1>3
<1>5. PICK g : g = s \o b
  OBVIOUS
<1>6. /\ g \in Seq(T) /\ Len(g) = n + k
      /\ \A i \in 1 .. n : g[i] = s[i]
      /\ \A i \in n + 1 .. n + k : g[i] = b[i - n]
  <2>1. /\ s \o b \in Seq(T) /\ Len(s \o b) = Len(s) + Len(b)
        /\ \A i \in 1 .. Len(s) : (s \o b)[i] = s[i]
        /\ \A i \in Len(s) + 1 .. Len(s) + Len(b) : (s \o b)[i] = b[i - Len(s)]
    BY ONLY <1>4, Joined, s \in Seq(T)
  <2> QED
    BY <1>1, <1>4, <1>5, <2>1
<1>7. \A i \in n + 1 .. n + k : i - n \in 1 .. k /\ (i - n) + n = i
  BY <1>1
<1>8. \A i \in 1 .. n + k : g[i] = t[i]
  <2> TAKE i \in 1 .. n + k
  <2>1. CASE i \in 1 .. n
    BY <1>2, <1>6, <2>1
  <2>2. CASE i \in n + 1 .. n + k
    BY <1>4, <1>6, <1>7, <2>2
  <2> QED
    BY <1>1, <2>1, <2>2
<1>9. IsPrefix(g, t)
  BY <1>1, <1>6, <1>8, PrefixIs
<1>10. n + k >= m => g = t
  BY <1>1, <1>6, <1>8
<1> QED
  BY <1>1, <1>3, <1>5, <1>6, <1>9, <1>10

-----------------------------------------------------------------------------
(* The revisions                                                           *)

LEMMA DiffStarts ==
  ASSUME DiffInit
  PROVE  DiffInv
BY DEF DiffInit, DiffInv, DiffTypeOK, Nested

LEMMA DiffStep ==
  ASSUME DiffInv, [DiffNext]_diffVars
  PROVE  DiffInv'
<1>1. ASSUME NEW p \in DiffPages, RefreshDiffs(p)
      PROVE  DiffInv'
  <2>1. DiffTypeOK'
    BY <1>1 DEF DiffInv, DiffTypeOK, RefreshDiffs, StartList
  <2>2. Nested'
    BY <1>1 DEF DiffInv, DiffTypeOK, Nested, RefreshDiffs, StartList
  <2> QED
    BY <2>1, <2>2 DEF DiffInv
<1>2. ASSUME NEW p \in DiffPages, ReceivedDiffRevs(p)
      PROVE  DiffInv'
  <2>1. DiffTypeOK'
    BY <1>2 DEF DiffInv, DiffTypeOK, ReceivedDiffRevs
  <2>2. Nested'
    BY <1>2 DEF DiffInv, DiffTypeOK, Nested, ReceivedDiffRevs
  <2> QED
    BY <2>1, <2>2 DEF DiffInv
<1>3. ASSUME NEW p \in DiffPages, ListFailed(p) \/ LeavePage(p)
      PROVE  DiffInv'
  BY <1>3 DEF DiffInv, DiffTypeOK, Nested, ListFailed, LeavePage
<1>4. CASE UNCHANGED diffVars
  BY <1>4 DEF diffVars, DiffInv, DiffTypeOK, Nested
<1> QED
  BY <1>1, <1>2, <1>3, <1>4 DEF DiffNext

LEMMA BackWhenListed ==
  ASSUME DiffInv
  PROVE  CwdRestored
BY DEF DiffInv, DiffTypeOK, Nested, CwdRestored

-----------------------------------------------------------------------------
(* The accounts                                                            *)

LEMMA AccShape ==
  ASSUME AccInv
  PROVE  /\ accounts \in Seq(Accounts) /\ Len(accounts) \in Nat
         /\ DOMAIN accounts = 1 .. Len(accounts) /\ ToSet(accounts) \subseteq Accounts
         /\ accTold \in Nat /\ accType \in AccountTypes \cup {NoType} /\ online \in BOOLEAN
         /\ granted \subseteq Accounts /\ grants \in Seq(Accounts)
         /\ grantCount \in 0 .. MaxGrants /\ MaxGrants \in Nat
         /\ accAhead \in BOOLEAN /\ accRevoked \in BOOLEAN /\ accOther \in BOOLEAN
         /\ accFailed \subseteq Accounts
<1>1. accounts \in Seq(Accounts) /\ MaxGrants \in Nat
  BY TypeOfAssumption DEF AccInv, AccTypeOK
<1>2. ToSet(accounts) \subseteq Accounts
  BY <1>1 DEF ToSet
<1> QED
  BY <1>1, <1>2 DEF AccInv, AccTypeOK

(* The rows are of the type asked for.                                     *)
LEMMA RowTypes ==
  AccountRows <=>
    /\ \A a \in ToSet(accounts) : TypeOf[a] = accType
    /\ accAhead \/ accRevoked \/ IsInjective(accounts)
BY DEF AccountRows, ToSet

LEMMA AccStarts ==
  ASSUME AccInit
  PROVE  AccInv
<1>1. /\ accounts = <<>> /\ accTold = 0 /\ accType = NoType /\ online \in BOOLEAN
      /\ granted \in SUBSET Accounts /\ grants = <<>> /\ grantCount = 0
      /\ accAhead = FALSE /\ accRevoked = FALSE /\ accOther = FALSE /\ accFailed = {}
  BY DEF AccInit
<1>2. AccTypeOK
  <2>1. accounts \in Seq(Accounts) /\ grants \in Seq(Accounts)
    BY <1>1
  <2>2. grantCount \in 0 .. MaxGrants
    BY <1>1, TypeOfAssumption
  <2> QED
    BY <1>1, <2>1, <2>2 DEF AccTypeOK
<1>3. DOMAIN accounts = {} /\ DOMAIN grants = {} /\ Len(accounts) = 0
  BY <1>1
<1>4. ToSet(accounts) = {} /\ ToSet(grants) = {} /\ IsInjective(accounts)
  BY <1>3 DEF ToSet, IsInjective
<1>5. OfType(granted, accType) = {}
  BY <1>1, TypeOfAssumption DEF OfType
<1> QED
  BY <1>1, <1>2, <1>3, <1>4, <1>5, RowTypes DEF AccInv, AccountsAnnounced

(* What load() makes of the rows.                                          *)
LEMMA LoadEffect ==
  ASSUME AccInv, NEW type, Load(type)
  PROVE  /\ accounts' \in Seq(Accounts) /\ IsInjective(accounts')
         /\ ToSet(accounts') \subseteq OfType(granted, type)
         /\ OfType(granted, type) \subseteq ToSet(accounts') \cup accFailed'
         /\ accFailed' \subseteq Accounts
         /\ ~ online => accFailed' = {}
         /\ accTold' \in Nat /\ accTold' = Len(accounts')
         /\ accAhead' = (online /\ granted \cap ToSet(grants) # {})
         /\ accRevoked' = FALSE /\ accOther' = FALSE
<1>1. PICK read \in Readable :
        /\ accounts' = SetToSeq(OfType(read, type)) /\ accTold' = Len(accounts')
        /\ accFailed' = granted \ read
        /\ accAhead' = (online /\ granted \cap ToSet(grants) # {})
        /\ accRevoked' = FALSE /\ accOther' = FALSE
  BY DEF Load
<1>2. read \subseteq granted /\ (~ online => read = granted)
  BY DEF Readable
<1>3. /\ OfType(read, type) \subseteq Accounts
      /\ OfType(read, type) \subseteq OfType(granted, type)
      /\ OfType(granted, type) \subseteq OfType(read, type) \cup (granted \ read)
  BY <1>2, AccShape DEF OfType
<1>4. IsFiniteSet(OfType(read, type))
  BY <1>3, TypeOfAssumption, FS_Subset
<1>5. /\ accounts' \in Seq(OfType(read, type)) /\ IsInjective(accounts')
      /\ ToSet(accounts') = OfType(read, type)
  BY <1>1, <1>4, SeqOfSet
<1>6. accounts' \in Seq(Accounts)
  BY ONLY <1>3, <1>5
<1>7. accTold' \in Nat
  BY <1>1, <1>6
<1>8. accFailed' \subseteq Accounts /\ (~ online => accFailed' = {})
  BY <1>1, <1>2, AccShape
<1> QED
  BY <1>1, <1>3, <1>5, <1>6, <1>7, <1>8

LEMMA SetTypeStep ==
  ASSUME AccInv, NEW type \in AccountTypes, SetType(type)
  PROVE  AccInv'
<1>1. /\ accType' = type /\ Load(type) /\ online' = online /\ granted' = granted
      /\ grants' = grants /\ grantCount' = grantCount
  BY DEF SetType
<1>2. /\ accounts' \in Seq(Accounts) /\ IsInjective(accounts')
      /\ ToSet(accounts') \subseteq OfType(granted, type)
      /\ OfType(granted, type) \subseteq ToSet(accounts') \cup accFailed'
      /\ accFailed' \subseteq Accounts /\ (~ online => accFailed' = {})
      /\ accTold' \in Nat /\ accTold' = Len(accounts')
      /\ accAhead' = (online /\ granted \cap ToSet(grants) # {})
      /\ accRevoked' = FALSE /\ accOther' = FALSE
  BY <1>1, LoadEffect
<1>3. AccTypeOK'
  BY <1>1, <1>2, AccShape DEF AccTypeOK
<1>4. \A b \in OfType(granted, type) : TypeOf[b] = type /\ b \in granted
  BY DEF OfType
<1>5. AccountRows' /\ AccountsAnnounced'
  <2>1. \A i \in DOMAIN accounts' : TypeOf[accounts'[i]] = accType'
    BY <1>1, <1>2, <1>4 DEF ToSet
  <2> QED
    BY <1>2, <2>1 DEF AccountRows, AccountsAnnounced
<1>6. OfType(granted, accType)' = OfType(granted, type)
  BY <1>1 DEF OfType
<1>7. ToSet(grants)' = ToSet(grants)
  BY <1>1
<1>8. ToSet(accounts') \subseteq granted
  BY <1>2, <1>4
<1>9. online' =>
        /\ OfType(granted, accType)' \subseteq ToSet(accounts') \cup ToSet(grants') \cup accFailed'
        /\ accRevoked' \/ ToSet(accounts') \subseteq granted'
        /\ accAhead' \/ accRevoked' \/ ToSet(accounts') \cap ToSet(grants') = {}
  BY <1>1, <1>2, <1>6, <1>7, <1>8
<1>10. ~ online' => ToSet(accounts') = OfType(granted, accType)' /\ accFailed' = {}
  BY <1>1, <1>2, <1>6
<1> QED
  BY <1>2, <1>3, <1>5, <1>9, <1>10 DEF AccInv

(* A signal of KOnlineAccounts.                                            *)
LEMMA GrantedStep ==
  ASSUME AccInv, AccReceive, online
  PROVE  AccInv'
<1>1. PICK a, t : a = Head(grants) /\ t = Tail(grants)
  OBVIOUS
<1>2. /\ grants # <<>> /\ grants' = t /\ AccountGranted(a)
      /\ accType' = accType /\ online' /\ granted' = granted /\ grantCount' = grantCount
  BY <1>1 DEF AccReceive
<1>3. a \in Accounts /\ t \in Seq(Accounts) /\ ToSet(grants) = {a} \cup ToSet(t)
  BY <1>1, <1>2, HeadAndTail, AccShape
<1>4. PICK read \in SUBSET granted :
        /\ accounts' = AddFromDBus(a, read) /\ accTold' = accTold + 1
        /\ accFailed' = (accFailed \ {a}) \cup {x \in {a} : x \in granted \ read}
        /\ accOther' = (accOther \/ accounts' = accounts)
        /\ accAhead' = (accAhead \/ a \in ToSet(t)) /\ accRevoked' = accRevoked
  BY <1>1, <1>2 DEF AccountGranted
<1>5. /\ accounts' \in Seq(Accounts)
      /\ ToSet(accounts') = ToSet(accounts) \cup {x \in {a} : a \in OfType(read, accType)}
      /\ a \notin ToSet(accounts) /\ IsInjective(accounts) => IsInjective(accounts')
      /\ accounts' # accounts => Len(accounts') = Len(accounts) + 1
  <2>1. CASE a \in OfType(read, accType)
    <3>1. accounts' = Append(accounts, a)
      BY <1>4, <2>1 DEF AddFromDBus
    <3> QED
      BY <1>3, <2>1, <3>1, AppendRow, AccShape
  <2>2. CASE a \notin OfType(read, accType)
    BY <1>4, <2>2, AccShape DEF AddFromDBus
  <2> QED
    BY <2>1, <2>2
<1>6. /\ OfType(granted, accType) \subseteq ToSet(accounts) \cup ToSet(grants) \cup accFailed
      /\ accRevoked \/ ToSet(accounts) \subseteq granted
      /\ accAhead \/ accRevoked \/ ToSet(accounts) \cap ToSet(grants) = {}
      /\ \A b \in ToSet(accounts) : TypeOf[b] = accType
      /\ accAhead \/ accRevoked \/ IsInjective(accounts)
      /\ accOther \/ Len(accounts) = accTold
  BY RowTypes DEF AccInv, AccountsAnnounced
<1>7. AccTypeOK'
  <2>1. accFailed' \subseteq Accounts
    BY <1>3, <1>4, AccShape
  <2> QED
    BY <1>2, <1>3, <1>4, <1>5, <2>1, AccShape DEF AccTypeOK
<1>8. /\ \A b \in OfType(granted, accType) : TypeOf[b] = accType /\ b \in granted
      /\ OfType(read, accType) \subseteq OfType(granted, accType)
      /\ \A b \in OfType(granted, accType) : b \in read => b \in OfType(read, accType)
  BY DEF OfType
<1>9. AccountRows'
  <2>1. \A b \in ToSet(accounts') : TypeOf[b] = accType'
    BY <1>2, <1>5, <1>6, <1>8
  <2>2. accAhead' \/ accRevoked' \/ IsInjective(accounts')
    BY <1>3, <1>4, <1>5, <1>6
  <2> QED
    BY <2>1, <2>2 DEF AccountRows, ToSet
<1>10. AccountsAnnounced'
  BY <1>4, <1>5, <1>6, AccShape DEF AccountsAnnounced
<1>11. OfType(granted, accType)' = OfType(granted, accType)
  BY <1>2 DEF OfType
<1>12. \A b \in OfType(granted, accType) : b \in ToSet(accounts') \cup ToSet(t) \cup accFailed'
  <2> TAKE b \in OfType(granted, accType)
  <2>1. CASE b = a
    BY <1>4, <1>5, <1>8, <2>1
  <2>2. CASE b # a
    BY <1>3, <1>4, <1>5, <1>6, <2>2
  <2> QED
    BY <2>1, <2>2
<1>13. /\ accRevoked' \/ ToSet(accounts') \subseteq granted
       /\ accAhead' \/ accRevoked' \/ ToSet(accounts') \cap ToSet(t) = {}
  BY <1>3, <1>4, <1>5, <1>6, <1>8
<1> QED
  BY <1>2, <1>7, <1>9, <1>10, <1>11, <1>12, <1>13 DEF AccInv

(* A signal of KAccounts.                                                  *)
LEMMA ReloadStep ==
  ASSUME AccInv, AccReceive, ~ online
  PROVE  AccInv'
<1>1. /\ grants # <<>> /\ grants' = Tail(grants) /\ Load(accType)
      /\ accType' = accType /\ online' = online /\ granted' = granted
      /\ grantCount' = grantCount
  BY DEF AccReceive
<1>2. /\ accounts' \in Seq(Accounts) /\ IsInjective(accounts')
      /\ ToSet(accounts') = OfType(granted, accType)
      /\ accTold' \in Nat /\ accTold' = Len(accounts') /\ accFailed' = {}
      /\ accAhead' = FALSE /\ accRevoked' = FALSE /\ accOther' = FALSE
  BY <1>1, LoadEffect
<1>3. Tail(grants) \in Seq(Accounts)
  BY <1>1, HeadAndTail, AccShape
<1>4. AccTypeOK'
  BY <1>1, <1>2, <1>3, AccShape DEF AccTypeOK
<1>5. AccountRows' /\ AccountsAnnounced'
  BY <1>1, <1>2 DEF AccountRows, AccountsAnnounced, OfType, ToSet
<1>6. OfType(granted, accType)' = OfType(granted, accType)
  BY <1>1 DEF OfType
<1> QED
  BY <1>1, <1>2, <1>4, <1>5, <1>6 DEF AccInv

LEMMA GrantStep ==
  ASSUME AccInv, NEW a \in Accounts, Grant(a)
  PROVE  AccInv'
<1>1. /\ a \notin granted /\ grantCount < MaxGrants /\ granted' = granted \cup {a}
      /\ grants' = Append(grants, a) /\ grantCount' = grantCount + 1
      /\ accounts' = accounts /\ accTold' = accTold /\ accType' = accType
      /\ online' = online /\ accAhead' = accAhead /\ accRevoked' = accRevoked
      /\ accOther' = accOther /\ accFailed' = accFailed
  BY DEF Grant
<1>2. /\ grants' \in Seq(Accounts) /\ ToSet(grants') = ToSet(grants) \cup {a}
      /\ grants' # <<>>
  BY <1>1, AccShape, AppendRow
<1>3. AccTypeOK'
  BY <1>1, <1>2, AccShape DEF AccTypeOK
<1>4. AccountRows' /\ AccountsAnnounced'
  BY <1>1 DEF AccInv, AccountRows, AccountsAnnounced
<1>5. OfType(granted, accType)' \subseteq OfType(granted, accType) \cup {a}
  BY <1>1 DEF OfType
<1>6. online =>
        /\ OfType(granted, accType) \subseteq ToSet(accounts) \cup ToSet(grants) \cup accFailed
        /\ accRevoked \/ ToSet(accounts) \subseteq granted
        /\ accAhead \/ accRevoked \/ ToSet(accounts) \cap ToSet(grants) = {}
  BY DEF AccInv
<1>7. ~ online => IsInjective(accounts) /\ accFailed = {}
  BY DEF AccInv
<1>8. online' =>
        /\ OfType(granted, accType)' \subseteq ToSet(accounts') \cup ToSet(grants') \cup accFailed'
        /\ accRevoked' \/ ToSet(accounts') \subseteq granted'
        /\ accAhead' \/ accRevoked' \/ ToSet(accounts') \cap ToSet(grants') = {}
  BY <1>1, <1>2, <1>5, <1>6
<1> QED
  BY <1>1, <1>2, <1>3, <1>4, <1>7, <1>8 DEF AccInv

LEMMA RevokeStep ==
  ASSUME AccInv, NEW a \in Accounts, Revoke(a)
  PROVE  AccInv'
<1>1. /\ a \in granted /\ grantCount < MaxGrants /\ granted' = granted \ {a}
      /\ grantCount' = grantCount + 1
      /\ accounts' = accounts /\ accTold' = accTold /\ accType' = accType
      /\ online' = online /\ accAhead' = accAhead /\ accOther' = accOther
      /\ accFailed' = accFailed
  BY DEF Revoke
<1>2. OfType(granted, accType)' \subseteq OfType(granted, accType)
  BY <1>1 DEF OfType
<1>3. AccountsAnnounced' /\ \A b \in ToSet(accounts) : TypeOf[b] = accType
  BY <1>1, RowTypes DEF AccInv, AccountsAnnounced
<1>4. CASE online
  <2>1. accRevoked' = TRUE /\ grants' = grants
    BY <1>4 DEF Revoke
  <2>2. AccTypeOK'
    BY <1>1, <2>1, AccShape DEF AccTypeOK
  <2>3. AccountRows'
    BY <1>1, <1>3, <2>1 DEF AccountRows, ToSet
  <2>4. OfType(granted, accType) \subseteq ToSet(accounts) \cup ToSet(grants) \cup accFailed
    BY <1>4 DEF AccInv
  <2> QED
    BY <1>1, <1>2, <1>3, <1>4, <2>1, <2>2, <2>3, <2>4 DEF AccInv
<1>5. CASE ~ online
  <2>1. accRevoked' = accRevoked /\ grants' = Append(grants, a)
    BY <1>5 DEF Revoke
  <2>2. grants' \in Seq(Accounts) /\ grants' # <<>>
    BY <2>1, AccShape, AppendRow
  <2>3. AccTypeOK'
    BY <1>1, <2>1, <2>2, AccShape DEF AccTypeOK
  <2>4. AccountRows' /\ IsInjective(accounts') /\ accFailed' = {}
    BY <1>1, <1>5, <2>1 DEF AccInv, AccountRows
  <2> QED
    BY <1>1, <1>3, <1>5, <2>2, <2>3, <2>4 DEF AccInv
<1> QED
  BY <1>4, <1>5

LEMMA AccStep ==
  ASSUME AccInv, [AccNext]_accVars
  PROVE  AccInv'
<1>1. CASE AccReceive
  BY <1>1, GrantedStep, ReloadStep
<1>2. ASSUME NEW type \in AccountTypes, SetType(type) PROVE AccInv'
  BY <1>2, SetTypeStep
<1>3. ASSUME NEW a \in Accounts, Grant(a) \/ Revoke(a) PROVE AccInv'
  BY <1>3, GrantStep, RevokeStep
<1>4. CASE UNCHANGED accVars
  BY <1>4 DEF accVars, AccInv, AccTypeOK, AccountRows, AccountsAnnounced, OfType
<1> QED
  BY <1>1, <1>2, <1>3, <1>4 DEF AccNext

LEMMA AccountsSettled ==
  ASSUME AccInv
  PROVE  AccountsAtRest
<1> SUFFICES ASSUME grants = <<>>
             PROVE  /\ OfType(granted, accType) \ accFailed \subseteq ToSet(accounts)
                    /\ accRevoked \/ ToSet(accounts) \subseteq granted
  BY DEF AccountsAtRest
<1>1. DOMAIN grants = {}
  OBVIOUS
<1>2. ToSet(grants) = {}
  BY <1>1 DEF ToSet
<1>3. OfType(granted, accType) \subseteq granted
  BY DEF OfType
<1> QED
  BY <1>2, <1>3, AccShape DEF AccInv

-----------------------------------------------------------------------------
(* The lists of a review server                                            *)

LEMMA ListShape ==
  ASSUME ListInv
  PROVE  /\ list \in {"reviews", "repositories"} /\ stingy \in BOOLEAN
         /\ server \in Servers \cup {Unset} /\ repository \in Repositories \cup {Unset}
         /\ jobs \subseteq Job /\ refreshes \in 0 .. MaxRefresh /\ MaxRefresh \in Nat
         /\ shown \in 0 .. refreshes /\ lost \in BOOLEAN
         /\ rows \subseteq UNION {Ids(Listing[s]) : s \in Servers}
BY ListingAssumption DEF ListInv, ListTypeOK

LEMMA JobShape ==
  ASSUME ListInv, NEW j \in jobs
  PROVE  /\ j.nr \in 1 .. MaxRefresh /\ j.server \in Servers /\ j.got \in Seq(Entry)
         /\ j.turn \in BOOLEAN /\ j.nr <= refreshes
         /\ Listing[j.server] \in Seq(Entry) /\ IsPrefix(j.got, Listing[j.server])
<1>1. j \in Job
  BY ListShape
<1>2. j.nr <= refreshes /\ IsPrefix(j.got, Listing[j.server])
  BY DEF ListInv, ListTypeOK
<1> QED
  BY <1>1, <1>2, ListingAssumption DEF Job

LEMMA ListStarts ==
  ASSUME ListInit
  PROVE  ListInv
<1>1. refreshes = 0 /\ shown = 0 /\ refreshes \in 0 .. MaxRefresh /\ shown \in 0 .. refreshes
  BY ListingAssumption DEF ListInit
<1>2. ~ Asks(server, repository)
  BY DEF ListInit, Asks
<1> QED
  BY <1>1, <1>2 DEF ListInit, ListInv, ListTypeOK, ListWhole, LatestAsks

(* A change of the settings.                                               *)
LEMMA RefreshStep ==
  ASSUME ListInv, RefreshList, list' = list, stingy' = stingy,
         server' \in Servers \cup {Unset}, repository' \in Repositories \cup {Unset}
  PROVE  ListInv'
<1>1. /\ refreshes' = refreshes + 1 /\ refreshes' \in 1 .. MaxRefresh
      /\ refreshes \in Nat /\ shown \in 0 .. refreshes
  BY ListShape DEF RefreshList
<1>2. \A s, r : Asks(s, r)' <=> Asks(s, r)
  BY DEF Asks
<1>3. \A j \in jobs : j.nr <= refreshes /\ j.nr \in Nat /\ j.nr <= refreshes' /\ j.nr # refreshes'
  BY <1>1, JobShape
<1>4. CASE Asks(server', repository')
  <2>1. PICK new : new = [nr |-> refreshes', server |-> server', got |-> <<>>, turn |-> FALSE]
    OBVIOUS
  <2>2. /\ jobs' = jobs \cup {new} /\ rows' = rows /\ shown' = shown /\ lost' = lost
    BY <1>4, <2>1 DEF RefreshList
  <2>3. server' \in Servers
    BY <1>4 DEF Asks
  <2>4. new \in Job /\ new.nr = refreshes' /\ new.server = server' /\ new.got = <<>>
    BY <1>1, <2>1, <2>3 DEF Job
  <2>5. IsPrefix(new.got, Listing[new.server])
    <3>1. Listing[new.server] \in Seq(Entry) /\ new.got \in Seq(Entry) /\ Len(new.got) = 0
      BY <2>3, <2>4, ListingAssumption
    <3> QED
      BY <3>1, PrefixIs
  <2>6. \A j \in jobs' : j.nr <= refreshes' /\ IsPrefix(j.got, Listing[j.server])
    BY <1>1, <1>3, <2>2, <2>4, <2>5 DEF ListInv, ListTypeOK
  <2>7. ListTypeOK'
    BY <1>1, <2>2, <2>4, <2>6, ListShape DEF ListTypeOK
  <2>8. ListWhole'
    BY <2>2 DEF ListInv, ListWhole, Kept
  <2>9. LatestAsks'
    BY <1>1, <1>2, <1>3, <1>4, <2>2, <2>4 DEF LatestAsks
  <2> QED
    BY <2>7, <2>8, <2>9 DEF ListInv
<1>5. CASE ~ Asks(server', repository')
  <2>1. rows' = {} /\ shown' = refreshes' /\ lost' = FALSE /\ jobs' = jobs
    BY <1>5 DEF RefreshList
  <2>2. \A j \in jobs : IsPrefix(j.got, Listing[j.server])
    BY DEF ListInv, ListTypeOK
  <2>3. ListTypeOK'
    <3>1. refreshes' \in 0 .. MaxRefresh /\ shown' \in 0 .. refreshes'
      BY <1>1, <2>1
    <3>2. \A j \in jobs' : j.nr <= refreshes' /\ IsPrefix(j.got, Listing[j.server])
      BY <1>3, <2>1, <2>2
    <3> QED
      BY <2>1, <3>1, <3>2, ListShape DEF ListTypeOK
  <2>4. ListWhole' /\ LatestAsks'
    BY <1>2, <1>3, <1>5, <2>1 DEF ListWhole, LatestAsks
  <2> QED
    BY <2>3, <2>4 DEF ListInv
<1> QED
  BY <1>4, <1>5

(* The rows of a list that is whole: they are what its server has for some *)
(* repository, even if none is set by now.                                 *)
LEMMA KeptIsWhole ==
  ASSUME NEW s \in Servers, NEW r \in Repositories \cup {Unset}
  PROVE  \/ Kept(Listing[s], r) = {}
         \/ \E q \in Repositories : Kept(Listing[s], r) = Kept(Listing[s], q)
<1>1. Listing[s] \in Seq(Entry)
  BY ListingAssumption
<1>2. ToSet(Listing[s]) \subseteq Entry
  BY <1>1 DEF ToSet
<1>3. \A e \in ToSet(Listing[s]) : e.repository \in Repositories
  BY <1>2 DEF Entry
<1>4. CASE list = "repositories"
  <2>1. \A q : Kept(Listing[s], q) = {e.id : e \in ToSet(Listing[s])}
    BY <1>4 DEF Kept, Ids
  <2> QED
    BY <1>3, <2>1
<1>5. CASE list # "repositories"
  <2>1. Kept(Listing[s], r) = {e.id : e \in {x \in ToSet(Listing[s]) : x.repository = r}}
    BY <1>5 DEF Kept
  <2> QED
    BY <1>3, <2>1
<1> QED
  BY <1>4, <1>5

LEMMA KeptIsThere ==
  ASSUME NEW s \in Servers, NEW g, ToSet(g) \subseteq ToSet(Listing[s]), NEW r
  PROVE  Kept(g, r) \subseteq UNION {Ids(Listing[t]) : t \in Servers}
<1>1. Kept(g, r) \subseteq Ids(Listing[s])
  BY DEF Kept, Ids
<1> QED
  BY <1>1

LEMMA PrefixElements ==
  ASSUME NEW s \in Seq(Entry), NEW t \in Seq(Entry), IsPrefix(s, t)
  PROVE  ToSet(s) \subseteq ToSet(t)
<1>1. Len(s) <= Len(t) /\ \A i \in 1 .. Len(s) : s[i] = t[i]
  BY PrefixIs
<1> QED
  BY <1>1 DEF ToSet

(* A page that is not the last one.                                        *)
LEMMA AskMoreStep ==
  ASSUME ListInv, NEW j \in jobs, NEW g \in Seq(Entry), IsPrefix(g, Listing[j.server]),
         AskMore(j, g), UNCHANGED <<list, stingy, server, repository, refreshes>>
  PROVE  ListInv'
<1>1. PICK k : k = [j EXCEPT !.got = g, !.turn = ~ @]
  OBVIOUS
<1>2. /\ list' = list /\ stingy' = stingy /\ server' = server
      /\ repository' = repository /\ refreshes' = refreshes
      /\ jobs' = (jobs \ {j}) \cup {k} /\ rows' = rows /\ shown' = shown /\ lost' = lost
  BY <1>1 DEF AskMore
<1>3. k \in Job /\ k.nr = j.nr /\ k.server = j.server /\ k.got = g
  <2>1. j \in Job
    BY ListShape
  <2> QED
    BY <1>1, <2>1 DEF Job
<1>4. ListTypeOK'
  <2>1. \A i \in jobs' : i.nr <= refreshes /\ IsPrefix(i.got, Listing[i.server])
    BY <1>2, <1>3, JobShape
  <2> QED
    BY <1>2, <1>3, <2>1, ListShape DEF ListTypeOK
<1>5. ListWhole'
  BY <1>2 DEF ListInv, ListWhole, Kept
<1>6. LatestAsks'
  BY <1>2, <1>3 DEF ListInv, LatestAsks, Asks, Kept
<1> QED
  BY <1>4, <1>5, <1>6 DEF ListInv

(* The answer: a whole list, or one of which a page was lost.              *)
LEMMA ReceivedStep ==
  ASSUME ListInv, NEW j \in jobs, NEW g, NEW some \in BOOLEAN,
         ToSet(g) \subseteq ToSet(Listing[j.server]), ~ some => g = Listing[j.server],
         \/ Received(j, g, some)
         \/ some /\ rows' = {} /\ shown' = j.nr /\ lost' = TRUE /\ jobs' = jobs \ {j},
         UNCHANGED <<list, stingy, server, repository, refreshes>>
  PROVE  ListInv'
<1>1. /\ list' = list /\ stingy' = stingy /\ server' = server
      /\ repository' = repository /\ refreshes' = refreshes
      /\ jobs' = jobs \ {j} /\ shown' = j.nr /\ lost' = some
      /\ rows' = {} \/ rows' = Kept(g, repository)
      /\ ~ some => rows' = Kept(Listing[j.server], repository)
  BY DEF Received
<1>2. j.nr \in 0 .. refreshes /\ j.server \in Servers
  BY JobShape, ListShape
<1>3. rows' \subseteq UNION {Ids(Listing[s]) : s \in Servers}
  BY <1>1, <1>2, KeptIsThere
<1>4. ListTypeOK'
  BY <1>1, <1>2, <1>3, JobShape, ListShape DEF ListTypeOK
<1>5. \A e, r : Kept(e, r)' = Kept(e, r) /\ (Asks(e, r)' <=> Asks(e, r))
  BY <1>1 DEF Kept, Asks
<1>6. ListWhole'
  BY <1>1, <1>2, <1>5, KeptIsWhole, ListShape DEF ListWhole
<1>7. LatestAsks'
  BY <1>1, <1>2, <1>5 DEF ListInv, LatestAsks
<1> QED
  BY <1>4, <1>6, <1>7 DEF ListInv

LEMMA PageStep ==
  ASSUME ListInv, NEW j \in jobs, Page(j)
  PROVE  ListInv'
<1>1. /\ j.server \in Servers /\ j.got \in Seq(Entry) /\ Listing[j.server] \in Seq(Entry)
      /\ IsPrefix(j.got, Listing[j.server])
  BY JobShape
<1>2. UNCHANGED <<list, stingy, server, repository, refreshes>>
  BY DEF Page
<1>3. ASSUME NEW k \in PageSizes(j), PageReceived(j, k)
      PROVE  ListInv'
  <2>1. k \in Nat /\ k <= Len(Listing[j.server]) - Len(j.got)
    BY ListingAssumption DEF PageSizes, Left
  <2>2. PICK g : g = j.got \o SubSeq(Listing[j.server], Len(j.got) + 1, Len(j.got) + k)
    OBVIOUS
  <2>3. /\ g \in Seq(Entry) /\ IsPrefix(g, Listing[j.server])
        /\ Len(g) >= Len(Listing[j.server]) => g = Listing[j.server]
    BY <1>1, <2>1, <2>2, NextPart
  <2>4. IF Len(g) < Len(Listing[j.server]) THEN AskMore(j, g) ELSE Received(j, g, FALSE)
    BY <1>3, <2>2 DEF PageReceived
  <2>5. CASE Len(g) < Len(Listing[j.server])
    BY <1>2, <2>3, <2>4, <2>5, AskMoreStep
  <2>6. CASE ~ Len(g) < Len(Listing[j.server])
    <3>1. g = Listing[j.server]
      BY <1>1, <2>3, <2>6
    <3> QED
      BY <1>2, <2>4, <2>6, <3>1, ReceivedStep
  <2> QED
    BY <2>5, <2>6
<1>4. CASE PageLost(j)
  <2>1. ToSet(j.got) \subseteq ToSet(Listing[j.server])
    BY <1>1, PrefixElements
  <2>2. \/ Received(j, j.got, TRUE)
        \/ rows' = {} /\ shown' = j.nr /\ lost' = TRUE /\ jobs' = jobs \ {j}
    BY <1>4 DEF PageLost
  <2> QED
    BY <1>2, <2>1, <2>2, ReceivedStep
<1> QED
  BY <1>3, <1>4 DEF Page

LEMMA ListStep ==
  ASSUME ListInv, [ListNext]_listVars
  PROVE  ListInv'
<1>1. CASE AnyPage
  BY <1>1, PageStep DEF AnyPage
<1>2. ASSUME NEW s \in Servers \cup {Unset}, SetServer(s) PROVE ListInv'
  BY <1>2, ListShape, RefreshStep DEF SetServer
<1>3. ASSUME NEW r \in Repositories \cup {Unset}, SetRepository(r) PROVE ListInv'
  BY <1>3, ListShape, RefreshStep DEF SetRepository
<1>4. CASE UNCHANGED listVars
  BY <1>4 DEF listVars, ListInv, ListTypeOK, ListWhole, LatestAsks, Asks, Kept
<1> QED
  BY <1>1, <1>2, <1>3, <1>4 DEF ListNext

-----------------------------------------------------------------------------
(* The pages                                                               *)

LEMMA InvInit == Init => IInv
BY DevStarts, AccStarts, ListStarts, DiffStarts DEF Init, IInv

LEMMA InvNext == IInv /\ [Next]_pageVars => IInv'
<1> SUFFICES ASSUME IInv, [Next]_pageVars PROVE IInv'
  OBVIOUS
<1>1. /\ [DevNext]_devVars /\ [AccNext]_accVars
      /\ [ListNext]_listVars /\ [DiffNext]_diffVars
  BY DEF Next, pageVars
<1> QED
  BY <1>1, DevStep, AccStep, ListStep, DiffStep DEF IInv

(* The inductive invariant holds in every reachable state.                 *)
THEOREM Invariant == Spec => []IInv
BY InvInit, InvNext, PTL DEF Spec

(* Every variable keeps its type.                                          *)
THEOREM TypeCorrect == Spec => []TypeOK
<1>1. IInv => TypeOK
  BY DEF IInv, TypeOK, DevInv, AccInv, ListInv, DiffInv
<1> QED
  BY <1>1, Invariant, PTL

(* No device gets a second row (devicesmodel.cpp asserts it), whatever the *)
(* order of the signals and the lists of the daemon and however often it   *)
(* is restarted; no account gets one, but for the exceptions named.        *)
THEOREM OneRow == Spec => []OneRowEach
<1>1. IInv => OneRowEach
  BY FirstIsNew DEF IInv, OneRowEach, AccInv
<1> QED
  BY <1>1, Invariant, PTL

(* When all signals and answers have come, the rows of the devices and of  *)
(* the accounts are what the services have, whatever was there when the    *)
(* page opened, but for what a failed call left out (which nothing repeats)*)
(* and for accounts that KOnlineAccounts took away unheard.                *)
THEOREM RowsSettle == Spec => []RowsAtRest
<1>1. IInv => RowsAtRest
  BY DevicesSettled, AccountsSettled DEF IInv, RowsAtRest
<1> QED
  BY <1>1, Invariant, PTL

(* The views of both lists are told of as many rows as there are.          *)
THEOREM ViewsKnowRows == Spec => []RowsAnnounced
<1>1. IInv => RowsAnnounced
  BY DEF IInv, RowsAnnounced, DevInv, AccInv
<1> QED
  BY <1>1, Invariant, PTL

(* The rows of a list of a review server are always one whole list.        *)
THEOREM PagesMakeList == Spec => []ListWhole
<1>1. IInv => ListWhole
  BY DEF IInv, ListInv
<1> QED
  BY <1>1, Invariant, PTL

(* With no request in progress, they are what the settings ask for.        *)
THEOREM ListFollowsSettings == Spec => []ListCurrent
<1>1. IInv => ListCurrent
  BY DEF IInv, ListInv, LatestAsks, ListCurrent
<1> QED
  BY <1>1, Invariant, PTL

(* The process is back where it was launched once no list is awaited.      *)
THEOREM BackHome == Spec => []CwdRestored
<1>1. IInv => CwdRestored
  BY BackWhenListed DEF IInv
<1> QED
  BY <1>1, Invariant, PTL
=============================================================================
