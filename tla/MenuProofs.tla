----------------------------- MODULE MenuProofs -----------------------------
(* Proofs about Menu and the AlternativesModel it shows, for any plugins,  *)
(* types, data and systems.                                                *)
EXTENDS Menu, FiniteSetTheorems, TLAPS

-----------------------------------------------------------------------------
(* Numbers in their order                                                  *)

(* Of the subsets of a finite set, some are minimal in what they contain:  *)
(* the induction over finite sets that the provers can use.                *)
LEMMA Minimal ==
  ASSUME NEW S, IsFiniteSet(S), NEW B, \A V \in B : V \subseteq S, B # {}
  PROVE  \E U \in B : \A V \in B : V \subseteq U => V = U
<1> DEFINE R == StrictSubsetOrdering(S)
<1>1. IsWellFoundedOn(R, FiniteSubsetsOf(S)) /\ FiniteSubsetsOf(S) = SUBSET S
  BY FS_StrictSubsetOrderingWellFounded, FS_FiniteSubsetsOfFinite
<1> HIDE DEF R
<1>2. PICK U \in B : \A V \in B : ~ <<V, U>> \in R
  BY <1>1, WFMin
<1>3. ASSUME NEW V \in B, V \subseteq U, V # U PROVE FALSE
  <2>1. <<V, U>> \in R
    BY <1>3 DEF R, StrictSubsetOrdering
  <2> QED
    BY <1>2, <2>1
<1> QED
  BY <1>3

LEMMA Greatest ==
  ASSUME NEW T, T \subseteq Nat, IsFiniteSet(T), T # {}
  PROVE  \E x \in T : \A y \in T : y <= x
<1> DEFINE Above(x) == {y \in T : y > x}
           B == {Above(x) : x \in T}
<1>1. PICK U \in B : \A V \in B : V \subseteq U => V = U
  <2>1. (\A V \in B : V \subseteq T) /\ B # {}
    OBVIOUS
  <2> HIDE DEF B
  <2> QED
    BY <2>1, Minimal
<1>2. PICK x \in T : U = Above(x)
  OBVIOUS
<1>3. ASSUME NEW y \in T, y > x PROVE FALSE
  <2>1. x \in Nat /\ y \in Nat /\ \A z \in T : z \in Nat
    OBVIOUS
  <2>2. (\A z \in T : z > y => z > x) /\ ~ y > y
    BY ONLY <1>3, <2>1
  <2>3. Above(y) \subseteq Above(x) /\ y \in Above(x) /\ y \notin Above(y)
    BY <1>3, <2>2
  <2> QED
    BY <1>1, <1>2, <2>3
<1> QED
  BY <1>3

LEMMA Least ==
  ASSUME NEW T, T \subseteq Nat, IsFiniteSet(T), T # {}
  PROVE  \E x \in T : \A y \in T : x <= y
<1> DEFINE Below(x) == {y \in T : y < x}
           B == {Below(x) : x \in T}
<1>1. PICK U \in B : \A V \in B : V \subseteq U => V = U
  <2>1. (\A V \in B : V \subseteq T) /\ B # {}
    OBVIOUS
  <2> HIDE DEF B
  <2> QED
    BY <2>1, Minimal
<1>2. PICK x \in T : U = Below(x)
  OBVIOUS
<1>3. ASSUME NEW y \in T, y < x PROVE FALSE
  <2>1. x \in Nat /\ y \in Nat /\ \A z \in T : z \in Nat
    OBVIOUS
  <2>2. (\A z \in T : z < y => z < x) /\ ~ y < y
    BY ONLY <1>3, <2>1
  <2>3. Below(y) \subseteq Below(x) /\ y \in Below(x) /\ y \notin Below(y)
    BY <1>3, <2>2
  <2> QED
    BY <1>1, <1>2, <2>3
<1> QED
  BY <1>3

(* Every finite set of numbers has an order ...                            *)
LEMMA HasOrder ==
  ASSUME NEW S, S \subseteq Nat, IsFiniteSet(S)
  PROVE  \E order \in [1 .. Cardinality(S) -> S] :
           \A i, j \in 1 .. Cardinality(S) : i < j => order[i] < order[j]
<1> DEFINE Ordered(T) == \E order \in [1 .. Cardinality(T) -> T] :
                           \A i, j \in 1 .. Cardinality(T) : i < j => order[i] < order[j]
           B == {T \in SUBSET S : ~ Ordered(T)}
<1>1. SUFFICES ASSUME B # {} PROVE FALSE
  <2>1. B = {} => Ordered(S)
    OBVIOUS
  <2> QED
    BY <2>1
<1>2. PICK T \in B : \A V \in B : V \subseteq T => V = T
  <2>1. \A V \in B : V \subseteq S
    OBVIOUS
  <2> HIDE DEF B
  <2> QED
    BY <1>1, <2>1, Minimal
<1>3. T \subseteq Nat /\ IsFiniteSet(T) /\ ~ Ordered(T)
  BY <1>2, FS_Subset
<1>4. T # {}
  <2> SUFFICES ASSUME T = {} PROVE FALSE
    OBVIOUS
  <2>1. Cardinality(T) = 0
    BY FS_EmptySet
  <2>2. [i \in 1 .. 0 |-> 0] \in [1 .. 0 -> T]
    OBVIOUS
  <2> QED
    BY <1>3, <2>1, <2>2
<1>5. PICK x \in T : \A y \in T : y <= x
  BY <1>3, <1>4, Greatest
<1>6. PICK V : V = T \ {x}
  OBVIOUS
<1>7. Ordered(V)
  <2>1. V \subseteq T /\ V # T /\ V \in SUBSET S
    BY <1>2, <1>5, <1>6
  <2> QED
    BY <1>2, <2>1
<1>8. PICK n \in Nat : n = Cardinality(V) /\ Cardinality(T) = n + 1
  <2>1. Cardinality(V) = Cardinality(T) - 1 /\ Cardinality(V) \in Nat /\ Cardinality(T) \in Nat
    BY <1>3, <1>5, <1>6, FS_RemoveElement, FS_CardinalityType
  <2> QED
    BY <2>1
<1>9. PICK order \in [1 .. n -> V] : \A i, j \in 1 .. n : i < j => order[i] < order[j]
  BY <1>7, <1>8
<1>10. PICK more : more = [i \in 1 .. n + 1 |-> IF i = n + 1 THEN x ELSE order[i]]
  OBVIOUS
<1>11. \A i \in 1 .. n + 1 : i = n + 1 \/ i \in 1 .. n
  OBVIOUS
<1>12. more \in [1 .. n + 1 -> T] /\ \A i \in 1 .. n : more[i] = order[i] /\ order[i] \in V
  BY <1>5, <1>6, <1>9, <1>10, <1>11
<1>13. more[n + 1] = x /\ \A y \in V : y < x
  BY <1>3, <1>5, <1>6, <1>10
<1>14. \A i, j \in 1 .. n + 1 : i < j => more[i] < more[j]
  <2> SUFFICES ASSUME NEW i \in 1 .. n + 1, NEW j \in 1 .. n + 1, i < j
               PROVE  more[i] < more[j]
    OBVIOUS
  <2>1. i \in 1 .. n
    BY <1>11
  <2> QED
    BY <1>9, <1>11, <1>12, <1>13, <2>1
<1> QED
  BY <1>3, <1>8, <1>12, <1>14

(* ... which reaches each of them once.                                    *)
LEMMA OrderReaches ==
  ASSUME NEW S, S \subseteq Nat, IsFiniteSet(S)
  PROVE  /\ InOrder(S) \in [1 .. Cardinality(S) -> S] /\ Cardinality(S) \in Nat
         /\ \A i, j \in 1 .. Cardinality(S) : i < j => InOrder(S)[i] < InOrder(S)[j]
         /\ \A i, j \in 1 .. Cardinality(S) : InOrder(S)[i] = InOrder(S)[j] => i = j
         /\ \A x \in S : \E i \in 1 .. Cardinality(S) : InOrder(S)[i] = x
<1>1. PICK n \in Nat : n = Cardinality(S)
  BY FS_CardinalityType
<1>2. PICK f : f = InOrder(S)
  OBVIOUS
<1>3. f \in [1 .. n -> S] /\ \A i, j \in 1 .. n : i < j => f[i] < f[j]
  BY <1>1, <1>2, HasOrder DEF InOrder
<1>4. \A i, j \in 1 .. n : f[i] = f[j] => i = j
  <2> SUFFICES ASSUME NEW i \in 1 .. n, NEW j \in 1 .. n, i # j PROVE f[i] # f[j]
    OBVIOUS
  <2>1. f[i] \in S /\ f[j] \in S
    BY <1>3
  <2>2. f[i] \in Nat /\ f[j] \in Nat
    BY <2>1
  <2>3. i < j \/ j < i
    OBVIOUS
  <2> QED
    BY <1>3, <2>2, <2>3
<1>5. \A x \in S : \E i \in 1 .. n : f[i] = x
  <2>1. f \in Injection(1 .. n, S)
    BY <1>3, <1>4 DEF Injection, IsInjective
  <2>2. Cardinality(1 .. n) = n
    BY <1>1, FS_Interval
  <2>3. f \in Surjection(1 .. n, S)
    BY <1>1, <2>1, <2>2, FS_Injection
  <2> QED
    BY <2>3 DEF Surjection
<1> QED
  BY <1>1, <1>2, <1>3, <1>4, <1>5

-----------------------------------------------------------------------------
(* The rows                                                                *)

LEMMA Listed ==
  /\ \A i \in DOMAIN Native : Native[i] \in AllPlugins /\ Native[i].file = "native"
  /\ \A i \in DOMAIN Packages :
       Packages[i] \in AllPlugins /\ Packages[i].file \in {"script", "absent"}
  /\ \A p \in AllPlugins : \/ \E i \in DOMAIN Native : p = Native[i]
                           \/ \E i \in DOMAIN Packages : p = Packages[i]
<1>1. /\ \A i \in DOMAIN Native : Native[i] \in MetaData({"native"})
      /\ \A i \in DOMAIN Packages : Packages[i] \in MetaData({"script", "absent"})
  BY PluginsAssumption
<1>2. \A p : /\ p \in MetaData({"native"}) => p.file = "native"
             /\ p \in MetaData({"script", "absent"}) => p.file \in {"script", "absent"}
  BY DEF MetaData
<1> QED
  BY <1>1, <1>2 DEF AllPlugins

(* A package without its main file has no data and is never acceptable.    *)
LEMMA Complete ==
  ASSUME NEW s, NEW i \in DOMAIN Packages
  PROVE  /\ IsPluginAcceptable(Meta(i), s) => Meta(i) = Packages[i]
         /\ IsPluginAcceptable(Meta(i), s) <=>
              Packages[i].file # "absent" /\ IsPluginAcceptable(Packages[i], s)
<1>1. NoMetaData.types = {}
  BY DEF NoMetaData
<1>2. ~ IsPluginAcceptable(NoMetaData, s)
  BY <1>1 DEF IsPluginAcceptable
<1> QED
  BY <1>2 DEF Meta, CreateMetaData

(* The places kept of a list, each once and in their order.                *)
Enumerates(f, m, S) == /\ f \in [1 .. m -> S]
                       /\ \A i, j \in 1 .. m : f[i] = f[j] => i = j
                       /\ \A x \in S : \E i \in 1 .. m : f[i] = x

LEMMA Places ==
  ASSUME NEW S, S \subseteq Nat, IsFiniteSet(S)
  PROVE  \E m \in Nat : Enumerates(InOrder(S), m, S)
  BY OrderReaches DEF Enumerates

(* findPlugins() gives the acceptable ones, each once.                     *)
NativesOf(s, rows, n) ==
  /\ rows \in Seq(AllPlugins) /\ n = Len(rows)
  /\ \A k \in 1 .. n : \E i \in DOMAIN Native :
       rows[k] = Native[i] /\ IsPluginAcceptable(Native[i], s)
  /\ \A i \in DOMAIN Native : IsPluginAcceptable(Native[i], s) =>
       \E k \in 1 .. n : rows[k] = Native[i]
  /\ \A j, k \in 1 .. n : rows[j].id = rows[k].id => j = k

LEMMA NativeRows ==
  ASSUME NEW s, NEW rows, rows = FindPlugins(s)
  PROVE  \E n \in Nat : NativesOf(s, rows, n)
<1>1. PICK n \in Nat : DOMAIN Native = 1 .. n
  <2>1. Native \in Seq(MetaData({"native"}))
    BY PluginsAssumption
  <2> QED
    BY <2>1
<1>2. PICK S : S = {i \in DOMAIN Native : IsPluginAcceptable(Native[i], s)}
  OBVIOUS
<1>3. PICK kept : kept = InOrder(S)
  OBVIOUS
<1>4. PICK m \in Nat : Enumerates(kept, m, S)
  <2>1. S \subseteq 1 .. n
    BY <1>1, <1>2
  <2>2. IsFiniteSet(1 .. n) /\ 1 .. n \subseteq Nat
    BY FS_Interval
  <2>3. S \subseteq Nat /\ IsFiniteSet(S)
    BY <2>1, <2>2, FS_Subset
  <2> QED
    BY <1>3, <2>3, Places
<1>5. rows = [k \in 1 .. m |-> Native[kept[k]]]
  <2>1. DOMAIN kept = 1 .. m
    BY <1>4 DEF Enumerates
  <2> QED
    BY <1>2, <1>3, <2>1 DEF FindPlugins
<1>7. \A k \in 1 .. m : kept[k] \in DOMAIN Native /\ IsPluginAcceptable(Native[kept[k]], s)
  BY <1>2, <1>4 DEF Enumerates
<1>8. rows \in [1 .. m -> AllPlugins]
  BY <1>5, <1>7, Listed
<1>9. rows \in Seq(AllPlugins) /\ m = Len(rows)
  BY <1>8
<1>10. \A j, k \in 1 .. m : rows[j].id = rows[k].id => j = k
  BY <1>4, <1>5, <1>7, PluginsAssumption DEF Enumerates
<1>11. \A i \in DOMAIN Native : IsPluginAcceptable(Native[i], s) => \E k \in 1 .. m : rows[k] = Native[i]
  BY <1>2, <1>4, <1>5 DEF Enumerates
<1>12. \A k \in 1 .. m : rows[k] = Native[kept[k]]
  BY <1>5
<1>13. NativesOf(s, rows, m)
  BY <1>7, <1>9, <1>10, <1>11, <1>12 DEF NativesOf
<1> QED
  BY <1>13

(* findScriptedPackages() gives the first acceptable one of each id.       *)
PackagesOf(s, rows, n) ==
  /\ rows \in Seq(AllPlugins) /\ n = Len(rows)
  /\ \A k \in 1 .. n : \E i \in DOMAIN Packages :
       /\ rows[k] = Packages[i] /\ Packages[i].file # "absent"
       /\ IsPluginAcceptable(Packages[i], s)
  /\ \A i \in DOMAIN Packages :
       Packages[i].file # "absent" /\ IsPluginAcceptable(Packages[i], s) =>
         \E k \in 1 .. n : rows[k].id = Packages[i].id
  /\ \A j, k \in 1 .. n : rows[j].id = rows[k].id => j = k

LEMMA PackageRows ==
  ASSUME NEW s, NEW rows, rows = FindScriptedPackages(s)
  PROVE  \E n \in Nat : PackagesOf(s, rows, n)
<1>1. PICK n \in Nat : DOMAIN Packages = 1 .. n
  <2>1. Packages \in Seq(MetaData({"script", "absent"}))
    BY PluginsAssumption
  <2> QED
    BY <2>1
<1>2. PICK wanted : wanted = {i \in DOMAIN Packages : IsPluginAcceptable(Meta(i), s)}
  OBVIOUS
<1>3. PICK S : S = {i \in wanted : \A j \in wanted : j < i => Meta(j).id # Meta(i).id}
  OBVIOUS
<1>4. PICK kept : kept = InOrder(S)
  OBVIOUS
<1>5. PICK m \in Nat : Enumerates(kept, m, S)
  <2>1. S \subseteq 1 .. n
    BY <1>1, <1>2, <1>3
  <2>2. IsFiniteSet(1 .. n) /\ 1 .. n \subseteq Nat
    BY FS_Interval
  <2>3. S \subseteq Nat /\ IsFiniteSet(S)
    BY <2>1, <2>2, FS_Subset
  <2> QED
    BY <1>4, <2>3, Places
<1>6. rows = [k \in 1 .. m |-> Meta(kept[k])]
  <2>1. DOMAIN kept = 1 .. m
    BY <1>5 DEF Enumerates
  <2> QED
    BY <1>2, <1>3, <1>4, <2>1 DEF FindScriptedPackages
<1>8. \A i \in wanted : /\ i \in DOMAIN Packages /\ Meta(i) = Packages[i]
                        /\ Packages[i].file # "absent" /\ IsPluginAcceptable(Packages[i], s)
  BY <1>2, Complete
<1>9. \A k \in 1 .. m : kept[k] \in wanted /\ kept[k] \in S
  BY <1>3, <1>5 DEF Enumerates
<1>10. rows \in [1 .. m -> AllPlugins]
  BY <1>6, <1>8, <1>9, Listed
<1>11. rows \in Seq(AllPlugins) /\ m = Len(rows)
  BY <1>10
<1>12. \A i, j \in S : Meta(i).id = Meta(j).id => i = j
  <2> SUFFICES ASSUME NEW i \in S, NEW j \in S, i # j PROVE Meta(i).id # Meta(j).id
    OBVIOUS
  <2>1. i \in 1 .. n /\ j \in 1 .. n
    BY <1>1, <1>2, <1>3
  <2>2. i < j \/ j < i
    BY <2>1
  <2> QED
    BY <1>3, <2>2
<1>13. \A j, k \in 1 .. m : rows[j].id = rows[k].id => j = k
  BY <1>5, <1>6, <1>9, <1>12 DEF Enumerates
<1>14. ASSUME NEW i \in wanted PROVE \E k \in 1 .. m : rows[k].id = Meta(i).id
  <2>1. PICK T : T = {j \in wanted : Meta(j).id = Meta(i).id}
    OBVIOUS
  <2>2. T \subseteq 1 .. n /\ T # {}
    BY <1>1, <1>2, <1>14, <2>1
  <2>3. IsFiniteSet(1 .. n) /\ 1 .. n \subseteq Nat
    BY FS_Interval
  <2>4. T \subseteq Nat /\ IsFiniteSet(T)
    BY <2>2, <2>3, FS_Subset
  <2>5. PICK x \in T : \A y \in T : x <= y
    BY <2>2, <2>4, Least
  <2>6. ASSUME NEW j \in wanted, j < x PROVE Meta(j).id # Meta(x).id
    <3>1. j \in 1 .. n /\ x \in 1 .. n
      BY <1>1, <1>2, <2>2
    <3>2. ~ x <= j
      BY <2>6, <3>1
    <3> QED
      BY <2>1, <2>5, <3>2
  <2>7. x \in S
    BY <1>3, <2>1, <2>6
  <2> QED
    BY <1>5, <1>6, <2>1, <2>7 DEF Enumerates
<1>15. \A i \in DOMAIN Packages :
         Packages[i].file # "absent" /\ IsPluginAcceptable(Packages[i], s) =>
           \E k \in 1 .. m : rows[k].id = Packages[i].id
  BY <1>2, <1>8, <1>14, Complete
<1>16. \A k \in 1 .. m : /\ kept[k] \in DOMAIN Packages /\ rows[k] = Packages[kept[k]]
                          /\ Packages[kept[k]].file # "absent"
                          /\ IsPluginAcceptable(Packages[kept[k]], s)
  BY <1>6, <1>8, <1>9
<1>17. PackagesOf(s, rows, m)
  BY <1>11, <1>13, <1>15, <1>16 DEF PackagesOf
<1> QED
  BY <1>17

LEMMA Joined ==
  ASSUME NEW T, NEW a \in Seq(T), NEW b \in Seq(T)
  PROVE  /\ a \o b \in Seq(T) /\ Len(a \o b) = Len(a) + Len(b)
         /\ \A i \in 1 .. Len(a) : (a \o b)[i] = a[i]
         /\ \A i \in Len(a) + 1 .. Len(a) + Len(b) : (a \o b)[i] = b[i - Len(a)]
OBVIOUS

Possible(s) == s.type # Blank /\ DOMAIN s.input # {} /\ InboundGiven(s.type, s.input)

(* What isPluginAcceptable() takes of one that has a main file.            *)
Takes(s, p) == p.file # "absent" /\ IsPluginAcceptable(p, s)

(* initializeModel(): the rows are taken, each id that can be is there,    *)
(* and no plugin is there twice.                                           *)
LEMMA RowsTaken ==
  ASSUME NEW s, NEW rows, rows = NewPlugins(s)
  PROVE  /\ rows \in Seq(AllPlugins)
         /\ \A k \in DOMAIN rows : rows[k] \in AllPlugins /\ Takes(s, rows[k])
         /\ Possible(s) =>
              \A p \in AllPlugins : Takes(s, p) => \E k \in DOMAIN rows : rows[k].id = p.id
         /\ \A i, j \in DOMAIN rows :
              rows[i].id = rows[j].id /\ rows[i].file = rows[j].file => i = j
         /\ ~ Possible(s) => rows = <<>>
<1>1. CASE ~ Possible(s)
  <2>1. rows = <<>>
    BY <1>1 DEF Possible, NewPlugins
  <2>2. rows \in Seq(AllPlugins) /\ DOMAIN rows = {}
    BY <2>1
  <2> QED
    BY <1>1, <2>1, <2>2
<1>2. CASE Possible(s)
  <2>0. PICK a, b : a = FindPlugins(s) /\ b = FindScriptedPackages(s)
    OBVIOUS
  <2>1. PICK n \in Nat : NativesOf(s, a, n)
    BY <2>0, NativeRows
  <2>2. PICK m \in Nat : PackagesOf(s, b, m)
    BY <2>0, PackageRows
  <2>3. rows = a \o b
    BY <1>2, <2>0 DEF Possible, NewPlugins
  <2>4. /\ rows \in Seq(AllPlugins) /\ DOMAIN rows = 1 .. n + m
        /\ \A i \in 1 .. n : rows[i] = a[i]
        /\ \A i \in n + 1 .. n + m : rows[i] = b[i - n]
    <3>1. rows \in Seq(AllPlugins) /\ Len(rows) = n + m
      BY <2>1, <2>2, <2>3, Joined DEF NativesOf, PackagesOf
    <3>2. /\ \A i \in 1 .. n : rows[i] = a[i]
          /\ \A i \in n + 1 .. n + m : rows[i] = b[i - n]
      BY <2>1, <2>2, <2>3, Joined DEF NativesOf, PackagesOf
    <3> QED
      BY <3>1, <3>2
  <2>5. \A i \in 1 .. n + m : i \in 1 .. n \/ (i \in n + 1 .. n + m /\ i - n \in 1 .. m)
    OBVIOUS
  <2>6. /\ \A i \in 1 .. n : i \in 1 .. n + m
        /\ \A k \in 1 .. m : n + k \in n + 1 .. n + m /\ n + k - n = k /\ n + k \in 1 .. n + m
    OBVIOUS
  <2>7. \A i \in 1 .. n : rows[i] \in AllPlugins /\ Takes(s, rows[i]) /\ rows[i].file = "native"
    BY <2>1, <2>4, Listed DEF Takes, NativesOf
  <2>8. \A k \in 1 .. m : b[k] \in AllPlugins /\ Takes(s, b[k]) /\ b[k].file = "script"
    BY <2>2, Listed DEF Takes, PackagesOf
  <2>9. \A i \in n + 1 .. n + m : i - n \in 1 .. m /\ rows[i] = b[i - n]
    BY <2>4
  <2>10. \A i \in 1 .. n + m : rows[i] \in AllPlugins /\ Takes(s, rows[i])
    BY <2>5, <2>7, <2>8, <2>9
  <2>11. ASSUME NEW p \in AllPlugins, Takes(s, p)
         PROVE  \E k \in 1 .. n + m : rows[k].id = p.id
    <3>1. CASE \E i \in DOMAIN Native : p = Native[i]
      BY <2>1, <2>4, <2>6, <2>11, <3>1 DEF Takes, NativesOf
    <3>2. CASE \E i \in DOMAIN Packages : p = Packages[i]
      <4>1. PICK k \in 1 .. m : b[k].id = p.id
        BY <2>2, <2>11, <3>2 DEF Takes, PackagesOf
      <4>2. rows[n + k] = b[k] /\ n + k \in 1 .. n + m
        BY <2>4, <2>6
      <4> QED
        BY <4>1, <4>2
    <3> QED
      BY <3>1, <3>2, Listed
  <2>12. ASSUME NEW i \in 1 .. n + m, NEW j \in 1 .. n + m,
                rows[i].id = rows[j].id, rows[i].file = rows[j].file
         PROVE  i = j
    <3>1. CASE i \in 1 .. n /\ j \in 1 .. n
      BY <2>1, <2>4, <2>12, <3>1 DEF NativesOf
    <3>2. CASE i \in n + 1 .. n + m /\ j \in n + 1 .. n + m
      <4>1. PICK x \in 1 .. m, y \in 1 .. m :
              x = i - n /\ y = j - n /\ rows[i] = b[x] /\ rows[j] = b[y]
        BY <2>9, <3>2
      <4>2. x = y
        BY <2>2, <2>12, <4>1 DEF PackagesOf
      <4> QED
        BY <4>1, <4>2
    <3>3. \A k \in n + 1 .. n + m : rows[k].file = "script"
      BY <2>8, <2>9
    <3> QED
      BY <2>5, <2>7, <2>12, <3>1, <3>2, <3>3
  <2> QED
    BY <1>2, <2>4, <2>10, <2>11, <2>12
<1> QED
  BY <1>1, <1>2

(* The constraint that hides a plugin is one it does not match.            *)
LEMMA Matching ==
  ASSUME NEW c, NEW e
  PROVE  ConstraintMatches(c, e.input, e.present) <=>
           ~ \A o \in c :
               \/ o = Malformed
               \/ o.property \in {"dbus", "exec", "application"} /\ o \notin e.present
               \/ /\ o.property = "mimeType" /\ "mimeType" \in DOMAIN e.input
                  /\ ~ MimeTypeMatch(o.value, e.input["mimeType"])
               \/ /\ o.property \notin {"dbus", "exec", "application", "mimeType"}
                  /\ o.property \notin DOMAIN e.input \/ e.input[o.property] # o.value
  BY DEF ConstraintMatches, Match, SystemMatch, DefaultMatch

LEMMA NotHidden ==
  ASSUME NEW e, NEW p
  PROVE  Takes(e, p) <=> ~ Hidden(p, e)
  BY Matching DEF Takes, Hidden, IsPluginAcceptable

(* Who is offered, said of any settings and system: the rows are theirs.   *)
LEMMA RowsOffered ==
  ASSUME plugins = NewPlugins(evaluated)
  PROVE  OfferedExactly
<1> DEFINE e == evaluated
           Offered == {p \in AllPlugins : ~ Hidden(p, e)}
<1>1. /\ plugins \in Seq(AllPlugins)
      /\ \A k \in DOMAIN plugins : plugins[k] \in AllPlugins /\ Takes(e, plugins[k])
      /\ Possible(e) =>
           \A p \in AllPlugins : Takes(e, p) => \E k \in DOMAIN plugins : plugins[k].id = p.id
      /\ \A i, j \in DOMAIN plugins :
           plugins[i].id = plugins[j].id /\ plugins[i].file = plugins[j].file => i = j
      /\ ~ Possible(e) => plugins = <<>>
  BY RowsTaken
<1>2. Rows \subseteq Offered
  BY <1>1, NotHidden DEF Rows
<1>3. {p.id : p \in Rows} \subseteq {p.id : p \in Offered}
  BY <1>2
<1>4. Possible(e) => {p.id : p \in Offered} \subseteq {p.id : p \in Rows}
  BY <1>1, NotHidden DEF Rows
<1>5. ~ Possible(e) => Rows = {}
  BY <1>1 DEF Rows
<1>6. Possible(e) <=> /\ e.type # Blank /\ DOMAIN e.input # {}
                      /\ ReadPluginType(e.type).inbound \subseteq DOMAIN e.input
  BY DEF Possible, InboundGiven
<1> HIDE DEF Offered
<1>7. {p.id : p \in Rows} = IF Possible(e) THEN {p.id : p \in Offered} ELSE {}
  BY <1>3, <1>4, <1>5
<1> QED
  BY <1>1, <1>2, <1>6, <1>7 DEF OfferedExactly, Offered

-----------------------------------------------------------------------------
(* The menu                                                                *)

Action == [pluginId : {p.id : p \in AllPlugins}, row : Nat]

(* One action for each row, in the order of what is displayed.             *)
Shows(shown, rows, order) ==
  /\ shown \in Seq(Action) /\ Len(shown) = Len(rows) /\ DOMAIN shown = DOMAIN rows
  /\ \A i \in DOMAIN rows :
       /\ order[i] \in DOMAIN rows /\ shown[i].pluginId = rows[order[i]].id
       /\ shown[i] = [pluginId |-> rows[order[i]].id, row |-> order[i]]
       /\ shown[i].row = order[i]
  /\ \A r \in DOMAIN rows : \E i \in DOMAIN rows : order[i] = r
  /\ \A i \in DOMAIN rows : i > 1 => rows[order[i - 1]].display <= rows[order[i]].display

LEMMA ActionsOfRows ==
  ASSUME NEW rows \in Seq(AllPlugins), NEW order \in Orders(rows)
  PROVE  Shows(Actions(rows, order), rows, order)
<1>0. PICK shown : shown = Actions(rows, order)
  OBVIOUS
<1>1. PICK n \in Nat : n = Len(rows) /\ DOMAIN rows = 1 .. n
  OBVIOUS
<1>2. /\ order \in [1 .. n -> 1 .. n]
      /\ \A i, j \in 1 .. n : order[i] = order[j] => i = j
      /\ \A i, j \in 1 .. n : i < j => rows[order[i]].display <= rows[order[j]].display
  BY <1>1 DEF Orders, Sorted
<1>3. shown = [i \in 1 .. n |-> [pluginId |-> rows[order[i]].id, row |-> order[i]]]
  BY <1>0, <1>1 DEF Actions
<1>4. \A i \in 1 .. n : order[i] \in 1 .. n /\ order[i] \in Nat /\ rows[order[i]] \in AllPlugins
  BY <1>1, <1>2
<1>5. shown \in [1 .. n -> Action]
  BY <1>3, <1>4 DEF Action
<1>6. shown \in Seq(Action) /\ Len(shown) = n /\ DOMAIN shown = 1 .. n
  BY <1>5
<1>7. \A r \in 1 .. n : \E i \in 1 .. n : order[i] = r
  <2>1. order \in Injection(1 .. n, 1 .. n)
    BY <1>2 DEF Injection, IsInjective
  <2>2. IsFiniteSet(1 .. n) /\ Cardinality(1 .. n) = n
    BY FS_Interval
  <2>3. order \in Surjection(1 .. n, 1 .. n)
    BY <2>1, <2>2, FS_Injection
  <2> QED
    BY <2>3 DEF Surjection
<1>8. \A i \in 1 .. n :
        /\ order[i] \in 1 .. n /\ shown[i].pluginId = rows[order[i]].id
        /\ shown[i] = [pluginId |-> rows[order[i]].id, row |-> order[i]]
        /\ shown[i].row = order[i]
  BY <1>3, <1>4
<1>9. \A i \in 1 .. n : i > 1 => rows[order[i - 1]].display <= rows[order[i]].display
  <2>1. \A i \in 1 .. n : i > 1 => i - 1 \in 1 .. n /\ i - 1 < i
    OBVIOUS
  <2> QED
    BY <1>2, <2>1
<1> QED
  BY <1>0, <1>1, <1>6, <1>7, <1>8, <1>9 DEF Shows

Shown == ~ behind => \E order \in Orders(plugins) : actions = Actions(plugins, order)

LEMMA ShownRows ==
  ASSUME plugins \in Seq(AllPlugins), Shown
  PROVE  MenuShowsRows
<1> SUFFICES ASSUME ~ behind PROVE MenuShowsRows
  BY DEF MenuShowsRows
<1>1. PICK order \in Orders(plugins) : actions = Actions(plugins, order)
  BY DEF Shown
<1>2. Shows(actions, plugins, order)
  BY <1>1, ActionsOfRows
<1>3. ASSUME NEW i \in DOMAIN actions, i > 1
      PROVE  plugins[actions[i - 1].row].display <= plugins[actions[i].row].display
  <2>1. PICK n \in Nat : DOMAIN plugins = 1 .. n
    OBVIOUS
  <2>2. i \in DOMAIN plugins /\ i - 1 \in DOMAIN plugins
    BY <1>2, <1>3, <2>1 DEF Shows
  <2>3. actions[i].row = order[i] /\ actions[i - 1].row = order[i - 1]
    BY <1>2, <2>2 DEF Shows
  <2> QED
    BY <1>2, <1>3, <2>2, <2>3 DEF Shows
<1> QED
  BY <1>2, <1>3 DEF MenuShowsRows, Shows

-----------------------------------------------------------------------------
(* The invariant by its parts                                              *)

ModelPart ==
  /\ pluginType \in DOMAIN PluginTypes \cup {Blank}
  /\ inputData \in Inputs \cup {<<>>} /\ disabledPlugins \in Disabled
  /\ RowsFollowSettings /\ plugins = NewPlugins(evaluated)

SystemPart == present \subseteq System /\ admin \in Disabled

MenuPart == actions \in Seq(Action) /\ behind \in BOOLEAN /\ Shown

Choice == [id : {p.id : p \in AllPlugins} \cup {Blank}, fresh : BOOLEAN,
           undisturbed : BOOLEAN, offered : BOOLEAN, made : BOOLEAN]

SharePart ==
  /\ choice \in Choice /\ DOMAIN configuration = DOMAIN None
  /\ configuration.plugin \in AllPlugins \cup {NoMetaData}
  /\ job \in {"none", "null", "process", "plugin"}
  /\ ChosenPlugin /\ InboundAsGiven /\ JobHasItsData
  /\ choice.made => configuration.plugin \in AllPlugins /\ configuration.plugin.file # "absent"

LEMMA Parts == IInv <=> ModelPart /\ SystemPart /\ MenuPart /\ SharePart
<1>1. ModelPart => plugins \in Seq(AllPlugins)
  BY RowsTaken DEF ModelPart
<1> QED
  BY <1>1 DEF IInv, TypeOK, ModelPart, SystemPart, MenuPart, SharePart, Shown, Action, Choice

(* initializeModel() after a setter that has stored its value.             *)
LEMMA Evaluates ==
  ASSUME NEW type \in DOMAIN PluginTypes \cup {Blank}, NEW input \in Inputs \cup {<<>>},
         NEW ids \in Disabled, InitializeModel(type, input, ids),
         pluginType' = type, inputData' = input, disabledPlugins' = ids
  PROVE  ModelPart'
<1>1. PICK s : /\ plugins' = NewPlugins(s) /\ evaluated' = s
               /\ s.type = type /\ s.input = input /\ s.disabled = ids
  BY DEF InitializeModel
<1>2. DOMAIN input = {} \/ type = Blank => NewPlugins(s) = <<>>
  BY <1>1 DEF NewPlugins
<1> QED
  BY <1>1, <1>2 DEF ModelPart, RowsFollowSettings

LEMMA ModelStep ==
  ASSUME ModelPart,
         \/ \E input \in Inputs : SetInputData(input)
         \/ \E type \in DOMAIN PluginTypes \cup {Blank} : SetPluginType(type)
         \/ \E ids \in Disabled : SetDisabledPlugins(ids)
         \/ UNCHANGED modelVars
  PROVE  ModelPart' /\ plugins' \in Seq(AllPlugins)
<1> SUFFICES ModelPart'
  BY RowsTaken DEF ModelPart
<1>0. /\ pluginType \in DOMAIN PluginTypes \cup {Blank}
      /\ inputData \in Inputs \cup {<<>>} /\ disabledPlugins \in Disabled
  BY DEF ModelPart
<1>1. CASE \E input \in Inputs : SetInputData(input)
  <2>1. PICK input \in Inputs : SetInputData(input)
    BY <1>1
  <2>2. /\ InitializeModel(pluginType, input, disabledPlugins) /\ inputData' = input
        /\ pluginType' = pluginType /\ disabledPlugins' = disabledPlugins
    BY <2>1 DEF SetInputData
  <2> QED
    BY <1>0, <2>2, Evaluates
<1>2. CASE \E type \in DOMAIN PluginTypes \cup {Blank} : SetPluginType(type)
  <2>1. PICK type \in DOMAIN PluginTypes \cup {Blank} : SetPluginType(type)
    BY <1>2
  <2>2. /\ InitializeModel(type, inputData, disabledPlugins) /\ pluginType' = type
        /\ inputData' = inputData /\ disabledPlugins' = disabledPlugins
    BY <2>1 DEF SetPluginType
  <2> QED
    BY <1>0, <2>2, Evaluates
<1>3. CASE \E ids \in Disabled : SetDisabledPlugins(ids)
  <2>1. PICK ids \in Disabled : SetDisabledPlugins(ids)
    BY <1>3
  <2>2. /\ InitializeModel(pluginType, inputData, ids) /\ disabledPlugins' = ids
        /\ pluginType' = pluginType /\ inputData' = inputData
    BY <2>1 DEF SetDisabledPlugins
  <2> QED
    BY <1>0, <2>2, Evaluates
<1>4. CASE UNCHANGED modelVars
  <2>1. /\ pluginType' = pluginType /\ inputData' = inputData /\ evaluated' = evaluated
        /\ disabledPlugins' = disabledPlugins /\ plugins' = plugins
    BY <1>4 DEF modelVars
  <2> QED
    BY <2>1 DEF ModelPart, RowsFollowSettings
<1> QED
  BY <1>1, <1>2, <1>3, <1>4

LEMMA ReloadStep ==
  ASSUME plugins' \in Seq(AllPlugins), Reload
  PROVE  MenuPart'
<1>1. PICK order \in Orders(plugins') : actions' = Actions(plugins', order)
  BY DEF Reload
<1>2. actions' \in Seq(Action)
  BY <1>1, ActionsOfRows DEF Shows
<1> QED
  BY <1>1, <1>2 DEF Reload, MenuPart, Shown

(* What is offered has its inbound arguments and a type of its own.        *)
LEMMA RowGiven ==
  ASSUME NEW s, NEW rows, rows = NewPlugins(s), NEW r \in DOMAIN rows
  PROVE  /\ rows[r] \in AllPlugins /\ rows[r].file # "absent"
         /\ ReadPluginType(s.type).inbound \subseteq DOMAIN s.input
         /\ s.type \in rows[r].types
<1>1. rows[r] \in AllPlugins /\ Takes(s, rows[r])
  BY RowsTaken
<1>2. Possible(s)
  <2>1. ~ Possible(s) => rows = <<>>
    BY RowsTaken
  <2>2. rows # <<>>
    OBVIOUS
  <2> QED
    BY <2>1, <2>2
<1> QED
  BY <1>1, <1>2 DEF Takes, IsPluginAcceptable, Possible, InboundGiven

(* In a menu that is up to date an action's row is that of its plugin.     *)
LEMMA ActionRow ==
  ASSUME ModelPart, MenuPart, ~ behind, NEW i \in DOMAIN actions
  PROVE  actions[i].row \in DOMAIN plugins /\ plugins[actions[i].row].id = actions[i].pluginId
<1>1. PICK order \in Orders(plugins) : actions = Actions(plugins, order)
  BY DEF MenuPart, Shown
<1>2. plugins \in Seq(AllPlugins)
  BY RowsTaken DEF ModelPart
<1>3. Shows(actions, plugins, order)
  BY <1>1, <1>2, ActionsOfRows
<1> QED
  BY <1>3 DEF Shows

LEMMA TriggerStep ==
  ASSUME ModelPart, MenuPart, NEW i \in DOMAIN actions, Trigger(i)
  PROVE  ModelPart' /\ MenuPart' /\ SharePart'
<1>1. ModelPart' /\ plugins' \in Seq(AllPlugins) /\ MenuPart'
  <2>1. CASE \E input \in Inputs : MenuInputData(input)
    <3>1. (\E input \in Inputs : SetInputData(input)) /\ Reload
      BY <2>1 DEF MenuInputData
    <3> QED
      BY <3>1, ModelStep, ReloadStep
  <2>2. CASE UNCHANGED <<modelVars, actions, behind>>
    <3>1. ModelPart' /\ plugins' \in Seq(AllPlugins)
      BY <2>2, ModelStep
    <3>2. plugins' = plugins /\ actions' = actions /\ behind' = behind
      BY <2>2 DEF modelVars
    <3> QED
      BY <3>1, <3>2 DEF MenuPart, Shown
  <2> QED
    BY <2>1, <2>2 DEF Trigger, AboutToShare
<1>2. PICK row : row = actions[i].row
  OBVIOUS
<1>3. actions[i].pluginId \in {p.id : p \in AllPlugins}
  <2>1. actions[i] \in Action
    BY DEF MenuPart
  <2> QED
    BY <2>1 DEF Action
<1>4. /\ choice' = [id |-> actions[i].pluginId,
                    fresh |-> ~ behind, undisturbed |-> plugins' = plugins,
                    offered |-> \E r \in DOMAIN plugins' :
                                  plugins'[r].id = actions[i].pluginId,
                    made |-> row \in DOMAIN plugins']
      /\ job' = "none"
      /\ \/ row \in DOMAIN plugins' /\ Configure(row)
         \/ row \notin DOMAIN plugins' /\ configuration' = None
  BY <1>2 DEF Trigger
<1>5. /\ choice'.id = actions[i].pluginId /\ (choice'.fresh <=> ~ behind)
      /\ choice'.undisturbed <=> plugins' = plugins
      /\ choice'.made <=> row \in DOMAIN plugins'
  BY <1>4
<1>6. choice' \in Choice
  BY <1>3, <1>4 DEF Choice
<1>7. CASE row \in DOMAIN plugins'
  <2>1. PICK p : p = plugins'[row]
    OBVIOUS
  <2>2. configuration' = [data |-> inputData', type |-> ReadPluginType(pluginType'),
                          plugin |-> p, useSeparateProcess |-> FALSE]
    BY <1>4, <1>7, <2>1 DEF Configure, ConfigureJob, NewConfiguration
  <2>3. DOMAIN configuration' = DOMAIN None
    BY <2>2 DEF None
  <2>4. configuration'.data = inputData' /\ configuration'.type = ReadPluginType(pluginType')
        /\ configuration'.plugin = p
    BY <2>2
  <2>5. /\ p \in AllPlugins /\ p.file # "absent"
        /\ ReadPluginType(pluginType').inbound \subseteq DOMAIN inputData'
        /\ pluginType' \in p.types
    <3>1. /\ plugins' = NewPlugins(evaluated')
          /\ evaluated'.type = pluginType' /\ evaluated'.input = inputData'
      BY <1>1 DEF ModelPart, RowsFollowSettings
    <3> QED
      BY <1>7, <2>1, <3>1, RowGiven
  <2>6. ChosenPlugin'
    BY <1>2, <1>5, <1>7, <2>1, <2>4, ActionRow DEF ChosenPlugin
  <2>7. InboundAsGiven'
    BY <2>4, <2>5 DEF InboundAsGiven
  <2>8. JobHasItsData'
    BY <1>4 DEF JobHasItsData
  <2> QED
    BY <1>1, <1>4, <1>6, <2>3, <2>4, <2>5, <2>6, <2>7, <2>8 DEF SharePart
<1>8. CASE row \notin DOMAIN plugins'
  <2>1. configuration' = None /\ ~ choice'.made
    BY <1>4, <1>5, <1>8
  <2>2. None.plugin = NoMetaData
    BY DEF None
  <2>3. ChosenPlugin'
    BY <1>2, <1>5, <1>8, ActionRow DEF ChosenPlugin
  <2>4. JobHasItsData'
    BY <1>4 DEF JobHasItsData
  <2> QED
    BY <1>1, <1>4, <1>6, <2>1, <2>2, <2>3, <2>4 DEF SharePart, InboundAsGiven
<1> QED
  BY <1>7, <1>8

(* The arguments a page gives or takes back are the plugin's own.          *)
LEMMA EditStep ==
  ASSUME SharePart, EditConfiguration
  PROVE  SharePart'
<1>1. PICK key \in configuration.plugin.needs :
        configuration' =
          [configuration EXCEPT !.data =
             [k \in (DOMAIN @ \cup {key}) \ ({key} \cap DOMAIN @) |->
                IF k \in DOMAIN @ THEN @[k] ELSE "given"]]
  BY DEF EditConfiguration
<1>2. /\ choice.made /\ job = "none" /\ job' = job /\ choice' = choice
      /\ choice \in Choice /\ DOMAIN configuration = DOMAIN None
      /\ configuration.plugin \in AllPlugins /\ configuration.plugin.file # "absent"
  BY DEF EditConfiguration, SharePart
<1>3. DOMAIN None = {"data", "type", "plugin", "useSeparateProcess"}
  BY DEF None
<1>4. /\ DOMAIN configuration' = DOMAIN None
      /\ configuration'.plugin = configuration.plugin /\ configuration'.type = configuration.type
      /\ DOMAIN configuration'.data =
           (DOMAIN configuration.data \cup {key}) \ ({key} \cap DOMAIN configuration.data)
  BY <1>1, <1>2, <1>3
<1>5. PICK t \in configuration.plugin.types : ReadPluginType(t) = configuration.type
  BY <1>2 DEF SharePart, InboundAsGiven
<1>6. key \notin configuration.type.inbound
  <2>1. CASE t \in DOMAIN PluginTypes
    BY <1>1, <1>2, <1>5, <2>1, OwnArguments DEF ReadPluginType
  <2>2. CASE t \notin DOMAIN PluginTypes
    BY <1>5, <2>2 DEF ReadPluginType, NoType
  <2> QED
    BY <2>1, <2>2
<1>7. configuration.type.inbound \subseteq DOMAIN configuration.data
  BY <1>2 DEF SharePart, InboundAsGiven
<1>8. configuration.type.inbound \subseteq DOMAIN configuration'.data
  BY <1>4, <1>6, <1>7
<1>9. InboundAsGiven'
  BY <1>4, <1>5, <1>8 DEF InboundAsGiven
<1>10. ChosenPlugin' /\ JobHasItsData'
  BY <1>2, <1>4 DEF SharePart, ChosenPlugin, JobHasItsData
<1> QED
  BY <1>2, <1>4, <1>9, <1>10 DEF SharePart

LEMMA SetUseSeparateProcessStep ==
  ASSUME SharePart, SetUseSeparateProcess
  PROVE  SharePart'
<1>1. PICK use \in BOOLEAN :
        configuration' = [configuration EXCEPT !.useSeparateProcess = use]
  BY DEF SetUseSeparateProcess
<1>2. job = "none" /\ job' = job /\ choice' = choice /\ DOMAIN configuration = DOMAIN None
  BY DEF SetUseSeparateProcess, SharePart
<1>3. DOMAIN None = {"data", "type", "plugin", "useSeparateProcess"}
  BY DEF None
<1>4. /\ DOMAIN configuration' = DOMAIN None /\ configuration'.data = configuration.data
      /\ configuration'.plugin = configuration.plugin /\ configuration'.type = configuration.type
  BY <1>1, <1>2, <1>3
<1>5. ChosenPlugin' /\ InboundAsGiven' /\ JobHasItsData'
  BY <1>2, <1>4 DEF SharePart, ChosenPlugin, InboundAsGiven, JobHasItsData
<1> QED
  BY <1>2, <1>4, <1>5 DEF SharePart

(* A library is never loaded for a script, and no job without its data.    *)
LEMMA CreateJobsStep ==
  ASSUME SharePart, CreateJobs
  PROVE  SharePart'
<1>1. /\ choice.made /\ job' \in CreateJob(configuration)
      /\ configuration' = configuration /\ choice' = choice
      /\ configuration.plugin \in AllPlugins /\ configuration.plugin.file # "absent"
  BY DEF CreateJobs, SharePart
<1>2. configuration.plugin.file \in {"native", "script"}
  BY <1>1, Listed
<1>3. job' \in {"null", "process", "plugin"}
  BY <1>1 DEF CreateJob, InternalCreateJob
<1>4. job' \in {"process", "plugin"} => IsReady(configuration)
  BY <1>1 DEF CreateJob
<1>5. job' = "plugin" => configuration.plugin.file = "native"
  BY <1>1, <1>2 DEF CreateJob, InternalCreateJob, IsScript
<1>6. JobHasItsData'
  BY <1>1, <1>4, <1>5 DEF JobHasItsData, IsReady, NeededArguments
<1>7. ChosenPlugin' /\ InboundAsGiven'
  BY <1>1 DEF SharePart, ChosenPlugin, InboundAsGiven
<1> QED
  BY <1>1, <1>3, <1>6, <1>7 DEF SharePart

LEMMA Initially ==
  ASSUME Init
  PROVE  IInv
<1>1. ModelPart
  <2>1. /\ pluginType = Blank /\ inputData = <<>> /\ disabledPlugins = Default /\ plugins = <<>>
        /\ evaluated.type = Blank /\ evaluated.input = <<>> /\ evaluated.disabled = Default
    BY DEF Init, ModelInit
  <2>2. plugins = NewPlugins(evaluated)
    BY <2>1 DEF NewPlugins
  <2> QED
    BY <2>1, <2>2, DefaultAssumption DEF ModelPart, RowsFollowSettings
<1>2. SystemPart
  BY DEF Init, ModelInit, SystemPart
<1>3. MenuPart
  <2>1. actions = <<>> /\ plugins = <<>> /\ behind = FALSE
    BY DEF Init, ModelInit
  <2>2. <<>> \in Orders(<<>>)
    BY DEF Orders, Sorted
  <2>3. Actions(<<>>, <<>>) = <<>>
    BY DEF Actions
  <2>4. Shown
    BY <2>1, <2>2, <2>3 DEF Shown
  <2>5. <<>> \in Seq(Action)
    OBVIOUS
  <2> QED
    BY <2>1, <2>4, <2>5 DEF MenuPart
<1>4. SharePart
  <2>1. configuration = None /\ choice = NoChoice /\ job = "none"
    BY DEF Init
  <2>2. /\ choice \in Choice /\ ~ choice.made /\ ~ choice.fresh
    BY <2>1 DEF NoChoice, Choice
  <2>3. configuration.plugin = NoMetaData
    BY <2>1 DEF None
  <2> QED
    BY <2>1, <2>2, <2>3 DEF SharePart, ChosenPlugin, InboundAsGiven, JobHasItsData
<1> QED
  BY <1>1, <1>2, <1>3, <1>4, Parts

LEMMA Unshared ==
  ASSUME SharePart, KeepConfiguration
  PROVE  SharePart'
<1>1. configuration' = configuration /\ choice' = choice /\ job' = job
  BY DEF KeepConfiguration
<1> QED
  BY <1>1 DEF SharePart, ChosenPlugin, InboundAsGiven, JobHasItsData

LEMMA ModelKept ==
  ASSUME ModelPart, MenuPart, UNCHANGED <<modelVars, actions, behind>>
  PROVE  ModelPart' /\ MenuPart'
<1>1. ModelPart'
  BY ModelStep
<1>2. plugins' = plugins /\ actions' = actions /\ behind' = behind
  BY DEF modelVars
<1> QED
  BY <1>1, <1>2 DEF MenuPart, Shown

LEMMA SystemKept ==
  ASSUME SystemPart, UNCHANGED systemVars
  PROVE  SystemPart'
  BY DEF SystemPart, systemVars

LEMMA Stepwise ==
  ASSUME IInv, [Next]_vars
  PROVE  IInv'
<1>0. ModelPart /\ SystemPart /\ MenuPart /\ SharePart
  BY Parts
<1> SUFFICES ModelPart' /\ SystemPart' /\ MenuPart' /\ SharePart'
  <2> SUFFICES ASSUME ModelPart', SystemPart', MenuPart', SharePart' PROVE IInv'
    OBVIOUS
  <2>1. plugins' \in Seq(AllPlugins)
    BY RowsTaken DEF ModelPart
  <2> QED
    BY <2>1 DEF IInv, TypeOK, ModelPart, SystemPart, MenuPart, SharePart, Shown, Action, Choice
<1>1. CASE InputDataChange
  <2>1. (\E input \in Inputs : SetInputData(input)) /\ Reload
    BY <1>1 DEF InputDataChange, MenuInputData
  <2>2. UNCHANGED systemVars /\ KeepConfiguration
    BY <1>1 DEF InputDataChange
  <2> QED
    BY <1>0, <2>1, <2>2, ModelStep, ReloadStep, SystemKept, Unshared
<1>2. CASE TypeChange
  <2>1. /\ \E type \in DOMAIN PluginTypes \cup {Blank} : SetPluginType(type)
        /\ behind' = TRUE /\ actions' = actions /\ UNCHANGED systemVars /\ KeepConfiguration
    BY <1>2 DEF TypeChange
  <2>2. MenuPart'
    BY <1>0, <2>1 DEF MenuPart, Shown
  <2> QED
    BY <1>0, <2>1, <2>2, ModelStep, SystemKept, Unshared
<1>3. CASE DisabledChange
  <2>1. /\ \E ids \in Disabled : SetDisabledPlugins(ids)
        /\ behind' = TRUE /\ actions' = actions /\ UNCHANGED systemVars /\ KeepConfiguration
    BY <1>3 DEF DisabledChange
  <2>2. MenuPart'
    BY <1>0, <2>1 DEF MenuPart, Shown
  <2> QED
    BY <1>0, <2>1, <2>2, ModelStep, SystemKept, Unshared
<1>4. CASE SystemChanges
  <2>1. /\ \/ \E x \in System : present' = (present \ {x}) \cup ({x} \ present) /\ UNCHANGED admin
           \/ admin' \in Disabled \ {admin} /\ UNCHANGED present
        /\ UNCHANGED modelVars /\ UNCHANGED menuVars
    BY <1>4 DEF SystemChanges, SystemChange
  <2>2. SystemPart'
    BY <1>0, <2>1 DEF SystemPart
  <2>3. UNCHANGED <<modelVars, actions, behind>> /\ KeepConfiguration
    BY <2>1 DEF menuVars, KeepConfiguration
  <2> QED
    BY <1>0, <2>2, <2>3, ModelKept, Unshared
<1>5. CASE ForcedReload
  <2>1. UNCHANGED modelVars /\ UNCHANGED systemVars /\ Reload /\ KeepConfiguration
    BY <1>5 DEF ForcedReload
  <2> QED
    BY <1>0, <2>1, ModelStep, ReloadStep, SystemKept, Unshared
<1>6. CASE FileItemActions
  <2>1. /\ (\E input \in Inputs : SetInputData(input)) \/ UNCHANGED modelVars
        /\ Reload /\ UNCHANGED systemVars /\ KeepConfiguration
    BY <1>6 DEF FileItemActions
  <2> QED
    BY <1>0, <2>1, ModelStep, ReloadStep, SystemKept, Unshared
<1>7. CASE \E i \in DOMAIN actions : Trigger(i)
  <2>1. PICK i \in DOMAIN actions : Trigger(i)
    BY <1>7
  <2>2. UNCHANGED systemVars
    BY <2>1 DEF Trigger
  <2> QED
    BY <1>0, <2>1, <2>2, TriggerStep, SystemKept
<1>8. CASE EditConfiguration
  <2>1. UNCHANGED <<modelVars, actions, behind>> /\ UNCHANGED systemVars
    BY <1>8 DEF EditConfiguration
  <2> QED
    BY <1>0, <1>8, <2>1, ModelKept, SystemKept, EditStep
<1>9. CASE SetUseSeparateProcess
  <2>1. UNCHANGED <<modelVars, actions, behind>> /\ UNCHANGED systemVars
    BY <1>9 DEF SetUseSeparateProcess
  <2> QED
    BY <1>0, <1>9, <2>1, ModelKept, SystemKept, SetUseSeparateProcessStep
<1>10. CASE CreateJobs
  <2>1. UNCHANGED <<modelVars, actions, behind>> /\ UNCHANGED systemVars
    BY <1>10 DEF CreateJobs
  <2> QED
    BY <1>0, <1>10, <2>1, ModelKept, SystemKept, CreateJobsStep
<1>11. CASE UNCHANGED vars
  <2>1. UNCHANGED <<modelVars, actions, behind>> /\ UNCHANGED systemVars /\ KeepConfiguration
    BY <1>11 DEF vars, menuVars, KeepConfiguration
  <2> QED
    BY <1>0, <2>1, ModelKept, SystemKept, Unshared
<1> QED
  BY <1>1, <1>2, <1>3, <1>4, <1>5, <1>6, <1>7, <1>8, <1>9, <1>10, <1>11 DEF Next

-----------------------------------------------------------------------------
(* Theorems                                                                *)

(* The rows are always those of the last evaluation, a menu that is up to  *)
(* date shows them, and a share has what its plugin was offered for.       *)
THEOREM Invariant == Spec => []IInv
<1>1. Init => IInv
  BY Initially
<1>2. IInv /\ [Next]_vars => IInv'
  BY Stepwise
<1> QED
  BY <1>1, <1>2, PTL DEF Spec

(* Menu, model and configuration only ever hold what their code declares.  *)
THEOREM TypeCorrect == Spec => []TypeOK
<1>1. IInv => TypeOK
  BY DEF IInv
<1> QED
  BY <1>1, Invariant, PTL

(* No setter of the model, early return or not, leaves the rows behind.    *)
THEOREM RowsFresh == Spec => []RowsFollowSettings
<1>1. IInv => RowsFollowSettings
  BY DEF IInv
<1> QED
  BY <1>1, Invariant, PTL

(* initializeModel() offers exactly whom type, lists and constraints allow *)
(* for any plugins, types, data and mime database.                         *)
THEOREM ExactlyOffered == Spec => []OfferedExactly
<1>1. IInv => OfferedExactly
  BY RowsOffered DEF IInv
<1> QED
  BY <1>1, Invariant, PTL

(* Menu::reload(): an up to date menu is the model's rows, in some order   *)
(* of what is displayed.                                                   *)
THEOREM MenuIsModel == Spec => []MenuShowsRows
<1>1. IInv => MenuShowsRows
  <2>1. IInv => plugins \in Seq(AllPlugins) /\ Shown
    BY DEF IInv, TypeOK, Shown
  <2> QED
    BY <2>1, ShownRows
<1> QED
  BY <1>1, Invariant, PTL

(* The triggered action configures the plugin it names, unless the menu    *)
(* was behind or the rows changed under aboutToShare.                      *)
THEOREM ChosenIsMade == Spec => []ChosenPlugin
<1>1. IInv => ChosenPlugin
  BY DEF IInv
<1> QED
  BY <1>1, Invariant, PTL

(* configureJob() never lacks an inbound argument, whatever row is used    *)
(* and whatever a page adds or takes back afterwards.                      *)
THEOREM InboundGivenAlways == Spec => []InboundAsGiven
<1>1. IInv => InboundAsGiven
  BY DEF IInv
<1> QED
  BY <1>1, Invariant, PTL

(* createJob() gives a job only to a complete configuration, and a library *)
(* only to a native plugin.                                                *)
THEOREM JobComplete == Spec => []JobHasItsData
<1>1. IInv => JobHasItsData
  BY DEF IInv
<1> QED
  BY <1>1, Invariant, PTL
=============================================================================
