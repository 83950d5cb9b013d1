--------------------------- MODULE CsvImportProofs ---------------------------
(***************************************************************************)
(* What CsvImport says of imports, for any number of them, any files and   *)
(* whatever other requests do to the tables meanwhile.                     *)
(***************************************************************************)
EXTENDS CsvImport, TablesProofs, FiniteSetTheorems, WellFoundedInduction

Labels == {"idle", "sites", "subnets", "row", "create_site", "insert_subnet", "read_back",
           "list_ips", "find_ip", "update_ip", "find_subnet", "insert_ip"}

\* The import is at a statement for its row ...
Working(m) == pc[m] \notin {"idle", "sites", "subnets", "row"}
\* ... which concerns an address, so that its subnet and its list are there.
AtAddress(m) == pc[m] \in {"find_ip", "update_ip", "find_subnet", "insert_ip"}

LocalsTypeOK ==
    /\ pc \in [Importers -> Labels]
    /\ file \in [Importers -> Files \cup {<<>>}]
    /\ rowNumber \in [Importers -> Nat \ {0}]
    /\ \A m \in Importers : rowNumber[m] <= Len(file[m]) + 1
    /\ siteByName \in [Importers -> [SiteNames -> SiteIds \cup {Nil}]]
    /\ subnetByKey \in [Importers -> [Keys -> SubnetIds \cup {Nil}]]
    /\ ipsBySubnet \in [Importers -> [SubnetIds -> (SUBSET Entry) \cup {Nil}]]
    /\ listed \in [Importers -> (SUBSET Entry) \cup {Nil}]
    /\ result \in [Importers -> [created : Nat, updated : Nat, failed : Nat]]
    /\ disturbed \subseteq Importers

\* The step that an import is at, and what the maps hold for its row, agree.
RowInv(m) ==
    /\ pc[m] \in {"idle", "sites", "subnets"} => rowNumber[m] = 1
    /\ Working(m) \/ listed[m] # Nil =>
          /\ rowNumber[m] <= Len(file[m]) /\ rowNumber[m] <= MaxRows
          /\ Accepted(Current(m))
    /\ pc[m] = "create_site" => SiteOf(m) = Nil
    /\ (Working(m) /\ pc[m] # "create_site") \/ listed[m] # Nil => SiteOf(m) # Nil
    /\ pc[m] = "insert_subnet" => SubnetOf(m) = Nil
    /\ pc[m] \in {"read_back", "list_ips"} \/ AtAddress(m) \/ listed[m] # Nil => SubnetOf(m) # Nil
    /\ listed[m] # Nil => pc[m] = "row" \/ AtAddress(m)
    /\ AtAddress(m) => IpsOf(m) # Nil
    /\ pc[m] \in {"find_ip", "update_ip"} =>
          Existing(m) # {} /\ TheExisting(m).hostname # Current(m).hostname
    /\ pc[m] \in {"find_subnet", "insert_ip"} => Existing(m) = {}

\* There is a greatest among the subnets of one key.
SubnetsBounded == \E b \in Nat : \A n \in LiveSubnets : n <= b

BaseInv ==
    /\ TablesInv /\ LocalsTypeOK /\ SubnetsBounded
    /\ \A m \in Importers : RowInv(m)

LEMMA TypesSplit == TypeOK <=> TablesTypeOK /\ LocalsTypeOK
  BY DEF TypeOK, LocalsTypeOK, Labels

\* What stands at the step of a row.
LEMMA CurrentTypes ==
    ASSUME LocalsTypeOK, NEW m \in Importers, rowNumber[m] <= Len(file[m])
    PROVE  /\ Current(m) \in Row
           /\ SiteOf(m) \in SiteIds \cup {Nil}
           /\ SiteOf(m) # Nil => KeyOf(m) \in Keys /\ SubnetOf(m) \in SubnetIds \cup {Nil}
           /\ SiteOf(m) # Nil /\ SubnetOf(m) # Nil => IpsOf(m) \in (SUBSET Entry) \cup {Nil}
<1>1. file[m] \in Seq(Row) /\ rowNumber[m] \in 1 .. Len(file[m])
  BY ImportConstants DEF LocalsTypeOK
<1>2. Current(m) \in Row
  BY <1>1 DEF Current
<1>3. Current(m).site \in SiteNames /\ Current(m).cidr \in Cidrs
  BY <1>2 DEF Row
<1>4. SiteOf(m) \in SiteIds \cup {Nil}
  BY <1>3 DEF SiteOf, LocalsTypeOK
<1>5. SiteOf(m) # Nil => KeyOf(m) \in Keys
  BY <1>3, <1>4 DEF KeyOf, Keys
<1>6. SiteOf(m) # Nil => SubnetOf(m) \in SubnetIds \cup {Nil}
  BY <1>5 DEF SubnetOf, LocalsTypeOK
<1>7. SiteOf(m) # Nil /\ SubnetOf(m) # Nil => IpsOf(m) \in (SUBSET Entry) \cup {Nil}
  BY <1>6 DEF IpsOf, LocalsTypeOK
<1>8. QED
  BY <1>2, <1>4, <1>5, <1>6, <1>7

LEMMA ExistingTypes ==
    ASSUME LocalsTypeOK, NEW m \in Importers, RowInv(m), pc[m] \in {"find_ip", "update_ip"}
    PROVE  /\ TheExisting(m) \in IpsOf(m) /\ TheExisting(m) \in Entry
           /\ TheExisting(m).ip = Current(m).ip
<1>1. Existing(m) # {} /\ IpsOf(m) # Nil
  BY DEF RowInv, AtAddress
<1>2. IpsOf(m) \in SUBSET Entry
  <2>1. rowNumber[m] <= Len(file[m]) /\ SiteOf(m) # Nil /\ SubnetOf(m) # Nil
    BY DEF RowInv, Working, AtAddress
  <2>2. QED
    BY <1>1, <2>1, CurrentTypes
<1>3. TheExisting(m) \in Existing(m)
  BY <1>1 DEF TheExisting
<1>4. QED
  BY <1>2, <1>3 DEF Existing

LEMMA BaseInit == Init => BaseInv
<1> SUFFICES ASSUME Init PROVE BaseInv
  OBVIOUS
<1>1. TablesInv
  BY TablesInvInit DEF Init
<1>2. NoSites \in [SiteNames -> SiteIds \cup {Nil}] /\ NoSubnets \in [Keys -> SubnetIds \cup {Nil}]
  BY DEF NoSites, NoSubnets
<1>3. NoIps \in [SubnetIds -> (SUBSET Entry) \cup {Nil}]
  BY DEF NoIps
<1>4. NoResult \in [created : Nat, updated : Nat, failed : Nat]
  BY DEF NoResult
<1>5. /\ pc \in [Importers -> Labels] /\ file \in [Importers -> Files \cup {<<>>}]
      /\ rowNumber \in [Importers -> Nat \ {0}]
      /\ \A m \in Importers : rowNumber[m] <= Len(file[m]) + 1
      /\ disturbed \subseteq Importers
  BY DEF Init, Labels
<1>6. /\ siteByName \in [Importers -> [SiteNames -> SiteIds \cup {Nil}]]
      /\ subnetByKey \in [Importers -> [Keys -> SubnetIds \cup {Nil}]]
  BY <1>2 DEF Init
<1>7. /\ ipsBySubnet \in [Importers -> [SubnetIds -> (SUBSET Entry) \cup {Nil}]]
      /\ listed \in [Importers -> (SUBSET Entry) \cup {Nil}]
  BY <1>3 DEF Init
<1>8. result \in [Importers -> [created : Nat, updated : Nat, failed : Nat]]
  BY <1>4 DEF Init
<1>9. LocalsTypeOK
  BY <1>5, <1>6, <1>7, <1>8 DEF LocalsTypeOK
<1>10. ASSUME NEW m \in Importers
       PROVE  RowInv(m)
  <2>1. pc[m] = "idle" /\ rowNumber[m] = 1 /\ listed[m] = Nil
    BY DEF Init
  <2>2. QED
    BY <2>1 DEF RowInv, Working, AtAddress
<1>11. SubnetsBounded
  <2>1. LiveSubnets = {}
    BY DEF Init, TablesInit, LiveSubnets, NoRow
  <2>2. QED
    BY <2>1 DEF SubnetsBounded
<1>12. QED
  BY <1>1, <1>9, <1>10, <1>11 DEF BaseInv
-----------------------------------------------------------------------------
(* The subnet of a key.                                                    *)

LEMMA GreatestOfBounded ==
    ASSUME NEW S \in SUBSET Nat, S # {}, NEW b \in Nat, \A n \in S : n <= b
    PROVE  \E n \in S : \A o \in S : o <= n
<1> DEFINE T == {b - n : n \in S}
<1>1. T \subseteq Nat /\ T # {}
  <2>1. \A n \in S : b - n \in Nat
    OBVIOUS
  <2>2. QED
    BY <2>1
<1>2. IsWellFoundedOn(OpToRel(<, Nat), Nat)
  BY NatLessThanWellFounded
<1> DEFINE R == OpToRel(<, Nat)
<1>3. \A x, y \in Nat : x < y => <<x, y>> \in R
  BY DEF OpToRel
<1> HIDE DEF R, T
<1>4. PICK x \in T : \A y \in T : <<y, x>> \notin R
  BY <1>1, <1>2, WFMin DEF R
<1>5. \A y \in T : x <= y
  <2> SUFFICES ASSUME NEW y \in T, ~(x <= y) PROVE FALSE
    OBVIOUS
  <2>1. x \in Nat /\ y \in Nat
    BY <1>1
  <2>2. y < x
    BY <2>1
  <2>3. QED
    BY <1>3, <1>4, <2>1, <2>2
<1>6. PICK n \in S : x = b - n
  BY DEF T
<1>7. \A o \in S : b - o \in T
  BY DEF T
<1>8. QED
  BY <1>5, <1>6, <1>7

\* subnetByKey holds the last of the subnets with one key, if there are any.
LEMMA NewestIsGreatest ==
    ASSUME SubnetsBounded, NEW k
    PROVE  /\ Newest(k) # Nil =>
                 /\ Newest(k) \in LiveSubnets
                 /\ subnets[Newest(k)].site = k[1] /\ subnets[Newest(k)].cidr = k[2]
                 /\ \A o \in LiveSubnets :
                       subnets[o].site = k[1] /\ subnets[o].cidr = k[2] => o <= Newest(k)
           /\ Newest(k) = Nil =>
                 \A o \in LiveSubnets : ~(subnets[o].site = k[1] /\ subnets[o].cidr = k[2])
<1> DEFINE same == {n \in LiveSubnets : subnets[n].site = k[1] /\ subnets[n].cidr = k[2]}
<1>1. CASE same = {}
  <2>1. Newest(k) = Nil
    BY <1>1 DEF Newest
  <2>2. QED
    BY <1>1, <2>1
<1>2. CASE same # {}
  <2>1. same \in SUBSET Nat
    BY ImportConstants DEF LiveSubnets
  <2>2. PICK b \in Nat : \A n \in same : n <= b
    BY DEF SubnetsBounded
  <2> HIDE DEF same
  <2>3. \E n \in same : \A o \in same : o <= n
    BY <1>2, <2>1, <2>2, GreatestOfBounded
  <2>4. Newest(k) = CHOOSE n \in same : \A o \in same : o <= n
    BY <1>2, Zenon DEF Newest, same
  <2>5. Newest(k) \in same /\ \A o \in same : o <= Newest(k)
    BY <2>3, <2>4
  <2>6. \A n \in same : n \in LiveSubnets /\ subnets[n].site = k[1] /\ subnets[n].cidr = k[2]
    BY DEF same
  <2>7. \A n \in LiveSubnets : subnets[n].site = k[1] /\ subnets[n].cidr = k[2] => n \in same
    BY DEF same
  <2>8. Newest(k) # Nil
    BY <2>5, <2>6, RowsAreNotMarks DEF LiveSubnets
  <2>9. QED
    BY <2>5, <2>6, <2>7, <2>8
<1>3. QED
  BY <1>1, <1>2

LEMMA NewestTypes ==
    ASSUME SubnetsBounded, NEW k
    PROVE  Newest(k) \in SubnetIds \cup {Nil}
  BY NewestIsGreatest DEF LiveSubnets

LEMMA BoundKept == TablesInv /\ SubnetsBounded /\ [Statement]_tables => SubnetsBounded'
<1> SUFFICES ASSUME TablesInv, SubnetsBounded, [Statement]_tables PROVE SubnetsBounded'
  OBVIOUS
<1>1. PICK b \in Nat : \A n \in LiveSubnets : n <= b
  BY DEF SubnetsBounded
<1>2. TablesTypeOK /\ TablesTypeOK'
  BY TablesInvStep DEF TablesInv
<1>3. ASSUME NEW n \in SubnetIds, \A o \in SubnetIds \ {n} : subnets'[o] = subnets[o]
      PROVE  SubnetsBounded'
  <2>1. n \in Nat
    BY ImportConstants
  <2>2. LiveSubnets' \subseteq LiveSubnets \cup {n}
    BY <1>3 DEF LiveSubnets
  <2>3. CASE n <= b
    BY <1>1, <2>2, <2>3 DEF SubnetsBounded
  <2>4. CASE b <= n
    <3>1. LiveSubnets \subseteq Nat
      BY ImportConstants DEF LiveSubnets
    <3>2. \A o \in LiveSubnets' : o <= n
      BY <1>1, <2>1, <2>2, <2>4, <3>1
    <3>3. QED
      BY <2>1, <3>2 DEF SubnetsBounded
  <2>5. QED
    BY <2>1, <2>3, <2>4
<1>4. CASE LiveSubnets' \subseteq LiveSubnets
  BY <1>1, <1>4 DEF SubnetsBounded
<1>5. CASE \E s \in SiteIds : RemoveSite(s)
  <2>1. PICK s \in SiteIds : RemoveSite(s)
    BY <1>5
  <2>2. ASSUME NEW n \in SubnetIds, n \notin LiveSubnets
        PROVE  subnets'[n] = subnets[n]
    BY <2>1, <2>2 DEF RemoveSite
  <2>3. QED
    BY <1>4, <2>2 DEF LiveSubnets
<1>6. CASE UNCHANGED subnets
  BY <1>4, <1>6 DEF LiveSubnets
<1>7. ASSUME NEW n \in SubnetIds,
             \/ \E cidr \in Cidrs, site \in SiteIds :
                   InsertSubnet(n, cidr, site) \/ RewriteSubnet(n, cidr, site)
             \/ \E site \in SiteIds : MoveSubnet(n, site)
             \/ RemoveSubnet(n)
      PROVE  SubnetsBounded'
  BY <1>2, <1>3, <1>7
     DEF InsertSubnet, RewriteSubnet, MoveSubnet, RemoveSubnet, TablesTypeOK
<1>8. QED
  BY <1>5, <1>6, <1>7
     DEF Statement, tables, InsertSite, RenameSite, InsertIp, RenameIp, RemoveIp
-----------------------------------------------------------------------------
(* The types of the locals: how the steps change them.                     *)

LEMMA CountsTypes ==
    ASSUME LocalsTypeOK, NEW m \in Importers,
           NEW outcome \in {"created", "updated", "failed"}, Counts(m, outcome)
    PROVE  result' \in [Importers -> [created : Nat, updated : Nat, failed : Nat]]
<1>1. result' = [result EXCEPT ![m] = [result[m] EXCEPT ![outcome] = @ + 1]]
  BY DEF Counts
<1>2. result[m] \in [created : Nat, updated : Nat, failed : Nat]
  BY DEF LocalsTypeOK
<1>3. [result[m] EXCEPT ![outcome] = @ + 1] \in [created : Nat, updated : Nat, failed : Nat]
  BY <1>2
<1>4. QED
  BY <1>1, <1>3 DEF LocalsTypeOK

LEMMA RowEndsTypes ==
    ASSUME LocalsTypeOK, NEW m \in Importers, RowEnds(m), rowNumber[m] <= Len(file[m])
    PROVE  /\ pc' \in [Importers -> Labels]
           /\ file' = file
           /\ rowNumber' \in [Importers -> Nat \ {0}]
           /\ \A q \in Importers : rowNumber'[q] <= Len(file'[q]) + 1
           /\ listed' \in [Importers -> (SUBSET Entry) \cup {Nil}]
           /\ pc'[m] = "row" /\ rowNumber'[m] = rowNumber[m] + 1 /\ listed'[m] = Nil
<1> USE DEF LocalsTypeOK, RowEnds, Goto, Labels
<1>1. pc' \in [Importers -> Labels] /\ pc'[m] = "row" /\ file' = file
  OBVIOUS
<1>2. rowNumber' \in [Importers -> Nat \ {0}] /\ rowNumber'[m] = rowNumber[m] + 1
  OBVIOUS
<1>3. \A q \in Importers \ {m} : rowNumber'[q] = rowNumber[q]
  OBVIOUS
<1>4. file[m] \in Seq(Row)
  BY ImportConstants
<1>5. \A q \in Importers : rowNumber'[q] <= Len(file'[q]) + 1
  BY <1>1, <1>2, <1>3, <1>4
<1>6. listed' \in [Importers -> (SUBSET Entry) \cup {Nil}] /\ listed'[m] = Nil
  OBVIOUS
<1>7. QED
  BY <1>1, <1>2, <1>5, <1>6

LEMMA EndTypes ==
    ASSUME LocalsTypeOK, NEW m \in Importers, End(m), NEW f \in Files \cup {<<>>},
           file' = file \/ file' = [file EXCEPT ![m] = f]
    PROVE  /\ pc' \in [Importers -> Labels]
           /\ file' \in [Importers -> Files \cup {<<>>}]
           /\ rowNumber' \in [Importers -> Nat \ {0}]
           /\ \A q \in Importers : rowNumber'[q] <= Len(file'[q]) + 1
           /\ siteByName' \in [Importers -> [SiteNames -> SiteIds \cup {Nil}]]
           /\ subnetByKey' \in [Importers -> [Keys -> SubnetIds \cup {Nil}]]
           /\ ipsBySubnet' \in [Importers -> [SubnetIds -> (SUBSET Entry) \cup {Nil}]]
           /\ listed' \in [Importers -> (SUBSET Entry) \cup {Nil}]
           /\ pc'[m] = "idle" /\ rowNumber'[m] = 1 /\ listed'[m] = Nil
<1> USE DEF LocalsTypeOK, End, Goto, Labels
<1>1. pc' \in [Importers -> Labels] /\ pc'[m] = "idle"
  OBVIOUS
<1>2. file' \in [Importers -> Files \cup {<<>>}]
  OBVIOUS
<1>3. rowNumber' \in [Importers -> Nat \ {0}] /\ rowNumber'[m] = 1
  OBVIOUS
<1>4. \A q \in Importers \ {m} : rowNumber'[q] = rowNumber[q] /\ file'[q] = file[q]
  OBVIOUS
<1>5. file'[m] \in Seq(Row)
  <2>1. file'[m] \in Files \cup {<<>>}
    BY <1>2
  <2>2. <<>> \in Seq(Row) /\ Files \subseteq Seq(Row)
    BY ImportConstants
  <2>3. QED
    BY <2>1, <2>2
<1>6. \A q \in Importers : rowNumber'[q] <= Len(file'[q]) + 1
  <2>1. rowNumber'[m] <= Len(file'[m]) + 1
    <3>1. PICK f1 \in Seq(Row), n \in Nat : f1 = file'[m] /\ n = rowNumber'[m]
      BY <1>3, <1>5
    <3>2. n = 1 /\ Len(f1) \in Nat
      BY <1>3, <3>1
    <3>3. n <= Len(f1) + 1
      BY <3>2
    <3>4. QED
      BY <3>1, <3>3
  <2>2. \A q \in Importers : rowNumber[q] <= Len(file[q]) + 1
    OBVIOUS
  <2>3. QED
    BY <1>4, <2>1, <2>2
<1>7. NoSites \in [SiteNames -> SiteIds \cup {Nil}] /\ NoSubnets \in [Keys -> SubnetIds \cup {Nil}]
  BY DEF NoSites, NoSubnets
<1>8. NoIps \in [SubnetIds -> (SUBSET Entry) \cup {Nil}]
  BY DEF NoIps
<1>9. /\ siteByName' \in [Importers -> [SiteNames -> SiteIds \cup {Nil}]]
      /\ subnetByKey' \in [Importers -> [Keys -> SubnetIds \cup {Nil}]]
  BY <1>7
<1>10. /\ ipsBySubnet' \in [Importers -> [SubnetIds -> (SUBSET Entry) \cup {Nil}]]
       /\ listed' \in [Importers -> (SUBSET Entry) \cup {Nil}] /\ listed'[m] = Nil
  BY <1>8
<1>11. QED
  BY <1>1, <1>2, <1>3, <1>6, <1>9, <1>10

LEMMA KeepTypes ==
    ASSUME LocalsTypeOK, NEW m \in Importers, NEW entries \in (SUBSET Entry) \cup {Nil},
           Keep(m, entries), SubnetOf(m) \in SubnetIds
    PROVE  /\ ipsBySubnet' \in [Importers -> [SubnetIds -> (SUBSET Entry) \cup {Nil}]]
           /\ ipsBySubnet'[m] = [ipsBySubnet[m] EXCEPT ![SubnetOf(m)] = entries]
           /\ siteByName' = siteByName /\ subnetByKey' = subnetByKey
<1>1. ipsBySubnet' = [ipsBySubnet EXCEPT ![m] = [ipsBySubnet[m] EXCEPT ![SubnetOf(m)] = entries]]
  BY DEF Keep
<1>2. [ipsBySubnet[m] EXCEPT ![SubnetOf(m)] = entries] \in [SubnetIds -> (SUBSET Entry) \cup {Nil}]
  BY DEF LocalsTypeOK
<1>3. QED
  BY <1>1, <1>2 DEF LocalsTypeOK, Keep

LEMMA ForgetTypes ==
    ASSUME LocalsTypeOK, NEW m \in Importers, Forget(m), KeyOf(m) \in Keys,
           rowNumber[m] <= Len(file[m])
    PROVE  subnetByKey' \in [Importers -> [Keys -> SubnetIds \cup {Nil}]]
<1>1. subnetByKey' = [subnetByKey EXCEPT ![m] = [subnetByKey[m] EXCEPT ![KeyOf(m)] = Nil]]
  BY DEF Forget
<1>2. [subnetByKey[m] EXCEPT ![KeyOf(m)] = Nil] \in [Keys -> SubnetIds \cup {Nil}]
  BY DEF LocalsTypeOK
<1>3. QED
  BY <1>1, <1>2 DEF LocalsTypeOK
-----------------------------------------------------------------------------
(* The steps of an import.                                                 *)

\* Nothing that RowInv speaks of has changed for q.
SameImport(q) ==
    /\ pc'[q] = pc[q] /\ file'[q] = file[q] /\ rowNumber'[q] = rowNumber[q]
    /\ siteByName'[q] = siteByName[q] /\ subnetByKey'[q] = subnetByKey[q]
    /\ ipsBySubnet'[q] = ipsBySubnet[q] /\ listed'[q] = listed[q]

LEMMA SameRowInv ==
    ASSUME NEW q \in Importers, RowInv(q), SameImport(q)
    PROVE  RowInv(q)'
<1>1. /\ Current(q)' = Current(q) /\ SiteOf(q)' = SiteOf(q) /\ SubnetOf(q)' = SubnetOf(q)
      /\ IpsOf(q)' = IpsOf(q) /\ Existing(q)' = Existing(q) /\ TheExisting(q)' = TheExisting(q)
  BY Zenon DEF SameImport, Current, SiteOf, KeyOf, SubnetOf, IpsOf, Existing, TheExisting
<1>2. /\ pc'[q] = pc[q] /\ rowNumber'[q] = rowNumber[q] /\ file'[q] = file[q]
      /\ listed'[q] = listed[q] /\ Working(q)' = Working(q) /\ AtAddress(q)' = AtAddress(q)
  BY DEF SameImport, Working, AtAddress
<1>3. QED
  BY <1>1, <1>2 DEF RowInv, Accepted

\* What a step of m leaves for the proof that BaseInv holds after it.
StepResult(m) ==
    /\ UNCHANGED tables \/ Statement
    /\ LocalsTypeOK' /\ RowInv(m)'
    /\ \A q \in Importers \ {m} : SameImport(q)

LEMMA FailedRow ==
    ASSUME LocalsTypeOK, NEW m \in Importers, RowFails(m), rowNumber[m] <= Len(file[m]),
           disturbed' \subseteq Importers, UNCHANGED tables
    PROVE  StepResult(m)
<1>1. RowEnds(m) /\ Counts(m, "failed") /\ UNCHANGED caches
  BY DEF RowFails
<1>2. LocalsTypeOK'
  BY <1>1, RowEndsTypes, CountsTypes DEF LocalsTypeOK, caches
<1>3. RowInv(m)'
  BY <1>1, RowEndsTypes DEF RowInv, Working, AtAddress
<1>4. ASSUME NEW q \in Importers \ {m}
      PROVE  SameImport(q)
  BY <1>1 DEF SameImport, RowEnds, Goto, caches, LocalsTypeOK
<1>5. QED
  BY <1>2, <1>3, <1>4 DEF StepResult

\* The step moves on, and the locals stay.
LEMMA Moved ==
    ASSUME LocalsTypeOK, NEW m \in Importers, NEW label \in Labels, Goto(m, label),
           UNCHANGED <<locals, disturbed, tables>>
    PROVE  /\ LocalsTypeOK' /\ pc'[m] = label
           /\ UNCHANGED <<file, rowNumber, siteByName, subnetByKey, ipsBySubnet, listed>>
           /\ Current(m)' = Current(m) /\ SiteOf(m)' = SiteOf(m) /\ SubnetOf(m)' = SubnetOf(m)
           /\ IpsOf(m)' = IpsOf(m) /\ Existing(m)' = Existing(m)
           /\ TheExisting(m)' = TheExisting(m)
           /\ \A q \in Importers \ {m} : SameImport(q)
<1>1. UNCHANGED <<file, rowNumber, siteByName, subnetByKey, ipsBySubnet, listed, result, disturbed>>
  BY DEF locals, caches
<1>2. LocalsTypeOK' /\ pc'[m] = label
  BY <1>1 DEF LocalsTypeOK, Goto
<1>3. /\ Current(m)' = Current(m) /\ SiteOf(m)' = SiteOf(m) /\ SubnetOf(m)' = SubnetOf(m)
      /\ IpsOf(m)' = IpsOf(m) /\ Existing(m)' = Existing(m) /\ TheExisting(m)' = TheExisting(m)
  BY <1>1, Zenon DEF Current, SiteOf, KeyOf, SubnetOf, IpsOf, Existing, TheExisting
<1>4. ASSUME NEW q \in Importers \ {m}
      PROVE  SameImport(q)
  BY <1>1 DEF SameImport, Goto, LocalsTypeOK
<1>5. QED
  BY <1>1, <1>2, <1>3, <1>4

LEMMA MovedInv ==
    ASSUME BaseInv, NEW m \in Importers, NEW label \in Labels, Goto(m, label),
           UNCHANGED <<locals, disturbed, tables>>,
           \/ label = "row" /\ pc[m] = "read_back"
           \/ label = "update_ip" /\ pc[m] = "find_ip"
           \/ label = "insert_ip" /\ pc[m] = "find_subnet"
    PROVE  StepResult(m)
<1>1. /\ LocalsTypeOK' /\ pc'[m] = label
      /\ UNCHANGED <<file, rowNumber, siteByName, subnetByKey, ipsBySubnet, listed>>
      /\ Current(m)' = Current(m) /\ SiteOf(m)' = SiteOf(m) /\ SubnetOf(m)' = SubnetOf(m)
      /\ IpsOf(m)' = IpsOf(m) /\ Existing(m)' = Existing(m)
      /\ TheExisting(m)' = TheExisting(m)
      /\ \A q \in Importers \ {m} : SameImport(q)
  BY Moved DEF BaseInv
<1>2. RowInv(m)'
  <2>1. RowInv(m) /\ listed'[m] = listed[m] /\ rowNumber'[m] = rowNumber[m] /\ file'[m] = file[m]
    BY <1>1 DEF BaseInv
  <2>2. CASE label = "row" /\ pc[m] = "read_back"
    BY <1>1, <2>1, <2>2 DEF RowInv, Working, AtAddress
  <2>3. CASE label = "update_ip" /\ pc[m] = "find_ip"
    BY <1>1, <2>1, <2>3 DEF RowInv, Working, AtAddress, Accepted
  <2>4. CASE label = "insert_ip" /\ pc[m] = "find_subnet"
    BY <1>1, <2>1, <2>4 DEF RowInv, Working, AtAddress, Accepted
  <2>5. QED
    BY <2>2, <2>3, <2>4
<1>3. QED
  BY <1>1, <1>2 DEF StepResult

LEMMA EndStep ==
    ASSUME LocalsTypeOK, NEW m \in Importers, End(m), UNCHANGED tables,
           file' = file \/ file' = [file EXCEPT ![m] = <<>>],
           result' = result \/ result' = [result EXCEPT ![m] = NoResult],
           disturbed' \subseteq Importers
    PROVE  StepResult(m)
<1>1. result' \in [Importers -> [created : Nat, updated : Nat, failed : Nat]]
  <2>1. NoResult \in [created : Nat, updated : Nat, failed : Nat]
    BY DEF NoResult
  <2>2. QED
    BY <2>1 DEF LocalsTypeOK
<1>2. LocalsTypeOK' /\ RowInv(m)'
  BY <1>1, EndTypes DEF LocalsTypeOK, RowInv, Working, AtAddress
<1>3. ASSUME NEW q \in Importers \ {m}
      PROVE  SameImport(q)
  BY DEF SameImport, End, Goto, LocalsTypeOK
<1>4. QED
  BY <1>2, <1>3 DEF StepResult

LEMMA StartStep ==
    ASSUME BaseInv, NEW m \in Importers, Start(m)
    PROVE  StepResult(m)
<1> USE DEF BaseInv, LocalsTypeOK, Labels
<1>1. PICK f \in Files : file' = [file EXCEPT ![m] = f]
  BY DEF Start
<1>2. /\ pc[m] = "idle" /\ pc' = [pc EXCEPT ![m] = "sites"]
      /\ result' = [result EXCEPT ![m] = NoResult]
      /\ disturbed' = disturbed \ {m}
      /\ UNCHANGED <<tables, rowNumber, siteByName, subnetByKey, ipsBySubnet, listed>>
  BY DEF Start, Goto, caches
<1>3. rowNumber[m] = 1 /\ listed[m] = Nil
  BY <1>2 DEF RowInv, AtAddress
<1>4. result' \in [Importers -> [created : Nat, updated : Nat, failed : Nat]]
  <2>1. NoResult \in [created : Nat, updated : Nat, failed : Nat]
    BY DEF NoResult
  <2>2. QED
    BY <1>2, <2>1
<1>5. file' \in [Importers -> Files \cup {<<>>}] /\ pc' \in [Importers -> Labels] /\ file'[m] \in Seq(Row)
  BY <1>1, <1>2, ImportConstants
<1>6. \A q \in Importers : rowNumber'[q] <= Len(file'[q]) + 1
  BY <1>1, <1>2, <1>3, <1>5
<1>7. LocalsTypeOK'
  BY <1>2, <1>4, <1>5, <1>6
<1>8. RowInv(m)'
  BY <1>2, <1>3 DEF RowInv, Working, AtAddress
<1>9. ASSUME NEW q \in Importers \ {m}
      PROVE  SameImport(q)
  BY <1>1, <1>2 DEF SameImport
<1>10. QED
  BY <1>2, <1>7, <1>8, <1>9 DEF StepResult

LEMMA ListStep ==
    ASSUME BaseInv, NEW m \in Importers, ListSites(m) \/ ListSubnets(m)
    PROVE  StepResult(m)
<1> USE DEF BaseInv
<1>1. CASE ListSites(m)
  <2> DEFINE map == [name \in SiteNames |->
                       IF \E s \in LiveSites : sites[s] = name
                       THEN CHOOSE s \in LiveSites : sites[s] = name ELSE Nil]
  <2>1. /\ pc[m] = "sites" /\ pc' = [pc EXCEPT ![m] = "subnets"]
        /\ siteByName' = [siteByName EXCEPT ![m] = map]
        /\ UNCHANGED <<tables, disturbed, file, rowNumber, subnetByKey, ipsBySubnet, listed, result>>
    BY <1>1 DEF ListSites, Goto, ReadOnly
  <2>2. ASSUME NEW name \in SiteNames
        PROVE  map[name] \in SiteIds \cup {Nil}
    <3>1. CASE \E s \in LiveSites : sites[s] = name
      <4>1. (CHOOSE s \in LiveSites : sites[s] = name) \in LiveSites
        BY <3>1
      <4>2. QED
        BY <3>1, <4>1 DEF LiveSites
    <3>2. QED
      BY <3>1
  <2>3. map \in [SiteNames -> SiteIds \cup {Nil}]
    BY <2>2
  <2> HIDE DEF map
  <2>4. LocalsTypeOK'
    BY <2>1, <2>3 DEF LocalsTypeOK, Labels
  <2>5. RowInv(m)'
    BY <2>1 DEF RowInv, Working, AtAddress, LocalsTypeOK
  <2>6. ASSUME NEW q \in Importers \ {m}
        PROVE  SameImport(q)
    BY <2>1 DEF SameImport, LocalsTypeOK
  <2>7. QED
    BY <2>1, <2>4, <2>5, <2>6 DEF StepResult
<1>2. CASE ListSubnets(m)
  <2>1. /\ pc[m] = "subnets" /\ pc' = [pc EXCEPT ![m] = "row"]
        /\ subnetByKey' = [subnetByKey EXCEPT ![m] = [k \in Keys |-> Newest(k)]]
        /\ UNCHANGED <<tables, disturbed, file, rowNumber, siteByName, ipsBySubnet, listed, result>>
    BY <1>2 DEF ListSubnets, Goto, ReadOnly
  <2>2. [k \in Keys |-> Newest(k)] \in [Keys -> SubnetIds \cup {Nil}]
    BY NewestTypes
  <2>3. LocalsTypeOK'
    BY <2>1, <2>2 DEF LocalsTypeOK, Labels
  <2>4. RowInv(m)'
    BY <2>1 DEF RowInv, Working, AtAddress, LocalsTypeOK
  <2>5. ASSUME NEW q \in Importers \ {m}
        PROVE  SameImport(q)
    BY <2>1 DEF SameImport, LocalsTypeOK
  <2>6. QED
    BY <2>1, <2>3, <2>4, <2>5 DEF StepResult
<1>3. QED
  BY <1>1, <1>2

\* A row that has been dealt with: its list is kept, and the next row is taken.
LEMMA KeptRow ==
    ASSUME LocalsTypeOK, NEW m \in Importers, RowInv(m), SiteOf(m) # Nil, SubnetOf(m) # Nil,
           rowNumber[m] <= Len(file[m]),
           NEW entries \in (SUBSET Entry) \cup {Nil}, Keep(m, entries), RowEnds(m),
           result' = result \/ Counts(m, "updated") \/ Counts(m, "created"),
           disturbed' \subseteq Importers, UNCHANGED tables \/ Statement
    PROVE  StepResult(m)
<1>1. SubnetOf(m) \in SubnetIds
  BY CurrentTypes
<1>2. /\ ipsBySubnet' \in [Importers -> [SubnetIds -> (SUBSET Entry) \cup {Nil}]]
      /\ siteByName' = siteByName /\ subnetByKey' = subnetByKey
  BY <1>1, KeepTypes
<1>3. result' \in [Importers -> [created : Nat, updated : Nat, failed : Nat]]
  BY CountsTypes DEF LocalsTypeOK
<1>4. LocalsTypeOK'
  BY <1>2, <1>3, RowEndsTypes DEF LocalsTypeOK
<1>5. RowInv(m)'
  BY RowEndsTypes DEF RowInv, Working, AtAddress
<1>6. ASSUME NEW q \in Importers \ {m}
      PROVE  SameImport(q)
  <2>1. ipsBySubnet'[q] = ipsBySubnet[q]
    BY DEF Keep, LocalsTypeOK
  <2>2. /\ pc'[q] = pc[q] /\ rowNumber'[q] = rowNumber[q] /\ file'[q] = file[q]
        /\ listed'[q] = listed[q]
    BY DEF RowEnds, Goto, LocalsTypeOK
  <2>3. QED
    BY <1>2, <2>1, <2>2 DEF SameImport
<1>7. QED
  BY <1>4, <1>5, <1>6 DEF StepResult

LEMMA ReadRowStep ==
    ASSUME BaseInv, NEW m \in Importers, ReadRow(m)
    PROVE  StepResult(m)
<1> USE DEF BaseInv
<1>1. pc[m] = "row" /\ UNCHANGED <<tables, disturbed>> /\ disturbed \subseteq Importers
  BY DEF ReadRow, ReadOnly, LocalsTypeOK
<1>2. CASE End(m) /\ UNCHANGED <<file, result>>
  BY <1>1, <1>2, EndStep
<1>3. CASE rowNumber[m] <= Len(file[m]) /\ RowFails(m)
  BY <1>1, <1>3, FailedRow
<1>4. CASE /\ rowNumber[m] <= Len(file[m])
           /\ SiteOf(m) # Nil /\ SubnetOf(m) # Nil
           /\ Keep(m, IpsOf(m)) /\ RowEnds(m) /\ UNCHANGED result
  <2>1. IpsOf(m) \in (SUBSET Entry) \cup {Nil}
    BY <1>4, CurrentTypes
  <2>2. QED
    BY <1>1, <1>4, <2>1, KeptRow
<1>5. ASSUME rowNumber[m] <= Len(file[m]), rowNumber[m] <= MaxRows, Accepted(Current(m)),
             UNCHANGED locals,
             NEW label \in Labels, Goto(m, label),
             \/ SiteOf(m) = Nil /\ label = "create_site"
             \/ SiteOf(m) # Nil /\ SubnetOf(m) = Nil /\ label = "insert_subnet"
             \/ /\ SiteOf(m) # Nil /\ SubnetOf(m) # Nil
                /\ \/ IpsOf(m) = Nil /\ label = "list_ips"
                   \/ IpsOf(m) # Nil /\ Existing(m) = {} /\ label = "find_subnet"
                   \/ /\ IpsOf(m) # Nil /\ Existing(m) # {} /\ label = "find_ip"
                      /\ TheExisting(m).hostname # Current(m).hostname
      PROVE  StepResult(m)
  <2>1. /\ LocalsTypeOK' /\ pc'[m] = label
        /\ UNCHANGED <<file, rowNumber, siteByName, subnetByKey, ipsBySubnet, listed>>
        /\ Current(m)' = Current(m) /\ SiteOf(m)' = SiteOf(m) /\ SubnetOf(m)' = SubnetOf(m)
        /\ IpsOf(m)' = IpsOf(m) /\ Existing(m)' = Existing(m)
        /\ TheExisting(m)' = TheExisting(m)
        /\ \A q \in Importers \ {m} : SameImport(q)
    BY <1>1, <1>5, Moved
  <2>2. /\ rowNumber'[m] <= Len(file'[m]) /\ rowNumber'[m] <= MaxRows
        /\ Accepted(Current(m))' /\ listed'[m] = listed[m]
    BY <1>5, <2>1 DEF Accepted
  <2>3. listed[m] # Nil => SiteOf(m) # Nil /\ SubnetOf(m) # Nil /\ IpsOf(m) # Nil
    BY DEF RowInv, IpsOf
  <2>4. RowInv(m)'
    <3>1. CASE label \in {"create_site", "insert_subnet", "list_ips"}
      BY <1>5, <2>1, <2>2, <2>3, <3>1 DEF RowInv, Working, AtAddress
    <3>2. CASE label \in {"find_subnet", "find_ip"}
      BY <1>5, <2>1, <2>2, <2>3, <3>2 DEF RowInv, Working, AtAddress
    <3>3. QED
      BY <1>5, <3>1, <3>2
  <2>5. QED
    BY <1>1, <2>1, <2>4 DEF StepResult
<1>6. QED
  <2>1. /\ "create_site" \in Labels /\ "insert_subnet" \in Labels /\ "list_ips" \in Labels
        /\ "find_subnet" \in Labels /\ "find_ip" \in Labels
    BY DEF Labels
  <2>2. CASE /\ rowNumber[m] <= Len(file[m]) /\ rowNumber[m] <= MaxRows
             /\ Accepted(Current(m)) /\ UNCHANGED locals
             /\ \/ SiteOf(m) = Nil /\ Goto(m, "create_site")
                \/ SiteOf(m) # Nil /\ SubnetOf(m) = Nil /\ Goto(m, "insert_subnet")
                \/ /\ SiteOf(m) # Nil /\ SubnetOf(m) # Nil
                   /\ \/ IpsOf(m) = Nil /\ Goto(m, "list_ips")
                      \/ IpsOf(m) # Nil /\ Existing(m) = {} /\ Goto(m, "find_subnet")
                      \/ /\ IpsOf(m) # Nil /\ Existing(m) # {} /\ Goto(m, "find_ip")
                         /\ TheExisting(m).hostname # Current(m).hostname
    BY <1>5, <2>1, <2>2
  <2>3. QED
    BY <1>2, <1>3, <1>4, <2>2 DEF ReadRow

\* What holds while a row is being dealt with.
LEMMA WorkingFacts ==
    ASSUME LocalsTypeOK, NEW m \in Importers, RowInv(m), Working(m)
    PROVE  /\ rowNumber[m] <= Len(file[m]) /\ rowNumber[m] <= MaxRows /\ Accepted(Current(m))
           /\ Current(m) \in Row
           /\ Current(m).site \in SiteNames /\ Current(m).cidr \in Cidrs
           /\ Current(m).ip \in Addresses /\ Current(m).hostname \in Hostnames
           /\ pc[m] # "create_site" => SiteOf(m) \in SiteIds /\ SiteOf(m) # Nil /\ KeyOf(m) \in Keys
           /\ pc[m] \notin {"create_site", "insert_subnet"} =>
                 SubnetOf(m) \in SubnetIds /\ SubnetOf(m) # Nil
           /\ AtAddress(m) => IpsOf(m) \in SUBSET Entry
           /\ ~AtAddress(m) => listed[m] = Nil
<1>1. rowNumber[m] <= Len(file[m]) /\ rowNumber[m] <= MaxRows /\ Accepted(Current(m))
  BY DEF RowInv
<1>2. Current(m) \in Row
  BY <1>1, CurrentTypes
<1>3. pc[m] # "create_site" => SiteOf(m) \in SiteIds /\ SiteOf(m) # Nil /\ KeyOf(m) \in Keys
  BY <1>1, CurrentTypes DEF RowInv
<1>4. pc[m] \notin {"create_site", "insert_subnet"} => SubnetOf(m) \in SubnetIds /\ SubnetOf(m) # Nil
  BY <1>1, <1>3, CurrentTypes DEF RowInv, Working, AtAddress, LocalsTypeOK, Labels
<1>5. AtAddress(m) => IpsOf(m) \in SUBSET Entry
  BY <1>1, <1>3, <1>4, CurrentTypes DEF RowInv, AtAddress
<1>6. ~AtAddress(m) => listed[m] = Nil
  BY DEF RowInv, Working
<1>7. QED
  BY <1>1, <1>2, <1>3, <1>4, <1>5, <1>6 DEF Row

LEMMA CreateSiteStep ==
    ASSUME BaseInv, NEW m \in Importers, CreateSite(m)
    PROVE  StepResult(m)
<1> USE DEF BaseInv
<1>1. /\ pc[m] = "create_site" /\ listed[m] = Nil /\ disturbed \subseteq Importers
      /\ rowNumber[m] <= Len(file[m]) /\ Current(m).site \in SiteNames
  BY WorkingFacts DEF CreateSite, Working, AtAddress, LocalsTypeOK
<1>2. CASE RowFails(m) /\ ReadOnly
  BY <1>1, <1>2, FailedRow DEF ReadOnly
<1>3. CASE \E s \in SiteIds :
             /\ InsertSite(s, Current(m).site)
             /\ Writes(m)
             /\ siteByName' = [siteByName EXCEPT ![m][Current(m).site] = s]
             /\ Goto(m, "row")
             /\ UNCHANGED <<file, rowNumber, subnetByKey, ipsBySubnet, listed, result>>
  <2> DEFINE name == Current(m).site
  <2>1. PICK s \in SiteIds :
             /\ InsertSite(s, name)
             /\ Writes(m)
             /\ siteByName' = [siteByName EXCEPT ![m] = [siteByName[m] EXCEPT ![name] = s]]
             /\ Goto(m, "row")
             /\ UNCHANGED <<file, rowNumber, subnetByKey, ipsBySubnet, listed, result>>
    BY <1>3
  <2>2. name \in SiteNames
    BY <1>1
  <2> HIDE DEF name
  <2>3. [siteByName[m] EXCEPT ![name] = s] \in [SiteNames -> SiteIds \cup {Nil}]
    BY <2>1, <2>2 DEF LocalsTypeOK
  <2>4. siteByName' \in [Importers -> [SiteNames -> SiteIds \cup {Nil}]]
    BY <2>1, <2>3 DEF LocalsTypeOK
  <2>5. LocalsTypeOK'
    BY <1>1, <2>1, <2>4 DEF LocalsTypeOK, Writes, Goto, Labels
  <2>6. RowInv(m)'
    BY <1>1, <2>1 DEF RowInv, Working, AtAddress, Goto, LocalsTypeOK
  <2>7. ASSUME NEW q \in Importers \ {m}
        PROVE  SameImport(q)
    BY <2>1 DEF SameImport, Goto, LocalsTypeOK
  <2>8. Statement
    BY <2>1, <2>2 DEF Statement
  <2>9. QED
    BY <2>5, <2>6, <2>7, <2>8 DEF StepResult
<1>4. QED
  BY <1>2, <1>3 DEF CreateSite

LEMMA InsertTheSubnetStep ==
    ASSUME BaseInv, NEW m \in Importers, InsertTheSubnet(m)
    PROVE  StepResult(m)
<1> USE DEF BaseInv
<1>1. /\ pc[m] = "insert_subnet" /\ listed[m] = Nil /\ disturbed \subseteq Importers
      /\ rowNumber[m] <= Len(file[m]) /\ rowNumber[m] <= MaxRows /\ Accepted(Current(m))
      /\ Current(m).cidr \in Cidrs
      /\ SiteOf(m) \in SiteIds /\ SiteOf(m) # Nil /\ KeyOf(m) \in Keys
  BY WorkingFacts DEF InsertTheSubnet, Working, AtAddress, LocalsTypeOK
<1>2. CASE RowFails(m) /\ ReadOnly
  BY <1>1, <1>2, FailedRow DEF ReadOnly
<1>3. CASE \E n \in SubnetIds :
             /\ InsertSubnet(n, Current(m).cidr, SiteOf(m))
             /\ Writes(m)
             /\ Goto(m, "read_back")
             /\ subnetByKey' = [subnetByKey EXCEPT ![m][KeyOf(m)] = n]
             /\ UNCHANGED <<file, rowNumber, siteByName, ipsBySubnet, listed, result>>
  <2>1. PICK n \in SubnetIds :
             /\ InsertSubnet(n, Current(m).cidr, SiteOf(m))
             /\ Writes(m)
             /\ Goto(m, "read_back")
             /\ subnetByKey' = [subnetByKey EXCEPT ![m] = [subnetByKey[m] EXCEPT ![KeyOf(m)] = n]]
             /\ UNCHANGED <<file, rowNumber, siteByName, ipsBySubnet, listed, result>>
    BY <1>3
  <2>2. [subnetByKey[m] EXCEPT ![KeyOf(m)] = n] \in [Keys -> SubnetIds \cup {Nil}]
    BY <2>1 DEF LocalsTypeOK
  <2>3. subnetByKey' \in [Importers -> [Keys -> SubnetIds \cup {Nil}]]
    BY <2>1, <2>2 DEF LocalsTypeOK
  <2>4. LocalsTypeOK'
    BY <1>1, <2>1, <2>3 DEF LocalsTypeOK, Writes, Goto, Labels
  <2>5. /\ Current(m)' = Current(m) /\ SiteOf(m)' = SiteOf(m) /\ KeyOf(m)' = KeyOf(m)
    BY <2>1 DEF Current, SiteOf, KeyOf
  <2>6. subnetByKey'[m] = [subnetByKey[m] EXCEPT ![KeyOf(m)] = n]
    BY <2>1 DEF LocalsTypeOK
  <2>7. SubnetOf(m)' = n /\ n # Nil
    BY <1>1, <2>1, <2>5, <2>6, RowsAreNotMarks DEF SubnetOf, LocalsTypeOK
  <2>8. pc'[m] = "read_back"
    BY <2>1 DEF Goto, LocalsTypeOK
  <2>9. RowInv(m)'
    BY <1>1, <2>1, <2>5, <2>7, <2>8 DEF RowInv, Working, AtAddress, Accepted
  <2>10. ASSUME NEW q \in Importers \ {m}
         PROVE  SameImport(q)
    BY <2>1 DEF SameImport, Goto, LocalsTypeOK
  <2>11. Statement
    BY <1>1, <2>1 DEF Statement
  <2>12. QED
    BY <2>4, <2>9, <2>10, <2>11 DEF StepResult
<1>4. QED
  BY <1>2, <1>3 DEF InsertTheSubnet

LEMMA ForgetStep ==
    ASSUME BaseInv, NEW m \in Importers, pc[m] = "read_back", Forget(m),
           UNCHANGED tables, disturbed' \subseteq Importers
    PROVE  StepResult(m)
<1> USE DEF BaseInv
<1>1. rowNumber[m] <= Len(file[m]) /\ KeyOf(m) \in Keys
  BY WorkingFacts DEF Working, AtAddress
<1>2. subnetByKey' \in [Importers -> [Keys -> SubnetIds \cup {Nil}]]
  BY <1>1, ForgetTypes
<1>3. RowEnds(m) /\ Counts(m, "failed") /\ UNCHANGED <<siteByName, ipsBySubnet>>
  BY DEF Forget
<1>4. LocalsTypeOK'
  BY <1>1, <1>2, <1>3, RowEndsTypes, CountsTypes DEF LocalsTypeOK
<1>5. RowInv(m)'
  BY <1>1, <1>3, RowEndsTypes DEF RowInv, Working, AtAddress
<1>6. ASSUME NEW q \in Importers \ {m}
      PROVE  SameImport(q)
  <2>1. subnetByKey'[q] = subnetByKey[q]
    BY DEF Forget, LocalsTypeOK
  <2>2. QED
    BY <1>3, <2>1 DEF SameImport, RowEnds, Goto, LocalsTypeOK
<1>7. QED
  BY <1>4, <1>5, <1>6 DEF StepResult

LEMMA ReadBackStep ==
    ASSUME BaseInv, NEW m \in Importers, ReadBack(m)
    PROVE  StepResult(m)
<1>1. pc[m] = "read_back" /\ UNCHANGED <<tables, disturbed>> /\ disturbed \subseteq Importers
  BY DEF ReadBack, ReadOnly, BaseInv, LocalsTypeOK
<1>2. CASE Forget(m)
  BY <1>1, <1>2, ForgetStep
<1>3. CASE Goto(m, "row") /\ UNCHANGED locals
  <2>1. "row" \in Labels
    BY DEF Labels
  <2>2. QED
    BY <1>1, <1>3, <2>1, MovedInv
<1>4. QED
  BY <1>2, <1>3 DEF ReadBack

LEMMA ListIPsStep ==
    ASSUME BaseInv, NEW m \in Importers, ListIPs(m)
    PROVE  StepResult(m)
<1> USE DEF BaseInv
<1>1. /\ pc[m] = "list_ips" /\ UNCHANGED <<tables, disturbed>> /\ disturbed \subseteq Importers
      /\ rowNumber[m] <= Len(file[m]) /\ rowNumber[m] <= MaxRows /\ Accepted(Current(m))
      /\ SiteOf(m) # Nil /\ SubnetOf(m) # Nil
  BY WorkingFacts DEF ListIPs, ReadOnly, Working, AtAddress, LocalsTypeOK
<1>2. CASE RowFails(m)
  BY <1>1, <1>2, FailedRow
<1>3. CASE ~RowFails(m)
  <2> DEFINE entries == {[id |-> i, ip |-> ips[i].ip, hostname |-> ips[i].hostname] :
                            i \in {j \in LiveIps : ips[j].subnet = SubnetOf(m)}}
  <2>1. /\ listed' = [listed EXCEPT ![m] = entries]
        /\ Goto(m, "row")
        /\ UNCHANGED <<file, rowNumber, siteByName, subnetByKey, ipsBySubnet, result>>
    BY <1>3 DEF ListIPs, caches
  <2>2. entries \subseteq Entry
    <3>1. \A i \in LiveIps : i \in IpIds /\ ips[i] \in IpRow
      BY LiveRows DEF TablesInv, LiveIps
    <3>2. QED
      BY <3>1 DEF Entry, IpRow
  <2> HIDE DEF entries
  <2>3. listed' \in [Importers -> (SUBSET Entry) \cup {Nil}]
    BY <2>1, <2>2 DEF LocalsTypeOK
  <2>4. LocalsTypeOK'
    BY <1>1, <2>1, <2>3 DEF LocalsTypeOK, Goto, Labels
  <2>5. /\ Current(m)' = Current(m) /\ SiteOf(m)' = SiteOf(m) /\ SubnetOf(m)' = SubnetOf(m)
    BY <2>1 DEF Current, SiteOf, KeyOf, SubnetOf
  <2>6. pc'[m] = "row"
    BY <2>1 DEF Goto, LocalsTypeOK
  <2>7. RowInv(m)'
    BY <1>1, <2>1, <2>5, <2>6 DEF RowInv, Working, AtAddress, Accepted
  <2>8. ASSUME NEW q \in Importers \ {m}
        PROVE  SameImport(q)
    BY <2>1 DEF SameImport, Goto, LocalsTypeOK
  <2>9. QED
    BY <1>1, <2>4, <2>7, <2>8 DEF StepResult
<1>4. QED
  BY <1>2, <1>3

LEMMA FindStep ==
    ASSUME BaseInv, NEW m \in Importers, FindIp(m) \/ FindSubnet(m)
    PROVE  StepResult(m)
<1> USE DEF BaseInv
<1>1. /\ pc[m] \in {"find_ip", "find_subnet"}
      /\ UNCHANGED <<tables, disturbed>> /\ disturbed \subseteq Importers
      /\ rowNumber[m] <= Len(file[m])
  BY WorkingFacts DEF FindIp, FindSubnet, ReadOnly, Working, AtAddress, LocalsTypeOK
<1>2. CASE RowFails(m)
  BY <1>1, <1>2, FailedRow
<1>3. CASE ~RowFails(m)
  <2>1. \/ pc[m] = "find_ip" /\ Goto(m, "update_ip") /\ UNCHANGED locals
        \/ pc[m] = "find_subnet" /\ Goto(m, "insert_ip") /\ UNCHANGED locals
    BY <1>3 DEF FindIp, FindSubnet
  <2>2. "update_ip" \in Labels /\ "insert_ip" \in Labels
    BY DEF Labels
  <2>3. QED
    BY <1>1, <2>1, <2>2, MovedInv
<1>4. QED
  BY <1>2, <1>3

LEMMA UpdateIpStep ==
    ASSUME BaseInv, NEW m \in Importers, UpdateIp(m)
    PROVE  StepResult(m)
<1> USE DEF BaseInv
<1> DEFINE e == TheExisting(m)
           updated == [e EXCEPT !.hostname = Current(m).hostname]
<1>1. /\ pc[m] = "update_ip" /\ disturbed \subseteq Importers
      /\ rowNumber[m] <= Len(file[m]) /\ Current(m).hostname \in Hostnames
      /\ SiteOf(m) # Nil /\ SubnetOf(m) # Nil /\ IpsOf(m) \in SUBSET Entry
  BY WorkingFacts DEF UpdateIp, Working, AtAddress, LocalsTypeOK
<1>2. e \in Entry
  BY <1>1, ExistingTypes
<1>3. CASE RowFails(m) /\ ReadOnly
  BY <1>1, <1>3, FailedRow DEF ReadOnly
<1>4. CASE /\ RenameIp(e.id, Current(m).hostname)
           /\ Writes(m)
           /\ Keep(m, (IpsOf(m) \ {e}) \cup {updated})
           /\ RowEnds(m) /\ Counts(m, "updated")
  <2>1. e.id \in IpIds /\ updated \in Entry
    BY <1>1, <1>2 DEF Entry
  <2>2. Statement
    BY <1>1, <1>4, <2>1 DEF Statement
  <2>3. (IpsOf(m) \ {e}) \cup {updated} \in SUBSET Entry
    BY <1>1, <2>1
  <2>4. disturbed' \subseteq Importers
    BY <1>1, <1>4 DEF Writes
  <2> HIDE DEF e, updated
  <2>5. QED
    BY <1>1, <1>4, <2>2, <2>3, <2>4, KeptRow
<1>5. QED
  BY <1>3, <1>4 DEF UpdateIp

LEMMA InsertTheIpStep ==
    ASSUME BaseInv, NEW m \in Importers, InsertTheIp(m)
    PROVE  StepResult(m)
<1> USE DEF BaseInv
<1>1. /\ pc[m] = "insert_ip" /\ disturbed \subseteq Importers
      /\ rowNumber[m] <= Len(file[m])
      /\ Current(m).ip \in Addresses /\ Current(m).hostname \in Hostnames
      /\ SiteOf(m) # Nil /\ SubnetOf(m) # Nil /\ SubnetOf(m) \in SubnetIds
      /\ IpsOf(m) \in SUBSET Entry
  BY WorkingFacts DEF InsertTheIp, Working, AtAddress, LocalsTypeOK
<1>2. CASE RowFails(m) /\ ReadOnly
  BY <1>1, <1>2, FailedRow DEF ReadOnly
<1>3. ASSUME NEW i \in IpIds,
             InsertIp(i, Current(m).ip, Current(m).hostname, SubnetOf(m)),
             Writes(m),
             Keep(m, IpsOf(m) \cup {[id |-> i, ip |-> Current(m).ip,
                                     hostname |-> Current(m).hostname]}),
             RowEnds(m), Counts(m, "created")
      PROVE  StepResult(m)
  <2> DEFINE new == [id |-> i, ip |-> Current(m).ip, hostname |-> Current(m).hostname]
  <2>1. new \in Entry
    BY <1>1 DEF Entry
  <2>2. Statement
    BY <1>1, <1>3 DEF Statement
  <2>3. disturbed' \subseteq Importers
    BY <1>1, <1>3 DEF Writes
  <2>4. IpsOf(m) \cup {new} \in SUBSET Entry
    BY <1>1, <2>1
  <2>5. QED
    BY <1>1, <1>3, <2>2, <2>3, <2>4, KeptRow
<1>4. QED
  BY <1>2, <1>3 DEF InsertTheIp

LEMMA FailureStep ==
    ASSUME BaseInv, NEW m \in Importers, StatementFails(m) \/ ImportEnds(m)
    PROVE  StepResult(m)
<1> USE DEF BaseInv
<1>1. disturbed' \subseteq Importers /\ UNCHANGED tables
  BY DEF StatementFails, ImportEnds, LocalsTypeOK
<1>2. CASE StatementFails(m)
  <2>1. Working(m) /\ rowNumber[m] <= Len(file[m])
    BY <1>2, WorkingFacts DEF StatementFails, Working
  <2>2. CASE pc[m] = "read_back" /\ Forget(m)
    BY <1>1, <2>2, ForgetStep
  <2>3. CASE RowFails(m)
    BY <1>1, <2>1, <2>3, FailedRow
  <2>4. QED
    BY <1>2, <2>2, <2>3 DEF StatementFails
<1>3. CASE ImportEnds(m)
  BY <1>1, <1>3, EndStep DEF ImportEnds
<1>4. QED
  BY <1>2, <1>3

LEMMA StepDoes ==
    ASSUME BaseInv, NEW m \in Importers, Step(m)
    PROVE  StepResult(m)
  BY StartStep, ListStep, ReadRowStep, CreateSiteStep, InsertTheSubnetStep, ReadBackStep,
     ListIPsStep, FindStep, UpdateIpStep, InsertTheIpStep, FailureStep DEF Step

LEMMA BaseStep == BaseInv /\ [Next]_vars => BaseInv' /\ [Statement]_tables
<1> SUFFICES ASSUME BaseInv, [Next]_vars PROVE BaseInv' /\ [Statement]_tables
  OBVIOUS
<1> USE DEF BaseInv
<1>1. ASSUME [Statement]_tables, LocalsTypeOK', \A m \in Importers : RowInv(m)'
      PROVE  BaseInv' /\ [Statement]_tables
  BY <1>1, TablesInvStep, BoundKept
<1>2. ASSUME NEW m \in Importers, Step(m)
      PROVE  BaseInv' /\ [Statement]_tables
  <2>1. StepResult(m)
    BY <1>2, StepDoes
  <2>2. ASSUME NEW q \in Importers
        PROVE  RowInv(q)'
    BY <2>1, SameRowInv DEF StepResult
  <2>3. QED
    BY <1>1, <2>1, <2>2 DEF StepResult
<1>3. CASE UNCHANGED <<pc, locals>> /\ [Statement]_tables /\ disturbed' \subseteq Importers
  <2>1. LocalsTypeOK'
    BY <1>3 DEF LocalsTypeOK, locals, caches
  <2>2. ASSUME NEW q \in Importers
        PROVE  RowInv(q)'
    BY <1>3, SameRowInv DEF SameImport, locals, caches
  <2>3. QED
    BY <1>1, <1>3, <2>1, <2>2
<1>4. CASE OtherRequest
  BY <1>3, <1>4 DEF OtherRequest
<1>5. CASE UNCHANGED vars
  BY <1>3, <1>5 DEF vars, LocalsTypeOK
<1>6. QED
  BY <1>2, <1>4, <1>5 DEF Next

LEMMA BaseAlways == Spec => []BaseInv
  BY BaseInit, BaseStep, PTL DEF Spec

\* Every variable keeps its type.
THEOREM TypeCorrect == Spec => []TypeOK
<1>1. BaseInv => TypeOK
  BY TypesSplit DEF BaseInv, TablesInv
<1>2. QED
  BY <1>1, BaseAlways, PTL

\* Each step of an import changes the tables by one statement at most, so that
\* whatever holds of all that use the tables holds of imports: foreign keys
\* and unique keys among it.
THEOREM ImportUsesStatements == Spec => TablesSpec
<1>1. Init => TablesInit
  BY DEF Init
<1>2. QED
  BY <1>1, BaseStep, BaseAlways, PTL DEF Spec, TablesSpec
-----------------------------------------------------------------------------
(* The maps: however old, they say of a row that is still there which      *)
(* address it holds, and in which subnet.                                  *)

EntriesTrue(rows, entries, n) ==
    \A e \in entries :
       /\ rows[e.id] # Unused
       /\ rows[e.id] # Deleted => rows[e.id].ip = e.ip /\ rows[e.id].subnet = n

MapsInv(m) ==
    /\ \A n \in SubnetIds : ipsBySubnet[m][n] # Nil => EntriesTrue(ips, ipsBySubnet[m][n], n)
    /\ listed[m] # Nil => EntriesTrue(ips, listed[m], SubnetOf(m))

MapInv == BaseInv /\ \A m \in Importers : MapsInv(m)

LEMMA EntriesStayTrue ==
    ASSUME TablesInv, [Statement]_tables, NEW entries \in SUBSET Entry, NEW n,
           EntriesTrue(ips, entries, n)
    PROVE  EntriesTrue(ips', entries, n)
<1> SUFFICES ASSUME NEW e \in entries
             PROVE  /\ ips'[e.id] # Unused
                    /\ ips'[e.id] # Deleted => ips'[e.id].ip = e.ip /\ ips'[e.id].subnet = n
  BY DEF EntriesTrue
<1>1. e.id \in IpIds /\ ips[e.id] # Unused
  BY DEF Entry, EntriesTrue
<1>2. CASE ips[e.id] = Deleted
  BY <1>1, <1>2, RowsKeepTheirAddress, RowsAreNotMarks
<1>3. CASE ips[e.id] # Deleted
  <2>1. e.id \in LiveIps
    BY <1>1, <1>3 DEF LiveIps, NoRow
  <2>2. \/ ips'[e.id] = Deleted
        \/ /\ e.id \in LiveIps'
           /\ ips'[e.id].ip = ips[e.id].ip
           /\ ips'[e.id].subnet = ips[e.id].subnet
    BY <1>1, <2>1, RowsKeepTheirAddress
  <2>3. QED
    BY <1>3, <2>2, RowsAreNotMarks DEF EntriesTrue, LiveIps, NoRow
<1>4. QED
  BY <1>2, <1>3

LEMMA IpsOfTrue ==
    ASSUME NEW m \in Importers, MapsInv(m), IpsOf(m) # Nil, SubnetOf(m) \in SubnetIds
    PROVE  EntriesTrue(ips, IpsOf(m), SubnetOf(m))
  BY DEF MapsInv, IpsOf

\* A step that puts nothing new in the maps.
LEMMA QuietMaps ==
    ASSUME BaseInv, [Statement]_tables, NEW m \in Importers, MapsInv(m),
           \/ ipsBySubnet'[m] = NoIps
           \/ ipsBySubnet'[m] = ipsBySubnet[m],
           \/ listed'[m] = Nil
           \/ listed'[m] = listed[m] /\ SubnetOf(m)' = SubnetOf(m)
    PROVE  MapsInv(m)'
<1> USE DEF BaseInv
<1>1. ASSUME NEW n \in SubnetIds, ipsBySubnet'[m][n] # Nil
      PROVE  EntriesTrue(ips', ipsBySubnet'[m][n], n)
  <2>1. ipsBySubnet'[m] = ipsBySubnet[m]
    BY <1>1 DEF NoIps
  <2>2. ipsBySubnet[m][n] \in SUBSET Entry /\ EntriesTrue(ips, ipsBySubnet[m][n], n)
    BY <1>1, <2>1 DEF LocalsTypeOK, MapsInv
  <2>3. QED
    BY <2>1, <2>2, EntriesStayTrue
<1>2. ASSUME listed'[m] # Nil
      PROVE  EntriesTrue(ips', listed'[m], SubnetOf(m)')
  <2>1. listed'[m] = listed[m] /\ SubnetOf(m)' = SubnetOf(m)
    BY <1>2
  <2>2. listed[m] \in SUBSET Entry /\ EntriesTrue(ips, listed[m], SubnetOf(m))
    BY <1>2, <2>1 DEF LocalsTypeOK, MapsInv
  <2>3. QED
    BY <2>1, <2>2, EntriesStayTrue
<1>3. QED
  BY <1>1, <1>2 DEF MapsInv

\* A row that has been dealt with puts its list in the map.
LEMMA KeptMaps ==
    ASSUME BaseInv, [Statement]_tables, NEW m \in Importers, MapsInv(m),
           NEW entries \in SUBSET Entry, Keep(m, entries), SubnetOf(m) \in SubnetIds,
           EntriesTrue(ips', entries, SubnetOf(m)), listed'[m] = Nil
    PROVE  MapsInv(m)'
<1> USE DEF BaseInv
<1>1. ipsBySubnet'[m] = [ipsBySubnet[m] EXCEPT ![SubnetOf(m)] = entries]
  BY KeepTypes
<1>2. ASSUME NEW n \in SubnetIds, ipsBySubnet'[m][n] # Nil
      PROVE  EntriesTrue(ips', ipsBySubnet'[m][n], n)
  <2>1. CASE n = SubnetOf(m)
    <3>1. ipsBySubnet'[m][n] = entries
      BY <1>1, <2>1 DEF LocalsTypeOK
    <3>2. QED
      BY <2>1, <3>1
  <2>2. CASE n # SubnetOf(m)
    <3>1. ipsBySubnet'[m][n] = ipsBySubnet[m][n]
      BY <1>1, <2>2 DEF LocalsTypeOK
    <3>2. ipsBySubnet[m][n] \in SUBSET Entry /\ EntriesTrue(ips, ipsBySubnet[m][n], n)
      BY <1>2, <3>1 DEF LocalsTypeOK, MapsInv
    <3>3. QED
      BY <3>1, <3>2, EntriesStayTrue
  <2>3. QED
    BY <2>1, <2>2
<1>3. QED
  BY <1>2 DEF MapsInv

\* What UpdateIp does when it does not fail, and that it concerns the row of
\* the entry.
LEMMA RenamedIp ==
    ASSUME MapInv, NEW m \in Importers, UpdateIp(m), ips' # ips
    PROVE  /\ TheExisting(m) \in Entry /\ TheExisting(m) \in IpsOf(m)
           /\ TheExisting(m).id \in LiveIps /\ TheExisting(m).id \in IpIds
           /\ TheExisting(m).ip = Current(m).ip
           /\ ips[TheExisting(m).id].ip = Current(m).ip
           /\ ips[TheExisting(m).id].subnet = SubnetOf(m)
           /\ RenameIp(TheExisting(m).id, Current(m).hostname)
<1> USE DEF MapInv, BaseInv
<1>1. RenameIp(TheExisting(m).id, Current(m).hostname)
  BY DEF UpdateIp, ReadOnly, tables
<1>2. pc[m] = "update_ip" /\ SubnetOf(m) \in SubnetIds /\ IpsOf(m) # Nil
  BY WorkingFacts DEF UpdateIp, Working, AtAddress, RowInv
<1>3. /\ TheExisting(m) \in Entry /\ TheExisting(m) \in IpsOf(m)
      /\ TheExisting(m).ip = Current(m).ip
  BY <1>2, ExistingTypes
<1>4. TheExisting(m).id \in LiveIps /\ TheExisting(m).id \in IpIds
  BY <1>1, <1>3 DEF RenameIp, Entry
<1>5. ips[TheExisting(m).id] # Deleted
  BY <1>4 DEF LiveIps, NoRow
<1>6. EntriesTrue(ips, IpsOf(m), SubnetOf(m))
  BY <1>2, IpsOfTrue
<1>7. QED
  BY <1>1, <1>3, <1>4, <1>5, <1>6 DEF EntriesTrue

LEMMA FailedMaps ==
    ASSUME BaseInv, [Statement]_tables, NEW m \in Importers, MapsInv(m),
           RowFails(m) \/ Forget(m) \/ End(m)
    PROVE  MapsInv(m)'
<1>1. listed'[m] = Nil
  BY DEF RowFails, Forget, RowEnds, End, BaseInv, LocalsTypeOK
<1>2. ipsBySubnet'[m] = NoIps \/ ipsBySubnet'[m] = ipsBySubnet[m]
  BY DEF RowFails, Forget, End, caches, BaseInv, LocalsTypeOK
<1>3. QED
  BY <1>1, <1>2, QuietMaps

LEMMA ReadRowMaps ==
    ASSUME BaseInv, [Statement]_tables, NEW m \in Importers, MapsInv(m), ReadRow(m)
    PROVE  MapsInv(m)'
<1> USE DEF BaseInv
<1>1. CASE RowFails(m) \/ End(m)
  BY <1>1, FailedMaps
<1>2. CASE UNCHANGED locals
  <2>1. UNCHANGED <<ipsBySubnet, listed, file, rowNumber, siteByName, subnetByKey>>
    BY <1>2 DEF locals, caches
  <2>2. SubnetOf(m)' = SubnetOf(m)
    BY <2>1 DEF SubnetOf, KeyOf, SiteOf, Current
  <2>3. QED
    BY <2>1, <2>2, QuietMaps
<1>3. CASE /\ rowNumber[m] <= Len(file[m])
           /\ SiteOf(m) # Nil /\ SubnetOf(m) # Nil /\ IpsOf(m) # Nil
           /\ Keep(m, IpsOf(m)) /\ RowEnds(m)
           /\ UNCHANGED tables
  <2>1. IpsOf(m) \in SUBSET Entry /\ SubnetOf(m) \in SubnetIds
    BY <1>3, CurrentTypes
  <2>2. EntriesTrue(ips', IpsOf(m), SubnetOf(m))
    BY <1>3, <2>1, IpsOfTrue, EntriesStayTrue
  <2>3. listed'[m] = Nil
    BY <1>3 DEF RowEnds, LocalsTypeOK
  <2>4. QED
    BY <1>3, <2>1, <2>2, <2>3, KeptMaps
<1>4. QED
  BY <1>1, <1>2, <1>3 DEF ReadRow, ReadOnly

LEMMA ListIPsMaps ==
    ASSUME BaseInv, [Statement]_tables, NEW m \in Importers, MapsInv(m), ListIPs(m), ~RowFails(m)
    PROVE  MapsInv(m)'
<1> USE DEF BaseInv
<1> DEFINE entries == {[id |-> i, ip |-> ips[i].ip, hostname |-> ips[i].hostname] :
                          i \in {j \in LiveIps : ips[j].subnet = SubnetOf(m)}}
<1>1. /\ listed' = [listed EXCEPT ![m] = entries]
      /\ UNCHANGED <<file, rowNumber, siteByName, subnetByKey, ipsBySubnet, ips>>
  BY DEF ListIPs, ReadOnly, caches, tables
<1>2. SubnetOf(m)' = SubnetOf(m) /\ listed'[m] = entries
  BY <1>1 DEF SubnetOf, KeyOf, SiteOf, Current, LocalsTypeOK
<1>3. EntriesTrue(ips, entries, SubnetOf(m))
  BY DEF EntriesTrue, LiveIps, NoRow
<1> HIDE DEF entries
<1>4. QED
  BY <1>1, <1>2, <1>3 DEF MapsInv

LEMMA UpdateIpMaps ==
    ASSUME MapInv, [Statement]_tables, NEW m \in Importers, UpdateIp(m), ~RowFails(m)
    PROVE  MapsInv(m)'
<1> USE DEF MapInv, BaseInv
<1> DEFINE e == TheExisting(m)
           updated == [e EXCEPT !.hostname = Current(m).hostname]
           entries == (IpsOf(m) \ {e}) \cup {updated}
<1>1. pc[m] = "update_ip" /\ Keep(m, entries) /\ RowEnds(m)
  BY DEF UpdateIp
<1>2. /\ SubnetOf(m) \in SubnetIds /\ IpsOf(m) # Nil /\ IpsOf(m) \in SUBSET Entry
      /\ Current(m).hostname \in Hostnames
  BY <1>1, WorkingFacts DEF Working, AtAddress, RowInv
<1>3. e \in Entry /\ e \in IpsOf(m)
  BY <1>1, ExistingTypes
<1>4. updated \in Entry /\ updated.id = e.id /\ updated.ip = e.ip
  BY <1>2, <1>3 DEF Entry
<1>5. EntriesTrue(ips', IpsOf(m), SubnetOf(m))
  BY <1>2, IpsOfTrue, EntriesStayTrue
<1> HIDE DEF e, updated
<1>6. EntriesTrue(ips', entries, SubnetOf(m))
  BY <1>3, <1>4, <1>5 DEF EntriesTrue
<1>7. entries \in SUBSET Entry
  BY <1>2, <1>4
<1>8. listed'[m] = Nil
  BY <1>1 DEF RowEnds, LocalsTypeOK
<1> HIDE DEF entries
<1>9. QED
  BY <1>1, <1>2, <1>6, <1>7, <1>8, KeptMaps

LEMMA InsertTheIpMaps ==
    ASSUME MapInv, [Statement]_tables, NEW m \in Importers, InsertTheIp(m), ~RowFails(m)
    PROVE  MapsInv(m)'
<1> USE DEF MapInv, BaseInv
<1> DEFINE new(i) == [id |-> i, ip |-> Current(m).ip, hostname |-> Current(m).hostname]
<1>1. PICK i \in IpIds : /\ InsertIp(i, Current(m).ip, Current(m).hostname, SubnetOf(m))
                         /\ Keep(m, IpsOf(m) \cup {new(i)})
                         /\ RowEnds(m)
  BY DEF InsertTheIp
<1>2. /\ SubnetOf(m) \in SubnetIds /\ IpsOf(m) # Nil /\ IpsOf(m) \in SUBSET Entry
      /\ Current(m).ip \in Addresses /\ Current(m).hostname \in Hostnames
  BY WorkingFacts DEF InsertTheIp, Working, AtAddress, RowInv
<1>3. ips'[i] = [ip |-> Current(m).ip, hostname |-> Current(m).hostname, subnet |-> SubnetOf(m)]
  BY <1>1 DEF InsertIp, TablesInv, TablesTypeOK
<1>4. ips'[i] \in IpRow
  BY <1>2, <1>3 DEF IpRow
<1>5. /\ ips'[i] # Unused
      /\ ips'[i].ip = new(i).ip /\ ips'[i].subnet = SubnetOf(m) /\ new(i).id = i
  BY <1>3, <1>4, RowsAreNotMarks DEF NoRow
<1>6. EntriesTrue(ips', IpsOf(m), SubnetOf(m))
  BY <1>2, IpsOfTrue, EntriesStayTrue
<1>7. new(i) \in Entry
  BY <1>2 DEF Entry
<1> HIDE DEF new
<1>8. EntriesTrue(ips', IpsOf(m) \cup {new(i)}, SubnetOf(m))
  BY <1>5, <1>6 DEF EntriesTrue
<1>9. IpsOf(m) \cup {new(i)} \in SUBSET Entry
  BY <1>2, <1>7
<1>10. listed'[m] = Nil
  BY <1>1 DEF RowEnds, LocalsTypeOK
<1>11. QED
  BY <1>1, <1>2, <1>8, <1>9, <1>10, KeptMaps

LEMMA MapsStep ==
    ASSUME MapInv, [Statement]_tables, NEW m \in Importers, Step(m)
    PROVE  MapsInv(m)'
<1> USE DEF MapInv, BaseInv
<1>1. CASE RowFails(m) \/ Forget(m) \/ End(m)
  BY <1>1, FailedMaps
<1>2. CASE UNCHANGED locals
  <2>1. UNCHANGED <<ipsBySubnet, listed, file, rowNumber, siteByName, subnetByKey>>
    BY <1>2 DEF locals, caches
  <2>2. SubnetOf(m)' = SubnetOf(m)
    BY <2>1 DEF SubnetOf, KeyOf, SiteOf, Current
  <2>3. QED
    BY <2>1, <2>2, QuietMaps
<1>3. CASE Start(m) \/ ListSites(m) \/ ListSubnets(m)
  <2>1. listed[m] = Nil /\ listed' = listed /\ ipsBySubnet' = ipsBySubnet
    BY <1>3 DEF Start, ListSites, ListSubnets, caches, locals, RowInv, AtAddress
  <2>2. QED
    BY <2>1, QuietMaps
<1>4. CASE (CreateSite(m) \/ InsertTheSubnet(m)) /\ ~RowFails(m)
  <2>1. listed[m] = Nil
    BY <1>4, WorkingFacts DEF CreateSite, InsertTheSubnet, Working, AtAddress
  <2>2. listed' = listed /\ ipsBySubnet' = ipsBySubnet
    BY <1>4 DEF CreateSite, InsertTheSubnet
  <2>3. QED
    BY <2>1, <2>2, QuietMaps
<1>5. QED
  BY <1>1, <1>2, <1>3, <1>4, ReadRowMaps, ListIPsMaps, UpdateIpMaps, InsertTheIpMaps
     DEF Step, ReadBack, FindIp, FindSubnet, StatementFails, ImportEnds

LEMMA MapInvInit == Init => MapInv
<1> SUFFICES ASSUME Init PROVE MapInv
  OBVIOUS
<1>1. ASSUME NEW m \in Importers
      PROVE  ipsBySubnet[m] = NoIps /\ listed[m] = Nil
  BY DEF Init
<1>2. QED
  BY <1>1, BaseInit DEF MapInv, MapsInv, NoIps

LEMMA MapInvStep == MapInv /\ [Next]_vars => MapInv'
<1> SUFFICES ASSUME MapInv, [Next]_vars PROVE MapInv'
  OBVIOUS
<1>0. BaseInv /\ BaseInv' /\ [Statement]_tables
  BY BaseStep DEF MapInv
<1>1. ASSUME NEW q \in Importers, SameImport(q)
      PROVE  MapsInv(q)'
  <2>1. SubnetOf(q)' = SubnetOf(q)
    BY <1>1 DEF SameImport, SubnetOf, KeyOf, SiteOf, Current
  <2>2. QED
    BY <1>0, <1>1, <2>1, QuietMaps DEF SameImport, MapInv
<1>2. ASSUME NEW m \in Importers, Step(m)
      PROVE  MapInv'
  <2>1. MapsInv(m)'
    BY <1>0, <1>2, MapsStep
  <2>2. \A q \in Importers \ {m} : SameImport(q)
    BY <1>0, <1>2, StepDoes DEF StepResult
  <2>3. QED
    BY <1>0, <1>1, <2>1, <2>2 DEF MapInv
<1>3. CASE OtherRequest \/ UNCHANGED vars
  <2>1. \A q \in Importers : SameImport(q)
    BY <1>3 DEF OtherRequest, vars, SameImport, locals, caches
  <2>2. QED
    BY <1>0, <1>1, <2>1 DEF MapInv
<1>4. QED
  BY <1>2, <1>3 DEF Next

LEMMA MapInvAlways == Spec => []MapInv
  BY MapInvInit, MapInvStep, PTL DEF Spec

\* UpdateIPHostname goes by the id that the list in the map has: whatever has
\* been deleted, inserted and moved since, the row it changes holds the address
\* of the file's row, in the subnet that the import has taken for its own.
THEOREM UpdatesAreExact == Spec => UpdatesTheRowsAddress
<1> DEFINE Exact(m, i) ==
              pc[m] = "update_ip" /\ pc'[m] # pc[m] /\ ips'[i] # ips[i] =>
                 /\ i \in LiveIps
                 /\ ips[i].ip = Current(m).ip
                 /\ ips[i].subnet = SubnetOf(m)
<1>1. ASSUME MapInv, Next, NEW m \in Importers, NEW i \in IpIds
      PROVE  Exact(m, i)
  <2> SUFFICES ASSUME pc[m] = "update_ip", pc'[m] # pc[m], ips'[i] # ips[i]
               PROVE  i \in LiveIps /\ ips[i].ip = Current(m).ip /\ ips[i].subnet = SubnetOf(m)
    OBVIOUS
  <2>1. Step(m)
    BY <1>1, StepDoes DEF Next, OtherRequest, MapInv, StepResult, SameImport
  <2>2. UpdateIp(m)
    BY <2>1 DEF Step, Start, ListSites, ListSubnets, ReadRow, CreateSite, InsertTheSubnet,
                ReadBack, ListIPs, FindIp, FindSubnet, InsertTheIp, StatementFails, ImportEnds,
                tables
  <2>3. RenameIp(TheExisting(m).id, Current(m).hostname) /\ TheExisting(m).id \in IpIds
    BY <1>1, <2>2, RenamedIp
  <2>4. i = TheExisting(m).id
    BY <1>1, <2>3 DEF RenameIp, MapInv, BaseInv, TablesInv, TablesTypeOK
  <2>5. QED
    BY <1>1, <2>2, <2>4, RenamedIp
<1>2. MapInv /\ [Next]_vars => [\A m \in Importers, i \in IpIds : Exact(m, i)]_vars
  BY <1>1
<1>3. QED
  BY <1>2, MapInvAlways, PTL DEF Spec, UpdatesTheRowsAddress
-----------------------------------------------------------------------------
(* An import that nothing disturbs.                                        *)

\* siteByName: the sites there are, by name.
SitesKnown(m) ==
    \A name \in SiteNames :
       /\ siteByName[m][name] # Nil =>
             siteByName[m][name] \in LiveSites /\ sites[siteByName[m][name]] = name
       /\ siteByName[m][name] = Nil => \A s \in LiveSites : sites[s] # name

\* subnetByKey: of each key the subnet that the next import would take.
SubnetsKnown(m) == \A k \in Keys : subnetByKey[m][k] = Newest(k)

\* ListIPs: the addresses of a subnet.
ListOf(rows, n) ==
    {[id |-> i, ip |-> rows[i].ip, hostname |-> rows[i].hostname] :
        i \in {j \in IpIds : rows[j] \notin NoRow /\ rows[j].subnet = n}}

\* ipsBySubnet and the list of the row at hand: what ListIPs would answer now.
IpsKnown(m) ==
    /\ \A n \in SubnetIds : ipsBySubnet[m][n] # Nil => ipsBySubnet[m][n] = ListOf(ips, n)
    /\ listed[m] # Nil => listed[m] = ListOf(ips, SubnetOf(m))

\* Row j of the file counts among the rows up to the last.
Counted(f, j, last) ==
    /\ j <= MaxRows /\ Accepted(f[j])
    /\ \A l \in j + 1 .. last : l <= MaxRows => ~SameAddress(f[l], f[j])

Refused(f, last) == {k \in 1 .. last : k <= MaxRows /\ ~Accepted(f[k])}

\* The rows up to the last are in the tables, and those that count as failed
\* are not acceptable.
RowsDone(m, last) ==
    /\ \A j \in 1 .. last : Counted(file[m], j, last) => Held(file[m][j])
    /\ result[m].failed = Cardinality(Refused(file[m], last))

\* Before the first row there are no lists of addresses.
NoLists(m) == pc[m] \in {"idle", "sites", "subnets"} => ipsBySubnet[m] = NoIps

UndisturbedInv(m) ==
    /\ pc[m] \notin {"idle", "sites"} => SitesKnown(m)
    /\ pc[m] \notin {"idle", "sites", "subnets"} => SubnetsKnown(m) /\ IpsKnown(m)
    /\ RowsDone(m, IF pc[m] = "idle" THEN Len(file[m]) ELSE rowNumber[m] - 1)

ImportInv ==
    /\ MapInv
    /\ \A m \in Importers : NoLists(m)
    /\ \A m \in Importers \ disturbed : UndisturbedInv(m)

\* Refused grows by the rows that are not acceptable.
LEMMA RefusedRows ==
    ASSUME NEW f, NEW n \in Nat
    PROVE  /\ Cardinality(Refused(f, 0)) = 0
           /\ n + 1 <= MaxRows /\ ~Accepted(f[n + 1]) =>
                 Cardinality(Refused(f, n + 1)) = Cardinality(Refused(f, n)) + 1
           /\ ~(n + 1 <= MaxRows /\ ~Accepted(f[n + 1])) => Refused(f, n + 1) = Refused(f, n)
           /\ Cardinality(Refused(f, n)) \in Nat
<1>1. Refused(f, 0) = {}
  BY DEF Refused
<1>2. IsFiniteSet(Refused(f, n)) /\ Cardinality(Refused(f, n)) \in Nat
  <2>1. IsFiniteSet(1 .. n)
    BY FS_Interval
  <2>2. Refused(f, n) \subseteq 1 .. n
    BY DEF Refused
  <2>3. QED
    BY <2>1, <2>2, FS_Subset, FS_CardinalityType
<1>3. n + 1 \notin Refused(f, n)
  BY DEF Refused
<1>4. CASE n + 1 <= MaxRows /\ ~Accepted(f[n + 1])
  <2>1. Refused(f, n + 1) = Refused(f, n) \cup {n + 1}
    BY <1>4 DEF Refused
  <2>2. PICK S, x : S = Refused(f, n) /\ x = n + 1
    OBVIOUS
  <2>3. Cardinality(S \cup {x}) = Cardinality(S) + 1
    BY <1>2, <1>3, <2>2, FS_AddElement
  <2>4. Cardinality(Refused(f, n + 1)) = Cardinality(Refused(f, n)) + 1
    BY <2>1, <2>2, <2>3
  <2>5. Cardinality(Refused(f, 0)) = 0
    BY <1>1, FS_EmptySet
  <2>6. QED
    BY <1>2, <1>4, <2>4, <2>5
<1>5. CASE ~(n + 1 <= MaxRows /\ ~Accepted(f[n + 1]))
  <2>1. Refused(f, n + 1) = Refused(f, n)
    BY <1>5 DEF Refused
  <2>2. QED
    BY <1>1, <1>2, <1>5, <2>1, FS_EmptySet
<1>6. QED
  BY <1>4, <1>5

\* The subnet of a key is the same as long as the rows with the key are.
LEMMA NewestKept ==
    ASSUME NEW k,
           {n \in LiveSubnets' : subnets'[n].site = k[1] /\ subnets'[n].cidr = k[2]}
              = {n \in LiveSubnets : subnets[n].site = k[1] /\ subnets[n].cidr = k[2]}
    PROVE  Newest(k)' = Newest(k)
<1>1. PICK same : same = {n \in LiveSubnets : subnets[n].site = k[1] /\ subnets[n].cidr = k[2]}
  OBVIOUS
<1>2. Newest(k) = IF same = {} THEN Nil ELSE CHOOSE n \in same : \A o \in same : o <= n
  BY <1>1 DEF Newest
<1>3. Newest(k)' = IF same = {} THEN Nil ELSE CHOOSE n \in same : \A o \in same : o <= n
  <2>1. same = {n \in LiveSubnets' : subnets'[n].site = k[1] /\ subnets'[n].cidr = k[2]}
    BY <1>1
  <2>2. QED
    BY <2>1 DEF Newest
<1>4. QED
  BY <1>2, <1>3

LEMMA NewestUnchanged ==
    ASSUME UNCHANGED subnets, NEW k
    PROVE  Newest(k)' = Newest(k)
  BY NewestKept DEF LiveSubnets

\* The subnet that an import makes for a key without one is the key's.
LEMMA NewestInserted ==
    ASSUME TablesInv, SubnetsBounded, NEW n \in SubnetIds, NEW cidr \in Cidrs, NEW site \in SiteIds,
           InsertSubnet(n, cidr, site), Newest(<<site, cidr>>) = Nil
    PROVE  /\ Newest(<<site, cidr>>)' = n
           /\ \A k \in Keys : k # <<site, cidr>> => Newest(k)' = Newest(k)
<1>1. /\ subnets[n] = Unused /\ subnets' = [subnets EXCEPT ![n] = [cidr |-> cidr, site |-> site]]
      /\ subnets \in [SubnetIds -> SubnetRow \cup NoRow]
  BY DEF InsertSubnet, TablesInv, TablesTypeOK
<1>2. [cidr |-> cidr, site |-> site] \in SubnetRow
  BY DEF SubnetRow
<1>3. LiveSubnets' = LiveSubnets \cup {n} /\ n \notin LiveSubnets
  BY <1>1, <1>2, RowsAreNotMarks DEF LiveSubnets, NoRow
<1>4. subnets'[n].site = site /\ subnets'[n].cidr = cidr /\ \A o \in LiveSubnets : subnets'[o] = subnets[o]
  BY <1>1, <1>3 DEF LiveSubnets
<1>5. Newest(<<site, cidr>>)' = n
  <2> DEFINE same == {o \in LiveSubnets' : subnets'[o].site = site /\ subnets'[o].cidr = cidr}
  <2>1. \A o \in LiveSubnets : ~(subnets[o].site = site /\ subnets[o].cidr = cidr)
    BY NewestIsGreatest
  <2>2. same = {n}
    BY <1>3, <1>4, <2>1
  <2>3. Newest(<<site, cidr>>)' = IF same = {} THEN Nil ELSE CHOOSE o \in same : \A p \in same : p <= o
    BY DEF Newest
  <2> HIDE DEF same
  <2>4. n \in Nat
    BY ImportConstants
  <2>5. \E o \in same : \A p \in same : p <= o
    BY <2>2, <2>4
  <2>6. (CHOOSE o \in same : \A p \in same : p <= o) \in same
    BY <2>5
  <2>7. same # {} /\ (CHOOSE o \in same : \A p \in same : p <= o) = n
    BY <2>2, <2>6
  <2>8. QED
    BY <2>3, <2>7
<1>6. ASSUME NEW k \in Keys, k # <<site, cidr>>
      PROVE  Newest(k)' = Newest(k)
  <2>1. ~(k[1] = site /\ k[2] = cidr)
    BY <1>6 DEF Keys
  <2>2. {o \in LiveSubnets' : subnets'[o].site = k[1] /\ subnets'[o].cidr = k[2]}
           = {o \in LiveSubnets : subnets[o].site = k[1] /\ subnets[o].cidr = k[2]}
    BY <1>3, <1>4, <2>1
  <2>3. QED
    BY <2>2, NewestKept
<1>7. QED
  BY <1>5, <1>6
-----------------------------------------------------------------------------
(* What the maps of an undisturbed import say of the tables.               *)

\* An entry of the maps is what a statement will find.
LEMMA RowKnown ==
    ASSUME BaseInv, NEW m \in Importers, SitesKnown(m), SubnetsKnown(m),
           rowNumber[m] <= Len(file[m]), SiteOf(m) # Nil
    PROVE  /\ SiteOf(m) \in LiveSites /\ sites[SiteOf(m)] = Current(m).site
           /\ KeyOf(m) \in Keys /\ SubnetOf(m) = Newest(KeyOf(m))
           /\ KeyOf(m) = <<SiteOf(m), Current(m).cidr>>
           /\ SubnetOf(m) # Nil =>
                 /\ SubnetOf(m) \in LiveSubnets
                 /\ subnets[SubnetOf(m)].site = SiteOf(m)
                 /\ subnets[SubnetOf(m)].cidr = Current(m).cidr
<1>1. Current(m) \in Row /\ KeyOf(m) \in Keys
  BY CurrentTypes DEF BaseInv
<1>2. SiteOf(m) \in LiveSites /\ sites[SiteOf(m)] = Current(m).site
  BY <1>1 DEF SitesKnown, SiteOf, Row
<1>3. SubnetOf(m) = Newest(KeyOf(m)) /\ KeyOf(m) = <<SiteOf(m), Current(m).cidr>>
  BY <1>1 DEF SubnetsKnown, SubnetOf, KeyOf
<1>4. SubnetsBounded
  BY DEF BaseInv
<1>5. SubnetOf(m) # Nil =>
         /\ SubnetOf(m) \in LiveSubnets
         /\ subnets[SubnetOf(m)].site = SiteOf(m)
         /\ subnets[SubnetOf(m)].cidr = Current(m).cidr
  BY <1>3, <1>4, NewestIsGreatest
<1>6. QED
  BY <1>1, <1>2, <1>3, <1>5

LEMMA IpsOfKnown ==
    ASSUME BaseInv, NEW m \in Importers, IpsKnown(m),
           SubnetOf(m) \in SubnetIds, IpsOf(m) # Nil
    PROVE  IpsOf(m) = ListOf(ips, SubnetOf(m))
  BY DEF IpsOf, IpsKnown

\* ListIPs is exact.
LEMMA ListedRows ==
    ASSUME BaseInv, NEW n
    PROVE  /\ \A e \in ListOf(ips, n) :
                 /\ e.id \in LiveIps /\ ips[e.id].subnet = n
                 /\ ips[e.id].ip = e.ip /\ ips[e.id].hostname = e.hostname
                 /\ e = [id |-> e.id, ip |-> ips[e.id].ip, hostname |-> ips[e.id].hostname]
           /\ \A i \in LiveIps :
                 ips[i].subnet = n =>
                    [id |-> i, ip |-> ips[i].ip, hostname |-> ips[i].hostname] \in ListOf(ips, n)
  BY DEF ListOf, LiveIps

\* The site that has a name is the one in the map.
LEMMA SiteByName ==
    ASSUME BaseInv, NEW m \in Importers, SitesKnown(m), NEW name \in SiteNames,
           NEW s \in LiveSites, sites[s] = name
    PROVE  siteByName[m][name] = s /\ s # Nil
<1>1. siteByName[m][name] # Nil
  BY DEF SitesKnown
<1>2. siteByName[m][name] \in LiveSites /\ sites[siteByName[m][name]] = name
  BY <1>1 DEF SitesKnown
<1>3. QED
  BY <1>1, <1>2 DEF BaseInv, TablesInv, KeysUnique
-----------------------------------------------------------------------------
(* A row that is in the tables stays there, but for one with its address.  *)

LEMMA HeldBy ==
    ASSUME NEW r, Held(r)
    PROVE  \E s \in LiveSites, i \in LiveIps :
              /\ sites[s] = r.site
              /\ ips[i].subnet = Newest(<<s, r.cidr>>)
              /\ ips[i].ip = r.ip /\ ips[i].hostname = r.hostname
  BY DEF Held

LEMMA HeldUnchanged ==
    ASSUME UNCHANGED tables, NEW r, Held(r)
    PROVE  Held(r)'
<1>1. UNCHANGED <<sites, subnets, ips>>
  BY DEF tables
<1>2. LiveSites' = LiveSites /\ LiveIps' = LiveIps
  BY <1>1 DEF LiveSites, LiveIps
<1>3. QED
  BY <1>1, <1>2, NewestUnchanged DEF Held

LEMMA HeldAfterSite ==
    ASSUME TablesInv, NEW s \in SiteIds, NEW name \in SiteNames, InsertSite(s, name),
           NEW r, Held(r)
    PROVE  Held(r)'
<1>1. PICK t \in LiveSites, i \in LiveIps :
              /\ sites[t] = r.site
              /\ ips[i].subnet = Newest(<<t, r.cidr>>)
              /\ ips[i].ip = r.ip /\ ips[i].hostname = r.hostname
  BY DEF Held
<1>2. UNCHANGED <<subnets, ips>> /\ LiveIps' = LiveIps
  BY DEF InsertSite, LiveIps
<1>3. t \in LiveSites' /\ sites'[t] = sites[t]
  BY <1>1 DEF InsertSite, LiveSites, NoRow, TablesInv, TablesTypeOK
<1>4. Newest(<<t, r.cidr>>)' = Newest(<<t, r.cidr>>)
  BY <1>2, NewestUnchanged
<1>5. QED
  BY <1>1, <1>2, <1>3, <1>4 DEF Held

LEMMA HeldAfterSubnet ==
    ASSUME TablesInv, SubnetsBounded, NEW n \in SubnetIds, NEW cidr \in Cidrs, NEW site \in SiteIds,
           InsertSubnet(n, cidr, site), Newest(<<site, cidr>>) = Nil,
           NEW r \in Row, Held(r)
    PROVE  Held(r)'
<1>1. PICK t \in LiveSites, i \in LiveIps :
              /\ sites[t] = r.site
              /\ ips[i].subnet = Newest(<<t, r.cidr>>)
              /\ ips[i].ip = r.ip /\ ips[i].hostname = r.hostname
  BY DEF Held
<1>2. UNCHANGED <<sites, ips>> /\ LiveIps' = LiveIps /\ LiveSites' = LiveSites
  BY DEF InsertSubnet, LiveIps, LiveSites
<1>3. <<t, r.cidr>> \in Keys
  BY DEF Keys, Row, LiveSites
<1>4. ips[i].subnet # Nil
  BY LiveRows, RowsAreNotMarks DEF TablesInv, LiveIps, IpRow
<1>5. Newest(<<t, r.cidr>>)' = Newest(<<t, r.cidr>>)
  BY <1>1, <1>3, <1>4, NewestInserted
<1>6. QED
  BY <1>1, <1>2, <1>5 DEF Held

LEMMA HeldAfterIp ==
    ASSUME TablesInv, NEW j \in IpIds, NEW a, NEW h, NEW n, InsertIp(j, a, h, n),
           NEW r, Held(r)
    PROVE  Held(r)'
<1>1. PICK t \in LiveSites, i \in LiveIps :
              /\ sites[t] = r.site
              /\ ips[i].subnet = Newest(<<t, r.cidr>>)
              /\ ips[i].ip = r.ip /\ ips[i].hostname = r.hostname
  BY DEF Held
<1>2. UNCHANGED <<sites, subnets>> /\ LiveSites' = LiveSites
  BY DEF InsertIp, LiveSites
<1>3. i \in LiveIps' /\ ips'[i] = ips[i]
  BY DEF InsertIp, LiveIps, NoRow, TablesInv, TablesTypeOK
<1>4. Newest(<<t, r.cidr>>)' = Newest(<<t, r.cidr>>)
  BY <1>2, NewestUnchanged
<1>5. QED
  BY <1>1, <1>2, <1>3, <1>4 DEF Held

\* UpdateIPHostname takes the address from the rows with the same address alone.
LEMMA HeldAfterRename ==
    ASSUME BaseInv, NEW m \in Importers, SitesKnown(m), SubnetsKnown(m),
           rowNumber[m] <= Len(file[m]), SiteOf(m) # Nil, SubnetOf(m) # Nil,
           NEW j \in LiveIps, ips[j].subnet = SubnetOf(m), ips[j].ip = Current(m).ip,
           NEW h, RenameIp(j, h),
           NEW r \in Row, Held(r), ~SameAddress(Current(m), r)
    PROVE  Held(r)'
<1>1. PICK t \in LiveSites, i \in LiveIps :
              /\ sites[t] = r.site
              /\ ips[i].subnet = Newest(<<t, r.cidr>>)
              /\ ips[i].ip = r.ip /\ ips[i].hostname = r.hostname
  BY DEF Held
<1>2. UNCHANGED <<sites, subnets>> /\ LiveSites' = LiveSites
  BY DEF RenameIp, LiveSites
<1>3. i # j
  <2> SUFFICES ASSUME i = j PROVE FALSE
    OBVIOUS
  <2>1. /\ SiteOf(m) \in LiveSites /\ sites[SiteOf(m)] = Current(m).site
        /\ subnets[SubnetOf(m)].site = SiteOf(m)
        /\ subnets[SubnetOf(m)].cidr = Current(m).cidr
    BY RowKnown
  <2>2. Newest(<<t, r.cidr>>) = SubnetOf(m) /\ Newest(<<t, r.cidr>>) # Nil
    BY <1>1
  <2>3. subnets[SubnetOf(m)].site = t /\ subnets[SubnetOf(m)].cidr = r.cidr
    BY <2>2, NewestIsGreatest DEF BaseInv
  <2>4. QED
    BY <1>1, <2>1, <2>3 DEF SameAddress
<1>4. i \in LiveIps' /\ ips'[i] = ips[i]
  BY <1>3 DEF RenameIp, LiveIps, BaseInv, TablesInv, TablesTypeOK
<1>5. Newest(<<t, r.cidr>>)' = Newest(<<t, r.cidr>>)
  BY <1>2, NewestUnchanged
<1>6. QED
  BY <1>1, <1>2, <1>4, <1>5 DEF Held
-----------------------------------------------------------------------------
(* The rows that have been dealt with.                                     *)

\* The tables and the counts are as they were, or every row that counts stays.
LEMMA RowsDoneKept ==
    ASSUME NEW m \in Importers, NEW f, file[m] = f, file'[m] = f,
           result'[m].failed = result[m].failed, NEW last, RowsDone(m, last),
           \A j \in 1 .. last : Held(f[j]) => Held(f[j])'
    PROVE  RowsDone(m, last)'
  BY DEF RowsDone

LEMMA RowsDoneQuiet ==
    ASSUME NEW m \in Importers, UNCHANGED tables, file'[m] = file[m],
           result'[m].failed = result[m].failed, NEW last, RowsDone(m, last)
    PROVE  RowsDone(m, last)'
<1>1. PICK f : f = file[m]
  OBVIOUS
<1>2. \A j \in 1 .. last : Held(f[j]) => Held(f[j])'
  BY HeldUnchanged
<1>3. QED
  BY <1>1, <1>2, RowsDoneKept

\* One more row: it fails because it is not acceptable, or it is held.
LEMMA RowDone ==
    ASSUME NEW m \in Importers, NEW f, file[m] = f, file'[m] = f,
           NEW n \in Nat, n + 1 <= MaxRows, RowsDone(m, n),
           \A j \in 1 .. n :
              Held(f[j]) /\ (Accepted(f[n + 1]) => ~SameAddress(f[n + 1], f[j])) => Held(f[j])',
           \/ ~Accepted(f[n + 1]) /\ result'[m].failed = result[m].failed + 1
           \/ /\ Accepted(f[n + 1]) /\ Held(f[n + 1])'
              /\ result'[m].failed = result[m].failed
    PROVE  RowsDone(m, n + 1)'
<1>1. Cardinality(Refused(f, n)) = result[m].failed
  BY DEF RowsDone
<1>2. Cardinality(Refused(f, n + 1)) = result'[m].failed
  BY <1>1, RefusedRows
<1>3. ASSUME NEW j \in 1 .. n + 1, Counted(f, j, n + 1)
      PROVE  Held(f[j])'
  <2>1. CASE j = n + 1
    BY <1>3, <2>1 DEF Counted
  <2>2. CASE j \in 1 .. n
    <3>1. Counted(f, j, n) /\ ~SameAddress(f[n + 1], f[j])
      BY <1>3, <2>2 DEF Counted
    <3>2. Held(f[j])
      BY <2>2, <3>1 DEF RowsDone
    <3>3. QED
      BY <2>2, <3>1, <3>2
  <2>3. QED
    BY <2>1, <2>2
<1>4. QED
  BY <1>2, <1>3 DEF RowsDone

\* ErrImportTooLarge: the rows after MaxRows do not count.
LEMMA AllRowsDone ==
    ASSUME NEW m \in Importers, NEW f \in Seq(Row), file[m] = f,
           NEW n \in Nat, n <= Len(f), n + 1 > Len(f) \/ n + 1 > MaxRows, RowsDone(m, n)
    PROVE  RowsDone(m, Len(f))
<1>1. CASE n = Len(f)
  BY <1>1
<1>2. CASE n >= MaxRows
  <2>1. Refused(f, Len(f)) = Refused(f, n)
    BY <1>2, ImportConstants DEF Refused
  <2>2. ASSUME NEW j \in 1 .. Len(f), Counted(f, j, Len(f))
        PROVE  j \in 1 .. n /\ Counted(f, j, n)
    BY <1>2, <2>2, ImportConstants DEF Counted
  <2>3. QED
    BY <2>1, <2>2 DEF RowsDone
<1>3. QED
  BY <1>1, <1>2, ImportConstants
-----------------------------------------------------------------------------
(* The steps of an undisturbed import.                                     *)

LEMMA UndisturbedAfter ==
    ASSUME NEW m \in Importers,
           pc'[m] \notin {"idle", "sites"} => SitesKnown(m)',
           pc'[m] \notin {"idle", "sites", "subnets"} => SubnetsKnown(m)' /\ IpsKnown(m)',
           NEW last, last = IF pc'[m] = "idle" THEN Len(file'[m]) ELSE rowNumber'[m] - 1,
           RowsDone(m, last)'
    PROVE  UndisturbedInv(m)'
  BY DEF UndisturbedInv

LEMMA KnownUnchanged ==
    ASSUME UNCHANGED tables, NEW m \in Importers,
           siteByName'[m] = siteByName[m], subnetByKey'[m] = subnetByKey[m]
    PROVE  /\ SitesKnown(m) => SitesKnown(m)'
           /\ SubnetsKnown(m) => SubnetsKnown(m)'
<1>1. UNCHANGED <<sites, subnets>> /\ LiveSites' = LiveSites
  BY DEF tables, LiveSites
<1>2. \A k \in Keys : Newest(k)' = Newest(k)
  BY <1>1, NewestUnchanged
<1>3. QED
  BY <1>1, <1>2 DEF SitesKnown, SubnetsKnown

LEMMA IpsUnchanged ==
    ASSUME UNCHANGED ips, NEW m \in Importers, IpsKnown(m), ipsBySubnet'[m] = ipsBySubnet[m],
           listed'[m] = Nil \/ (listed'[m] = listed[m] /\ SubnetOf(m)' = SubnetOf(m))
    PROVE  IpsKnown(m)'
  BY DEF IpsKnown

\* A row that has been dealt with puts its list in the map.
LEMMA IpsKept ==
    ASSUME LocalsTypeOK, NEW m \in Importers, IpsKnown(m), SubnetOf(m) \in SubnetIds,
           NEW entries \in SUBSET Entry, Keep(m, entries), listed'[m] = Nil,
           entries = ListOf(ips', SubnetOf(m)),
           \A n \in SubnetIds \ {SubnetOf(m)} : ListOf(ips', n) = ListOf(ips, n)
    PROVE  IpsKnown(m)'
<1>1. ipsBySubnet'[m] = [ipsBySubnet[m] EXCEPT ![SubnetOf(m)] = entries]
  BY KeepTypes
<1>2. ipsBySubnet[m] \in [SubnetIds -> (SUBSET Entry) \cup {Nil}]
  BY DEF LocalsTypeOK
<1>3. ASSUME NEW n \in SubnetIds, ipsBySubnet'[m][n] # Nil
      PROVE  ipsBySubnet'[m][n] = ListOf(ips', n)
  <2>1. CASE n = SubnetOf(m)
    BY <1>1, <1>2, <2>1
  <2>2. CASE n # SubnetOf(m)
    BY <1>1, <1>2, <1>3, <2>2 DEF IpsKnown
  <2>3. QED
    BY <2>1, <2>2
<1>4. QED
  BY <1>3 DEF IpsKnown

\* A statement that reads what the map promised.
LEMMA QuietUndisturbed ==
    ASSUME NEW m \in Importers, UndisturbedInv(m), UNCHANGED <<tables, locals>>,
           Working(m) \/ pc[m] = "row", pc'[m] # "idle"
    PROVE  UndisturbedInv(m)'
<1>1. /\ UNCHANGED <<tables, ips, file, rowNumber, siteByName, subnetByKey, ipsBySubnet, listed, result>>
      /\ SubnetOf(m)' = SubnetOf(m)
  BY DEF tables, locals, caches, SubnetOf, KeyOf, SiteOf, Current
<1>2. /\ SitesKnown(m) /\ SubnetsKnown(m) /\ IpsKnown(m)
      /\ RowsDone(m, rowNumber[m] - 1)
  BY DEF UndisturbedInv, Working
<1>3. SitesKnown(m)' /\ SubnetsKnown(m)' /\ IpsKnown(m)'
  BY <1>1, <1>2, KnownUnchanged, IpsUnchanged
<1>4. PICK last : last = rowNumber[m] - 1
  OBVIOUS
<1>5. RowsDone(m, last)'
  BY <1>1, <1>2, <1>4, RowsDoneQuiet
<1>6. QED
  BY <1>1, <1>3, <1>4, <1>5, UndisturbedAfter

\* The rows before the one at hand are numbered from 1.
LEMMA RowsOfFile ==
    ASSUME LocalsTypeOK, NEW m \in Importers
    PROVE  /\ file[m] \in Seq(Row)
           /\ rowNumber[m] \in Nat \ {0} /\ rowNumber[m] <= Len(file[m]) + 1
           /\ \E n \in Nat : n + 1 = rowNumber[m]
<1>1. rowNumber[m] \in Nat \ {0} /\ rowNumber[m] <= Len(file[m]) + 1
  BY DEF LocalsTypeOK
<1>2. PICK f \in Files \cup {<<>>} : f = file[m]
  BY DEF LocalsTypeOK
<1>3. f \in Seq(Row)
  <2>1. CASE f = <<>>
    BY <2>1
  <2>2. CASE f \in Files
    BY <2>2, ImportConstants
  <2>3. QED
    BY <2>1, <2>2
<1>4. rowNumber[m] - 1 \in Nat /\ (rowNumber[m] - 1) + 1 = rowNumber[m]
  BY <1>1
<1>5. QED
  BY <1>1, <1>2, <1>3, <1>4

\* The row at hand has been dealt with: it is refused, or it is in the tables.
LEMMA NextRowUndisturbed ==
    ASSUME BaseInv, NEW m \in Importers, UndisturbedInv(m), Working(m) \/ pc[m] = "row",
           RowEnds(m), rowNumber[m] <= Len(file[m]), rowNumber[m] <= MaxRows,
           SitesKnown(m)', SubnetsKnown(m)', IpsKnown(m)',
           NEW row \in Row, row = Current(m),
           \/ ~Accepted(row) /\ result'[m].failed = result[m].failed + 1
           \/ Accepted(row) /\ Held(row)' /\ result'[m].failed = result[m].failed,
           \A r \in Row : Held(r) /\ (Accepted(row) => ~SameAddress(row, r)) => Held(r)'
    PROVE  UndisturbedInv(m)'
<1> USE DEF BaseInv
<1>1. pc'[m] = "row" /\ rowNumber'[m] = rowNumber[m] + 1 /\ file' = file
  BY RowEndsTypes
<1>2. file[m] \in Seq(Row)
  BY RowsOfFile
<1>3. PICK n \in Nat : n + 1 = rowNumber[m]
  BY RowsOfFile
<1>4. PICK f : f = file[m]
  OBVIOUS
<1>5. row = f[n + 1]
  BY <1>3, <1>4 DEF Current
<1>6. RowsDone(m, n)
  BY <1>3 DEF UndisturbedInv, Working
<1>7. \A j \in 1 .. n : f[j] \in Row
  BY <1>2, <1>3, <1>4
<1>8. RowsDone(m, n + 1)'
  BY <1>1, <1>3, <1>4, <1>5, <1>6, <1>7, RowDone
<1>9. PICK last : last = n + 1
  OBVIOUS
<1>10. QED
  BY <1>1, <1>3, <1>8, <1>9, UndisturbedAfter

LEMMA StartUndisturbed ==
    ASSUME BaseInv, NEW m \in Importers, Start(m)
    PROVE  UndisturbedInv(m)'
<1> USE DEF BaseInv, LocalsTypeOK
<1>1. /\ pc[m] = "idle" /\ pc'[m] = "sites" /\ rowNumber'[m] = rowNumber[m]
      /\ result'[m] = NoResult
  BY DEF Start, Goto
<1>2. rowNumber[m] = 1
  BY <1>1 DEF RowInv
<1>3. result'[m].failed = 0
  BY <1>1 DEF NoResult
<1>4. RowsDone(m, 0)'
  <2>1. PICK f : f = file'[m]
    OBVIOUS
  <2>2. Cardinality(Refused(f, 0)) = 0
    BY RefusedRows
  <2>3. QED
    BY <1>3, <2>1, <2>2 DEF RowsDone
<1>5. PICK last : last = 0
  OBVIOUS
<1>6. rowNumber'[m] - 1 = last
  BY <1>1, <1>2, <1>5
<1>7. RowsDone(m, last)'
  BY <1>4, <1>5
<1>8. QED
  BY <1>1, <1>6, <1>7, UndisturbedAfter

LEMMA ListUndisturbed ==
    ASSUME BaseInv, NEW m \in Importers, NoLists(m), UndisturbedInv(m), ListSites(m) \/ ListSubnets(m)
    PROVE  UndisturbedInv(m)'
<1> USE DEF BaseInv
<1>1. /\ UNCHANGED <<tables, file, rowNumber, ipsBySubnet, listed, result>>
      /\ pc[m] \in {"sites", "subnets"} /\ pc'[m] \in {"subnets", "row"}
  BY DEF ListSites, ListSubnets, ReadOnly, Goto, LocalsTypeOK
<1>2. PICK last : last = rowNumber[m] - 1
  OBVIOUS
<1>3. RowsDone(m, last)'
  BY <1>1, <1>2, RowsDoneQuiet DEF UndisturbedInv
<1>4. SitesKnown(m)'
  <2>1. CASE ListSites(m)
    <3>1. siteByName'[m] = [name \in SiteNames |->
             IF \E s \in LiveSites : sites[s] = name
             THEN CHOOSE s \in LiveSites : sites[s] = name ELSE Nil]
      BY <2>1 DEF ListSites, LocalsTypeOK
    <3>2. UNCHANGED sites /\ LiveSites' = LiveSites
      BY <1>1 DEF tables, LiveSites
    <3>3. ASSUME NEW name \in SiteNames
          PROVE  /\ siteByName'[m][name] # Nil =>
                       siteByName'[m][name] \in LiveSites /\ sites[siteByName'[m][name]] = name
                 /\ siteByName'[m][name] = Nil => \A s \in LiveSites : sites[s] # name
      <4>1. CASE \E s \in LiveSites : sites[s] = name
        <5>1. siteByName'[m][name] = CHOOSE s \in LiveSites : sites[s] = name
          BY <3>1, <4>1
        <5>2. siteByName'[m][name] \in LiveSites /\ sites[siteByName'[m][name]] = name
          BY <4>1, <5>1
        <5>3. siteByName'[m][name] # Nil
          BY <5>2, RowsAreNotMarks DEF LiveSites
        <5>4. QED
          BY <5>2, <5>3
      <4>2. CASE ~\E s \in LiveSites : sites[s] = name
        BY <3>1, <4>2
      <4>3. QED
        BY <4>1, <4>2
    <3>4. QED
      BY <3>2, <3>3 DEF SitesKnown
  <2>2. CASE ListSubnets(m)
    <3>1. pc[m] = "subnets" /\ siteByName' = siteByName
      BY <2>2 DEF ListSubnets
    <3>2. UNCHANGED sites /\ LiveSites' = LiveSites
      BY <1>1 DEF tables, LiveSites
    <3>3. QED
      BY <3>1, <3>2 DEF UndisturbedInv, SitesKnown
  <2>3. QED
    BY <2>1, <2>2
<1>5. CASE ListSites(m)
  <2>1. pc'[m] = "subnets"
    BY <1>5 DEF ListSites, Goto, LocalsTypeOK
  <2>2. QED
    BY <1>1, <1>2, <1>3, <1>4, <2>1, UndisturbedAfter
<1>6. CASE ListSubnets(m)
  <2>1. pc[m] = "subnets" /\ subnetByKey'[m] = [k \in Keys |-> Newest(k)] /\ pc'[m] = "row"
    BY <1>6 DEF ListSubnets, Goto, LocalsTypeOK
  <2>2. \A k \in Keys : Newest(k)' = Newest(k)
    BY <1>1, NewestUnchanged DEF tables
  <2>3. SubnetsKnown(m)'
    BY <2>1, <2>2 DEF SubnetsKnown
  <2>4. ipsBySubnet'[m] = NoIps /\ listed'[m] = Nil
    BY <1>1, <2>1 DEF NoLists, RowInv, AtAddress
  <2>5. IpsKnown(m)'
    BY <2>4 DEF IpsKnown, NoIps
  <2>6. QED
    BY <1>1, <1>2, <1>3, <1>4, <2>1, <2>3, <2>5, UndisturbedAfter
<1>7. QED
  BY <1>5, <1>6

\* The lists after a row that changed no table.
LEMMA SameListsKept ==
    ASSUME BaseInv, NEW m \in Importers, IpsKnown(m), UNCHANGED ips,
           SubnetOf(m) \in SubnetIds, IpsOf(m) \in SUBSET Entry, IpsOf(m) # Nil,
           Keep(m, IpsOf(m)), listed'[m] = Nil
    PROVE  IpsKnown(m)'
<1>1. PICK entries \in SUBSET Entry : entries = IpsOf(m)
  OBVIOUS
<1>2. entries = ListOf(ips', SubnetOf(m))
  BY <1>1, IpsOfKnown
<1>3. Keep(m, entries)
  BY <1>1
<1>4. QED
  BY <1>2, <1>3, IpsKept DEF BaseInv

LEMMA ReadRowUndisturbed ==
    ASSUME BaseInv, NEW m \in Importers, UndisturbedInv(m), ReadRow(m)
    PROVE  UndisturbedInv(m)'
<1> USE DEF BaseInv
<1>1. /\ pc[m] = "row" /\ UNCHANGED <<tables, ips>>
      /\ SitesKnown(m) /\ SubnetsKnown(m) /\ IpsKnown(m)
      /\ RowsDone(m, rowNumber[m] - 1)
  BY DEF ReadRow, ReadOnly, UndisturbedInv, tables
<1>2. CASE /\ rowNumber[m] > Len(file[m]) \/ rowNumber[m] > MaxRows
           /\ End(m) /\ UNCHANGED <<file, result>>
  <2>1. PICK f : f = file[m]
    OBVIOUS
  <2>2. f \in Seq(Row) /\ rowNumber[m] \in Nat \ {0} /\ rowNumber[m] <= Len(f) + 1
    BY <2>1, RowsOfFile
  <2>3. PICK n \in Nat : n + 1 = rowNumber[m]
    BY RowsOfFile
  <2>4. RowsDone(m, n)
    BY <1>1, <2>3
  <2>5. n <= Len(f) /\ (n + 1 > Len(f) \/ n + 1 > MaxRows)
    BY <1>2, <2>1, <2>2, <2>3
  <2>6. RowsDone(m, Len(f))
    BY <2>1, <2>2, <2>4, <2>5, AllRowsDone
  <2>7. PICK last : last = Len(f)
    OBVIOUS
  <2>8. RowsDone(m, last)'
    BY <1>1, <1>2, <2>6, <2>7, RowsDoneQuiet
  <2>9. pc'[m] = "idle"
    BY <1>2 DEF End, Goto, LocalsTypeOK
  <2>10. QED
    BY <1>2, <2>1, <2>7, <2>8, <2>9, UndisturbedAfter
<1>3. CASE UNCHANGED locals /\ pc'[m] # "idle"
  BY <1>1, <1>3, QuietUndisturbed
<1>4. CASE /\ rowNumber[m] <= Len(file[m]) /\ rowNumber[m] <= MaxRows
           /\ ~Accepted(Current(m)) /\ RowFails(m)
  <2>1. RowEnds(m) /\ UNCHANGED <<siteByName, subnetByKey, ipsBySubnet>> /\ listed'[m] = Nil
    BY <1>4, RowEndsTypes DEF RowFails, caches
  <2>2. result'[m].failed = result[m].failed + 1
    BY <1>4 DEF RowFails, Counts, LocalsTypeOK
  <2>3. SitesKnown(m)' /\ SubnetsKnown(m)' /\ IpsKnown(m)'
    BY <1>1, <2>1, KnownUnchanged, IpsUnchanged
  <2>4. PICK row \in Row : row = Current(m)
    BY <1>4, CurrentTypes
  <2>5. QED
    BY <1>1, <1>4, <2>1, <2>2, <2>3, <2>4, HeldUnchanged, NextRowUndisturbed
<1>5. CASE /\ rowNumber[m] <= Len(file[m]) /\ rowNumber[m] <= MaxRows
           /\ Accepted(Current(m))
           /\ SiteOf(m) # Nil /\ SubnetOf(m) # Nil /\ IpsOf(m) # Nil
           /\ \E e \in Existing(m) : e.hostname = Current(m).hostname
           /\ Keep(m, IpsOf(m)) /\ RowEnds(m) /\ UNCHANGED result
  <2>1. SubnetOf(m) \in SubnetIds /\ IpsOf(m) \in SUBSET Entry
    BY <1>5, CurrentTypes
  <2>2. listed'[m] = Nil /\ siteByName' = siteByName /\ subnetByKey' = subnetByKey
    BY <1>5, RowEndsTypes DEF Keep
  <2>3. SitesKnown(m)' /\ SubnetsKnown(m)' /\ IpsKnown(m)'
    BY <1>1, <1>5, <2>1, <2>2, KnownUnchanged, SameListsKept
  <2>4. PICK row \in Row : row = Current(m)
    BY <1>5, CurrentTypes
  <2>5. Held(row)
    <3>1. PICK e \in IpsOf(m) : e.ip = row.ip /\ e.hostname = row.hostname
      BY <1>5, <2>4 DEF Existing
    <3>2. /\ e.id \in LiveIps /\ ips[e.id].subnet = SubnetOf(m)
          /\ ips[e.id].ip = row.ip /\ ips[e.id].hostname = row.hostname
      BY <1>1, <1>5, <2>1, <3>1, IpsOfKnown, ListedRows
    <3>3. /\ SiteOf(m) \in LiveSites /\ sites[SiteOf(m)] = row.site
          /\ SubnetOf(m) = Newest(<<SiteOf(m), row.cidr>>)
      BY <1>1, <1>5, <2>4, RowKnown
    <3>4. QED
      BY <3>2, <3>3 DEF Held
  <2>6. Held(row)'
    BY <1>1, <2>5, HeldUnchanged
  <2>7. QED
    BY <1>1, <1>5, <2>3, <2>4, <2>6, HeldUnchanged, NextRowUndisturbed
<1>6. QED
  <2>1. CASE /\ UNCHANGED locals
             /\ \/ Goto(m, "create_site") \/ Goto(m, "insert_subnet") \/ Goto(m, "list_ips")
                \/ Goto(m, "find_subnet") \/ Goto(m, "find_ip")
    BY <1>3, <2>1 DEF Goto, LocalsTypeOK
  <2>2. QED
    BY <1>2, <1>4, <1>5, <2>1 DEF ReadRow

\* What an undisturbed import knows while it works on a row.
LEMMA WorkingKnown ==
    ASSUME BaseInv, NEW m \in Importers, UndisturbedInv(m), Working(m)
    PROVE  /\ SitesKnown(m) /\ SubnetsKnown(m) /\ IpsKnown(m)
           /\ rowNumber[m] <= Len(file[m]) /\ rowNumber[m] <= MaxRows
           /\ Current(m) \in Row /\ Accepted(Current(m))
           /\ SiteOf(m) # Nil =>
                 /\ SiteOf(m) \in LiveSites /\ sites[SiteOf(m)] = Current(m).site
                 /\ KeyOf(m) \in Keys /\ SubnetOf(m) = Newest(KeyOf(m))
                 /\ KeyOf(m) = <<SiteOf(m), Current(m).cidr>>
                 /\ SubnetOf(m) # Nil =>
                       /\ SubnetOf(m) \in LiveSubnets
                       /\ subnets[SubnetOf(m)].site = SiteOf(m)
                       /\ subnets[SubnetOf(m)].cidr = Current(m).cidr
<1>1. /\ SitesKnown(m) /\ SubnetsKnown(m) /\ IpsKnown(m)
  BY DEF UndisturbedInv, Working
<1>2. /\ rowNumber[m] <= Len(file[m]) /\ rowNumber[m] <= MaxRows
      /\ Current(m) \in Row /\ Accepted(Current(m))
  BY WorkingFacts DEF BaseInv
<1>3. QED
  BY <1>1, <1>2, RowKnown

\* The entry whose hostname is changed is a row of the subnet.
LEMMA ExistingKnown ==
    ASSUME BaseInv, NEW m \in Importers, UndisturbedInv(m), pc[m] \in {"find_ip", "update_ip"}
    PROVE  /\ TheExisting(m) \in ListOf(ips, SubnetOf(m))
           /\ TheExisting(m).id \in LiveIps
           /\ ips[TheExisting(m).id].subnet = SubnetOf(m)
           /\ ips[TheExisting(m).id].ip = Current(m).ip
           /\ ips[TheExisting(m).id].hostname = TheExisting(m).hostname
<1>1. TheExisting(m) \in IpsOf(m) /\ TheExisting(m).ip = Current(m).ip
  BY ExistingTypes DEF BaseInv
<1>2. SubnetOf(m) \in SubnetIds /\ IpsOf(m) # Nil
  BY WorkingFacts DEF BaseInv, Working, AtAddress, RowInv
<1>3. IpsOf(m) = ListOf(ips, SubnetOf(m))
  BY <1>2, IpsOfKnown DEF UndisturbedInv
<1>4. QED
  BY <1>1, <1>3, ListedRows

LEMMA CreateSiteUndisturbed ==
    ASSUME BaseInv, NEW m \in Importers, UndisturbedInv(m), CreateSite(m)
    PROVE  UndisturbedInv(m)'
<1> USE DEF BaseInv
<1>1. pc[m] = "create_site" /\ Working(m)
  BY DEF CreateSite, Working
<1>2. /\ SitesKnown(m) /\ SubnetsKnown(m) /\ IpsKnown(m)
      /\ Current(m) \in Row
  BY <1>1, WorkingKnown
<1>3. PICK name \in SiteNames : name = Current(m).site
  BY <1>2 DEF Row
<1>4. siteByName[m][name] = Nil /\ listed[m] = Nil
  BY <1>1, <1>3, WorkingFacts DEF RowInv, SiteOf, AtAddress
<1>5. \A s \in LiveSites : sites[s] # name
  BY <1>2, <1>4 DEF SitesKnown
<1>6. PICK s \in SiteIds :
         /\ InsertSite(s, name)
         /\ siteByName' = [siteByName EXCEPT ![m] = [siteByName[m] EXCEPT ![name] = s]]
         /\ Goto(m, "row")
         /\ UNCHANGED <<file, rowNumber, subnetByKey, ipsBySubnet, listed, result>>
  BY <1>3, <1>5 DEF CreateSite, NameTaken
<1>7. /\ UNCHANGED <<subnets, ips>>
      /\ sites' = [sites EXCEPT ![s] = name] /\ sites \in [SiteIds -> SiteNames \cup NoRow]
  BY <1>6 DEF InsertSite, TablesInv, TablesTypeOK
<1>8. LiveSites' = LiveSites \cup {s} /\ sites'[s] = name
  BY <1>7, RowsAreNotMarks DEF LiveSites
<1>9. \A t \in LiveSites \ {s} : sites'[t] = sites[t]
  BY <1>7 DEF LiveSites
<1>10. siteByName'[m] = [siteByName[m] EXCEPT ![name] = s]
       /\ siteByName[m] \in [SiteNames -> SiteIds \cup {Nil}]
  BY <1>6 DEF LocalsTypeOK
<1>11. s # Nil /\ s \notin LiveSites
  BY <1>6, RowsAreNotMarks DEF InsertSite, LiveSites, NoRow
<1>12. SitesKnown(m)'
  <2> SUFFICES ASSUME NEW other \in SiteNames
               PROVE  /\ siteByName'[m][other] # Nil =>
                            /\ siteByName'[m][other] \in LiveSites'
                            /\ sites'[siteByName'[m][other]] = other
                      /\ siteByName'[m][other] = Nil => \A t \in LiveSites' : sites'[t] # other
    BY DEF SitesKnown
  <2>1. CASE other = name
    BY <1>8, <1>10, <1>11, <2>1
  <2>2. CASE other # name
    <3>1. siteByName'[m][other] = siteByName[m][other]
      BY <1>10, <2>2
    <3>2. QED
      BY <1>2, <1>8, <1>9, <1>11, <2>2, <3>1 DEF SitesKnown
  <2>3. QED
    BY <2>1, <2>2
<1>13. SubnetsKnown(m)'
  <2>1. \A k \in Keys : Newest(k)' = Newest(k)
    BY <1>7, NewestUnchanged
  <2>2. QED
    BY <1>2, <1>6, <2>1 DEF SubnetsKnown
<1>14. IpsKnown(m)'
  BY <1>2, <1>4, <1>6, <1>7, IpsUnchanged
<1>15. PICK last : last = rowNumber[m] - 1
  OBVIOUS
<1>16. RowsDone(m, last)'
  <2>1. PICK f : f = file[m]
    OBVIOUS
  <2>2. \A j \in 1 .. last : Held(f[j]) => Held(f[j])'
    BY <1>6, HeldAfterSite
  <2>3. RowsDone(m, last)
    BY <1>1, <1>15 DEF UndisturbedInv
  <2>4. QED
    BY <1>6, <2>1, <2>2, <2>3, RowsDoneKept
<1>17. pc'[m] = "row"
  BY <1>6 DEF Goto, LocalsTypeOK
<1>18. QED
  BY <1>6, <1>12, <1>13, <1>14, <1>15, <1>16, <1>17, UndisturbedAfter

LEMMA InsertTheSubnetUndisturbed ==
    ASSUME BaseInv, NEW m \in Importers, UndisturbedInv(m), InsertTheSubnet(m)
    PROVE  UndisturbedInv(m)'
<1> USE DEF BaseInv
<1>1. pc[m] = "insert_subnet" /\ Working(m)
  BY DEF InsertTheSubnet, Working
<1>2. SubnetOf(m) = Nil /\ SiteOf(m) # Nil /\ SiteOf(m) \in SiteIds /\ listed[m] = Nil
  BY <1>1, WorkingFacts DEF RowInv, AtAddress
<1>3. /\ SitesKnown(m) /\ SubnetsKnown(m) /\ IpsKnown(m)
      /\ Current(m) \in Row /\ SiteOf(m) \in LiveSites
      /\ KeyOf(m) \in Keys /\ Newest(KeyOf(m)) = Nil
      /\ KeyOf(m) = <<SiteOf(m), Current(m).cidr>>
  BY <1>1, <1>2, WorkingKnown
<1>4. rowNumber[m] <= Len(file[m])
  BY <1>1, WorkingFacts
<1>5. PICK site \in SiteIds, cidr \in Cidrs :
         site = SiteOf(m) /\ cidr = Current(m).cidr /\ KeyOf(m) = <<site, cidr>>
  BY <1>2, <1>3 DEF Row
<1>6. PICK n \in SubnetIds :
         /\ InsertSubnet(n, cidr, site)
         /\ Goto(m, "read_back")
         /\ subnetByKey' = [subnetByKey EXCEPT ![m] = [subnetByKey[m] EXCEPT ![<<site, cidr>>] = n]]
         /\ UNCHANGED <<file, rowNumber, siteByName, ipsBySubnet, listed, result>>
  BY <1>3, <1>5 DEF InsertTheSubnet
<1>7. /\ Newest(<<site, cidr>>)' = n
      /\ \A k \in Keys : k # <<site, cidr>> => Newest(k)' = Newest(k)
  BY <1>3, <1>5, <1>6, NewestInserted
<1>8. UNCHANGED <<sites, ips>> /\ LiveSites' = LiveSites
  BY <1>6 DEF InsertSubnet, LiveSites
<1>9. SitesKnown(m)'
  BY <1>3, <1>6, <1>8 DEF SitesKnown
<1>10. SubnetsKnown(m)'
  <2>1. subnetByKey'[m] = [subnetByKey[m] EXCEPT ![<<site, cidr>>] = n]
        /\ subnetByKey[m] \in [Keys -> SubnetIds \cup {Nil}]
    BY <1>6 DEF LocalsTypeOK
  <2>2. ASSUME NEW k \in Keys
        PROVE  subnetByKey'[m][k] = Newest(k)'
    BY <1>3, <1>7, <2>1 DEF SubnetsKnown
  <2>3. QED
    BY <2>2 DEF SubnetsKnown
<1>11. IpsKnown(m)'
  BY <1>2, <1>3, <1>6, <1>8, IpsUnchanged
<1>12. PICK last : last = rowNumber[m] - 1
  OBVIOUS
<1>13. RowsDone(m, last)'
  <2>1. PICK f : f = file[m]
    OBVIOUS
  <2>2. f \in Seq(Row) /\ last < Len(f)
    BY <1>4, <1>12, <2>1, ImportConstants DEF LocalsTypeOK
  <2>3. \A j \in 1 .. last : f[j] \in Row
    BY <1>12, <2>2 DEF LocalsTypeOK
  <2>4. \A j \in 1 .. last : Held(f[j]) => Held(f[j])'
    BY <1>3, <1>5, <1>6, <2>3, HeldAfterSubnet
  <2>5. RowsDone(m, last)
    BY <1>1, <1>12 DEF UndisturbedInv
  <2>6. QED
    BY <1>6, <2>1, <2>4, <2>5, RowsDoneKept
<1>14. pc'[m] = "read_back"
  BY <1>6 DEF Goto, LocalsTypeOK
<1>15. QED
  BY <1>6, <1>9, <1>10, <1>11, <1>12, <1>13, <1>14, UndisturbedAfter

\* FindByID, FindByIDAndSubnet and validateIPInSubnet find what the maps say.
LEMMA FoundUndisturbed ==
    ASSUME BaseInv, NEW m \in Importers, UndisturbedInv(m),
           ReadBack(m) \/ FindIp(m) \/ FindSubnet(m)
    PROVE  UndisturbedInv(m)'
<1> USE DEF BaseInv
<1>1. /\ pc[m] \in {"read_back", "find_ip", "find_subnet"} /\ Working(m)
      /\ UNCHANGED tables
  BY DEF ReadBack, FindIp, FindSubnet, Working, ReadOnly
<1>2. SubnetOf(m) # Nil /\ SiteOf(m) # Nil
  BY <1>1, WorkingFacts
<1>3. /\ SubnetOf(m) \in LiveSubnets /\ subnets[SubnetOf(m)].cidr = Current(m).cidr
      /\ Accepted(Current(m))
  BY <1>1, <1>2, WorkingKnown
<1>4. CASE ReadBack(m)
  <2>1. UNCHANGED locals /\ Goto(m, "row")
    BY <1>3, <1>4 DEF ReadBack
  <2>2. QED
    BY <1>1, <2>1, QuietUndisturbed DEF Goto, LocalsTypeOK
<1>5. CASE FindIp(m)
  <2>1. pc[m] = "find_ip"
    BY <1>5 DEF FindIp
  <2>2. TheExisting(m).id \in LiveIps /\ ips[TheExisting(m).id].subnet = SubnetOf(m)
    BY <2>1, ExistingKnown
  <2>3. UNCHANGED locals /\ Goto(m, "update_ip")
    BY <1>5, <2>2 DEF FindIp
  <2>4. QED
    BY <1>1, <2>3, QuietUndisturbed DEF Goto, LocalsTypeOK
<1>6. CASE FindSubnet(m)
  <2>1. Current(m).ip \in Usable[subnets[SubnetOf(m)].cidr]
    BY <1>3 DEF Accepted
  <2>2. UNCHANGED locals /\ Goto(m, "insert_ip")
    BY <1>3, <1>6, <2>1 DEF FindSubnet
  <2>3. QED
    BY <1>1, <2>2, QuietUndisturbed DEF Goto, LocalsTypeOK
<1>7. QED
  BY <1>4, <1>5, <1>6

LEMMA ListIPsUndisturbed ==
    ASSUME BaseInv, NEW m \in Importers, UndisturbedInv(m), ListIPs(m)
    PROVE  UndisturbedInv(m)'
<1> USE DEF BaseInv
<1>1. pc[m] = "list_ips" /\ Working(m) /\ UNCHANGED <<tables, ips>>
  BY DEF ListIPs, Working, ReadOnly, tables
<1>2. SubnetOf(m) # Nil /\ SiteOf(m) # Nil
  BY <1>1, WorkingFacts
<1>3. /\ SitesKnown(m) /\ SubnetsKnown(m) /\ IpsKnown(m)
      /\ SubnetOf(m) \in LiveSubnets
  BY <1>1, <1>2, WorkingKnown
<1> DEFINE entries == {[id |-> i, ip |-> ips[i].ip, hostname |-> ips[i].hostname] :
                          i \in {j \in LiveIps : ips[j].subnet = SubnetOf(m)}}
<1>4. /\ listed' = [listed EXCEPT ![m] = entries]
      /\ Goto(m, "row")
      /\ UNCHANGED <<file, rowNumber, siteByName, subnetByKey, ipsBySubnet, result>>
  BY <1>3 DEF ListIPs, caches
<1>5. entries = ListOf(ips, SubnetOf(m))
  BY DEF ListOf, LiveIps
<1> HIDE DEF entries
<1>6. SubnetOf(m)' = SubnetOf(m) /\ listed'[m] = entries
  BY <1>4 DEF SubnetOf, KeyOf, SiteOf, Current, LocalsTypeOK
<1>7. IpsKnown(m)'
  BY <1>1, <1>3, <1>4, <1>5, <1>6 DEF IpsKnown
<1>8. SitesKnown(m)' /\ SubnetsKnown(m)'
  BY <1>1, <1>3, <1>4, KnownUnchanged
<1>9. PICK last : last = rowNumber[m] - 1
  OBVIOUS
<1>10. RowsDone(m, last)'
  BY <1>1, <1>4, <1>9, RowsDoneQuiet DEF UndisturbedInv
<1>11. pc'[m] = "row"
  BY <1>4 DEF Goto, LocalsTypeOK
<1>12. QED
  BY <1>4, <1>7, <1>8, <1>9, <1>10, <1>11, UndisturbedAfter

LEMMA ListInserted ==
    ASSUME TablesInv, NEW i \in IpIds, NEW a \in Addresses, NEW h \in Hostnames,
           NEW n \in SubnetIds, InsertIp(i, a, h, n)
    PROVE  /\ ListOf(ips', n) = ListOf(ips, n) \cup {[id |-> i, ip |-> a, hostname |-> h]}
           /\ \A o \in SubnetIds \ {n} : ListOf(ips', o) = ListOf(ips, o)
<1>1. /\ ips'[i] = [ip |-> a, hostname |-> h, subnet |-> n] /\ ips[i] \in NoRow
      /\ \A j \in IpIds \ {i} : ips'[j] = ips[j]
  BY DEF InsertIp, TablesInv, TablesTypeOK, NoRow
<1>2. ips'[i] \notin NoRow
  <2>1. ips'[i] \in IpRow
    BY <1>1 DEF IpRow
  <2>2. QED
    BY <2>1, RowsAreNotMarks
<1>3. /\ ips'[i].subnet = n /\ ips'[i].ip = a /\ ips'[i].hostname = h
  BY <1>1
<1>4. {j \in IpIds : ips'[j] \notin NoRow /\ ips'[j].subnet = n}
         = {j \in IpIds : ips[j] \notin NoRow /\ ips[j].subnet = n} \cup {i}
  BY <1>1, <1>2, <1>3
<1>5. ListOf(ips', n) = ListOf(ips, n) \cup {[id |-> i, ip |-> a, hostname |-> h]}
  <2> DEFINE old == {j \in IpIds : ips[j] \notin NoRow /\ ips[j].subnet = n}
  <2>1. i \notin old /\ old \subseteq IpIds
    BY <1>1
  <2>2. ListOf(ips', n) = {[id |-> j, ip |-> ips'[j].ip, hostname |-> ips'[j].hostname] :
                              j \in old \cup {i}}
    BY <1>4 DEF ListOf
  <2>3. ListOf(ips, n) = {[id |-> j, ip |-> ips[j].ip, hostname |-> ips[j].hostname] : j \in old}
    BY DEF ListOf
  <2> HIDE DEF old
  <2>4. QED
    BY <1>1, <1>3, <2>1, <2>2, <2>3
<1>6. ASSUME NEW o \in SubnetIds \ {n}
      PROVE  ListOf(ips', o) = ListOf(ips, o)
  BY <1>1, <1>3 DEF ListOf
<1>7. QED
  BY <1>5, <1>6

LEMMA ListRenamed ==
    ASSUME TablesInv, NEW i \in LiveIps, NEW h \in Hostnames, RenameIp(i, h),
           NEW n, ips[i].subnet = n,
           NEW e, e = [id |-> i, ip |-> ips[i].ip, hostname |-> ips[i].hostname]
    PROVE  /\ ListOf(ips', n) = (ListOf(ips, n) \ {e}) \cup {[e EXCEPT !.hostname = h]}
           /\ \A o \in SubnetIds \ {n} : ListOf(ips', o) = ListOf(ips, o)
<1>1. i \in IpIds /\ ips[i] \in IpRow /\ ips[i] \notin NoRow
  BY LiveRows DEF TablesInv, LiveIps
<1>2. /\ ips' = [ips EXCEPT ![i] = [ips[i] EXCEPT !.hostname = h]]
      /\ \A j \in IpIds \ {i} : ips'[j] = ips[j]
  BY DEF RenameIp, TablesInv, TablesTypeOK
<1>3. ips'[i] = [ips[i] EXCEPT !.hostname = h]
  BY <1>1, <1>2 DEF TablesInv, TablesTypeOK
<1>4. /\ ips'[i] \in IpRow
      /\ ips'[i].ip = ips[i].ip /\ ips'[i].subnet = n /\ ips'[i].hostname = h
  BY <1>1, <1>3 DEF IpRow
<1>5. ips'[i] \notin NoRow
  BY <1>4, RowsAreNotMarks
<1>6. [e EXCEPT !.hostname = h] = [id |-> i, ip |-> ips'[i].ip, hostname |-> ips'[i].hostname]
  BY <1>4
<1>7. ListOf(ips', n) = (ListOf(ips, n) \ {e}) \cup {[e EXCEPT !.hostname = h]}
  <2> DEFINE rest == {j \in IpIds \ {i} : ips[j] \notin NoRow /\ ips[j].subnet = n}
  <2>1. ListOf(ips, n) = {[id |-> j, ip |-> ips[j].ip, hostname |-> ips[j].hostname] : j \in rest}
                            \cup {e}
    BY <1>1 DEF ListOf
  <2>2. ListOf(ips', n) = {[id |-> j, ip |-> ips[j].ip, hostname |-> ips[j].hostname] : j \in rest}
                             \cup {[e EXCEPT !.hostname = h]}
    BY <1>1, <1>2, <1>4, <1>5, <1>6 DEF ListOf
  <2>3. i \notin rest
    OBVIOUS
  <2> HIDE DEF rest
  <2>4. e \notin {[id |-> j, ip |-> ips[j].ip, hostname |-> ips[j].hostname] : j \in rest}
    BY <2>3
  <2>5. QED
    BY <2>1, <2>2, <2>4
<1>8. ASSUME NEW o \in SubnetIds \ {n}
      PROVE  ListOf(ips', o) = ListOf(ips, o)
  BY <1>1, <1>2, <1>4 DEF ListOf
<1>9. QED
  BY <1>7, <1>8

LEMMA UpdateIpUndisturbed ==
    ASSUME BaseInv, NEW m \in Importers, UndisturbedInv(m), UpdateIp(m)
    PROVE  UndisturbedInv(m)'
<1> USE DEF BaseInv
<1>1. pc[m] = "update_ip" /\ Working(m)
  BY DEF UpdateIp, Working
<1>2. /\ SubnetOf(m) # Nil /\ SubnetOf(m) \in SubnetIds /\ SiteOf(m) # Nil
      /\ IpsOf(m) # Nil /\ IpsOf(m) \in SUBSET Entry
      /\ rowNumber[m] <= Len(file[m]) /\ rowNumber[m] <= MaxRows
  BY <1>1, WorkingFacts DEF AtAddress, RowInv
<1>3. /\ SitesKnown(m) /\ SubnetsKnown(m) /\ IpsKnown(m)
      /\ Accepted(Current(m))
      /\ SiteOf(m) \in LiveSites /\ sites[SiteOf(m)] = Current(m).site
      /\ SubnetOf(m) = Newest(<<SiteOf(m), Current(m).cidr>>)
  BY <1>1, <1>2, WorkingKnown
<1>4. PICK row \in Row : row = Current(m)
  BY <1>1, WorkingKnown
<1>5. PICK e \in Entry : e = TheExisting(m)
  BY <1>1, ExistingTypes
<1>6. /\ e \in ListOf(ips, SubnetOf(m)) /\ e.id \in LiveIps
      /\ ips[e.id].subnet = SubnetOf(m) /\ ips[e.id].ip = row.ip
      /\ ips[e.id].hostname = e.hostname
  BY <1>1, <1>4, <1>5, ExistingKnown
<1>7. PICK i \in LiveIps : i = e.id
  BY <1>6
<1>8. PICK updated : updated = [e EXCEPT !.hostname = row.hostname]
  OBVIOUS
<1>9. /\ RenameIp(i, row.hostname)
      /\ Keep(m, (IpsOf(m) \ {e}) \cup {updated})
      /\ RowEnds(m) /\ Counts(m, "updated")
  BY <1>4, <1>5, <1>6, <1>7, <1>8 DEF UpdateIp
<1>10. PICK n \in SubnetIds : n = SubnetOf(m)
  BY <1>2
<1>11. row.hostname \in Hostnames /\ e = [id |-> i, ip |-> ips[i].ip, hostname |-> ips[i].hostname]
  BY <1>6, <1>7, ListedRows DEF Row
<1>12. /\ ListOf(ips', n) = (ListOf(ips, n) \ {e}) \cup {updated}
       /\ \A o \in SubnetIds \ {n} : ListOf(ips', o) = ListOf(ips, o)
  BY <1>6, <1>7, <1>8, <1>9, <1>10, <1>11, ListRenamed
<1>13. PICK entries \in SUBSET Entry : entries = (IpsOf(m) \ {e}) \cup {updated}
  <2>1. updated \in Entry
    BY <1>8, <1>11 DEF Entry
  <2>2. QED
    BY <1>2, <2>1
<1>14. IpsOf(m) = ListOf(ips, n)
  BY <1>2, <1>3, <1>10, IpsOfKnown
<1>15. UNCHANGED <<sites, subnets, file>> /\ LiveSites' = LiveSites /\ listed'[m] = Nil
  BY <1>2, <1>9, RowEndsTypes DEF RenameIp, LiveSites
<1>16. siteByName' = siteByName /\ subnetByKey' = subnetByKey
  BY <1>9 DEF Keep
<1>17. IpsKnown(m)'
  <2>1. entries = ListOf(ips', SubnetOf(m))
    BY <1>10, <1>12, <1>13, <1>14
  <2>2. Keep(m, entries)
    BY <1>9, <1>13
  <2>3. QED
    BY <1>2, <1>3, <1>10, <1>12, <1>15, <2>1, <2>2, IpsKept
<1>18. SitesKnown(m)'
  BY <1>3, <1>15, <1>16 DEF SitesKnown
<1>19. SubnetsKnown(m)'
  <2>1. \A k \in Keys : Newest(k)' = Newest(k)
    BY <1>15, NewestUnchanged
  <2>2. QED
    BY <1>3, <1>16, <2>1 DEF SubnetsKnown
<1>20. \A r \in Row : Held(r) /\ ~SameAddress(row, r) => Held(r)'
  BY <1>2, <1>3, <1>4, <1>6, <1>7, <1>9, HeldAfterRename
<1>21. Held(row)'
  <2>1. PICK s \in LiveSites : s = SiteOf(m)
    BY <1>3
  <2>2. Newest(<<s, row.cidr>>)' = Newest(<<s, row.cidr>>)
    BY <1>15, NewestUnchanged
  <2>3. i \in IpIds /\ ips[i] \in IpRow
    BY LiveRows DEF LiveIps, TablesInv
  <2>4. ips'[i] = [ips[i] EXCEPT !.hostname = row.hostname]
    BY <1>9, <2>3 DEF RenameIp, TablesInv, TablesTypeOK
  <2>5. /\ ips'[i] \in IpRow
        /\ ips'[i].ip = ips[i].ip /\ ips'[i].subnet = ips[i].subnet
        /\ ips'[i].hostname = row.hostname
    BY <1>11, <2>3, <2>4 DEF IpRow
  <2>6. i \in LiveIps'
    BY <2>3, <2>5, RowsAreNotMarks DEF LiveIps
  <2>7. s \in LiveSites' /\ sites'[s] = row.site
    BY <1>3, <1>4, <1>15, <2>1
  <2>8. ips'[i].subnet = Newest(<<s, row.cidr>>)' /\ ips'[i].ip = row.ip
    BY <1>3, <1>4, <1>6, <1>7, <2>1, <2>2, <2>5
  <2>9. QED
    BY <2>5, <2>6, <2>7, <2>8 DEF Held
<1>22. result'[m].failed = result[m].failed
  BY <1>9 DEF Counts, LocalsTypeOK
<1>23. QED
  BY <1>1, <1>2, <1>3, <1>4, <1>9, <1>17, <1>18, <1>19, <1>20, <1>21, <1>22, NextRowUndisturbed

LEMMA InsertTheIpUndisturbed ==
    ASSUME BaseInv, NEW m \in Importers, UndisturbedInv(m), InsertTheIp(m)
    PROVE  UndisturbedInv(m)'
<1> USE DEF BaseInv
<1>1. pc[m] = "insert_ip" /\ Working(m)
  BY DEF InsertTheIp, Working
<1>2. /\ SubnetOf(m) # Nil /\ SubnetOf(m) \in SubnetIds /\ SiteOf(m) # Nil
      /\ IpsOf(m) # Nil /\ IpsOf(m) \in SUBSET Entry /\ Existing(m) = {}
      /\ rowNumber[m] <= Len(file[m]) /\ rowNumber[m] <= MaxRows
  BY <1>1, WorkingFacts DEF AtAddress, RowInv
<1>3. /\ SitesKnown(m) /\ SubnetsKnown(m) /\ IpsKnown(m)
      /\ Accepted(Current(m)) /\ SubnetOf(m) \in LiveSubnets
      /\ SiteOf(m) \in LiveSites /\ sites[SiteOf(m)] = Current(m).site
      /\ SubnetOf(m) = Newest(<<SiteOf(m), Current(m).cidr>>)
  BY <1>1, <1>2, WorkingKnown
<1>4. PICK row \in Row : row = Current(m)
  BY <1>1, WorkingKnown
<1>5. PICK n \in SubnetIds : n = SubnetOf(m)
  BY <1>2
<1>6. IpsOf(m) = ListOf(ips, n)
  BY <1>2, <1>3, <1>5, IpsOfKnown
<1>7. ~AddressTaken(row.ip, n)
  <2> SUFFICES ASSUME NEW j \in LiveIps, ips[j].ip = row.ip, ips[j].subnet = n PROVE FALSE
    BY DEF AddressTaken
  <2>1. [id |-> j, ip |-> ips[j].ip, hostname |-> ips[j].hostname] \in ListOf(ips, n)
    BY ListedRows
  <2>2. QED
    BY <1>2, <1>4, <1>6, <2>1 DEF Existing
<1>8. PICK i \in IpIds :
         /\ InsertIp(i, row.ip, row.hostname, n)
         /\ Keep(m, IpsOf(m) \cup {[id |-> i, ip |-> row.ip, hostname |-> row.hostname]})
         /\ RowEnds(m) /\ Counts(m, "created")
  BY <1>3, <1>4, <1>5, <1>7 DEF InsertTheIp
<1>9. row.ip \in Addresses /\ row.hostname \in Hostnames
  BY DEF Row
<1>10. /\ ListOf(ips', n)
             = ListOf(ips, n) \cup {[id |-> i, ip |-> row.ip, hostname |-> row.hostname]}
       /\ \A o \in SubnetIds \ {n} : ListOf(ips', o) = ListOf(ips, o)
  BY <1>8, <1>9, ListInserted
<1>11. PICK entries \in SUBSET Entry :
          entries = IpsOf(m) \cup {[id |-> i, ip |-> row.ip, hostname |-> row.hostname]}
  <2>1. [id |-> i, ip |-> row.ip, hostname |-> row.hostname] \in Entry
    BY <1>9 DEF Entry
  <2>2. IpsOf(m) \subseteq Entry
    BY <1>2
  <2>3. QED
    BY <2>1, <2>2
<1>12. UNCHANGED <<sites, subnets, file>> /\ LiveSites' = LiveSites /\ listed'[m] = Nil
  BY <1>2, <1>8, RowEndsTypes DEF InsertIp, LiveSites
<1>13. siteByName' = siteByName /\ subnetByKey' = subnetByKey
  BY <1>8 DEF Keep
<1>14. IpsKnown(m)'
  <2>1. entries = ListOf(ips', SubnetOf(m))
    BY <1>5, <1>6, <1>10, <1>11
  <2>2. Keep(m, entries)
    BY <1>8, <1>11
  <2>3. QED
    BY <1>2, <1>3, <1>5, <1>10, <1>12, <2>1, <2>2, IpsKept
<1>15. SitesKnown(m)'
  BY <1>3, <1>12, <1>13 DEF SitesKnown
<1>16. SubnetsKnown(m)'
  <2>1. \A k \in Keys : Newest(k)' = Newest(k)
    BY <1>12, NewestUnchanged
  <2>2. QED
    BY <1>3, <1>13, <2>1 DEF SubnetsKnown
<1>17. \A r \in Row : Held(r) => Held(r)'
  BY <1>8, HeldAfterIp
<1>18. Held(row)'
  <2>1. PICK s \in LiveSites : s = SiteOf(m)
    BY <1>3
  <2>2. Newest(<<s, row.cidr>>)' = Newest(<<s, row.cidr>>)
    BY <1>12, NewestUnchanged
  <2>3. ips'[i] = [ip |-> row.ip, hostname |-> row.hostname, subnet |-> n]
    BY <1>8 DEF InsertIp, TablesInv, TablesTypeOK
  <2>4. i \in LiveIps'
    <3>1. ips'[i] \in IpRow
      BY <1>9, <2>3 DEF IpRow
    <3>2. QED
      BY <3>1, RowsAreNotMarks DEF LiveIps
  <2>5. s \in LiveSites' /\ sites'[s] = row.site
    BY <1>3, <1>4, <1>12, <2>1
  <2>6. ips'[i].subnet = Newest(<<s, row.cidr>>)'
    BY <1>3, <1>4, <1>5, <2>1, <2>2, <2>3
  <2>7. QED
    BY <2>3, <2>4, <2>5, <2>6 DEF Held
<1>19. result'[m].failed = result[m].failed
  BY <1>8 DEF Counts, LocalsTypeOK
<1>20. QED
  BY <1>1, <1>2, <1>3, <1>4, <1>8, <1>14, <1>15, <1>16, <1>17, <1>18, <1>19, NextRowUndisturbed
-----------------------------------------------------------------------------
(* The undisturbed imports among the others.                               *)

\* Who writes disturbs all others, and only its own start ends that for an
\* import.
LEMMA DisturbedStep ==
    ASSUME LocalsTypeOK, NEW m \in Importers, Step(m)
    PROVE  /\ UNCHANGED tables \/ Importers \ {m} \subseteq disturbed'
           /\ disturbed \ {m} \subseteq disturbed'
           /\ ~Start(m) => disturbed \subseteq disturbed'
           /\ StatementFails(m) \/ ImportEnds(m) => m \in disturbed'
           /\ \A q \in Importers \ {m} : result'[q] = result[q]
<1>1. UNCHANGED tables \/ Importers \ {m} \subseteq disturbed'
  BY DEF Step, Start, ListSites, ListSubnets, ReadRow, CreateSite, InsertTheSubnet, ReadBack,
         ListIPs, FindIp, UpdateIp, FindSubnet, InsertTheIp, StatementFails, ImportEnds,
         ReadOnly, Writes
<1>2. disturbed \ {m} \subseteq disturbed'
  BY DEF Step, Start, ListSites, ListSubnets, ReadRow, CreateSite, InsertTheSubnet, ReadBack,
         ListIPs, FindIp, UpdateIp, FindSubnet, InsertTheIp, StatementFails, ImportEnds,
         ReadOnly, Writes
<1>3. ~Start(m) => disturbed \subseteq disturbed'
  BY DEF Step, ListSites, ListSubnets, ReadRow, CreateSite, InsertTheSubnet, ReadBack,
         ListIPs, FindIp, UpdateIp, FindSubnet, InsertTheIp, StatementFails, ImportEnds,
         ReadOnly, Writes
<1>4. StatementFails(m) \/ ImportEnds(m) => m \in disturbed'
  BY DEF StatementFails, ImportEnds
<1>5. ASSUME NEW q \in Importers \ {m} PROVE result'[q] = result[q]
  <2>1. \/ UNCHANGED result \/ result' = [result EXCEPT ![m] = NoResult]
        \/ Counts(m, "created") \/ Counts(m, "updated") \/ Counts(m, "failed")
    BY DEF Step, Start, ListSites, ListSubnets, ReadRow, CreateSite, InsertTheSubnet, ReadBack,
           ListIPs, FindIp, UpdateIp, FindSubnet, InsertTheIp, StatementFails, ImportEnds,
           RowFails, Forget, locals
  <2>2. QED
    BY <2>1 DEF Counts, LocalsTypeOK
<1>6. QED
  BY <1>1, <1>2, <1>3, <1>4, <1>5

LEMMA SameUndisturbed ==
    ASSUME NEW q \in Importers, UndisturbedInv(q), UNCHANGED tables,
           SameImport(q), result'[q] = result[q]
    PROVE  UndisturbedInv(q)'
<1>1. /\ SubnetOf(q)' = SubnetOf(q) /\ UNCHANGED ips
      /\ pc'[q] = pc[q] /\ rowNumber'[q] = rowNumber[q] /\ file'[q] = file[q]
  BY DEF SameImport, SubnetOf, KeyOf, SiteOf, Current, tables
<1>2. PICK last : last = IF pc[q] = "idle" THEN Len(file[q]) ELSE rowNumber[q] - 1
  OBVIOUS
<1>3. RowsDone(q, last)'
  BY <1>1, <1>2, RowsDoneQuiet DEF UndisturbedInv
<1>4. /\ SitesKnown(q) => SitesKnown(q)'
      /\ SubnetsKnown(q) => SubnetsKnown(q)'
      /\ IpsKnown(q) => IpsKnown(q)'
  BY <1>1, KnownUnchanged, IpsUnchanged DEF SameImport
<1>5. QED
  BY <1>1, <1>2, <1>3, <1>4, UndisturbedAfter DEF UndisturbedInv

LEMMA NoListsStep ==
    ASSUME BaseInv, NEW m \in Importers, NoLists(m), Step(m)
    PROVE  NoLists(m)'
<1> USE DEF BaseInv, LocalsTypeOK
<1>1. CASE Start(m) \/ ListSites(m)
  BY <1>1 DEF Start, ListSites, Goto, NoLists, caches
<1>2. CASE End(m)
  BY <1>2 DEF End, Goto, NoLists
<1>3. CASE pc'[m] \notin {"idle", "sites", "subnets"}
  BY <1>3 DEF NoLists
<1>4. CASE RowEnds(m) \/ (\E label \in Labels \ {"idle", "sites", "subnets"} : Goto(m, label))
  BY <1>3, <1>4 DEF RowEnds, Goto
<1>5. QED
  BY <1>1, <1>2, <1>4
     DEF Step, ListSubnets, ReadRow, CreateSite, InsertTheSubnet, ReadBack, ListIPs, FindIp,
         UpdateIp, FindSubnet, InsertTheIp, StatementFails, ImportEnds, RowFails, Forget, Labels

LEMMA UndisturbedStep ==
    ASSUME ImportInv, NEW m \in Importers, Step(m), m \notin disturbed'
    PROVE  UndisturbedInv(m)'
<1>1. BaseInv /\ NoLists(m)
  BY DEF ImportInv, MapInv
<1>2. CASE Start(m)
  BY <1>1, <1>2, StartUndisturbed
<1>3. CASE ~Start(m)
  <2>1. m \notin disturbed /\ ~StatementFails(m) /\ ~ImportEnds(m)
    BY <1>1, <1>3, DisturbedStep DEF BaseInv
  <2>2. UndisturbedInv(m)
    BY <2>1 DEF ImportInv
  <2>3. QED
    BY <1>1, <1>3, <2>1, <2>2, ListUndisturbed, ReadRowUndisturbed, CreateSiteUndisturbed,
       InsertTheSubnetUndisturbed, FoundUndisturbed, ListIPsUndisturbed, UpdateIpUndisturbed,
       InsertTheIpUndisturbed DEF Step
<1>4. QED
  BY <1>2, <1>3

LEMMA ImportInvInit == Init => ImportInv
<1> SUFFICES ASSUME Init PROVE ImportInv
  OBVIOUS
<1>1. ASSUME NEW m \in Importers
      PROVE  NoLists(m) /\ UndisturbedInv(m)
  <2>1. /\ pc[m] = "idle" /\ ipsBySubnet[m] = NoIps /\ file[m] = <<>> /\ result[m] = NoResult
    BY DEF Init
  <2>2. PICK f : f = file[m]
    OBVIOUS
  <2>3. Len(f) = 0 /\ result[m].failed = 0
    BY <2>1, <2>2 DEF NoResult
  <2>4. Cardinality(Refused(f, 0)) = 0
    BY RefusedRows
  <2>5. RowsDone(m, Len(file[m]))
    BY <2>2, <2>3, <2>4 DEF RowsDone
  <2>6. QED
    BY <2>1, <2>5 DEF NoLists, UndisturbedInv
<1>2. QED
  BY <1>1, MapInvInit DEF ImportInv

LEMMA ImportInvStep == ImportInv /\ [Next]_vars => ImportInv'
<1> SUFFICES ASSUME ImportInv, [Next]_vars PROVE ImportInv'
  OBVIOUS
<1>1. MapInv /\ MapInv' /\ BaseInv /\ LocalsTypeOK
  BY MapInvStep DEF ImportInv, MapInv, BaseInv
<1>2. ASSUME NEW m \in Importers, Step(m)
      PROVE  ImportInv'
  <2>1. \A q \in Importers \ {m} : SameImport(q)
    BY <1>1, <1>2, StepDoes DEF StepResult
  <2>2. ASSUME NEW q \in Importers
        PROVE  NoLists(q)'
    <3>1. NoLists(q)
      BY DEF ImportInv
    <3>2. CASE q = m
      BY <1>1, <1>2, <3>1, <3>2, NoListsStep
    <3>3. CASE q # m
      BY <2>1, <3>1, <3>3 DEF SameImport, NoLists
    <3>4. QED
      BY <3>2, <3>3
  <2>3. ASSUME NEW q \in Importers, q \notin disturbed'
        PROVE  UndisturbedInv(q)'
    <3>1. CASE q = m
      BY <1>2, <2>3, <3>1, UndisturbedStep
    <3>2. CASE q # m
      <4>1. UNCHANGED tables /\ q \notin disturbed /\ result'[q] = result[q]
        BY <1>1, <1>2, <2>3, <3>2, DisturbedStep
      <4>2. UndisturbedInv(q) /\ SameImport(q)
        BY <2>1, <3>2, <4>1 DEF ImportInv
      <4>3. QED
        BY <4>1, <4>2, SameUndisturbed
    <3>3. QED
      BY <3>1, <3>2
  <2>4. QED
    BY <1>1, <2>2, <2>3 DEF ImportInv
<1>3. CASE OtherRequest \/ UNCHANGED vars
  <2>1. \A q \in Importers : SameImport(q) /\ result'[q] = result[q]
    BY <1>3 DEF OtherRequest, vars, SameImport, locals, caches
  <2>2. \A q \in Importers : NoLists(q)'
    BY <2>1 DEF ImportInv, SameImport, NoLists
  <2>3. ASSUME NEW q \in Importers \ disturbed'
        PROVE  UndisturbedInv(q)'
    <3>1. UNCHANGED tables /\ q \notin disturbed
      BY <1>3, <2>3 DEF OtherRequest, vars
    <3>2. UndisturbedInv(q)
      BY <3>1 DEF ImportInv
    <3>3. QED
      BY <2>1, <3>1, <3>2, SameUndisturbed
  <2>4. QED
    BY <1>1, <2>2, <2>3 DEF ImportInv
<1>4. QED
  BY <1>2, <1>3 DEF Next

LEMMA ImportInvAlways == Spec => []ImportInv
  BY ImportInvInit, ImportInvStep, PTL DEF Spec

\* ImportCSV: an import that ran to its end with no failure and no other
\* writer has put every acceptable row of any file in the tables, whatever
\* they held when it started, and reports just the others as failed.
THEOREM ImportsAreComplete == Spec => []ImportIsComplete
<1>1. ImportInv => ImportIsComplete
  <2> SUFFICES ASSUME ImportInv, NEW m \in Importers \ disturbed, pc[m] = "idle"
               PROVE  /\ \A r \in Effective(file[m]) : Held(r)
                      /\ result[m].failed =
                            Cardinality({k \in 1 .. Len(file[m]) :
                                            k <= MaxRows /\ ~Accepted(file[m][k])})
    BY DEF ImportIsComplete
  <2>1. RowsDone(m, Len(file[m]))
    BY DEF ImportInv, UndisturbedInv
  <2>2. ASSUME NEW r \in Effective(file[m])
        PROVE  Held(r)
    <3>1. PICK j \in 1 .. Len(file[m]) : r = file[m][j] /\ Counted(file[m], j, Len(file[m]))
      BY DEF Effective, Counted
    <3>2. QED
      BY <2>1, <3>1 DEF RowsDone
  <2>3. QED
    BY <2>1, <2>2 DEF RowsDone, Refused
<1>2. QED
  BY <1>1, ImportInvAlways, PTL

\* In a file without contradictory rows every acceptable row counts: it is the
\* last for its address, or the same as the last.
LEMMA ConsistentRowsCount ==
    ASSUME NEW f \in Seq(Row), NEW n \in 1 .. Len(f), n <= MaxRows, Accepted(f[n]),
           \A j, k \in 1 .. Len(f) : SameAddress(f[j], f[k]) => f[j] = f[k]
    PROVE  f[n] \in Effective(f)
<1> DEFINE S == {k \in 1 .. Len(f) : k <= MaxRows /\ SameAddress(f[k], f[n])}
<1>1. S \in SUBSET Nat /\ n \in S /\ Len(f) \in Nat /\ \A k \in S : k <= Len(f)
  BY DEF SameAddress
<1>2. PICK last \in S : \A k \in S : k <= last
  <2> HIDE DEF S
  <2>1. S # {}
    BY <1>1
  <2>2. QED
    BY <1>1, <2>1, GreatestOfBounded
<1>3. last \in 1 .. Len(f) /\ last <= MaxRows /\ SameAddress(f[last], f[n])
  OBVIOUS
<1>4. f[last] = f[n]
  BY <1>3
<1>5. ASSUME NEW l \in last + 1 .. Len(f), l <= MaxRows, SameAddress(f[l], f[last])
      PROVE  FALSE
  <2>1. l \in 1 .. Len(f) /\ l > last
    BY <1>3
  <2>2. l \in S
    BY <1>4, <1>5, <2>1
  <2>3. QED
    BY <1>1, <1>2, <1>3, <2>1, <2>2
<1>6. QED
  BY <1>3, <1>4, <1>5 DEF Effective

\* A step that writes finds that its row is not in the tables.
LEMMA WritesOnlyNews ==
    ASSUME ImportInv, NEW m \in Importers \ disturbed, Step(m), ~UNCHANGED tables,
           NEW row, row = Current(m), Held(row)
    PROVE  FALSE
<1> USE DEF ImportInv, MapInv, BaseInv
<1>1. UndisturbedInv(m)
  OBVIOUS
<1>2. PICK s \in LiveSites, i \in LiveIps :
         /\ sites[s] = row.site
         /\ ips[i].subnet = Newest(<<s, row.cidr>>)
         /\ ips[i].ip = row.ip /\ ips[i].hostname = row.hostname
  BY DEF Held
<1>3. ips[i].subnet \in SubnetIds /\ ips[i].subnet # Nil
  BY LiveRows, RowsAreNotMarks DEF TablesInv, LiveIps, IpRow
<1>4. Working(m) => row \in Row /\ SitesKnown(m)
  BY <1>1, WorkingKnown
<1>5. Working(m) /\ pc[m] # "create_site" =>
         /\ SiteOf(m) = s /\ SubnetOf(m) = ips[i].subnet /\ SubnetOf(m) # Nil
  <2> SUFFICES ASSUME Working(m), pc[m] # "create_site"
               PROVE  SiteOf(m) = s /\ SubnetOf(m) = ips[i].subnet /\ SubnetOf(m) # Nil
    OBVIOUS
  <2>1. SiteOf(m) = s
    BY <1>2, <1>4, SiteByName DEF SiteOf, Row
  <2>2. SiteOf(m) # Nil
    BY WorkingFacts
  <2>3. SubnetOf(m) = Newest(<<SiteOf(m), row.cidr>>)
    BY <1>1, <2>2, WorkingKnown
  <2>4. QED
    BY <1>2, <1>3, <2>1, <2>3
<1>6. ~CreateSite(m)
  <2> SUFFICES ASSUME CreateSite(m) PROVE FALSE
    OBVIOUS
  <2>1. PICK t \in SiteIds : InsertSite(t, row.site)
    BY DEF CreateSite, ReadOnly
  <2>2. s # t
    BY <2>1 DEF InsertSite, LiveSites, NoRow
  <2>3. QED
    BY <1>2, <2>1, <2>2 DEF InsertSite, NameTaken
<1>7. ~InsertTheSubnet(m)
  <2> SUFFICES ASSUME InsertTheSubnet(m) PROVE FALSE
    OBVIOUS
  <2>1. pc[m] = "insert_subnet" /\ Working(m)
    BY DEF InsertTheSubnet, Working
  <2>2. SubnetOf(m) = Nil
    BY <2>1 DEF RowInv
  <2>3. QED
    BY <1>5, <2>1, <2>2
<1>8. ~UpdateIp(m)
  <2> SUFFICES ASSUME UpdateIp(m) PROVE FALSE
    OBVIOUS
  <2>1. pc[m] = "update_ip" /\ Working(m)
    BY DEF UpdateIp, Working
  <2>2. TheExisting(m).hostname # row.hostname
    BY <2>1 DEF RowInv
  <2>3. /\ TheExisting(m).id \in LiveIps
        /\ ips[TheExisting(m).id].subnet = SubnetOf(m)
        /\ ips[TheExisting(m).id].ip = row.ip
        /\ ips[TheExisting(m).id].hostname = TheExisting(m).hostname
    BY <1>1, <2>1, ExistingKnown
  <2>4. TheExisting(m).id = i
    BY <1>2, <1>5, <2>1, <2>3 DEF TablesInv, KeysUnique
  <2>5. QED
    BY <1>2, <2>2, <2>3, <2>4
<1>9. ~InsertTheIp(m)
  <2> SUFFICES ASSUME InsertTheIp(m) PROVE FALSE
    OBVIOUS
  <2>1. pc[m] = "insert_ip" /\ Working(m)
    BY DEF InsertTheIp, Working
  <2>2. ~AddressTaken(row.ip, SubnetOf(m))
    BY DEF InsertTheIp, ReadOnly, InsertIp
  <2>3. QED
    BY <1>2, <1>5, <2>1, <2>2 DEF AddressTaken
<1>10. QED
  BY <1>6, <1>7, <1>8, <1>9
     DEF Step, Start, ListSites, ListSubnets, ReadRow, ReadBack, ListIPs, FindIp, FindSubnet,
         StatementFails, ImportEnds, ReadOnly, tables

\* TestCSVImportCreatesHierarchyAndIsIdempotent, for every file and all tables:
\* an import whose rows are all there writes nothing.
THEOREM ImportsAreIdempotent == Spec => Idempotent
<1> DEFINE Again(m) ==
              /\ pc'[m] # pc[m]
              /\ \A j, k \in 1 .. Len(file[m]) :
                    SameAddress(file[m][j], file[m][k]) => file[m][j] = file[m][k]
              /\ \A r \in Effective(file[m]) : Held(r)
<1>1. ASSUME ImportInv, Next, NEW m \in Importers \ disturbed, Again(m)
      PROVE  UNCHANGED tables
  <2>1. Step(m)
    BY <1>1, StepDoes DEF Next, OtherRequest, ImportInv, MapInv, StepResult, SameImport
  <2> SUFFICES ASSUME ~UNCHANGED tables PROVE FALSE
    OBVIOUS
  <2>2. CASE Working(m)
    <3>1. PICK f : f = file[m]
      OBVIOUS
    <3>2. PICK n : n = rowNumber[m]
      OBVIOUS
    <3>0. LocalsTypeOK /\ RowInv(m)
      BY <1>1 DEF ImportInv, MapInv, BaseInv
    <3>3. n <= Len(f) /\ n <= MaxRows /\ Accepted(f[n]) /\ Current(m) = f[n]
      BY <2>2, <3>0, <3>1, <3>2 DEF Current, RowInv
    <3>4. f \in Seq(Row) /\ n \in 1 .. Len(f)
      BY <3>0, <3>1, <3>2, <3>3, RowsOfFile
    <3>5. f[n] \in Effective(f)
      BY <1>1, <3>1, <3>3, <3>4, ConsistentRowsCount
    <3>6. Held(f[n])
      BY <1>1, <3>1, <3>5
    <3>7. QED
      BY <1>1, <2>1, <3>3, <3>6, WritesOnlyNews
  <2>3. CASE ~Working(m)
    BY <2>1, <2>3
       DEF Working, Step, Start, ListSites, ListSubnets, ReadRow, CreateSite, InsertTheSubnet,
           ReadBack, ListIPs, FindIp, UpdateIp, FindSubnet, InsertTheIp, StatementFails,
           ImportEnds, ReadOnly
  <2>4. QED
    BY <2>2, <2>3
<1>2. ImportInv /\ [Next]_vars
        => [\A m \in Importers \ disturbed : Again(m) => UNCHANGED tables]_vars
  BY <1>1
<1>3. QED
  BY <1>2, ImportInvAlways, PTL DEF Spec, Idempotent
=============================================================================
