--------------------------- MODULE CapacityProofs ---------------------------
(***************************************************************************)
(* Capacity for addresses of any width, those of IPv4 and IPv6 among them, *)
(* and any prefixes: the server's count of a subnet's addresses, the       *)
(* addresses it lets in and the list that the browser shows agree, and the *)
(* totals of a site are those of its subnets, however many it has.         *)
(***************************************************************************)
EXTENDS Capacity, FiniteSetTheorems, FunctionTheorems, WellFoundedInduction, TLAPS

-----------------------------------------------------------------------------
(* Prefixes and their ranges.                                              *)

LEMMA ValidPrefix ==
    ASSUME NEW p \in Valid
    PROVE  /\ p.family \in {4, 6}
           /\ p.bits \in 0 .. Width(p.family)
           /\ p.net \in 0 .. 2 ^ p.bits - 1
<1>1. /\ p.family \in {4, 6} /\ p.bits \in 0 .. Width6 /\ p.net \in 0 .. 2 ^ Width6 - 1
      /\ p.net < 2 ^ p.bits /\ p.bits <= Width(p.family)
  BY DEF Valid, Prefixes
<1>2. Width(p.family) \in Nat /\ 2 ^ p.bits \in Nat
  BY <1>1, CapacityConstants, Powers DEF Width, CapacityConstants, Powers
<1>3. QED
  BY <1>1, <1>2

\* The host bits, and the part of the address space that they span.
LEMMA HostPart ==
    ASSUME NEW p \in Valid
    PROVE  /\ HostBits(p) \in 0 .. Width(p.family)
           /\ Width(p.family) \in 0 .. Width6
           /\ 2 ^ HostBits(p) \in Nat \ {0}
           /\ HostBits(p) = 0 => 2 ^ HostBits(p) = 1
           /\ HostBits(p) = 1 => 2 ^ HostBits(p) = 2
           /\ HostBits(p) > 1 => 2 ^ HostBits(p) >= 4
<1> DEFINE h == HostBits(p)
<1>1. Width(p.family) \in 0 .. Width6
  BY CapacityConstants DEF CapacityConstants, Width
<1>2. h \in 0 .. Width(p.family) /\ h \in 0 .. Width6
  BY <1>1, ValidPrefix, CapacityConstants DEF HostBits, CapacityConstants
<1>3. 2 ^ h \in Nat \ {0}
  BY <1>2, CapacityConstants, Powers DEF Powers, CapacityConstants
<1> HIDE DEF h
<1>4. h = 0 => 2 ^ h = 1
  OBVIOUS
<1>5. h = 1 => 2 ^ h = 2
  OBVIOUS
<1>6. ASSUME h > 1 PROVE 2 ^ h >= 4
  <2>1. h - 2 \in 0 .. Width6 /\ 2 \in 0 .. Width6 /\ 2 + (h - 2) = h
    BY <1>2, <1>6, CapacityConstants DEF CapacityConstants
  <2>2. 2 ^ h = 2 ^ 2 * 2 ^ (h - 2) /\ 2 ^ (h - 2) \in Nat \ {0}
    BY <2>1, Powers DEF Powers
  <2>3. 2 ^ 2 = 4
    OBVIOUS
  <2>4. QED
    BY <2>2, <2>3
<1>7. QED
  BY <1>1, <1>2, <1>3, <1>4, <1>5, <1>6 DEF h

\* A network is a range of as many addresses, all within the family's width.
LEMMA Ranges ==
    ASSUME NEW p \in Valid
    PROVE  /\ First(p) \in Nat /\ Last(p) \in Nat
           /\ Last(p) = First(p) + 2 ^ HostBits(p) - 1
           /\ Last(p) < 2 ^ Width(p.family)
           /\ 2 ^ Width(p.family) \in Nat \ {0}
<1> DEFINE h == 2 ^ HostBits(p)
           b == 2 ^ p.bits
           net == p.net
<1>1. p.bits \in 0 .. Width6 /\ HostBits(p) \in 0 .. Width6 /\ Width(p.family) \in 0 .. Width6
  BY ValidPrefix, HostPart, CapacityConstants DEF CapacityConstants
<1>2. h \in Nat \ {0} /\ b \in Nat \ {0} /\ 2 ^ Width(p.family) \in Nat \ {0}
  BY <1>1, Powers DEF Powers
<1>3. 2 ^ Width(p.family) = b * h
  <2>1. p.bits + HostBits(p) = Width(p.family)
    BY <1>1 DEF HostBits
  <2>2. QED
    BY <1>1, <2>1, Powers DEF Powers
<1>4. net \in 0 .. b - 1
  BY ValidPrefix
<1>5. First(p) = net * h /\ Last(p) = First(p) + h - 1
  BY DEF First, Last
<1> HIDE DEF h, b, net
<1>6. net * h \in Nat /\ net * h + h <= b * h
  <2>1. net + 1 <= b /\ net \in Nat
    BY <1>2, <1>4
  <2>2. (net + 1) * h <= b * h
    BY <1>2, <2>1
  <2>3. (net + 1) * h = net * h + h
    BY <1>2, <2>1
  <2>4. net * h \in Nat
    BY <1>2, <2>1
  <2>5. QED
    BY <2>2, <2>3, <2>4
<1>7. QED
  BY <1>2, <1>3, <1>5, <1>6 DEF h

\* As many addresses as numbers.
LEMMA FamilyCardinality ==
    ASSUME NEW f, NEW a \in Int, NEW b \in Int, a <= b + 1
    PROVE  /\ IsFiniteSet({f} \X (a .. b))
           /\ Cardinality({f} \X (a .. b)) = b - a + 1
<1> DEFINE pair == [x \in a .. b |-> <<f, x>>]
<1>1. pair \in Bijection(a .. b, {f} \X (a .. b))
  <2>1. pair \in [a .. b -> {f} \X (a .. b)]
    OBVIOUS
  <2>2. \A x, y \in a .. b : pair[x] = pair[y] => x = y
    OBVIOUS
  <2>3. \A t \in {f} \X (a .. b) : \E x \in a .. b : pair[x] = t
    OBVIOUS
  <2>4. QED
    BY <2>1, <2>2, <2>3, Fun_IsBij
<1>2. IsFiniteSet(a .. b) /\ Cardinality(a .. b) = b - a + 1
  BY FS_Interval
<1>3. ExistsBijection(a .. b, {f} \X (a .. b))
  BY <1>1 DEF ExistsBijection
<1>4. QED
  BY <1>2, <1>3, FS_Bijection
-----------------------------------------------------------------------------
(* The three answers agree.                                                *)

\* What CreateIP lets in is a range too: all of the network, or all but its
\* ends.
LEMMA AcceptedIsRange ==
    ASSUME NEW p \in Valid, ~Host4(p)
    PROVE  Accepted(p) = IF p.family = 4 /\ p.bits # Width4 - 1
                         THEN {4} \X (First(p) + 1 .. Last(p) - 1)
                         ELSE {p.family} \X (First(p) .. Last(p))
<1>1. Accepted(p) \subseteq {p.family} \X (First(p) .. Last(p))
  BY DEF Accepted, Contained
<1>2. First(p) \in Nat /\ Last(p) \in Nat
  BY Ranges
<1>3. CASE p.family = 4 /\ p.bits # Width4 - 1
  BY <1>2, <1>3 DEF Accepted, Accepts, Contained
<1>4. CASE ~(p.family = 4 /\ p.bits # Width4 - 1)
  BY <1>4 DEF Accepted, Accepts, Contained
<1>5. QED
  BY <1>3, <1>4

\* subnetCapacity is how many they are, unless no counter holds it.
LEMMA CapacityCounts ==
    ASSUME NEW p \in Valid
    PROVE  \/ Host4(p)
           \/ subnetCapacity(p) = Cardinality(Accepted(p))
           \/ p.family = 6 /\ HostBits(p) >= CounterBits /\ subnetCapacity(p) = 0
<1> SUFFICES ASSUME ~Host4(p)
             PROVE  \/ subnetCapacity(p) = Cardinality(Accepted(p))
                    \/ p.family = 6 /\ HostBits(p) >= CounterBits /\ subnetCapacity(p) = 0
  OBVIOUS
<1> DEFINE s == 2 ^ HostBits(p)
<1>1. /\ First(p) \in Nat /\ Last(p) = First(p) + s - 1 /\ s \in Nat \ {0}
      /\ HostBits(p) = 1 => s = 2
      /\ HostBits(p) > 1 => s >= 4
  BY Ranges, HostPart
<1>2. HostBits(p) = Width(p.family) - p.bits /\ HostBits(p) \in Nat /\ p.bits \in Nat
  BY HostPart, ValidPrefix, CapacityConstants DEF HostBits, CapacityConstants, Width
<1>3. p.family \in {4, 6}
  BY ValidPrefix
<1> HIDE DEF s
<1>4. CASE p.family = 4 /\ p.bits # Width4 - 1
  <2>1. p.bits < Width4 - 1 /\ HostBits(p) > 1
    BY <1>2, <1>4, CapacityConstants DEF Host4, Width, CapacityConstants
  <2>2. subnetCapacity(p) = s - 2
    BY <1>2, <1>4, <2>1, CapacityConstants DEF subnetCapacity, s, CapacityConstants
  <2>3. Cardinality({4} \X (First(p) + 1 .. Last(p) - 1)) = s - 2
    <3>1. /\ First(p) + 1 \in Int /\ Last(p) - 1 \in Int
          /\ First(p) + 1 <= Last(p) - 1 + 1
          /\ Last(p) - 1 - (First(p) + 1) + 1 = s - 2
      BY <1>1, <2>1
    <3>2. QED
      BY <3>1, FamilyCardinality
  <2>4. QED
    BY <1>4, <2>2, <2>3, AcceptedIsRange
<1>5. Cardinality({p.family} \X (First(p) .. Last(p))) = s
  <2>1. /\ First(p) \in Int /\ Last(p) \in Int
        /\ First(p) <= Last(p) + 1 /\ Last(p) - First(p) + 1 = s
    BY <1>1
  <2>2. QED
    BY <2>1, FamilyCardinality
<1>6. CASE p.family = 4 /\ p.bits = Width4 - 1
  <2>1. HostBits(p) = 1
    BY <1>2, <1>6, CapacityConstants DEF Width, CapacityConstants
  <2>2. subnetCapacity(p) = 2
    BY <1>2, <1>6, CapacityConstants DEF subnetCapacity, CapacityConstants
  <2>3. QED
    BY <1>1, <1>5, <1>6, <2>1, <2>2, AcceptedIsRange
<1>7. CASE p.family = 6 /\ HostBits(p) < CounterBits
  <2>1. subnetCapacity(p) = s
    BY <1>2, <1>7, CapacityConstants DEF subnetCapacity, s, CapacityConstants
  <2>2. Accepted(p) = {p.family} \X (First(p) .. Last(p))
    BY <1>7, AcceptedIsRange
  <2>3. QED
    BY <1>5, <2>1, <2>2
<1>8. CASE p.family = 6 /\ HostBits(p) >= CounterBits
  BY <1>2, <1>8, CapacityConstants DEF subnetCapacity, CapacityConstants
<1>9. QED
  BY <1>2, <1>3, <1>4, <1>6, <1>7, <1>8, CapacityConstants DEF CapacityConstants

\* The arithmetic of the browser stays within its unsigned numbers.
LEMMA UnsignedIsExact ==
    ASSUME NEW x \in Nat, x < 2 ^ Width4, 2 ^ Width4 \in Nat \ {0}
    PROVE  Unsigned(x) = x
  BY DEF Unsigned

\* The addresses that it shows are those of the network, but for the ends of
\* any that has more than two.
LEMMA ShownIsRange ==
    ASSUME NEW p \in Valid, p.family = 4
    PROVE  LET d == IF p.bits < Width4 - 1 THEN 1 ELSE 0 IN
           /\ Shown(p).addresses = {4} \X (First(p) + d .. Last(p) - d)
           /\ Shown(p).count = Last(p) - First(p) + 1 - 2 * d
           /\ First(p) + d <= Last(p) - d
<1> DEFINE s == 2 ^ HostBits(p)
           d == IF p.bits < Width4 - 1 THEN 1 ELSE 0
           first == Unsigned(First(p) + d)
<1>1. /\ First(p) \in Nat /\ Last(p) = First(p) + s - 1 /\ s \in Nat \ {0}
      /\ HostBits(p) > 1 => s >= 4
      /\ Last(p) < 2 ^ Width4 /\ 2 ^ Width4 \in Nat \ {0}
  BY Ranges, HostPart DEF Width
<1>2. HostBits(p) = Width4 - p.bits /\ p.bits \in Nat /\ Width4 \in Nat
  BY ValidPrefix, CapacityConstants DEF HostBits, Width, CapacityConstants
<1>3. Shown(p) = [addresses |-> {<<4, Unsigned(first + k)>> : k \in 0 .. s - 2 * d - 1},
                  count |-> s - 2 * d]
  <2>1. CASE p.bits < Width4 - 1
    BY <2>1 DEF Shown
  <2>2. CASE ~(p.bits < Width4 - 1)
    BY <2>2 DEF Shown
  <2>3. QED
    BY <2>1, <2>2
<1> HIDE DEF s
<1>4. d \in {0, 1} /\ s - 2 * d > 0
  BY <1>1, <1>2
<1> HIDE DEF d, first
<1>5. first = First(p) + d
  BY <1>1, <1>4, UnsignedIsExact DEF first
<1>6. \A k \in 0 .. s - 2 * d - 1 : Unsigned(first + k) = First(p) + d + k
  BY <1>1, <1>4, <1>5, UnsignedIsExact
<1>7. {<<4, Unsigned(first + k)>> : k \in 0 .. s - 2 * d - 1}
      = {4} \X (First(p) + d .. Last(p) - d)
  <2>1. \A k \in 0 .. s - 2 * d - 1 :
           <<4, Unsigned(first + k)>> \in {4} \X (First(p) + d .. Last(p) - d)
    BY <1>1, <1>4, <1>6
  <2>2. ASSUME NEW x \in First(p) + d .. Last(p) - d
        PROVE  \E k \in 0 .. s - 2 * d - 1 : <<4, x>> = <<4, Unsigned(first + k)>>
    <3>1. x - (First(p) + d) \in 0 .. s - 2 * d - 1
      BY <1>1, <1>4
    <3>2. Unsigned(first + (x - (First(p) + d))) = x
      BY <1>1, <1>4, <1>6, <3>1
    <3>3. QED
      BY <3>1, <3>2
  <2>3. QED
    BY <2>1, <2>2
<1>8. Shown(p).count = s - 2 * d /\ First(p) + d <= Last(p) - d
  BY <1>1, <1>3, <1>4
<1>9. QED
  BY <1>1, <1>3, <1>4, <1>7, <1>8 DEF d

\* The list has a row for each, and a row for nothing else.
LEMMA ListShows ==
    ASSUME NEW p \in Valid, p.family = 4
    PROVE  /\ Shown(p).count = subnetCapacity(p)
           /\ Cardinality(Shown(p).addresses) = Shown(p).count
           /\ Host4(p) \/ Shown(p).addresses = Accepted(p)
<1> DEFINE s == 2 ^ HostBits(p)
           d == IF p.bits < Width4 - 1 THEN 1 ELSE 0
<1>1. /\ Shown(p).addresses = {4} \X (First(p) + d .. Last(p) - d)
      /\ Shown(p).count = Last(p) - First(p) + 1 - 2 * d
      /\ First(p) + d <= Last(p) - d
  BY ShownIsRange
<1>2. /\ First(p) \in Nat /\ Last(p) \in Nat /\ Last(p) = First(p) + s - 1 /\ s \in Nat \ {0}
      /\ HostBits(p) = 0 => s = 1
      /\ HostBits(p) = 1 => s = 2
  BY Ranges, HostPart
<1>3. HostBits(p) = Width4 - p.bits /\ p.bits \in 0 .. Width4 /\ Width4 \in Nat
  BY ValidPrefix, CapacityConstants DEF HostBits, Width, CapacityConstants
<1> HIDE DEF s
<1>4. Shown(p).count = subnetCapacity(p)
  <2>1. CASE p.bits < Width4 - 1
    BY <1>1, <1>2, <1>3, <2>1 DEF subnetCapacity, s
  <2>2. CASE p.bits = Width4 - 1
    BY <1>1, <1>2, <1>3, <2>2 DEF subnetCapacity
  <2>3. CASE p.bits = Width4
    BY <1>1, <1>2, <1>3, <2>3 DEF subnetCapacity
  <2>4. QED
    BY <1>3, <2>1, <2>2, <2>3
<1>5. Cardinality(Shown(p).addresses) = Shown(p).count
  <2>0. d \in {0, 1}
    OBVIOUS
  <2> HIDE DEF d
  <2>1. /\ First(p) + d \in Int /\ Last(p) - d \in Int /\ First(p) + d <= Last(p) - d + 1
        /\ Last(p) - d - (First(p) + d) + 1 = Last(p) - First(p) + 1 - 2 * d
    <3>1. First(p) \in Int /\ Last(p) \in Int /\ First(p) + d <= Last(p) - d
      BY <1>1, <1>2
    <3>2. QED
      BY <2>0, <3>1
  <2>2. Cardinality({4} \X (First(p) + d .. Last(p) - d)) = Last(p) - d - (First(p) + d) + 1
    BY <2>1, FamilyCardinality
  <2>3. QED
    BY <1>1, <2>1, <2>2
<1>6. ASSUME ~Host4(p) PROVE Shown(p).addresses = Accepted(p)
  <2>1. CASE p.bits < Width4 - 1
    BY <1>1, <1>3, <1>6, <2>1, AcceptedIsRange
  <2>2. CASE p.bits = Width4 - 1
    <3>1. Shown(p).addresses = {4} \X (First(p) .. Last(p))
      BY <1>1, <1>2, <1>3, <2>2
    <3>2. QED
      BY <1>6, <2>2, <3>1, AcceptedIsRange
  <2>3. QED
    BY <1>3, <1>6, <2>1, <2>2 DEF Host4
<1>7. QED
  BY <1>4, <1>5, <1>6
-----------------------------------------------------------------------------
(* They agree wherever requests can take a site.                           *)

LEMMA NoneIsNotOffered == None \notin Offered
  BY OfferedAreValid, ValidPrefix DEF None

LEMMA TypeStep == TypeOK /\ [Next]_vars => TypeOK'
<1> SUFFICES ASSUME TypeOK, [Next]_vars PROVE TypeOK'
  OBVIOUS
<1> USE DEF TypeOK, Live
<1>1. ASSUME NEW n \in Subnets, NEW p \in Offered, CreateSubnet(n, p) \/ UpdateSubnet(n, p)
      PROVE  TypeOK'
  BY <1>1, NoneIsNotOffered DEF CreateSubnet, UpdateSubnet
<1>2. ASSUME NEW n \in Subnets, DeleteSubnet(n)
      PROVE  TypeOK'
  BY <1>2, FS_EmptySet DEF DeleteSubnet
<1>3. ASSUME NEW n \in Subnets, NEW a, CreateIP(n, a)
      PROVE  TypeOK'
  <2>1. a \in UNION {Contained(p) : p \in Offered}
    BY <1>3 DEF CreateIP, Accepts
  <2>2. IsFiniteSet(used[n] \cup {a})
    BY FS_AddElement
  <2>3. QED
    BY <1>3, <2>1, <2>2 DEF CreateIP
<1>4. ASSUME NEW n \in Subnets, NEW a, DeleteIP(n, a)
      PROVE  TypeOK'
  <2>1. IsFiniteSet(used[n] \ {a})
    BY FS_RemoveElement
  <2>2. QED
    BY <1>4, <2>1 DEF DeleteIP
<1>5. CASE UNCHANGED vars
  BY <1>5 DEF vars
<1>6. QED
  BY <1>1, <1>2, <1>3, <1>4, <1>5 DEF Next

\* A subnet that is gone has no addresses left, and every address was of some
\* prefix that its subnet had (site_repository.go, ip_repository.go).
THEOREM TypeCorrect == Spec => []TypeOK
<1>1. Init => TypeOK
  BY FS_EmptySet DEF Init, TypeOK
<1>2. QED
  BY <1>1, TypeStep, PTL DEF Spec

LEMMA LiveIsValid ==
    ASSUME TypeOK, NEW n \in Live
    PROVE  cidr[n] \in Valid
  BY OfferedAreValid DEF TypeOK, Live

\* subnetCapacity (sites_service.go) is the number of addresses that
\* validateIPInSubnet (network_service.go) lets in, for addresses of 32 and 128
\* bits and counters of 63 as for any other, but for IPv4 host prefixes and for
\* IPv6 ranges beyond the counter.
THEOREM CapacityIsTrue == Spec => []CapacityIsWhatIsAccepted
<1>1. TypeOK => CapacityIsWhatIsAccepted
  BY LiveIsValid, CapacityCounts DEF CapacityIsWhatIsAccepted
<1>2. QED
  BY <1>1, TypeCorrect, PTL

\* parseUsableIPv4Cidr (subnet.js) lists these addresses and no others, and its
\* unsigned arithmetic never wraps, whatever the network.
THEOREM ListIsTrue == Spec => []ListFollowsCapacity
<1>1. TypeOK => ListFollowsCapacity
  BY LiveIsValid, ListShows DEF ListFollowsCapacity
<1>2. QED
  BY <1>1, TypeCorrect, PTL
-----------------------------------------------------------------------------
(* Sums.                                                                   *)

\* The element of a set that a fold takes first.
Pick(T) == CHOOSE x \in T : TRUE

\* g has the sum of f over every subset of U.
IsSums(g, f, U) ==
    g = [T \in SUBSET U |-> IF T = {} THEN 0 ELSE f[Pick(T)] + g[T \ {Pick(T)}]]

LEMMA PickIsMember == \A T : T # {} => Pick(T) \in T
  BY DEF Pick

LEMMA LeastSubset ==
    ASSUME NEW U, IsFiniteSet(U), NEW C \in SUBSET SUBSET U, C # {}
    PROVE  \E T \in C : \A V \in SUBSET T : V # T => V \notin C
<1> DEFINE R == StrictSubsetOrdering(U)
<1>1. IsWellFoundedOn(R, SUBSET U)
  BY FS_StrictSubsetOrderingWellFounded, FS_FiniteSubsetsOfFinite
<1>2. PICK T \in C : \A V \in C : <<V, T>> \notin R
  <2> HIDE DEF R
  <2>1. QED
    BY <1>1, WFMin
<1>3. \A V \in SUBSET T : V # T => (V \in C => <<V, T>> \in R)
  BY DEF StrictSubsetOrdering
<1> HIDE DEF R
<1>4. \A V \in SUBSET T : V # T => V \notin C
  BY <1>2, <1>3
<1>5. QED
  BY <1>4

LEMMA SumsAreUnique ==
    ASSUME NEW f, NEW U, IsFiniteSet(U), NEW V \in SUBSET U,
           NEW g, IsSums(g, f, U), NEW h, IsSums(h, f, V)
    PROVE  g[V] = h[V]
<1> DEFINE C == {T \in SUBSET V : g[T] # h[T]}
<1>1. SUFFICES C = {}
  OBVIOUS
<1>2. SUFFICES ASSUME C # {} PROVE FALSE
  OBVIOUS
<1>3. PICK T \in C : \A W \in SUBSET T : W # T => W \notin C
  <2>1. C \in SUBSET SUBSET V /\ IsFiniteSet(V)
    BY FS_Subset
  <2> HIDE DEF C
  <2>2. QED
    BY <1>2, <2>1, LeastSubset
<1>4. T \in SUBSET V /\ T \in SUBSET U
  OBVIOUS
<1>5. g[T] = IF T = {} THEN 0 ELSE f[Pick(T)] + g[T \ {Pick(T)}]
  BY <1>4 DEF IsSums
<1>6. h[T] = IF T = {} THEN 0 ELSE f[Pick(T)] + h[T \ {Pick(T)}]
  BY <1>4 DEF IsSums
<1>7. T # {} => g[T \ {Pick(T)}] = h[T \ {Pick(T)}]
  BY <1>3, <1>4, PickIsMember
<1>8. QED
  BY <1>5, <1>6, <1>7

LEMMA SumsExist ==
    ASSUME NEW f, NEW U, IsFiniteSet(U)
    PROVE  \E g : IsSums(g, f, U)
<1> DEFINE C == {T \in SUBSET U : ~\E g : IsSums(g, f, T)}
<1>1. SUFFICES ASSUME C # {} PROVE FALSE
  OBVIOUS
<1>2. PICK T \in C : \A W \in SUBSET T : W # T => W \notin C
  <2>1. C \in SUBSET SUBSET U
    OBVIOUS
  <2> HIDE DEF C
  <2>2. QED
    BY <1>1, <2>1, LeastSubset
<1>3. IsFiniteSet(T)
  BY FS_Subset
<1> DEFINE sum(W) == (CHOOSE g : IsSums(g, f, W))[W]
           rest(W) == W \ {Pick(W)}
           h == [W \in SUBSET T |-> IF W = {} THEN 0 ELSE f[Pick(W)] + sum(rest(W))]
<1>4. ASSUME NEW W \in SUBSET T, W # T
      PROVE  IsSums(CHOOSE g : IsSums(g, f, W), f, W)
  <2>1. W \in SUBSET U /\ W \notin C
    BY <1>2, <1>4
  <2>2. \E g : IsSums(g, f, W)
    BY <2>1
  <2>3. QED
    BY <2>2
<1>5. ASSUME NEW W \in SUBSET T, W # T
      PROVE  sum(W) = h[W]
  <2> DEFINE s == CHOOSE g : IsSums(g, f, W)
  <2>1. IsSums(s, f, W)
    BY <1>4, <1>5
  <2>2. sum(W) = s[W]
    OBVIOUS
  <2> HIDE DEF s
  <2>3. s[W] = IF W = {} THEN 0 ELSE f[Pick(W)] + s[rest(W)]
    BY <2>1 DEF IsSums
  <2>4. ASSUME W # {}
        PROVE  s[rest(W)] = sum(rest(W))
    <3>1. rest(W) \in SUBSET W /\ rest(W) \in SUBSET T /\ rest(W) # T
      BY <1>5, <2>4, PickIsMember
    <3>2. IsSums(CHOOSE g : IsSums(g, f, rest(W)), f, rest(W))
      BY <1>4, <3>1
    <3>3. IsFiniteSet(W)
      BY <1>3, FS_Subset
    <3>4. QED
      BY <2>1, <3>1, <3>2, <3>3, SumsAreUnique
  <2>5. h[W] = IF W = {} THEN 0 ELSE f[Pick(W)] + sum(rest(W))
    OBVIOUS
  <2> HIDE DEF sum, h, rest
  <2>6. QED
    BY <2>2, <2>3, <2>4, <2>5
<1>6. \A W \in SUBSET T : W # {} => rest(W) \in SUBSET T /\ rest(W) # T
  BY PickIsMember
<1>7. \A W \in SUBSET T : W # {} => sum(rest(W)) = h[rest(W)]
  <2> HIDE DEF sum, h, rest
  <2>1. QED
    BY <1>5, <1>6
<1>8. IsSums(h, f, T)
  <2>1. h = [W \in SUBSET T |-> IF W = {} THEN 0 ELSE f[Pick(W)] + h[rest(W)]]
    <3> HIDE DEF sum, rest
    <3>1. QED
      BY <1>7
  <2> HIDE DEF h
  <2>2. QED
    BY <2>1 DEF IsSums
<1> HIDE DEF h
<1>9. QED
  BY <1>8

Sums(f) == CHOOSE g : IsSums(g, f, DOMAIN f)

LEMMA SumUnfolds ==
    ASSUME NEW f
    PROVE  SumFunction(f) = Sums(f)[DOMAIN f]
  BY DEF SumFunction, SumFunctionOnSet, FoldFunctionOnSet, MapThenFoldSet, Sums, IsSums, Pick

LEMMA SumIsSum ==
    ASSUME NEW f, IsFiniteSet(DOMAIN f)
    PROVE  /\ SumFunction(f) = Sums(f)[DOMAIN f]
           /\ Sums(f)[{}] = 0
           /\ \A T \in SUBSET DOMAIN f :
                 T # {} => /\ Pick(T) \in T
                           /\ Sums(f)[T] = f[Pick(T)] + Sums(f)[T \ {Pick(T)}]
<1>1. \E g : IsSums(g, f, DOMAIN f)
  BY SumsExist
<1>2. IsSums(Sums(f), f, DOMAIN f)
  BY <1>1 DEF Sums
<1>3. {} \in SUBSET DOMAIN f
  OBVIOUS
<1>4. \A T \in SUBSET DOMAIN f :
         Sums(f)[T] = IF T = {} THEN 0 ELSE f[Pick(T)] + Sums(f)[T \ {Pick(T)}]
  BY <1>2 DEF IsSums
<1>5. QED
  BY <1>3, <1>4, SumUnfolds, PickIsMember

LEMMA SumOfNaturals ==
    ASSUME NEW D, IsFiniteSet(D), NEW f \in [D -> Nat]
    PROVE  SumFunction(f) \in Nat
<1> DEFINE C == {T \in SUBSET D : Sums(f)[T] \notin Nat}
<1>1. DOMAIN f = D
  OBVIOUS
<1>2. SUFFICES ASSUME C # {} PROVE FALSE
  BY <1>1, SumIsSum
<1>3. PICK T \in C : \A W \in SUBSET T : W # T => W \notin C
  <2>1. C \in SUBSET SUBSET D
    OBVIOUS
  <2> HIDE DEF C
  <2>2. QED
    BY <1>2, <2>1, LeastSubset
<1>4. CASE T = {}
  BY <1>1, <1>4, SumIsSum
<1>5. CASE T # {}
  <2>1. Pick(T) \in D /\ T \ {Pick(T)} \in SUBSET T /\ T \ {Pick(T)} # T
    BY <1>5, PickIsMember
  <2>2. Sums(f)[T \ {Pick(T)}] \in Nat
    BY <1>3, <2>1
  <2>3. Sums(f)[T] = f[Pick(T)] + Sums(f)[T \ {Pick(T)}]
    BY <1>1, <1>5, SumIsSum
  <2>4. f[Pick(T)] \in Nat
    BY <2>1
  <2>5. QED
    BY <2>2, <2>3, <2>4
<1>6. QED
  BY <1>4, <1>5

LEMMA SumOfSums ==
    ASSUME NEW D, IsFiniteSet(D), NEW f \in [D -> Int], NEW g \in [D -> Int], NEW h \in [D -> Int],
           \A x \in D : h[x] = f[x] + g[x]
    PROVE  SumFunction(h) = SumFunction(f) + SumFunction(g)
<1> DEFINE Agree(T) == /\ Sums(f)[T] \in Int /\ Sums(g)[T] \in Int
                       /\ Sums(h)[T] = Sums(f)[T] + Sums(g)[T]
           C == {T \in SUBSET D : ~Agree(T)}
<1>1. DOMAIN f = D /\ DOMAIN g = D /\ DOMAIN h = D
  OBVIOUS
<1>2. SUFFICES ASSUME C # {} PROVE FALSE
  BY <1>1, SumIsSum
<1>3. PICK T \in C : \A W \in SUBSET T : W # T => W \notin C
  <2>1. C \in SUBSET SUBSET D
    OBVIOUS
  <2> HIDE DEF C
  <2>2. QED
    BY <1>2, <2>1, LeastSubset
<1>4. CASE T = {}
  BY <1>1, <1>4, SumIsSum
<1>5. CASE T # {}
  <2>1. Pick(T) \in D /\ T \ {Pick(T)} \in SUBSET T /\ T \ {Pick(T)} # T
    BY <1>5, PickIsMember
  <2>2. Agree(T \ {Pick(T)})
    BY <1>3, <2>1
  <2>3. /\ Sums(f)[T] = f[Pick(T)] + Sums(f)[T \ {Pick(T)}]
        /\ Sums(g)[T] = g[Pick(T)] + Sums(g)[T \ {Pick(T)}]
        /\ Sums(h)[T] = h[Pick(T)] + Sums(h)[T \ {Pick(T)}]
    BY <1>1, <1>5, SumIsSum
  <2>4. f[Pick(T)] \in Int /\ g[Pick(T)] \in Int /\ h[Pick(T)] = f[Pick(T)] + g[Pick(T)]
    BY <2>1
  <2>5. QED
    BY <2>2, <2>3, <2>4
<1>6. QED
  BY <1>4, <1>5
-----------------------------------------------------------------------------
(* The totals of a site.                                                   *)

\* Only so many subnets have been created.
LiveFinite == IsFiniteSet(Live)

LEMMA LiveFiniteStep == TypeOK /\ LiveFinite /\ [Next]_vars => LiveFinite'
<1> SUFFICES ASSUME TypeOK, LiveFinite, [Next]_vars PROVE LiveFinite'
  OBVIOUS
<1> USE DEF LiveFinite
<1>1. ASSUME NEW n \in Subnets, NEW p \in Offered, CreateSubnet(n, p) \/ UpdateSubnet(n, p)
      PROVE  LiveFinite'
  <2>1. Live' \in SUBSET (Live \cup {n})
    BY <1>1 DEF CreateSubnet, UpdateSubnet, TypeOK, Live
  <2>2. QED
    BY <2>1, FS_AddElement, FS_Subset
<1>2. ASSUME NEW n \in Subnets, DeleteSubnet(n)
      PROVE  LiveFinite'
  <2>1. Live' \in SUBSET Live
    BY <1>2 DEF DeleteSubnet, TypeOK, Live
  <2>2. QED
    BY <2>1, FS_Subset
<1>3. ASSUME UNCHANGED cidr
      PROVE  LiveFinite'
  BY <1>3 DEF Live
<1>4. QED
  BY <1>1, <1>2, <1>3 DEF Next, CreateIP, DeleteIP, vars

LEMMA CapacityIsNatural ==
    ASSUME NEW p \in Valid
    PROVE  subnetCapacity(p) \in Nat
<1> DEFINE s == 2 ^ HostBits(p)
<1>1. s \in Nat \ {0} /\ (HostBits(p) > 1 => s >= 4)
  BY HostPart
<1>2. HostBits(p) = Width(p.family) - p.bits /\ HostBits(p) \in Nat /\ p.bits \in Nat
  BY HostPart, ValidPrefix, CapacityConstants DEF HostBits, CapacityConstants, Width
<1>3. p.family \in {4, 6} /\ (p.family = 4 => p.bits <= Width4)
  BY ValidPrefix DEF Width
<1> HIDE DEF s
<1>4. CASE p.family = 4 /\ p.bits < Width4 - 1
  <2>1. subnetCapacity(p) = s - 2 /\ HostBits(p) > 1
    BY <1>2, <1>4, CapacityConstants DEF subnetCapacity, s, CapacityConstants, Width
  <2>2. QED
    BY <1>1, <2>1
<1>5. CASE p.family = 4 /\ ~(p.bits < Width4 - 1)
  BY <1>2, <1>3, <1>5, CapacityConstants DEF subnetCapacity, CapacityConstants
<1>6. CASE p.family = 6
  BY <1>1, <1>2, <1>6, CapacityConstants DEF subnetCapacity, s, CapacityConstants
<1>7. QED
  BY <1>3, <1>4, <1>5, <1>6

\* A subnet's total has room for the addresses that it has.
LEMMA TotalHoldsUsed ==
    ASSUME TypeOK, NEW n \in Live
    PROVE  /\ SubnetTotal(n) \in Nat /\ Cardinality(used[n]) \in Nat
           /\ Cardinality(used[n]) <= SubnetTotal(n)
<1> DEFINE c == subnetCapacity(cidr[n])
           u == Cardinality(used[n])
<1>1. c \in Nat
  BY LiveIsValid, CapacityIsNatural
<1>2. u \in Nat
  BY FS_CardinalityType DEF TypeOK, Live
<1>3. SubnetTotal(n) = Max({c, u})
  BY DEF SubnetTotal
<1> HIDE DEF c, u
<1>4. Max({c, u}) = IF c >= u THEN c ELSE u
  BY <1>1, <1>2 DEF Max
<1>5. QED
  BY <1>1, <1>2, <1>3, <1>4 DEF u

\* int64 is exact as long as the numbers fit it.
LEMMA SignedIsExact ==
    ASSUME NEW x \in Nat, x < 2 ^ CounterBits
    PROVE  Signed(x) = x
<1> DEFINE b == 2 ^ CounterBits
<1>1. CounterBits \in 0 .. Width6 /\ 1 \in 0 .. Width6 /\ 2 ^ 1 = 2
  BY CapacityConstants DEF CapacityConstants
<1>2. b \in Nat \ {0} /\ 2 ^ (CounterBits + 1) = b * 2
  BY <1>1, Powers DEF Powers
<1>3. Signed(x) = ((x + b) % (b * 2)) - b
  BY <1>2 DEF Signed
<1>4. x < b
  OBVIOUS
<1> HIDE DEF b
<1>5. (x + b) % (b * 2) = x + b
  BY <1>2, <1>4
<1>6. QED
  BY <1>2, <1>3, <1>5

\* What Statistics adds up (sites_service.go), free and used addresses apart
\* and in int64, is the sum of the subnets' totals, and nothing is negative,
\* however many subnets and addresses a site has, as long as the sum fits.
THEOREM SiteTotalIsTrue == Spec => []SiteTotalIsSum
<1>1. ASSUME TypeOK, LiveFinite
      PROVE  SiteTotalIsSum
  <2> DEFINE total == [n \in Live |-> SubnetTotal(n)]
             inUse == [n \in Live |-> Cardinality(used[n])]
             free == [n \in Live |-> SubnetTotal(n) - Cardinality(used[n])]
  <2>1. total \in [Live -> Nat] /\ inUse \in [Live -> Nat] /\ free \in [Live -> Nat]
    BY <1>1, TotalHoldsUsed
  <2>2. \A n \in Live : total[n] = free[n] + inUse[n]
    BY <1>1, TotalHoldsUsed
  <2>3. SiteFree = Signed(SumFunction(free)) /\ SiteUsed = Signed(SumFunction(inUse))
    BY DEF SiteFree, SiteUsed
  <2>4. SiteTotalIsSum <=> (SumFunction(total) < 2 ^ CounterBits
                              => SiteTotal = SumFunction(total) /\ SiteFree >= 0)
    BY DEF SiteTotalIsSum
  <2> HIDE DEF total, inUse, free
  <2>5. IsFiniteSet(Live)
    BY <1>1 DEF LiveFinite
  <2>6. SumFunction(total) \in Nat /\ SumFunction(inUse) \in Nat /\ SumFunction(free) \in Nat
    BY <2>1, <2>5, SumOfNaturals
  <2>7. SumFunction(total) = SumFunction(free) + SumFunction(inUse)
    <3>1. total \in [Live -> Int] /\ inUse \in [Live -> Int] /\ free \in [Live -> Int]
      BY <2>1
    <3>2. QED
      BY <2>2, <2>5, <3>1, SumOfSums
  <2>8. ASSUME SumFunction(total) < 2 ^ CounterBits
        PROVE  SiteTotal = SumFunction(total) /\ SiteFree >= 0
    <3>1. 2 ^ CounterBits \in Nat
      BY CapacityConstants, Powers DEF CapacityConstants, Powers
    <3>2. SumFunction(free) < 2 ^ CounterBits /\ SumFunction(inUse) < 2 ^ CounterBits
      BY <2>6, <2>7, <2>8, <3>1
    <3>3. SiteFree = SumFunction(free) /\ SiteUsed = SumFunction(inUse)
      BY <2>3, <2>6, <3>2, SignedIsExact
    <3>4. Signed(SumFunction(total)) = SumFunction(total)
      BY <2>6, <2>8, SignedIsExact
    <3>5. QED
      BY <2>6, <2>7, <3>3, <3>4 DEF SiteTotal
  <2>9. QED
    BY <2>4, <2>8
<1>2. Init => LiveFinite
  <2>1. Init => Live = {}
    BY DEF Init, Live
  <2>2. QED
    BY <2>1, FS_EmptySet DEF LiveFinite
<1>3. Spec => []LiveFinite
  BY <1>2, LiveFiniteStep, TypeCorrect, PTL DEF Spec
<1>4. QED
  BY <1>1, <1>3, TypeCorrect, PTL
=============================================================================
