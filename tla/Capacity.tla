------------------------------ MODULE Capacity ------------------------------
(***************************************************************************)
(* How many addresses a subnet has room for.  Three pieces of code answer  *)
(* the question, each with arithmetic of its own:                          *)
(*   - validateIPInSubnet decides which addresses CreateIP lets in,        *)
(*   - subnetCapacity computes total_ips of subnets and of sites,          *)
(*   - parseUsableIPv4Cidr lists the addresses the browser shows.          *)
(* The state is the subnets of one site with their addresses, so that the  *)
(* three are compared wherever requests can take a site.                   *)
(*                                                                         *)
(* The widths are parameters: 32, 128 and 63 in the code.                  *)
(***************************************************************************)
EXTENDS Integers, FiniteSets, FiniteSetsExt, Functions

CONSTANTS
    Width4, Width6,  \* bits of an address
    CounterBits,     \* value bits of the signed API counter (int64)
    Subnets,         \* keys of the site's subnets
    Offered,         \* the prefixes that clients ask for
    MaxUsed          \* bound: addresses of the site

ASSUME CapacityConstants ==
    /\ Width4 \in Nat /\ Width6 \in Nat /\ CounterBits \in Nat
    /\ 1 < Width4 /\ Width4 < CounterBits /\ CounterBits < Width6
    /\ MaxUsed \in Nat

\* What proofs use of powers, of which the provers know nothing.
ASSUME Powers ==
    \A j, k \in 0 .. Width6 : 2 ^ j \in Nat \ {0} /\ 2 ^ (j + k) = 2 ^ j * 2 ^ k

Width(family) == IF family = 4 THEN Width4 ELSE Width6

\* A masked netip.Prefix: its first bits, and nothing to the right of them.
Prefixes == {p \in [family : {4, 6}, bits : 0 .. Width6, net : 0 .. 2 ^ Width6 - 1] :
               p.net < 2 ^ p.bits}
Valid == {p \in Prefixes : p.bits <= Width(p.family)}

ASSUME OfferedAreValid == Offered \subseteq Valid

HostBits(p) == Width(p.family) - p.bits
First(p) == p.net * 2 ^ HostBits(p)
Last(p) == First(p) + 2 ^ HostBits(p) - 1

\* All addresses that netip.Prefix.Contains: a netip.Addr has a family.
Contained(p) == {p.family} \X (First(p) .. Last(p))
-----------------------------------------------------------------------------
(* The three answers.                                                      *)

\* Faulty variant of Accepts: the broadcast address is let in.
AcceptsBroadcast(p, a) ==
    /\ a \in Contained(p)
    /\ p.family = 4 /\ p.bits # Width4 - 1 => a[2] # First(p)

\* validateIPInSubnet
Accepts(p, a) ==
    /\ a \in Contained(p)
    /\ p.family = 4 /\ p.bits # Width4 - 1 => a[2] \notin {First(p), Last(p)}

Accepted(p) == {a \in Contained(p) : Accepts(p, a)}

\* Faulty variant of subnetCapacity: /31 is no special case.
CapacityWithoutPointToPoint(p) ==
    CASE p.family = 4 /\ p.bits = Width4 -> 1
      [] p.family = 4 /\ p.bits < Width4 -> 2 ^ HostBits(p) - 2
      [] p.family = 6 /\ HostBits(p) >= CounterBits -> 0
      [] p.family = 6 /\ HostBits(p) < CounterBits -> 2 ^ HostBits(p)

\* subnetCapacity
subnetCapacity(p) ==
    CASE p.family = 4 /\ p.bits = Width4 - 1 -> 2
      [] p.family = 4 /\ p.bits = Width4 -> 1
      [] p.family = 4 /\ p.bits < Width4 - 1 -> 2 ^ HostBits(p) - 2
      [] p.family = 6 /\ HostBits(p) >= CounterBits -> 0
      [] p.family = 6 /\ HostBits(p) < CounterBits -> 2 ^ HostBits(p)

\* parseUsableIPv4Cidr and the window of SubnetDetailView: unsigned numbers
\* of Width4 bits.
Unsigned(x) == x % 2 ^ Width4
Shown(p) ==
    LET count == 2 ^ HostBits(p)
        reserved == IF p.bits < Width4 - 1 THEN 2 ELSE 0
        first == Unsigned(First(p) + IF reserved = 0 THEN 0 ELSE 1)
    IN  [addresses |-> {<<4, Unsigned(first + k)>> : k \in 0 .. count - reserved - 1},
         count |-> count - reserved]

-----------------------------------------------------------------------------
VARIABLES
    cidr,   \* subnet -> prefix, or None: no such row
    used    \* subnet -> its addresses

vars == <<cidr, used>>

None == [family |-> 0, bits |-> 0, net |-> 0]
Live == {n \in Subnets : cidr[n] # None}

UsedTotal == SumFunction([n \in Subnets |-> Cardinality(used[n])])

TypeOK ==
    /\ cidr \in [Subnets -> Offered \cup {None}]
    /\ used \in [Subnets -> SUBSET UNION {Contained(p) : p \in Offered}]
    /\ \A n \in Subnets : IsFiniteSet(used[n]) /\ (used[n] # {} => n \in Live)

Init ==
    /\ cidr = [n \in Subnets |-> None]
    /\ used = [n \in Subnets |-> {}]

CreateSubnet(n, p) ==
    /\ n \notin Live
    /\ cidr' = [cidr EXCEPT ![n] = p]
    /\ UNCHANGED used

\* The addresses stay, whatever the new CIDR is.
UpdateSubnet(n, p) ==
    /\ n \in Live
    /\ cidr' = [cidr EXCEPT ![n] = p]
    /\ UNCHANGED used

DeleteSubnet(n) ==
    /\ n \in Live
    /\ cidr' = [cidr EXCEPT ![n] = None]
    /\ used' = [used EXCEPT ![n] = {}]

CreateIP(n, a) ==
    /\ n \in Live
    /\ Accepts(cidr[n], a)
    /\ a \notin used[n]
    /\ UsedTotal < MaxUsed
    /\ used' = [used EXCEPT ![n] = @ \cup {a}]
    /\ UNCHANGED cidr

DeleteIP(n, a) ==
    /\ a \in used[n]
    /\ used' = [used EXCEPT ![n] = @ \ {a}]
    /\ UNCHANGED cidr

Next ==
    \E n \in Subnets :
       \/ \E p \in Offered : CreateSubnet(n, p) \/ UpdateSubnet(n, p)
       \/ DeleteSubnet(n)
       \/ n \in Live /\ \E a \in Contained(cidr[n]) : CreateIP(n, a)
       \/ \E a \in used[n] : DeleteIP(n, a)

Spec == Init /\ [][Next]_vars
-----------------------------------------------------------------------------
(* Statistics: signed arithmetic of CounterBits bits and a sign.           *)

Signed(x) == ((x + 2 ^ CounterBits) % 2 ^ (CounterBits + 1)) - 2 ^ CounterBits

\* enrichSubnet: total_ips of one subnet.
SubnetTotal(n) == Max({subnetCapacity(cidr[n]), Cardinality(used[n])})

\* addSubnetStatistic, folded over the site's subnets.
SiteUsed == Signed(SumFunction([n \in Live |-> Cardinality(used[n])]))
\* Faulty variant of SiteFree: a subnet with more addresses than capacity has
\* a negative number of free ones.
SiteFreeUnclamped ==
    Signed(SumFunction([n \in Live |-> subnetCapacity(cidr[n]) - Cardinality(used[n])]))
SiteFree == Signed(SumFunction([n \in Live |-> SubnetTotal(n) - Cardinality(used[n])]))
SiteTotal == Signed(SiteFree + SiteUsed)
-----------------------------------------------------------------------------
(* Properties.                                                             *)

\* The single address of an IPv4 host prefix.
Host4(p) == p.family = 4 /\ p.bits = Width4

\* "Inventory and subnet detail use usable-address capacity" (README.md:251):
\* the capacity is the number of addresses that CreateIP lets in, but for
\* IPv4 host prefixes, whose one address is counted and refused, and IPv6
\* ranges beyond the counter, which report none.
CapacityIsWhatIsAccepted ==
    \A n \in Live : LET p == cidr[n] IN
       \/ Host4(p)
       \/ subnetCapacity(p) = Cardinality(Accepted(p))
       \/ p.family = 6 /\ HostBits(p) >= CounterBits /\ subnetCapacity(p) = 0

\* "The subnet detail list follows the same rule" (README.md:251): as many
\* rows as the capacity, and they are the addresses that can be created.
ListFollowsCapacity ==
    \A n \in Live : LET p == cidr[n] IN
       p.family = 4 =>
          /\ Shown(p).count = subnetCapacity(p)
          /\ Cardinality(Shown(p).addresses) = Shown(p).count
          /\ Host4(p) \/ Shown(p).addresses = Accepted(p)

\* "total_ips for a site = sum of total_ips across all subnets assigned to
\* that site" (backend-sites-and-usage-aggregates.md:178), while the sum fits
\* the counter.
SiteTotalIsSum ==
    LET sum == SumFunction([n \in Live |-> SubnetTotal(n)]) IN
    sum < 2 ^ CounterBits => SiteTotal = sum /\ SiteFree >= 0
=============================================================================
