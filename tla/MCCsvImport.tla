---------------------------- MODULE MCCsvImport -----------------------------
(***************************************************************************)
(* CSV imports of short files for TLC.                                     *)
(***************************************************************************)
EXTENDS CsvImport, TLC

CONSTANTS s1, i1, i2, i3, m1, m2, c1, c2, a1, a2

\* c1 takes both addresses and c2 the second alone.
MCUsable == [c \in Cidrs |-> IF c = c2 THEN Addresses \ {a1} ELSE Addresses]

Line(c, a, h) == [site |-> "hq", cidr |-> c, ip |-> a, hostname |-> h]

\* Files whose rows share their parents or contradict each other, and with
\* MaxRows = 2 one with a row too many; c2 does not take a1.
ImportedFiles ==
    {<<Line(c1, a1, "web"), Line(c1, a2, "web")>>,
     <<Line(c1, a1, "db"), Line(c1, a1, "web")>>,
     <<Line(c1, a1, "web"), Line(c2, a1, "web"), Line(c1, a2, "web")>>}

Symmetry == Permutations(SiteIds) \cup Permutations(IpIds) \cup Permutations(Importers)
=============================================================================
