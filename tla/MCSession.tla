------------------------------ MODULE MCSession ------------------------------
(***************************************************************************)
(* Session with two subnets and few requests for TLC.                      *)
(***************************************************************************)
EXTENDS Session, TLC

CONSTANTS q1, q2, n1, n2, i1, i2, a1, w1

\* Each role of the application, and one that the API does not know.
RoleTokens == {{"admin"}, {"editor", "offline_access"}, {"read-only"}}

\* One subnet has an address without a hostname, the other has none.
OneRow == [i \in IpIds |-> IF i = i1 THEN [subnet |-> n1, ip |-> a1, hostname |-> Blank]
                                     ELSE Unused]
=============================================================================
