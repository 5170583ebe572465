------------------------------- MODULE OidTable -------------------------------
(***************************************************************************)
(* k_oid_table of snmp_agent.c: the OIDs of the objects served, in order.  *)
(***************************************************************************)
EXTENDS Naturals, Sequences

\* The prefix of every UPS-MIB object, and the shapes of the OIDs.
Ups == <<43, 6, 1, 2, 1, 33, 1>>
System(n) == <<43, 6, 1, 2, 1, 1, n, 0>>
Scalar(group, n) == Ups \o <<group, n, 0>>
Line(group, table, n) == Ups \o <<group, table, 1, n, 1>>

k_oid_table ==
  <<System(1), System(5)>>
    \o [n \in 1 .. 6 |-> Scalar(1, n)]
    \o [n \in 1 .. 7 |-> Scalar(2, n)]
    \o <<Scalar(3, 1), Scalar(3, 2), Line(3, 3, 2), Line(3, 3, 3)>>
    \o <<Scalar(4, 1), Scalar(4, 2), Scalar(4, 3),
         Line(4, 4, 2), Line(4, 4, 3), Line(4, 4, 4), Line(4, 4, 5)>>
    \o <<Scalar(9, 1), Scalar(9, 3), Scalar(9, 6), Scalar(9, 7),
         Scalar(9, 9), Scalar(9, 10)>>
==============================================================================
