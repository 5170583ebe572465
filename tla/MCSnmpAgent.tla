----------------------------- MODULE MCSnmpAgent -----------------------------
(***************************************************************************)
(* SnmpAgent with a table of four objects in two trees and OIDs of several *)
(* lengths: a walk and a get over a bad network, and over a good one the   *)
(* same beside managers that ask in vain.                                  *)
(***************************************************************************)
EXTENDS SnmpAgent

MCTable == <<<<43, 1, 0>>, <<43, 33, 1, 0>>, <<43, 33, 3, 1, 2>>, <<43, 33, 10, 0>>>>

Command(version, community, pdu, oid) ==
  [version |-> version, community |-> community, pdu |-> pdu, oid |-> oid]

MCJob == [walker   |-> Command(1, "public", "GETNEXT", <<43, 33>>),
          getter   |-> Command(0, "public", "GET", <<43, 33, 10, 0>>),
          empty    |-> Command(0, "public", "GET", <<>>),
          stranger |-> Command(1, "private", "GETNEXT", <<43>>),
          setter   |-> Command(3, "public", "SET", <<43, 1, 0>>)]

MCSettings ==
  {[managers |-> {"walker", "getter"}, retries |-> 1, faults |-> TRUE],
   [managers |-> {"walker", "getter", "empty", "stranger", "setter"},
    retries |-> 0, faults |-> FALSE]}
==============================================================================
