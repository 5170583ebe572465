------------------------------- MODULE MibWalk -------------------------------
(***************************************************************************)
(* What a manager is promised by an SNMP agent, with no agent, datagram or *)
(* network in sight: a get yields the object it names, a walk the objects  *)
(* of a tree one after the other, each the next one there is, and it is    *)
(* over only when none is left.  It may be given up at any time.           *)
(***************************************************************************)
EXTENDS SnmpOid

CONSTANTS
  Managers,   \* the commands
  Job         \* of each: its pdu, and the oid it gets or whose tree it walks

VARIABLES
  outcome,   \* of each manager: running, done or gave_up
  cursor,
  seen

walkVars == <<outcome, cursor, seen>>

Objects == {Table[i] : i \in Entries}
Walks(m) == Job[m].pdu = "GETNEXT"

\* The tree at an OID is every OID it is a prefix of.
Under(tree, oid) == Len(oid) >= Len(tree) /\ SubSeq(oid, 1, Len(tree)) = tree

\* The objects a walk has yet to give.
Ahead(m) == {o \in Objects : Under(Job[m].oid, o) /\ Precedes(cursor[m], o)}

WalkInit ==
  /\ outcome = [m \in Managers |-> "running"]
  /\ cursor = [m \in Managers |-> Job[m].oid]
  /\ seen = [m \in Managers |-> <<>>]

Running(m) == outcome[m] = "running"

\* The next object: before every other that is ahead.
Advance(m) ==
  /\ Running(m)
  /\ Walks(m)
  /\ \E o \in Ahead(m) :
       /\ cursor' = [cursor EXCEPT ![m] = o]
       /\ seen' = [seen EXCEPT ![m] = Append(@, o)]
       /\ \A other \in Ahead(m) : other = o \/ Precedes(o, other)
  /\ UNCHANGED outcome

Finish(m) ==
  /\ Running(m)
  /\ Walks(m)
  /\ outcome' = [outcome EXCEPT ![m] = "done"]
  /\ Ahead(m) = {}
  /\ UNCHANGED <<cursor, seen>>

Get(m) ==
  /\ Running(m)
  /\ ~Walks(m)
  /\ outcome' = [outcome EXCEPT ![m] = "done"]
  /\ seen' = IF cursor[m] \in Objects
             THEN [seen EXCEPT ![m] = Append(@, cursor[m])] ELSE seen
  /\ UNCHANGED cursor

GiveUp(m) ==
  /\ Running(m)
  /\ outcome' = [outcome EXCEPT ![m] = "gave_up"]
  /\ UNCHANGED <<cursor, seen>>

WalkNext == \E m \in Managers : Advance(m) \/ Finish(m) \/ Get(m) \/ GiveUp(m)

WalkSpec == WalkInit /\ [][WalkNext]_walkVars
==============================================================================
