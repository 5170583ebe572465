------------------------------ MODULE SnmpAgent ------------------------------
(***************************************************************************)
(* The SNMP agent task (snmp_agent.c) answering managers over UDP.         *)
(*                                                                         *)
(* A datagram is the record its bytes decode to; the bytes are the subject *)
(* of SnmpCodec, and the values of the objects that of UpsTelemetry.  The  *)
(* agent keeps nothing between two requests.                               *)
(*                                                                         *)
(* The network and the managers are external.  Datagrams can be lost,      *)
(* repeated and reordered.  A manager is the snmpget or snmpwalk that      *)
(* scripts/check_snmp.ps1 runs: one request outstanding, sent again with   *)
(* the same id when no answer comes in time, given up after its retries.   *)
(***************************************************************************)
EXTENDS SnmpOid

CONSTANTS
  Managers,    \* the commands run against the agent
  Job,         \* of each: its version, community and pdu, and the oid it gets
               \* or whose tree it walks
  Community,   \* UPS_SNMP_COMMUNITY
  Settings     \* the managers that run, how often they retry, and whether the
               \* network loses and repeats datagrams and delays them past the
               \* managers' timeout

Pdus == {"GET", "GETNEXT", "SET"}

ASSUME AgentAssumption ==
  /\ Job \in [Managers -> [version : 0 .. 3, community : STRING, pdu : Pdus,
                           oid : Oid]]
  /\ Community \in STRING
  /\ Settings \subseteq [managers : SUBSET Managers, retries : Nat, faults : BOOLEAN]

VARIABLES
  setting,    \* one of Settings
  s_snmp_started,
  task,       \* of snmp_agent_task: none, created, serving or deleted
  requests,   \* datagrams on their way to the agent
  replies,    \* datagrams on their way to the managers
  phase,      \* of each manager: ready, waiting, done, refused or gave_up
  cursor,     \* the OID of its current request
  id,         \* the id of its current request
  tries,      \* how often it was sent
  seen        \* the entries a manager was given, in order

agentVars == <<s_snmp_started, task>>
netVars == <<requests, replies>>
managerVars == <<phase, cursor, id, tries, seen>>
vars == <<setting, agentVars, netVars, managerVars>>

Request == [from : Managers, version : 0 .. 3, community : STRING, pdu : Pdus,
            id : Nat, oid : Oid]
Reply == [to : Managers, id : Nat, error : {"NOERROR", "NOSUCHNAME"},
          oid : Oid]

Init ==
  /\ setting \in Settings
  /\ s_snmp_started = FALSE
  /\ task = "none"
  /\ requests = {}
  /\ replies = {}
  /\ phase = [m \in Managers |-> "ready"]
  /\ cursor = [m \in Managers |-> Job[m].oid]
  /\ id = [m \in Managers |-> 1]
  /\ tries = [m \in Managers |-> 0]
  /\ seen = [m \in Managers |-> <<>>]

----------------------------------------------------------------------------
(* The agent.                                                               *)

\* What snmp_agent_start() would be with the flag set whatever became of the task.
AgentStartRegardless ==
  /\ ~s_snmp_started
  /\ s_snmp_started' = TRUE
  /\ task' \in {"none", "created"}
  /\ UNCHANGED <<setting, netVars, managerVars>>

\* snmp_agent_start(): the flag is set once the task exists.
AgentStart ==
  /\ ~s_snmp_started
  /\ \/ s_snmp_started' = TRUE /\ task' = "created"
     \/ UNCHANGED agentVars
  /\ UNCHANGED <<setting, netVars, managerVars>>

\* The task opens its socket, or ends.
TaskBind ==
  /\ task = "created"
  /\ task' \in {"serving", "deleted"}
  /\ UNCHANGED <<setting, s_snmp_started, netVars, managerVars>>

\* What the task answers at all.
Accepts(req) ==
  /\ req.version \in {0, 1}
  /\ req.community = Community
  /\ req.pdu \in {"GET", "GETNEXT"}

Found(req) ==
  IF req.pdu = "GET" THEN LookupExact(req.oid) ELSE LookupNext(req.oid)

\* The answer: the entry found, or the request's own OID with an error.
ReplyTo(req) ==
  [to |-> req.from, id |-> req.id,
   error |-> IF Found(req) = 0 THEN "NOSUCHNAME" ELSE "NOERROR",
   oid |-> IF Found(req) = 0 THEN req.oid ELSE Table[Found(req)]]

\* snmp_build_response() refuses to answer about an empty OID.
Answers(req) == Accepts(req) /\ ReplyTo(req).oid # <<>>

\* A datagram that is received stays in the network only as a repetition.
Received(net, d) == net' = net \ {d} \/ (setting.faults /\ UNCHANGED net)

\* What a pass would be if the task returned where it goes on.
HandleOrReturn(req) ==
  /\ task = "serving"
  /\ req \in requests
  /\ Received(requests, req)
  /\ replies' = IF Answers(req) THEN replies \union {ReplyTo(req)} ELSE replies
  /\ task' = IF Answers(req) THEN task ELSE "deleted"
  /\ UNCHANGED <<setting, s_snmp_started, managerVars>>

\* One pass of the task's loop.
Handle(req) ==
  /\ task = "serving"
  /\ req \in requests
  /\ Received(requests, req)
  /\ replies' = IF Answers(req) THEN replies \union {ReplyTo(req)} ELSE replies
  /\ UNCHANGED <<setting, agentVars, managerVars>>

----------------------------------------------------------------------------
(* The network.                                                             *)

\* No socket is bound yet, or any more.
Unheard(req) ==
  /\ task # "serving"
  /\ req \in requests
  /\ requests' = requests \ {req}
  /\ UNCHANGED <<setting, agentVars, replies, managerVars>>

Lose ==
  /\ setting.faults
  /\ \/ \E req \in requests : requests' = requests \ {req} /\ UNCHANGED replies
     \/ \E rep \in replies : replies' = replies \ {rep} /\ UNCHANGED requests
  /\ UNCHANGED <<setting, agentVars, managerVars>>

----------------------------------------------------------------------------
(* The managers.                                                            *)

CurrentRequest(m) ==
  [from |-> m, version |-> Job[m].version, community |-> Job[m].community,
   pdu |-> Job[m].pdu, id |-> id[m], oid |-> cursor[m]]

\* The timeout is longer than any way without faults.
TimedOut(m) ==
  /\ phase[m] = "waiting"
  /\ \/ setting.faults
     \/ /\ \A req \in requests : req.from # m
        /\ \A rep \in replies : rep.to # m

\* The first transmission, or one after a timeout.
Send(m) ==
  /\ m \in setting.managers
  /\ phase[m] = "ready" \/ (TimedOut(m) /\ tries[m] <= setting.retries)
  /\ requests' = requests \union {CurrentRequest(m)}
  /\ tries' = [tries EXCEPT ![m] = @ + 1]
  /\ phase' = [phase EXCEPT ![m] = "waiting"]
  /\ UNCHANGED <<setting, agentVars, replies, cursor, id, seen>>

GiveUp(m) ==
  /\ TimedOut(m)
  /\ tries[m] > setting.retries
  /\ phase' = [phase EXCEPT ![m] = "gave_up"]
  /\ UNCHANGED <<setting, agentVars, netVars, cursor, id, tries, seen>>

Under(tree, oid) == Len(oid) >= Len(tree) /\ SubSeq(oid, 1, Len(tree)) = tree

\* An answer a walk goes on from: an object of the tree it was asked for.
InTree(m, rep) ==
  Job[m].pdu = "GETNEXT" /\ rep.error = "NOERROR" /\ Under(Job[m].oid, rep.oid)

\* snmpwalk stops when the OID it was given does not increase.
WalkStep(m, rep) ==
  /\ InTree(m, rep)
  /\ IF Precedes(cursor[m], rep.oid)
     THEN /\ phase' = [phase EXCEPT ![m] = "ready"]
          /\ seen' = [seen EXCEPT ![m] = Append(@, rep.oid)]
          /\ cursor' = [cursor EXCEPT ![m] = rep.oid]
          /\ id' = [id EXCEPT ![m] = @ + 1]
          /\ tries' = [tries EXCEPT ![m] = 0]
     ELSE /\ phase' = [phase EXCEPT ![m] = "refused"]
          /\ UNCHANGED <<seen, cursor, id, tries>>

\* A get is over with its answer, a walk with the first outside its tree.
LastStep(m, rep) ==
  /\ ~InTree(m, rep)
  /\ phase' = [phase EXCEPT ![m] = "done"]
  /\ seen' = IF Job[m].pdu = "GET" /\ rep.error = "NOERROR"
             THEN [seen EXCEPT ![m] = Append(@, rep.oid)] ELSE seen
  /\ UNCHANGED <<cursor, id, tries>>

\* A reply that is not to the request outstanding is ignored.
Ignore(m, rep) ==
  /\ phase[m] # "waiting" \/ rep.id # id[m]
  /\ UNCHANGED managerVars

Take(m, rep) ==
  /\ rep \in replies
  /\ rep.to = m
  /\ Received(replies, rep)
  /\ \/ /\ phase[m] = "waiting"
        /\ rep.id = id[m]
        /\ WalkStep(m, rep) \/ LastStep(m, rep)
     \/ Ignore(m, rep)
  /\ UNCHANGED <<setting, agentVars, requests>>

----------------------------------------------------------------------------
Manager(m) == Send(m) \/ GiveUp(m) \/ (\E rep \in replies : Take(m, rep))
Agent == AgentStart \/ TaskBind \/ (\E req \in requests : Handle(req))

Next ==
  \/ Agent
  \/ \E req \in requests : Unheard(req)
  \/ Lose
  \/ \E m \in Managers : Manager(m)

Spec == Init /\ [][Next]_vars

\* The task's loop goes on with some datagram while its socket has any, the
\* managers read theirs, and one that waits long enough sends again.
FairSpec ==
  /\ Spec
  /\ WF_vars(\E req \in requests : Handle(req))
  /\ WF_vars(\E rep \in replies : Take(rep.to, rep))
  /\ WF_vars(\E m \in Managers : Send(m))

----------------------------------------------------------------------------
\* The variables' types; the flag says that the task was created.
TypeOK ==
  /\ task \in {"none", "created", "serving", "deleted"}
  /\ setting \in Settings
  /\ s_snmp_started = (task # "none")
  /\ requests \subseteq Request
  /\ replies \subseteq Reply
  /\ phase \in [Managers -> {"ready", "waiting", "done", "refused", "gave_up"}]
  /\ cursor \in [Managers -> Oid]
  /\ id \in [Managers -> Nat]
  /\ tries \in [Managers -> 0 .. setting.retries + 1]
  /\ seen \in [Managers -> Seq(Oid)]

\* What managers see of the agent, over a network that loses, repeats and
\* reorders, is what MibWalk promises: an answer to an earlier request, or a
\* second answer, is never taken for the one waited for, no walk skips an object,
\* is given one twice or ends too early.
Walks == INSTANCE MibWalk WITH
  outcome <- [m \in Managers |->
                IF phase[m] \in {"ready", "waiting"} THEN "running" ELSE phase[m]]

ImplementsMibWalk == Walks!WalkSpec

\* Without faults, commands that are begun while the agent serves succeed: no
\* other manager, whatever it sends, keeps the agent from answering them.
Asking == {m \in setting.managers : Answers(CurrentRequest(m))}
ServesAll ==
  (/\ ~setting.faults
   /\ task = "serving"
   /\ \A m \in Asking : phase[m] \in {"ready", "done"})
    ~> \A m \in Asking : phase[m] = "done"
==============================================================================
