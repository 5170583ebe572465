---------------------------- MODULE SnmpAgentProofs ----------------------------
(***************************************************************************)
(* The SNMP agent keeps the promise of MibWalk, for every sorted table,    *)
(* every set of managers and jobs, and every number of retries: whatever   *)
(* the network loses, repeats and reorders, a manager sees a walk.         *)
(***************************************************************************)
EXTENDS SnmpAgent, TLAPS, SequenceTheorems, WellFoundedInduction

----------------------------------------------------------------------------
(* The searches.                                                            *)

\* The first match of a loop over the table is the least one.
LEMMA FirstOfLeast ==
  ASSUME NEW S \in SUBSET Nat, S # {}
  PROVE  FirstOf(S) \in S /\ \A j \in S : FirstOf(S) <= j
<1>1. PICK x \in S : \A y \in S : ~(<<y, x>> \in OpToRel(<, Nat))
  BY WFMin, NatLessThanWellFounded, Zenon
<1>2. \A y \in S : ~(y < x)
  BY <1>1 DEF OpToRel
<1>3. \A y \in S : x <= y
  BY <1>2
<1> QED BY <1>3 DEF FirstOf

LEMMA EntryType ==
  ASSUME NEW i \in Entries
  PROVE  Table[i] \in Oid /\ i \in Nat /\ i # 0
BY TableAssumption DEF Entries

LEMMA LookupExactFinds ==
  ASSUME NEW oid
  PROVE  /\ LookupExact(oid) # 0 =>
              LookupExact(oid) \in Entries /\ Table[LookupExact(oid)] = oid
         /\ LookupExact(oid) = 0 => \A i \in Entries : Table[i] # oid
<1> DEFINE S == {i \in Entries : Table[i] = oid}
<1>1. S \in SUBSET Nat /\ \A i \in S : i # 0
  BY EntryType
<1>2. CASE S = {}
  <2>1. FirstOf(S) = 0
    BY <1>2 DEF FirstOf
  <2> QED BY <2>1, <1>2 DEF LookupExact
<1>3. CASE S # {}
  <2>1. FirstOf(S) \in S
    BY <1>1, <1>3, FirstOfLeast
  <2> QED BY <2>1, <1>1 DEF LookupExact
<1> QED BY <1>2, <1>3

\* snmp_lookup_next() finds an entry after oid, and none comes before it in the
\* table; if it finds none there is none.
LEMMA LookupNextFinds ==
  ASSUME NEW oid
  PROVE  /\ LookupNext(oid) # 0 =>
              /\ LookupNext(oid) \in Entries
              /\ Precedes(oid, Table[LookupNext(oid)])
              /\ \A i \in Entries : Precedes(oid, Table[i]) => LookupNext(oid) <= i
         /\ LookupNext(oid) = 0 => \A i \in Entries : ~Precedes(oid, Table[i])
<1> DEFINE S == {i \in Entries : Precedes(oid, Table[i])}
<1>1. S \in SUBSET Nat /\ \A i \in S : i # 0
  BY EntryType
<1>2. CASE S = {}
  <2>1. FirstOf(S) = 0
    BY <1>2 DEF FirstOf
  <2> QED BY <2>1, <1>2 DEF LookupNext
<1>3. CASE S # {}
  <2>1. FirstOf(S) \in S /\ \A j \in S : FirstOf(S) <= j
    BY <1>1, <1>3, FirstOfLeast
  <2> QED BY <2>1, <1>1 DEF LookupNext
<1> QED BY <1>2, <1>3

\* In a sorted table the entry found precedes every other one after oid.
LEMMA NextIsLeast ==
  ASSUME Sorted, NEW oid, LookupNext(oid) # 0,
         NEW i \in Entries, Precedes(oid, Table[i])
  PROVE  \/ Table[i] = Table[LookupNext(oid)]
         \/ Precedes(Table[LookupNext(oid)], Table[i])
<1>1. LookupNext(oid) \in Entries /\ LookupNext(oid) <= i
  BY LookupNextFinds
<1>2. LookupNext(oid) = i \/ LookupNext(oid) < i
  BY <1>1, EntryType
<1> QED BY <1>1, <1>2 DEF Sorted

----------------------------------------------------------------------------
(* A tree is an interval of the order.                                      *)

\* What it means to be under a tree, element by element.
LEMMA UnderElements ==
  ASSUME NEW tree \in Oid, NEW oid \in Oid
  PROVE  Under(tree, oid) <=>
           Len(oid) >= Len(tree) /\ \A j \in 1 .. Len(tree) : oid[j] = tree[j]
<1>1. CASE Len(oid) >= Len(tree)
  <2>1. /\ SubSeq(oid, 1, Len(tree)) \in Oid
        /\ Len(SubSeq(oid, 1, Len(tree))) = Len(tree)
        /\ \A j \in 1 .. Len(tree) : SubSeq(oid, 1, Len(tree))[j] = oid[j]
    <3>1. Len(tree) \in Nat /\ Len(oid) \in Nat
      BY DEF Oid
    <3>2. ASSUME NEW j \in 1 .. Len(tree) PROVE oid[j] \in 0 .. 255
      <4>1. j \in 1 .. Len(oid)
        BY <1>1, <3>1
      <4> QED BY <4>1, ElementOfSeq DEF Oid
    <3> QED BY <3>1, <3>2, SubSeqProperties DEF Oid
  <2>2. ASSUME \A j \in 1 .. Len(tree) : oid[j] = tree[j]
        PROVE  SubSeq(oid, 1, Len(tree)) = tree
    BY <2>1, <2>2, SeqEqual DEF Oid
  <2> QED BY <2>1, <2>2, <1>1 DEF Under
<1>2. CASE ~(Len(oid) >= Len(tree))
  BY <1>2 DEF Under
<1> QED BY <1>1, <1>2

\* An OID between two of a tree is of that tree.
LEMMA TreeIsInterval ==
  ASSUME NEW tree \in Oid, NEW low \in Oid, NEW oid \in Oid, NEW high \in Oid,
         Under(tree, low), Under(tree, high),
         Precedes(low, oid), Precedes(oid, high)
  PROVE  Under(tree, oid)
<1>1. /\ Len(low) >= Len(tree) /\ \A j \in 1 .. Len(tree) : low[j] = tree[j]
      /\ Len(high) >= Len(tree) /\ \A j \in 1 .. Len(tree) : high[j] = tree[j]
  BY UnderElements
<1>2. Len(tree) \in Nat /\ Len(low) \in Nat /\ Len(oid) \in Nat /\ Len(high) \in Nat
  BY DEF Oid
<1>3. /\ \A j \in 1 .. Len(tree) : tree[j] \in Int
      /\ \A j \in 1 .. Len(oid) : oid[j] \in Int
  <2>1. ASSUME NEW j \in 1 .. Len(tree) PROVE tree[j] \in Int
    <3>1. tree[j] \in 0 .. 255
      BY ElementOfSeq DEF Oid
    <3>2. 0 .. 255 \subseteq Int
      OBVIOUS
    <3> QED BY <3>1, <3>2, Zenon
  <2>2. ASSUME NEW j \in 1 .. Len(oid) PROVE oid[j] \in Int
    <3>1. oid[j] \in 0 .. 255
      BY ElementOfSeq DEF Oid
    <3>2. 0 .. 255 \subseteq Int
      OBVIOUS
    <3> QED BY <3>1, <3>2, Zenon
  <2> QED BY <2>1, <2>2
<1>4. PICK i \in 1 .. Len(oid) :
        /\ \A j \in 1 .. i - 1 : j <= Len(low) /\ low[j] = oid[j]
        /\ i <= Len(low) => low[i] < oid[i]
  BY DEF Precedes
<1>5. PICK k \in 1 .. Len(high) :
        /\ \A j \in 1 .. k - 1 : j <= Len(oid) /\ oid[j] = high[j]
        /\ k <= Len(oid) => oid[k] < high[k]
  BY DEF Precedes
<1>6. ASSUME i <= Len(tree) PROVE FALSE
  <2>1. tree[i] < oid[i] /\ \A j \in 1 .. i - 1 : oid[j] = tree[j]
    BY <1>1, <1>2, <1>4, <1>6
  <2>2. CASE k < i
    <3>1. oid[k] < high[k] /\ high[k] = tree[k] /\ oid[k] = tree[k]
      BY <2>1, <2>2, <1>1, <1>2, <1>5, <1>6
    <3> QED BY <3>1, <2>2, <1>2, <1>3, <1>6
  <2>3. CASE k = i
    <3>1. oid[i] < high[i] /\ high[i] = tree[i]
      BY <2>3, <1>1, <1>2, <1>5, <1>6
    <3> QED BY <3>1, <2>1, <1>2, <1>3, <1>6
  <2>4. CASE k > i
    <3>1. oid[i] = high[i] /\ high[i] = tree[i]
      BY <2>4, <1>1, <1>2, <1>5, <1>6
    <3> QED BY <3>1, <2>1, <1>2, <1>3, <1>6
  <2> QED BY <2>2, <2>3, <2>4, <1>2
<1>7. Len(oid) >= Len(tree) /\ \A j \in 1 .. Len(tree) : oid[j] = tree[j]
  BY <1>1, <1>2, <1>4, <1>6
<1> QED BY <1>7, UnderElements

----------------------------------------------------------------------------
(* The types.                                                               *)

LEMMA FoundType ==
  ASSUME NEW req
  PROVE  Found(req) # 0 => Found(req) \in Entries /\ Table[Found(req)] \in Oid
BY LookupExactFinds, LookupNextFinds, EntryType DEF Found

LEMMA ReplyToType ==
  ASSUME NEW req \in Request
  PROVE  ReplyTo(req) \in Reply
BY FoundType DEF ReplyTo, Request, Reply

\* A request that is yet to be sent has not been sent.
ReadyUntried == \A m \in Managers : phase[m] = "ready" => tries[m] = 0

TypeInv == TypeOK /\ ReadyUntried

LEMMA CurrentRequestType ==
  ASSUME TypeOK, NEW m \in Managers
  PROVE  CurrentRequest(m) \in Request
BY AgentAssumption DEF TypeOK, CurrentRequest, Request

LEMMA SettingType ==
  ASSUME setting \in Settings
  PROVE  setting.retries \in Nat
BY AgentAssumption

LEMMA TypeInit == Init => TypeInv
<1> SUFFICES ASSUME Init PROVE TypeInv
  OBVIOUS
<1>1. [m \in Managers |-> Job[m].oid] \in [Managers -> Oid]
  BY AgentAssumption
<1>2. [m \in Managers |-> <<>>] \in [Managers -> Seq(Oid)]
  OBVIOUS
<1>3. 0 \in 0 .. setting.retries + 1
  BY SettingType DEF Init
<1> QED BY <1>1, <1>2, <1>3 DEF Init, TypeInv, TypeOK, ReadyUntried

LEMMA TypeStep == TypeInv /\ [Next]_vars => TypeInv'
<1> SUFFICES ASSUME TypeInv, [Next]_vars PROVE TypeInv'
  OBVIOUS
<1> USE DEF TypeInv
<1>1. CASE AgentStart
  BY <1>1 DEF AgentStart, agentVars, netVars, managerVars, TypeOK, ReadyUntried
<1>2. CASE TaskBind
  BY <1>2 DEF TaskBind, netVars, managerVars, TypeOK, ReadyUntried
<1>3. ASSUME NEW req \in requests, Handle(req) PROVE TypeInv'
  <2>1. requests' \subseteq Request
    BY <1>3 DEF Handle, Received, TypeOK
  <2>2. ReplyTo(req) \in Reply
    BY ReplyToType DEF TypeOK
  <2>3. replies' \subseteq Reply
    BY <1>3, <2>2 DEF Handle, TypeOK
  <2> QED BY <1>3, <2>1, <2>3 DEF Handle, agentVars, managerVars, TypeOK, ReadyUntried
<1>4. ASSUME NEW req \in requests, Unheard(req) PROVE TypeInv'
  BY <1>4 DEF Unheard, agentVars, managerVars, TypeOK, ReadyUntried
<1>5. CASE Lose
  BY <1>5 DEF Lose, agentVars, managerVars, TypeOK, ReadyUntried
<1>6. ASSUME NEW m \in Managers, Send(m) PROVE TypeInv'
  <2>1. requests' \subseteq Request
    BY <1>6, CurrentRequestType DEF Send, TypeOK
  <2>2. tries[m] + 1 \in 0 .. setting.retries + 1
    BY <1>6, SettingType DEF Send, TypeOK, ReadyUntried
  <2>3. tries' \in [Managers -> 0 .. setting.retries + 1]
    BY <1>6, <2>2 DEF Send, TypeOK
  <2>4. ReadyUntried'
    BY <1>6 DEF Send, TypeOK, ReadyUntried
  <2> QED BY <1>6, <2>1, <2>3, <2>4 DEF Send, agentVars, TypeOK
<1>7. ASSUME NEW m \in Managers, GiveUp(m) PROVE TypeInv'
  BY <1>7 DEF GiveUp, agentVars, netVars, TypeOK, ReadyUntried
<1>8. ASSUME NEW m \in Managers, NEW rep \in replies, Take(m, rep) PROVE TypeInv'
  <2>1. replies' \subseteq Reply /\ rep.oid \in Oid
    BY <1>8 DEF Take, Received, TypeOK, Reply
  <2>2. CASE WalkStep(m, rep)
    <3>1. cursor' \in [Managers -> Oid]
      BY <2>1, <2>2 DEF WalkStep, TypeOK
    <3>2. seen' \in [Managers -> Seq(Oid)]
      <4>1. Append(seen[m], rep.oid) \in Seq(Oid)
        BY <2>1, AppendProperties DEF TypeOK
      <4> QED BY <4>1, <2>2 DEF WalkStep, TypeOK
    <3>5. id' \in [Managers -> Nat]
      BY <2>2 DEF WalkStep, TypeOK
    <3>6. tries' \in [Managers -> 0 .. setting.retries + 1]
      <4>1. 0 \in 0 .. setting.retries + 1
        BY SettingType DEF TypeOK
      <4> QED BY <4>1, <2>2 DEF WalkStep, TypeOK
    <3>3. phase' \in [Managers -> {"ready", "waiting", "done", "refused", "gave_up"}]
      BY <2>2 DEF WalkStep, TypeOK
    <3>4. ReadyUntried'
      BY <2>2 DEF WalkStep, TypeOK, ReadyUntried
    <3> QED BY <1>8, <2>1, <3>1, <3>2, <3>3, <3>4, <3>5, <3>6 DEF Take, agentVars, TypeOK
  <2>3. CASE LastStep(m, rep)
    <3>1. seen' \in [Managers -> Seq(Oid)]
      BY <2>1, <2>3 DEF LastStep, TypeOK
    <3> QED BY <1>8, <2>1, <2>3, <3>1 DEF Take, LastStep, agentVars, TypeOK, ReadyUntried
  <2>4. CASE Ignore(m, rep)
    BY <1>8, <2>1, <2>4 DEF Take, Ignore, agentVars, managerVars, TypeOK, ReadyUntried
  <2> QED BY <1>8, <2>2, <2>3, <2>4 DEF Take
<1>9. CASE UNCHANGED vars
  BY <1>9 DEF vars, agentVars, netVars, managerVars, TypeOK, ReadyUntried
<1> QED BY <1>1, <1>2, <1>3, <1>4, <1>5, <1>6, <1>7, <1>8, <1>9
        DEF Next, Agent, Manager

\* The flag tells that the task was created, and everything on its way is what
\* it can be: TypeOK of SnmpAgent, for every table and every set of managers.
THEOREM AgentTypeCorrect == Spec => []TypeOK
<1>1. Spec => []TypeInv
  BY TypeInit, TypeStep, PTL DEF Spec
<1>2. TypeInv => TypeOK
  BY DEF TypeInv
<1> QED BY <1>1, <1>2, PTL

----------------------------------------------------------------------------
(* What is on its way.                                                      *)

\* A request with a manager's current id is its current request, and a reply with
\* that id is the agent's answer to it; no id is ahead of its manager's.
RequestsKnown ==
  \A req \in requests :
    /\ req.id <= id[req.from]
    /\ req.id = id[req.from] => req = CurrentRequest(req.from)

RepliesKnown ==
  \A rep \in replies :
    /\ rep.id <= id[rep.to]
    /\ rep.id = id[rep.to] => /\ Accepts(CurrentRequest(rep.to))
                             /\ rep = ReplyTo(CurrentRequest(rep.to))

\* A walk has not left its tree.
CursorInTree == \A m \in Managers : Under(Job[m].oid, cursor[m])

NetInv == RequestsKnown /\ RepliesKnown /\ CursorInTree

LEMMA NetInit == Init => NetInv
<1> SUFFICES ASSUME Init PROVE NetInv
  OBVIOUS
<1>1. ASSUME NEW m \in Managers PROVE Under(Job[m].oid, cursor[m])
  <2>1. Job[m].oid \in Oid /\ cursor[m] = Job[m].oid
    BY AgentAssumption DEF Init
  <2> QED BY <2>1, UnderElements DEF Oid
<1> QED BY <1>1 DEF Init, NetInv, RequestsKnown, RepliesKnown, CursorInTree

\* As long as no manager goes on, the network may lose what it likes.
LEMMA NetShrinks ==
  ASSUME NetInv, requests' \subseteq requests, replies' \subseteq replies,
         cursor' = cursor, id' = id
  PROVE  NetInv'
<1>1. \A m : CurrentRequest(m)' = CurrentRequest(m)
  BY DEF CurrentRequest
<1>2. RequestsKnown'
  BY <1>1 DEF NetInv, RequestsKnown
<1>3. RepliesKnown'
  BY <1>1 DEF NetInv, RepliesKnown
<1>4. CursorInTree'
  BY DEF NetInv, CursorInTree
<1> QED BY <1>2, <1>3, <1>4 DEF NetInv

LEMMA NetStep == TypeInv /\ NetInv /\ [Next]_vars => NetInv'
<1> SUFFICES ASSUME TypeInv, NetInv, [Next]_vars PROVE NetInv'
  OBVIOUS
<1>1. CASE AgentStart
  BY <1>1, NetShrinks DEF AgentStart, netVars, managerVars
<1>2. CASE TaskBind
  BY <1>2, NetShrinks DEF TaskBind, netVars, managerVars
<1>3. ASSUME NEW req \in requests, Handle(req) PROVE NetInv'
  <2>1. cursor' = cursor /\ id' = id /\ requests' \subseteq requests
    BY <1>3 DEF Handle, Received, managerVars
  <2>2. \A m : CurrentRequest(m)' = CurrentRequest(m)
    BY <2>1 DEF CurrentRequest
  <2>3. CASE ~Answers(req)
    BY <1>3, <2>1, <2>3, NetShrinks DEF Handle
  <2>4. CASE Answers(req)
    <3>1. replies' = replies \union {ReplyTo(req)}
      BY <1>3, <2>4 DEF Handle
    <3>2. ReplyTo(req).id = req.id /\ ReplyTo(req).to = req.from /\ Accepts(req)
      BY <2>4 DEF ReplyTo, Answers
    <3>3. RepliesKnown'
      BY <2>1, <2>2, <3>1, <3>2 DEF NetInv, RequestsKnown, RepliesKnown
    <3>4. RequestsKnown' /\ CursorInTree'
      BY <2>1, <2>2 DEF NetInv, RequestsKnown, CursorInTree
    <3> QED BY <3>3, <3>4 DEF NetInv
  <2> QED BY <2>3, <2>4
<1>4. ASSUME NEW req \in requests, Unheard(req) PROVE NetInv'
  BY <1>4, NetShrinks DEF Unheard, managerVars
<1>5. CASE Lose
  BY <1>5, NetShrinks DEF Lose, managerVars
<1>6. ASSUME NEW m \in Managers, Send(m) PROVE NetInv'
  <2>1. /\ cursor' = cursor /\ id' = id /\ replies' = replies
        /\ requests' = requests \union {CurrentRequest(m)}
    BY <1>6 DEF Send
  <2>2. \A k : CurrentRequest(k)' = CurrentRequest(k)
    BY <2>1 DEF CurrentRequest
  <2>3. CurrentRequest(m).id = id[m] /\ CurrentRequest(m).from = m /\ id[m] \in Nat
    BY DEF CurrentRequest, TypeInv, TypeOK
  <2>4. RequestsKnown'
    BY <2>1, <2>2, <2>3 DEF NetInv, RequestsKnown
  <2>5. RepliesKnown' /\ CursorInTree'
    BY <2>1, <2>2 DEF NetInv, RepliesKnown, CursorInTree
  <2> QED BY <2>4, <2>5 DEF NetInv
<1>7. ASSUME NEW m \in Managers, GiveUp(m) PROVE NetInv'
  BY <1>7, NetShrinks DEF GiveUp, netVars
<1>8. ASSUME NEW m \in Managers, NEW rep \in replies, Take(m, rep) PROVE NetInv'
  <2>1. requests' = requests /\ replies' \subseteq replies
    BY <1>8 DEF Take, Received
  <2>2. CASE UNCHANGED <<cursor, id>>
    BY <2>1, <2>2, NetShrinks
  <2>3. CASE /\ InTree(m, rep)
             /\ cursor' = [cursor EXCEPT ![m] = rep.oid]
             /\ id' = [id EXCEPT ![m] = @ + 1]
    <3>1. /\ id \in [Managers -> Nat] /\ cursor \in [Managers -> Oid]
          /\ requests \subseteq Request /\ replies \subseteq Reply
      BY DEF TypeInv, TypeOK
    <3>2. id'[m] = id[m] + 1 /\ cursor'[m] = rep.oid
      BY <2>3, <3>1
    <3>3. ASSUME NEW k \in Managers, k # m
          PROVE  id'[k] = id[k] /\ cursor'[k] = cursor[k] /\ CurrentRequest(k)' = CurrentRequest(k)
      BY <2>3, <3>1, <3>3 DEF CurrentRequest
    <3>4. RequestsKnown'
      <4>1. SUFFICES ASSUME NEW req \in requests
                     PROVE  /\ req.id <= id'[req.from]
                            /\ req.id = id'[req.from] => req = CurrentRequest(req.from)'
        BY <2>1 DEF RequestsKnown
      <4>2. req.from \in Managers /\ req.id \in Nat /\ id[m] \in Nat
        BY <3>1 DEF Request
      <4>3. /\ req.id <= id[req.from]
            /\ req.id = id[req.from] => req = CurrentRequest(req.from)
        BY DEF NetInv, RequestsKnown
      <4>4. CASE req.from = m
        BY <3>2, <4>2, <4>3, <4>4
      <4>5. CASE req.from # m
        BY <3>3, <4>2, <4>3, <4>5
      <4> QED BY <4>4, <4>5
    <3>5. RepliesKnown'
      <4>1. SUFFICES ASSUME NEW r \in replies
                     PROVE  /\ r.id <= id'[r.to]
                            /\ r.id = id'[r.to] =>
                                 /\ Accepts(CurrentRequest(r.to)')
                                 /\ r = ReplyTo(CurrentRequest(r.to)')
        BY <2>1 DEF RepliesKnown
      <4>2. r.to \in Managers /\ r.id \in Nat /\ id[m] \in Nat
        BY <3>1 DEF Reply
      <4>3. /\ r.id <= id[r.to]
            /\ r.id = id[r.to] => /\ Accepts(CurrentRequest(r.to))
                                 /\ r = ReplyTo(CurrentRequest(r.to))
        BY DEF NetInv, RepliesKnown
      <4>4. CASE r.to = m
        BY <3>2, <4>2, <4>3, <4>4
      <4>5. CASE r.to # m
        BY <3>3, <4>2, <4>3, <4>5
      <4> QED BY <4>4, <4>5
    <3>6. CursorInTree'
      BY <2>3, <3>2, <3>3 DEF NetInv, CursorInTree, InTree
    <3> QED BY <3>4, <3>5, <3>6 DEF NetInv
  <2>4. UNCHANGED <<cursor, id>> \/ (/\ InTree(m, rep)
                                     /\ cursor' = [cursor EXCEPT ![m] = rep.oid]
                                     /\ id' = [id EXCEPT ![m] = @ + 1])
    BY <1>8 DEF Take, WalkStep, LastStep, Ignore, managerVars
  <2> QED BY <2>2, <2>3, <2>4
<1>9. CASE UNCHANGED vars
  BY <1>9, NetShrinks DEF vars, netVars, managerVars
<1> QED BY <1>1, <1>2, <1>3, <1>4, <1>5, <1>6, <1>7, <1>8, <1>9
        DEF Next, Agent, Manager

----------------------------------------------------------------------------
(* The refinement.                                                          *)

\* What MibWalk sees of a manager.
Outcome == [m \in Managers |->
              IF phase[m] \in {"ready", "waiting"} THEN "running" ELSE phase[m]]

LEMMA SameNotions ==
  /\ \A a, b : Walks!Precedes(a, b) <=> Precedes(a, b)
  /\ \A a, b : Walks!Under(a, b) <=> Under(a, b)
  /\ Walks!Objects = {Table[i] : i \in Entries}
BY DEF Walks!Precedes, Precedes, Walks!Under, Under, Walks!Objects, Walks!Entries,
       Entries

\* The objects a walk has yet to give, in the agent's terms.
LEMMA AheadObjects ==
  ASSUME NEW m, NEW o
  PROVE  o \in Walks!Ahead(m) <=>
           \E i \in Entries : /\ o = Table[i]
                             /\ Under(Job[m].oid, Table[i])
                             /\ Precedes(cursor[m], Table[i])
BY SameNotions DEF Walks!Ahead

\* The answer that takes a walk on is the next object of its tree.
LEMMA AdvanceIsNext ==
  ASSUME Sorted, TypeInv, NetInv, NEW m \in Managers, NEW rep \in replies, rep.to = m,
         rep.id = id[m], InTree(m, rep)
  PROVE  /\ Precedes(cursor[m], rep.oid)
         /\ rep.oid \in Walks!Ahead(m)
         /\ \A other \in Walks!Ahead(m) :
              other = rep.oid \/ Walks!Precedes(rep.oid, other)
<1> DEFINE req == CurrentRequest(m)
<1>1. rep = ReplyTo(req)
  BY DEF NetInv, RepliesKnown
<1>2. req.pdu = "GETNEXT" /\ req.oid = cursor[m] /\ Found(req) = LookupNext(cursor[m])
  BY DEF InTree, CurrentRequest, Found
<1>3. Found(req) # 0 /\ rep.oid = Table[LookupNext(cursor[m])]
  BY <1>1, <1>2 DEF InTree, ReplyTo
<1>4. LookupNext(cursor[m]) \in Entries /\ Precedes(cursor[m], rep.oid)
  BY <1>2, <1>3, LookupNextFinds
<1>5. rep.oid \in Walks!Ahead(m)
  BY <1>3, <1>4, AheadObjects DEF InTree
<1>6. ASSUME NEW other \in Walks!Ahead(m)
      PROVE  other = rep.oid \/ Walks!Precedes(rep.oid, other)
  <2>1. PICK i \in Entries : other = Table[i] /\ Precedes(cursor[m], Table[i])
    BY AheadObjects
  <2> QED BY <2>1, <1>2, <1>3, NextIsLeast, SameNotions
<1> QED BY <1>4, <1>5, <1>6

\* A walk that is told of nothing, or of an object outside its tree, has seen all
\* of it: an object still ahead would have been between.
LEMMA FinishAtEnd ==
  ASSUME Sorted, TypeInv, NetInv, NEW m \in Managers, NEW rep \in replies, rep.to = m,
         rep.id = id[m], Job[m].pdu = "GETNEXT", ~InTree(m, rep)
  PROVE  Walks!Ahead(m) = {}
<1> DEFINE req == CurrentRequest(m)
<1>1. rep = ReplyTo(req)
  BY DEF NetInv, RepliesKnown
<1>2. Found(req) = LookupNext(cursor[m])
  BY DEF CurrentRequest, Found
<1>3. SUFFICES ASSUME NEW i \in Entries, Under(Job[m].oid, Table[i]),
                      Precedes(cursor[m], Table[i])
               PROVE  FALSE
  BY AheadObjects
<1>4. LookupNext(cursor[m]) # 0
  BY <1>3, LookupNextFinds
<1>5. rep.error = "NOERROR" /\ rep.oid = Table[LookupNext(cursor[m])]
  BY <1>1, <1>2, <1>4 DEF ReplyTo
<1>6. ~Under(Job[m].oid, rep.oid)
  BY <1>5 DEF InTree
<1>7. Precedes(cursor[m], rep.oid) /\ LookupNext(cursor[m]) \in Entries
  BY <1>4, <1>5, LookupNextFinds
<1>8. Table[i] = rep.oid \/ Precedes(rep.oid, Table[i])
  BY <1>3, <1>4, <1>5, NextIsLeast
<1>9. Job[m].oid \in Oid /\ cursor[m] \in Oid /\ rep.oid \in Oid /\ Table[i] \in Oid
  BY <1>5, <1>7, EntryType, AgentAssumption DEF TypeInv, TypeOK
<1>10. Under(Job[m].oid, cursor[m])
  BY DEF NetInv, CursorInTree
<1> QED BY <1>3, <1>6, <1>7, <1>8, <1>9, <1>10, TreeIsInterval

LEMMA OutcomeSteps ==
  ASSUME TypeInv, NEW m \in Managers, NEW p, phase' = [phase EXCEPT ![m] = p]
  PROVE  Outcome' = [Outcome EXCEPT ![m] =
                       IF p \in {"ready", "waiting"} THEN "running" ELSE p]
BY DEF Outcome, TypeInv, TypeOK

LEMMA WalkInit == Init => Walks!WalkInit
<1> SUFFICES ASSUME Init PROVE Walks!WalkInit
  OBVIOUS
<1>1. Outcome = [m \in Managers |-> "running"]
  BY DEF Init, Outcome
<1> QED BY <1>1 DEF Init, Walks!WalkInit, Outcome

LEMMA WalkStepImplements ==
  ASSUME Sorted, TypeInv, NetInv, [Next]_vars
  PROVE  [Walks!WalkNext]_(Walks!walkVars)
<1> DEFINE walkVars == <<Outcome, cursor, seen>>
<1>0. (UNCHANGED walkVars \/ \E m \in Managers : \/ Walks!Advance(m) \/ Walks!Finish(m)
                                               \/ Walks!Get(m) \/ Walks!GiveUp(m))
        => [Walks!WalkNext]_(Walks!walkVars)
  BY DEF Walks!WalkNext, Walks!walkVars, Outcome
<1> SUFFICES UNCHANGED walkVars \/ \E m \in Managers :
               Walks!Advance(m) \/ Walks!Finish(m) \/ Walks!Get(m) \/ Walks!GiveUp(m)
  BY <1>0
<1>1. ASSUME UNCHANGED managerVars PROVE UNCHANGED walkVars
  BY <1>1 DEF managerVars, Outcome
<1>2. ASSUME NEW m \in Managers, Send(m) PROVE UNCHANGED walkVars
  <2>1. phase[m] \in {"ready", "waiting"} /\ Outcome[m] = "running"
    BY <1>2 DEF Send, TimedOut, Outcome
  <2>2. Outcome' = [Outcome EXCEPT ![m] = "running"]
    BY <1>2, OutcomeSteps DEF Send
  <2> QED BY <1>2, <2>1, <2>2 DEF Send, Outcome
<1>3. ASSUME NEW m \in Managers, GiveUp(m) PROVE Walks!GiveUp(m)
  <2>1. Outcome[m] = "running"
    BY <1>3 DEF GiveUp, TimedOut, Outcome
  <2>2. Outcome' = [Outcome EXCEPT ![m] = "gave_up"]
    BY <1>3, OutcomeSteps DEF GiveUp
  <2> QED BY <1>3, <2>1, <2>2 DEF GiveUp, Walks!GiveUp, Walks!Running, Outcome
<1>4. ASSUME NEW m \in Managers, NEW rep \in replies, rep.to = m, rep.id = id[m],
             phase[m] = "waiting", WalkStep(m, rep)
      PROVE  Walks!Advance(m)
  <2>1. InTree(m, rep)
    BY <1>4 DEF WalkStep
  <2>2. /\ Precedes(cursor[m], rep.oid)
        /\ rep.oid \in Walks!Ahead(m)
        /\ \A other \in Walks!Ahead(m) :
             other = rep.oid \/ Walks!Precedes(rep.oid, other)
    BY <1>4, <2>1, AdvanceIsNext
  <2>3. /\ phase' = [phase EXCEPT ![m] = "ready"]
        /\ seen' = [seen EXCEPT ![m] = Append(@, rep.oid)]
        /\ cursor' = [cursor EXCEPT ![m] = rep.oid]
    BY <1>4, <2>2 DEF WalkStep
  <2>4. Outcome[m] = "running" /\ Outcome' = [Outcome EXCEPT ![m] = "running"]
    BY <1>4, <2>3, OutcomeSteps DEF Outcome
  <2>5. Outcome' = Outcome
    BY <2>4 DEF Outcome
  <2>6. Walks!Walks(m)
    BY <2>1 DEF InTree, Walks!Walks
  <2> QED BY <2>2, <2>3, <2>4, <2>5, <2>6 DEF Walks!Advance, Walks!Running, Outcome
<1>5. ASSUME NEW m \in Managers, NEW rep \in replies, rep.to = m, rep.id = id[m],
             phase[m] = "waiting", LastStep(m, rep)
      PROVE  Walks!Finish(m) \/ Walks!Get(m)
  <2>1. Outcome[m] = "running" /\ Outcome' = [Outcome EXCEPT ![m] = "done"]
    BY <1>5, OutcomeSteps DEF LastStep, Outcome
  <2>2. rep = ReplyTo(CurrentRequest(m)) /\ Accepts(CurrentRequest(m))
    BY <1>5 DEF NetInv, RepliesKnown
  <2>3. Job[m].pdu \in {"GET", "GETNEXT"}
    BY <2>2 DEF Accepts, CurrentRequest
  <2>4. CASE Job[m].pdu = "GETNEXT"
    <3>1. Walks!Ahead(m) = {} /\ Walks!Walks(m)
      BY <1>5, <2>4, FinishAtEnd DEF LastStep, Walks!Walks
    <3> QED BY <1>5, <2>1, <2>4, <3>1 DEF LastStep, Walks!Finish, Walks!Running, Outcome
  <2>5. CASE Job[m].pdu = "GET"
    <3>1. Found(CurrentRequest(m)) = LookupExact(cursor[m]) /\ ~Walks!Walks(m)
      BY <2>5 DEF CurrentRequest, Found, Walks!Walks
    <3>2. rep.error = "NOERROR" <=> cursor[m] \in Walks!Objects
      BY <2>2, <3>1, LookupExactFinds, SameNotions DEF ReplyTo
    <3>3. rep.error = "NOERROR" => rep.oid = cursor[m]
      BY <2>2, <3>1, LookupExactFinds DEF ReplyTo
    <3>4. /\ seen' = IF cursor[m] \in Walks!Objects
                     THEN [seen EXCEPT ![m] = Append(@, cursor[m])] ELSE seen
          /\ cursor' = cursor
      BY <1>5, <2>5, <3>2, <3>3 DEF LastStep
    <3> QED BY <2>1, <3>1, <3>4 DEF Walks!Get, Walks!Running, Outcome
  <2> QED BY <2>3, <2>4, <2>5
<1>6. ASSUME NEW m \in Managers, NEW rep \in replies, Take(m, rep)
      PROVE  UNCHANGED walkVars \/ Walks!Advance(m) \/ Walks!Finish(m) \/ Walks!Get(m)
  <2>1. CASE Ignore(m, rep)
    BY <2>1, <1>1 DEF Ignore
  <2>2. CASE phase[m] = "waiting" /\ rep.id = id[m] /\ (WalkStep(m, rep) \/ LastStep(m, rep))
    BY <1>6, <2>2, <1>4, <1>5 DEF Take
  <2> QED BY <1>6, <2>1, <2>2 DEF Take
<1>7. UNCHANGED managerVars \/ (\E m \in Managers : Manager(m))
  BY DEF Next, vars, Agent, AgentStart, TaskBind, Handle, Unheard, Lose
<1> QED BY <1>1, <1>2, <1>3, <1>6, <1>7 DEF Manager

\* With a sorted table, what managers see of the agent is a walk: ImplementsMibWalk
\* of SnmpAgent, for every table, job, retry limit and behaviour of the network.
THEOREM AgentImplementsMibWalk == Sorted => (Spec => ImplementsMibWalk)
<1> SUFFICES ASSUME Sorted PROVE Spec => ImplementsMibWalk
  OBVIOUS
<1>1. Spec => [](TypeInv /\ NetInv)
  <2>1. Init => TypeInv /\ NetInv
    BY TypeInit, NetInit
  <2>2. TypeInv /\ NetInv /\ [Next]_vars => (TypeInv /\ NetInv)'
    BY TypeStep, NetStep
  <2> QED BY <2>1, <2>2, PTL DEF Spec
<1>2. Init => Walks!WalkInit
  BY WalkInit
<1>3. TypeInv /\ NetInv /\ [Next]_vars => [Walks!WalkNext]_(Walks!walkVars)
  BY WalkStepImplements
<1> QED BY <1>1, <1>2, <1>3, PTL DEF Spec, ImplementsMibWalk, Walks!WalkSpec
===============================================================================
