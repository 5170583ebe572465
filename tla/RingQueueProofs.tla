---------------------------- MODULE RingQueueProofs ----------------------------
(***************************************************************************)
(* The ring of uart_engine.c implements a bounded queue, for every size    *)
(* that eight bits can count and every kind of job.                        *)
(***************************************************************************)
EXTENDS RingQueue, TLAPS, SequenceTheorems

\* The remainder that moves an index, without the remainder.
LEMMA AfterIsPlace ==
  ASSUME NEW index \in 0 .. QueueSize - 1
  PROVE  After(index) = Place(index, 1)
<1>1. QueueSize \in Nat /\ QueueSize > 0 /\ U8Max \in Nat /\ QueueSize <= U8Max
  BY RingAssumption
<1>2. CASE index + 1 < QueueSize
  <2>1. (index + 1) % QueueSize = index + 1
    BY <1>1, <1>2
  <2>2. (index + 1) % (U8Max + 1) = index + 1
    BY <1>1, <1>2
  <2> QED BY <2>1, <2>2, <1>2 DEF After, U8, Place
<1>3. CASE index + 1 = QueueSize
  <2>1. QueueSize % QueueSize = 0
    BY <1>1
  <2>2. 0 % (U8Max + 1) = 0
    BY <1>1
  <2> QED BY <2>1, <2>2, <1>3, <1>1 DEF After, U8, Place
<1> QED BY <1>1, <1>2, <1>3

LEMMA CountFits ==
  ASSUME NEW n \in 0 .. QueueSize
  PROVE  U8(n) = n
  BY RingAssumption DEF U8

----------------------------------------------------------------------------
(* The invariant.                                                          *)

LEMMA RingInit == Init => InRing
<1> SUFFICES ASSUME Init PROVE InRing
  OBVIOUS
<1> QED BY RingAssumption DEF Init, InRing, Place

LEMMA RingStep == InRing /\ [Next]_vars => InRing'
<1> SUFFICES ASSUME InRing, [Next]_vars PROVE InRing'
  OBVIOUS
<1> USE RingAssumption
<1>1. ASSUME NEW job \in Jobs, QueuePush(job) PROVE InRing'
  <2>1. CASE UNCHANGED <<s_queue, indices>>
    BY <2>1 DEF InRing, indices
  <2>2. CASE /\ ~QueueIsFull
             /\ s_queue' = [s_queue EXCEPT ![s_q_tail] = job]
             /\ s_q_tail' = After(s_q_tail)
             /\ s_q_count' = U8(s_q_count + 1)
             /\ UNCHANGED s_q_head
    <3>1. s_q_count + 1 \in 0 .. QueueSize
      BY <2>2 DEF InRing, QueueIsFull
    <3>2. s_q_count' = s_q_count + 1
      BY <2>2, <3>1, CountFits
    <3>3. s_q_tail' = Place(s_q_tail, 1)
      BY <2>2, AfterIsPlace DEF InRing
    <3>4. s_queue' \in [0 .. QueueSize - 1 -> Jobs]
      BY <2>2 DEF InRing
    <3> QED BY <2>2, <3>1, <3>2, <3>3, <3>4 DEF InRing, Place
  <2> QED BY <1>1, <2>1, <2>2 DEF QueuePush
<1>2. ASSUME QueuePop PROVE InRing'
  <2>1. CASE UNCHANGED <<s_queue, indices>>
    BY <2>1 DEF InRing, indices
  <2>2. CASE /\ s_q_count # 0
             /\ s_q_head' = After(s_q_head)
             /\ s_q_count' = U8(s_q_count - 1)
             /\ UNCHANGED <<s_queue, s_q_tail>>
    <3>1. s_q_count' = s_q_count - 1 /\ s_q_count - 1 \in 0 .. QueueSize
      BY <2>2, CountFits DEF InRing
    <3>2. s_q_head' = Place(s_q_head, 1)
      BY <2>2, AfterIsPlace DEF InRing
    <3> QED BY <2>2, <3>1, <3>2 DEF InRing, Place
  <2> QED BY <1>2, <2>1, <2>2 DEF QueuePop
<1>3. ASSUME Reset PROVE InRing'
  BY <1>3 DEF Reset, InRing, Place
<1>4. CASE UNCHANGED vars
  BY <1>4 DEF InRing, vars, indices
<1> QED BY <1>1, <1>2, <1>3, <1>4 DEF Next

\* The tail of the ring is always where the count says, so that a push never
\* writes a job that waits (queue_push() and queue_pop()).
THEOREM RingInvariant == Spec => []InRing
<1>1. Init => InRing
  BY RingInit
<1>2. InRing /\ [Next]_vars => InRing'
  BY RingStep
<1> QED BY <1>1, <1>2, PTL DEF Spec

----------------------------------------------------------------------------
(* The refinement.                                                         *)

LEMMA ContentsType ==
  ASSUME InRing
  PROVE  /\ Contents \in Seq(Jobs)
         /\ Len(Contents) = s_q_count
         /\ \A i \in 1 .. s_q_count : Contents[i] = s_queue[Place(s_q_head, i - 1)]
<1>1. \A i \in 1 .. s_q_count : Place(s_q_head, i - 1) \in 0 .. QueueSize - 1
  BY RingAssumption DEF InRing, Place
<1>2. \A i \in 1 .. s_q_count : s_queue[Place(s_q_head, i - 1)] \in Jobs
  BY <1>1 DEF InRing
<1>3. s_q_count \in Nat
  BY RingAssumption DEF InRing
<1>4. Contents \in [1 .. s_q_count -> Jobs]
  BY <1>2 DEF Contents
<1>5. Contents \in Seq(Jobs) /\ Len(Contents) = s_q_count
  BY <1>3, <1>4
<1> QED BY <1>5 DEF Contents

\* A push appends to what waits: it touches no other job.
LEMMA PushAppends ==
  ASSUME InRing, InRing', NEW job \in Jobs, ~QueueIsFull,
         s_queue' = [s_queue EXCEPT ![s_q_tail] = job],
         s_q_count' = s_q_count + 1, s_q_head' = s_q_head
  PROVE  Contents' = Append(Contents, job)
<1> USE RingAssumption
<1>1. /\ Contents \in Seq(Jobs)
      /\ Len(Contents) = s_q_count
      /\ \A i \in 1 .. s_q_count : Contents[i] = s_queue[Place(s_q_head, i - 1)]
  BY ContentsType
<1>2. s_q_count \in 0 .. QueueSize - 1
  BY DEF InRing, QueueIsFull
<1>3. ASSUME NEW i \in 1 .. s_q_count
      PROVE  s_queue'[Place(s_q_head, i - 1)] = Contents[i]
  <2>1. Place(s_q_head, i - 1) # s_q_tail
    BY <1>2 DEF InRing, Place
  <2>2. Place(s_q_head, i - 1) \in 0 .. QueueSize - 1
    BY <1>2 DEF InRing, Place
  <2> QED BY <1>1, <2>1, <2>2 DEF InRing
<1>4. s_queue'[Place(s_q_head, s_q_count + 1 - 1)] = job
  <2>1. s_q_count + 1 - 1 = s_q_count
    BY <1>2
  <2> QED BY <2>1 DEF InRing
<1>5. Contents' = [i \in 1 .. s_q_count + 1 |-> s_queue'[Place(s_q_head, i - 1)]]
  BY DEF Contents, Place
<1>6. /\ Append(Contents, job) \in Seq(Jobs)
      /\ Len(Append(Contents, job)) = s_q_count + 1
      /\ \A i \in 1 .. s_q_count + 1 :
           Append(Contents, job)[i] = IF i = s_q_count + 1 THEN job ELSE Contents[i]
  BY <1>1, <1>2, AppendProperties
<1>7. \A i \in 1 .. s_q_count + 1 :
        s_queue'[Place(s_q_head, i - 1)] =
          IF i = s_q_count + 1 THEN job ELSE Contents[i]
  <2> TAKE i \in 1 .. s_q_count + 1
  <2>1. CASE i = s_q_count + 1
    <3>1. i - 1 = s_q_count + 1 - 1
      BY <2>1, <1>2
    <3> QED BY <2>1, <3>1, <1>4
  <2>2. CASE i # s_q_count + 1
    <3>1. i \in 1 .. s_q_count
      BY <2>2, <1>2
    <3> QED BY <2>2, <3>1, <1>3
  <2> QED BY <2>1, <2>2
<1>8. Contents' = [i \in 1 .. s_q_count + 1 |-> Append(Contents, job)[i]]
  BY <1>5, <1>6, <1>7
<1>9. /\ Contents' \in Seq(Jobs)
      /\ Len(Contents') = s_q_count + 1
      /\ \A i \in 1 .. s_q_count + 1 : Contents'[i] = Append(Contents, job)[i]
  BY <1>2, <1>6, <1>8
<1> QED BY <1>6, <1>9, SeqEqual

\* A pop gives the first of what waits and leaves the rest.
LEMMA PopTakesHead ==
  ASSUME InRing, InRing', s_q_count # 0,
         s_queue' = s_queue, s_q_count' = s_q_count - 1,
         s_q_head' = Place(s_q_head, 1)
  PROVE  /\ Contents # <<>>
         /\ Head(Contents) = s_queue[s_q_head]
         /\ Contents' = Tail(Contents)
<1> USE RingAssumption
<1>1. /\ Contents \in Seq(Jobs)
      /\ Len(Contents) = s_q_count
      /\ \A i \in 1 .. s_q_count : Contents[i] = s_queue[Place(s_q_head, i - 1)]
  BY ContentsType
<1>2. s_q_count \in 1 .. QueueSize
  BY DEF InRing
<1>3. Contents # <<>>
  BY <1>1, <1>2
<1>4. Head(Contents) = s_queue[s_q_head]
  <2>1. Head(Contents) = Contents[1]
    BY <1>1, <1>3, HeadTailProperties
  <2>2. Place(s_q_head, 1 - 1) = s_q_head
    BY DEF InRing, Place
  <2> QED BY <1>1, <1>2, <2>1, <2>2
<1>5. /\ Tail(Contents) \in Seq(Jobs)
      /\ Len(Tail(Contents)) = s_q_count - 1
      /\ \A i \in 1 .. s_q_count - 1 : Tail(Contents)[i] = Contents[i + 1]
  BY <1>1, <1>2, <1>3, HeadTailProperties
<1>6. Contents' = [i \in 1 .. s_q_count - 1 |->
                     s_queue[Place(Place(s_q_head, 1), i - 1)]]
  BY DEF Contents, Place
<1>7. \A i \in 1 .. s_q_count - 1 :
        s_queue[Place(Place(s_q_head, 1), i - 1)] = Contents[i + 1]
  <2> TAKE i \in 1 .. s_q_count - 1
  <2>1. Place(Place(s_q_head, 1), i - 1) = Place(s_q_head, (i + 1) - 1)
    BY <1>2 DEF InRing, Place
  <2>2. i + 1 \in 1 .. s_q_count
    BY <1>2
  <2> QED BY <1>1, <2>1, <2>2
<1>8. Contents' = [i \in 1 .. s_q_count - 1 |-> Tail(Contents)[i]]
  BY <1>5, <1>6, <1>7
<1>9. /\ Contents' \in Seq(Jobs)
      /\ Len(Contents') = s_q_count - 1
      /\ \A i \in 1 .. s_q_count - 1 : Contents'[i] = Tail(Contents)[i]
  <2> DEFINE rest == Tail(Contents)
  <2>1. s_q_count - 1 \in Nat /\ rest \in Seq(Jobs) /\ Len(rest) = s_q_count - 1
    BY <1>2, <1>5
  <2>2. Contents' = [i \in 1 .. s_q_count - 1 |-> rest[i]]
    BY <1>8
  <2> HIDE DEF rest
  <2>3. \A i \in 1 .. s_q_count - 1 : rest[i] \in Jobs
    BY <2>1
  <2>4. Contents' \in [1 .. s_q_count - 1 -> Jobs]
    BY <2>2, <2>3
  <2>5. Contents' \in Seq(Jobs) /\ Len(Contents') = s_q_count - 1
    BY <2>1, <2>4
  <2>6. \A i \in 1 .. s_q_count - 1 : Contents'[i] = rest[i]
    BY <2>2
  <2> QED BY <2>5, <2>6 DEF rest
<1>10. Contents' = Tail(Contents)
  BY <1>5, <1>9, SeqEqual
<1> QED BY <1>3, <1>4, <1>10

LEMMA EmptyContents ==
  ASSUME s_q_count = 0
  PROVE  Contents = <<>>
BY DEF Contents

LEMMA RefinesStep ==
  ASSUME InRing, InRing', [Next]_vars
  PROVE  [Queue!Next]_<<Contents, answer>>
<1> USE RingAssumption
<1>0. /\ Contents \in Seq(Jobs)
      /\ Len(Contents) = s_q_count
  BY ContentsType
<1>1. ASSUME NEW job \in Jobs, QueuePush(job) PROVE Queue!Push(job)
  <2>1. CASE QueueIsFull /\ answer' = Refused /\ UNCHANGED <<s_queue, indices>>
    <3>1. Len(Contents) = QueueSize
      BY <1>0, <2>1 DEF InRing, QueueIsFull
    <3>2. Contents' = Contents
      BY <2>1 DEF Contents, Place, indices
    <3> QED BY <2>1, <3>1, <3>2 DEF Queue!Push, Queue!Refused, Refused
  <2>2. CASE /\ ~QueueIsFull
             /\ s_queue' = [s_queue EXCEPT ![s_q_tail] = job]
             /\ s_q_count' = U8(s_q_count + 1)
             /\ answer' = Accepted
             /\ UNCHANGED s_q_head
    <3>1. s_q_count' = s_q_count + 1
      <4>1. s_q_count + 1 \in 0 .. QueueSize
        BY <2>2 DEF InRing, QueueIsFull
      <4> QED BY <2>2, <4>1, CountFits
    <3>2. Contents' = Append(Contents, job)
      BY <2>2, <3>1, PushAppends
    <3>3. Len(Contents) < QueueSize
      BY <1>0, <2>2 DEF InRing, QueueIsFull
    <3> QED BY <2>2, <3>2, <3>3 DEF Queue!Push, Queue!Accepted, Accepted
  <2> QED BY <1>1, <2>1, <2>2 DEF QueuePush
<1>2. ASSUME QueuePop PROVE Queue!Pop
  <2>1. CASE s_q_count = 0 /\ answer' = Refused /\ UNCHANGED <<s_queue, indices>>
    <3>1. Contents = <<>>
      BY <2>1, EmptyContents
    <3>2. Contents' = Contents
      BY <2>1 DEF Contents, Place, indices
    <3> QED BY <2>1, <3>1, <3>2 DEF Queue!Pop, Queue!Refused, Refused
  <2>2. CASE /\ s_q_count # 0
             /\ answer' = Given(s_queue[s_q_head])
             /\ s_q_head' = After(s_q_head)
             /\ s_q_count' = U8(s_q_count - 1)
             /\ UNCHANGED <<s_queue, s_q_tail>>
    <3>1. s_q_count' = s_q_count - 1
      BY <2>2, CountFits DEF InRing
    <3>2. s_q_head' = Place(s_q_head, 1)
      BY <2>2, AfterIsPlace DEF InRing
    <3>3. /\ Contents # <<>>
          /\ Head(Contents) = s_queue[s_q_head]
          /\ Contents' = Tail(Contents)
      BY <2>2, <3>1, <3>2, PopTakesHead
    <3> QED BY <2>2, <3>3 DEF Queue!Pop, Queue!Given, Given
  <2> QED BY <1>2, <2>1, <2>2 DEF QueuePop
<1>3. ASSUME Reset PROVE Queue!Clear
  <2>1. Contents' = <<>>
    BY <1>3 DEF Reset, Contents
  <2> QED BY <1>3, <2>1 DEF Reset, Queue!Clear
<1>4. ASSUME UNCHANGED vars PROVE UNCHANGED <<Contents, answer>>
  BY <1>4 DEF vars, indices, Contents, Place
<1> QED BY <1>1, <1>2, <1>3, <1>4 DEF Next, Queue!Next

\* The ring is the queue that the engine's model has as a sequence.
THEOREM RingIsFifo == Spec => ImplementsFifo
<1>1. Init => Queue!Init
  <2> SUFFICES ASSUME Init PROVE Queue!Init
    OBVIOUS
  <2>1. Contents = <<>>
    BY EmptyContents DEF Init
  <2> QED BY <2>1 DEF Init, Queue!Init, Queue!Refused, Refused
<1>2. InRing /\ InRing' /\ [Next]_vars => [Queue!Next]_<<Contents, answer>>
  BY RefinesStep
<1>3. Spec => []InRing
  BY RingInvariant
<1> QED BY <1>1, <1>2, <1>3, PTL DEF Spec, ImplementsFifo, Queue!Spec
==============================================================================
