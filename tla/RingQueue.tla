------------------------------- MODULE RingQueue -------------------------------
(***************************************************************************)
(* The ring in which uart_engine.c keeps its jobs: an array, two indices   *)
(* and a count, all but the array of eight bits.  UartEngine has the       *)
(* sequence that this module shows the ring to be.                         *)
(***************************************************************************)
EXTENDS Integers, Sequences

CONSTANTS
  Jobs,         \* what can be queued
  QueueSize,    \* UART_ENGINE_QUEUE_SIZE
  U8Max         \* 255

\* An index and the count fit eight bits.
ASSUME RingAssumption ==
  /\ QueueSize \in Nat \ {0}
  /\ U8Max \in Nat
  /\ QueueSize <= U8Max

VARIABLES
  s_queue,
  s_q_head,
  s_q_tail,
  s_q_count,
  answer        \* history: what the last call returned

indices == <<s_q_head, s_q_tail, s_q_count>>
vars == <<s_queue, indices, answer>>

U8(n) == n % (U8Max + 1)
After(index) == U8((index + 1) % QueueSize)

Refused == [ok |-> FALSE, job |-> <<>>]
Accepted == [ok |-> TRUE, job |-> <<>>]
Given(job) == [ok |-> TRUE, job |-> <<job>>]

----------------------------------------------------------------------------
Init ==
  /\ s_queue \in [0 .. QueueSize - 1 -> Jobs]
  /\ s_q_head = 0
  /\ s_q_tail = 0
  /\ s_q_count = 0
  /\ answer = Refused

QueueIsFull == s_q_count >= QueueSize

QueuePush(job) ==
  \/ /\ QueueIsFull
     /\ answer' = Refused
     /\ UNCHANGED <<s_queue, indices>>
  \/ /\ ~QueueIsFull
     /\ s_queue' = [s_queue EXCEPT ![s_q_tail] = job]
     /\ s_q_tail' = After(s_q_tail)
     /\ s_q_count' = U8(s_q_count + 1)
     /\ answer' = Accepted
     /\ UNCHANGED s_q_head

\* What queue_pop() would be if it moved the head before it reads.
QueuePopLate ==
  /\ s_q_count # 0
  /\ answer' = Given(s_queue[After(s_q_head)])
  /\ s_q_head' = After(s_q_head)
  /\ s_q_count' = U8(s_q_count - 1)
  /\ UNCHANGED <<s_queue, s_q_tail>>

QueuePop ==
  \/ /\ s_q_count = 0
     /\ answer' = Refused
     /\ UNCHANGED <<s_queue, indices>>
  \/ /\ s_q_count # 0
     /\ answer' = Given(s_queue[s_q_head])
     /\ s_q_head' = After(s_q_head)
     /\ s_q_count' = U8(s_q_count - 1)
     /\ UNCHANGED <<s_queue, s_q_tail>>

\* What a reset would be that forgets the tail.
ResetKeepsTail ==
  /\ s_q_head' = 0
  /\ s_q_count' = 0
  /\ UNCHANGED <<s_queue, s_q_tail, answer>>

\* uart_engine_reset_internal(); the array keeps its old jobs.
Reset ==
  /\ s_q_head' = 0
  /\ s_q_tail' = 0
  /\ s_q_count' = 0
  /\ UNCHANGED <<s_queue, answer>>

Next == (\E job \in Jobs : QueuePush(job)) \/ QueuePop \/ Reset

Spec == Init /\ [][Next]_vars

----------------------------------------------------------------------------
\* The place n after an index, once around.
Place(index, n) == IF index + n < QueueSize THEN index + n ELSE index + n - QueueSize

\* The indices and the count agree: the tail is where the count says, so that a
\* push writes no job that waits and a pop reads none that was given before.
InRing ==
  /\ s_queue \in [0 .. QueueSize - 1 -> Jobs]
  /\ s_q_head \in 0 .. QueueSize - 1
  /\ s_q_tail \in 0 .. QueueSize - 1
  /\ s_q_count \in 0 .. QueueSize
  /\ s_q_tail = Place(s_q_head, s_q_count)

\* The jobs that wait, the oldest first.
Contents == [i \in 1 .. s_q_count |-> s_queue[Place(s_q_head, i - 1)]]

Queue == INSTANCE Fifo WITH Capacity <- QueueSize, items <- Contents

\* The ring is a first-in first-out queue: no job is lost, overwritten, given
\* twice or given out of order, however often the indices go around.
ImplementsFifo == Queue!Spec
==============================================================================
