--------------------------- MODULE Exchanges_proofs ---------------------------
(***************************************************************************)
(* The five exchanges, for any number of samples, requests, commands and   *)
(* blocks and any room in the queues.  Each has its invariant:             *)
(*                                                                         *)
(* - mailbox: the sequence number is twice the number of samples, less one *)
(*   while one is being written, so a reader whose number is still the     *)
(*   current one has copied nothing but the newest sample;                 *)
(* - ring: the producer's slot is not among those that wait, the           *)
(*   consumer's is the first of them;                                      *)
(* - USB: the packets of the replies that wait lie in what the host is     *)
(*   owed end to end, behind what is left of the reply in the FIFO, and    *)
(*   none waits while the vendor endpoint is idle;                         *)
(* - audio worker and manager: see AudioWorker_proofs and                  *)
(*   ManagerReply_proofs.                                                  *)
(***************************************************************************)
EXTENDS MCExchanges, SequenceTheorems, TLAPS

(* Where the callback is in its sample.                                     *)
WriterInv ==
  /\ writer = "idle" => sequence = 2 * sample
  /\ writer # "idle" => sequence = 2 * sample - 1 /\ sample > 0
  /\ writer \in {"idle", "second", "end"} => slot.first = sample
  /\ writer \in {"idle", "end"} => slot.second = sample

(* What the reader knows while its number is the current one.               *)
ReaderInv ==
  /\ reader = "begin" => attempts < Attempts
  /\ reader # "begin" => processed < before /\ before <= sequence
  /\ reader # "begin" /\ before = sequence => writer = "idle"
  /\ reader \in {"second", "check"} /\ before = sequence => copy.first = sample
  /\ reader = "check" /\ before = sequence => copy.second = sample

(* What it has handed out, and what it remembers of it.                     *)
DeliveredInv ==
  /\ NoTornSample
  /\ processed = 2 * delivered.first
  /\ processed <= sequence

(* What holds of the mailbox between any two steps of its writer and        *)
(* reader.                                                                  *)
MailboxInv == TypeOK /\ WriterInv /\ ReaderInv /\ DeliveredInv

(* An odd number is one a callback is at work behind.                       *)
LEMMA OddMeansBusy ==
  ASSUME NEW n \in Nat
  PROVE  /\ (2 * n) % 2 = 0
         /\ n > 0 => (2 * n - 1) % 2 = 1
  BY SMT

(* The mailbox starts empty.                                                *)
LEMMA InitMailbox == Init => MailboxInv
  BY AttemptsAssumption
  DEF Init, MailboxInv, TypeOK, WriterInv, ReaderInv, DeliveredInv, NoTornSample,
      Empty, Words

(* The callback's steps: it leaves the idle state with a new number, so the *)
(* reader at work notices.                                                  *)
LEMMA WriterSteps == MailboxInv /\ (BeginWrite \/ FinishWrite) => MailboxInv'
<1> SUFFICES ASSUME MailboxInv, BeginWrite \/ FinishWrite PROVE MailboxInv'
  OBVIOUS
<1> USE DEF MailboxInv, TypeOK, WriterInv, ReaderInv, DeliveredInv, NoTornSample,
            Words, readerVars
<1>1. CASE BeginWrite
  BY <1>1 DEF BeginWrite
<1>2. CASE WriteFirst
  BY <1>2 DEF WriteFirst
<1>3. CASE WriteSecond
  BY <1>3 DEF WriteSecond
<1>4. CASE EndWrite
  BY <1>4 DEF EndWrite
<1>5. QED
  BY <1>1, <1>2, <1>3, <1>4 DEF FinishWrite

(* The reader's steps.                                                      *)
LEMMA ReaderSteps == MailboxInv /\ Read => MailboxInv'
<1> SUFFICES ASSUME MailboxInv, Read PROVE MailboxInv'
  OBVIOUS
<1> USE AttemptsAssumption
    DEF MailboxInv, TypeOK, WriterInv, ReaderInv, DeliveredInv, NoTornSample,
        Words, writerVars
<1>1. CASE NothingToRead
  BY <1>1 DEF NothingToRead
<1>2. CASE BeginRead
  <2>1. writer = "idle"
    BY <1>2, OddMeansBusy DEF BeginRead, Busy
  <2>2. processed < sequence
    BY <1>2 DEF BeginRead
  <2>3. QED
    BY <1>2, <2>1, <2>2 DEF BeginRead
<1>3. CASE ReadFirst
  BY <1>3 DEF ReadFirst
<1>4. CASE ReadSecond
  BY <1>4 DEF ReadSecond
<1>5. CASE Deliver
  BY <1>5 DEF Deliver, Hand
<1>6. CASE RetryOrGiveUp
  BY <1>6 DEF RetryOrGiveUp
<1>7. QED
  BY <1>1, <1>2, <1>3, <1>4, <1>5, <1>6 DEF Read

(* Every reachable state satisfies the invariant.                           *)
THEOREM MailboxCorrect == Spec => []MailboxInv
<1>1. MailboxInv /\ UNCHANGED vars => MailboxInv'
  BY DEF MailboxInv, TypeOK, WriterInv, ReaderInv, DeliveredInv, NoTornSample, vars,
         writerVars, readerVars
<1>2. MailboxInv /\ [Next]_vars => MailboxInv'
  BY <1>1, WriterSteps, ReaderSteps DEF Next
<1>3. QED
  BY <1>2, InitMailbox, PTL DEF Spec

(* The variables of the callback and of the loop keep their types.          *)
THEOREM MailboxTypeCorrect == Spec => []TypeOK
<1>1. MailboxInv => TypeOK
  BY DEF MailboxInv
<1>2. QED
  BY <1>1, MailboxCorrect, PTL

(* A copy the loop accepts was published whole, whichever steps of the      *)
(* callback it was interrupted by.                                          *)
THEOREM NeverTorn == Spec => []NoTornSample
<1>1. MailboxInv => NoTornSample
  BY DEF MailboxInv, DeliveredInv
<1>2. QED
  BY <1>1, MailboxCorrect, PTL

(* A sample handed out is newer than every one handed out before.           *)
THEOREM NeverBackwards == Spec => SamplesInOrder
<1>1. MailboxInv /\ [Next]_vars
        => [delivered' # delivered => delivered'.first > delivered.first]_delivered
  <2> SUFFICES ASSUME MailboxInv, [Next]_vars, delivered' # delivered
               PROVE  delivered'.first > delivered.first
    OBVIOUS
  <2>1. Deliver
    BY DEF Next, FinishWrite, Read, BeginWrite, WriteFirst, WriteSecond, EndWrite,
           NothingToRead, BeginRead, ReadFirst, ReadSecond, RetryOrGiveUp, vars,
           readerVars
  <2>2. delivered'.first = sample /\ writer = "idle"
    BY <2>1 DEF Deliver, Hand, MailboxInv, ReaderInv
  <2>3. 2 * delivered.first < 2 * sample
    BY <2>1, <2>2 DEF Deliver, MailboxInv, ReaderInv, WriterInv, DeliveredInv
  <2>4. QED
    BY <2>2, <2>3 DEF MailboxInv, TypeOK
<1>2. QED
  BY <1>1, MailboxCorrect, PTL DEF Spec, SamplesInOrder

-----------------------------------------------------------------------------
(* Request rings: positions in a ring, and how many lie between two.        *)

(* A position past the end is one from the beginning.                       *)
LEMMA Wrapped ==
  ASSUME NEW m \in Nat \ {0}, NEW n \in Nat, n < 2 * m
  PROVE  n % m = IF n < m THEN n ELSE n - m
<1>1. CASE n < m
  BY <1>1
<1>2. CASE n >= m
  <2>1. n = m * (n \div m) + (n % m) /\ n % m \in 0 .. m - 1 /\ n \div m \in Nat
    OBVIOUS
  <2>2. n \div m = 1
    BY <1>2, <2>1
  <2>3. QED
    BY <1>2, <2>1, <2>2
<1>3. QED
  BY <1>1, <1>2

(* The next position.                                                       *)
LEMMA AfterFacts ==
  ASSUME NEW p \in Ring!Positions
  PROVE  /\ Ring!After(p) \in Ring!Positions
         /\ Ring!After(p) = IF p = Capacity THEN 0 ELSE p + 1
<1> DEFINE next == p + 1
<1>1. next \in Nat /\ Ring!Storage \in Nat \ {0} /\ next < 2 * Ring!Storage
  BY ExchangesAssumption DEF Ring!Positions, Ring!Storage
<1>2. Ring!After(p) = next % Ring!Storage
  BY DEF Ring!After
<1> HIDE DEF next
<1>3. next % Ring!Storage = IF next < Ring!Storage THEN next ELSE next - Ring!Storage
  BY <1>1, Wrapped
<1>4. QED
  BY <1>2, <1>3, ExchangesAssumption DEF Ring!Positions, Ring!Storage, next

(* The producer's slot is free and it has written it before it publishes    *)
(* it; the consumer's holds what it has copied until it frees it.           *)
RingInv ==
  /\ Ring!TypeOK /\ asked <= MaxAsked
  /\ producer # "idle" => asked > 0 /\ Ring!After(head) # tail
  /\ producer = "publish" => slots[head] = asked
  /\ consumer # "pass" => tail # head /\ inPass < Capacity
  /\ consumer = "free" => command = slots[tail]

(* A ring begins empty.                                                     *)
LEMMA InitRing == Ring!Init => RingInv
  BY ExchangesAssumption DEF Ring!Init, RingInv, Ring!TypeOK, Ring!Positions

(* The producer's steps and the consumer's.                                 *)
LEMMA RingSteps ==
  ASSUME RingInv, Ring!Next \/ UNCHANGED ringVars
  PROVE  RingInv'
<1> USE DEF RingInv, Ring!TypeOK
<1>1. /\ head \in Ring!Positions /\ tail \in Ring!Positions /\ slots \in [Ring!Positions -> Nat]
      /\ Ring!After(head) \in Ring!Positions /\ Ring!After(tail) \in Ring!Positions
      /\ Ring!After(head) = Ring!After(tail) => head = tail
  <2>1. /\ head \in Ring!Positions /\ tail \in Ring!Positions /\ slots \in [Ring!Positions -> Nat]
    OBVIOUS
  <2>2. /\ Ring!After(head) \in Ring!Positions /\ Ring!After(tail) \in Ring!Positions
        /\ Ring!After(head) = IF head = Capacity THEN 0 ELSE head + 1
        /\ Ring!After(tail) = IF tail = Capacity THEN 0 ELSE tail + 1
    BY <2>1, AfterFacts
  <2>3. QED
    BY <2>1, <2>2, ExchangesAssumption DEF Ring!Positions
<1>2. CASE Ring!Ask
  BY <1>1, <1>2, ExchangesAssumption DEF Ring!Ask
<1>3. CASE Ring!Fill
  BY <1>1, <1>3, ExchangesAssumption DEF Ring!Fill
<1>4. CASE Ring!Publish
  BY <1>1, <1>4, ExchangesAssumption DEF Ring!Publish
<1>5. CASE Ring!EndPass
  BY <1>1, <1>5, ExchangesAssumption DEF Ring!EndPass
<1>6. CASE Ring!BeginRequest
  BY <1>1, <1>6, ExchangesAssumption DEF Ring!BeginRequest
<1>7. CASE Ring!Copy
  BY <1>1, <1>7, ExchangesAssumption DEF Ring!Copy
<1>8. CASE Ring!FreeAndHandle
  BY <1>1, <1>8, ExchangesAssumption DEF Ring!FreeAndHandle
<1>9. CASE UNCHANGED ringVars
  BY <1>9 DEF ringVars
<1>10. QED
  BY <1>2, <1>3, <1>4, <1>5, <1>6, <1>7, <1>8, <1>9 DEF Ring!Next, Ring!Produce, Ring!Consume

(* The queue the ring stands for, and the requests that have been accepted  *)
(* or refused.                                                              *)
Queue == [i \in 1 .. Ring!Waiting |-> slots[(tail + i - 1) % Ring!Storage]]
(* The requests the producer has an answer for, and what BoundedFifo sees   *)
(* of a ring.                                                               *)
Answered == IF producer = "idle" THEN asked ELSE asked - 1
queueVars == <<Answered, Queue, handled>>

(* Where the i-th request that waits lies.                                  *)
Place(i) == IF tail + i - 1 <= Capacity THEN tail + i - 1 ELSE tail + i - 1 - Ring!Storage

(* The queue a ring stands for, slot by slot.                               *)
QueueView ==
  /\ Ring!Waiting \in 0 .. Capacity
  /\ Ring!Waiting = IF tail <= head THEN head - tail ELSE head + Ring!Storage - tail
  /\ \A i \in 1 .. Ring!Waiting : Place(i) \in Ring!Positions /\ Place(i) # head
  /\ Queue = [i \in 1 .. Ring!Waiting |-> slots[Place(i)]]
  /\ Queue \in Seq(Nat) /\ Len(Queue) = Ring!Waiting

(* What waits in a ring is a sequence of at most Capacity requests.         *)
LEMMA QueueFacts == RingInv => QueueView
<1> SUFFICES ASSUME RingInv PROVE QueueView
  OBVIOUS
<1>1. head \in 0 .. Capacity /\ tail \in 0 .. Capacity /\ slots \in [0 .. Capacity -> Nat]
  BY DEF RingInv, Ring!TypeOK, Ring!Positions
<1>2. Ring!Storage = Capacity + 1 /\ Ring!Storage \in Nat \ {0} /\ Capacity \in Nat
  BY ExchangesAssumption DEF Ring!Storage
<1>3. Ring!Waiting = IF tail <= head THEN head - tail ELSE head + Ring!Storage - tail
  <2> DEFINE gap == head + Ring!Storage - tail
  <2>1. gap \in Nat /\ gap < 2 * Ring!Storage /\ Ring!Waiting = gap % Ring!Storage
    BY <1>1, <1>2 DEF Ring!Waiting
  <2> HIDE DEF gap
  <2>2. Ring!Waiting = IF gap < Ring!Storage THEN gap ELSE gap - Ring!Storage
    BY <1>2, <2>1, Wrapped
  <2>3. QED
    BY <1>1, <1>2, <2>2 DEF gap
<1>4. Ring!Waiting \in 0 .. Capacity
  BY <1>1, <1>2, <1>3
<1>5. ASSUME NEW i \in 1 .. Ring!Waiting
      PROVE  /\ (tail + i - 1) % Ring!Storage = Place(i)
             /\ Place(i) \in 0 .. Capacity /\ Place(i) # head
  <2> DEFINE position == tail + i - 1
  <2>1. position \in Nat /\ position < 2 * Ring!Storage /\ i <= Ring!Waiting /\ i \in Nat
    BY <1>1, <1>2, <1>4
  <2> HIDE DEF position
  <2>2. position % Ring!Storage
          = IF position < Ring!Storage THEN position ELSE position - Ring!Storage
    BY <1>2, <2>1, Wrapped
  <2>3. QED
    BY <1>1, <1>2, <1>3, <2>1, <2>2 DEF Place, position
<1>6. Queue = [i \in 1 .. Ring!Waiting |-> slots[Place(i)]]
  BY <1>5 DEF Queue
<1>7. Queue \in [1 .. Ring!Waiting -> Nat]
  BY <1>1, <1>5, <1>6
<1>8. Queue \in Seq(Nat) /\ Len(Queue) = Ring!Waiting
  BY <1>4, <1>7, ExchangesAssumption
<1>9. QED
  BY <1>3, <1>4, <1>5, <1>6, <1>8 DEF QueueView, Ring!Positions

(* A request that is published joins the end of the queue.                  *)
LEMMA PublishAccepts ==
  ASSUME RingInv, QueueView, QueueView', Ring!Publish
  PROVE  Queue' = Append(Queue, asked) /\ Len(Queue) < Capacity
<1>1. /\ head' = Ring!After(head) /\ UNCHANGED <<tail, slots>>
      /\ Ring!After(head) # tail /\ slots[head] = asked
      /\ head \in 0 .. Capacity /\ tail \in 0 .. Capacity
  BY DEF Ring!Publish, RingInv, Ring!TypeOK, Ring!Positions
<1>2. head' = IF head = Capacity THEN 0 ELSE head + 1
  BY <1>1, AfterFacts DEF Ring!Positions
<1>3. Capacity \in Nat /\ Ring!Storage = Capacity + 1
  BY ExchangesAssumption DEF Ring!Storage
<1>4. /\ Ring!Waiting \in Nat /\ Ring!Waiting < Capacity /\ Ring!Waiting' = Ring!Waiting + 1
      /\ Place(Ring!Waiting + 1) = head
  <2>1. Ring!Waiting = IF tail <= head THEN head - tail ELSE head + Ring!Storage - tail
    BY DEF QueueView
  <2>2. Ring!Waiting' = IF tail <= head' THEN head' - tail ELSE head' + Ring!Storage - tail
    BY <1>1 DEF QueueView, Ring!Storage
  <2>3. QED
    BY <1>1, <1>2, <1>3, <2>1, <2>2 DEF Place
<1>5. /\ Queue = [i \in 1 .. Ring!Waiting |-> slots[Place(i)]]
      /\ Queue \in Seq(Nat) /\ Len(Queue) = Ring!Waiting
  BY DEF QueueView
<1>6. Queue' = [i \in 1 .. Ring!Waiting + 1 |-> slots[Place(i)]]
  BY <1>1, <1>4 DEF QueueView, Place, Ring!Storage
<1>7. QED
  BY <1>1, <1>4, <1>5, <1>6

(* A request that is handled was the first of the queue.                    *)
LEMMA FreeHandles ==
  ASSUME RingInv, QueueView, QueueView', Ring!FreeAndHandle
  PROVE  Queue # <<>> /\ handled' = Head(Queue) /\ Queue' = Tail(Queue)
<1>1. /\ tail' = Ring!After(tail) /\ UNCHANGED <<head, slots>>
      /\ handled' = slots[tail] /\ tail # head
      /\ head \in 0 .. Capacity /\ tail \in 0 .. Capacity
  BY DEF Ring!FreeAndHandle, RingInv, Ring!TypeOK, Ring!Positions
<1>2. tail' = IF tail = Capacity THEN 0 ELSE tail + 1
  BY <1>1, AfterFacts DEF Ring!Positions
<1>3. Capacity \in Nat /\ Ring!Storage = Capacity + 1 /\ Ring!Storage' = Capacity + 1
  BY ExchangesAssumption DEF Ring!Storage
<1>4. Ring!Waiting \in Nat /\ Ring!Waiting > 0 /\ Ring!Waiting' = Ring!Waiting - 1
  <2>1. Ring!Waiting = IF tail <= head THEN head - tail ELSE head + Ring!Storage - tail
    BY DEF QueueView
  <2>2. Ring!Waiting' = IF tail' <= head THEN head - tail' ELSE head + Ring!Storage - tail'
    BY <1>1, <1>3 DEF QueueView
  <2>3. QED
    BY <1>1, <1>2, <1>3, <2>1, <2>2
<1>5. /\ Queue = [i \in 1 .. Ring!Waiting |-> slots[Place(i)]]
      /\ Queue \in Seq(Nat) /\ Len(Queue) = Ring!Waiting
      /\ Queue' = [i \in 1 .. Ring!Waiting - 1 |-> slots[Place(i)']]
      /\ Queue' \in Seq(Nat) /\ Len(Queue') = Ring!Waiting - 1
  BY <1>1, <1>4 DEF QueueView
<1>6. Place(1) = tail
  BY <1>1, <1>3 DEF Place
<1>7. ASSUME NEW i \in 1 .. Ring!Waiting - 1
      PROVE  Place(i)' = Place(i + 1)
  <2>1. i \in Nat /\ i >= 1
    BY <1>4
  <2>2. Place(i)' = IF tail' + i - 1 <= Capacity THEN tail' + i - 1
                    ELSE tail' + i - 1 - Ring!Storage'
    BY DEF Place
  <2>3. Place(i + 1) = IF tail + (i + 1) - 1 <= Capacity THEN tail + (i + 1) - 1
                       ELSE tail + (i + 1) - 1 - Ring!Storage
    BY DEF Place
  <2> DEFINE here == Place(i)' there == Place(i + 1) new == tail' last == Ring!Storage'
  <2>4. /\ here = IF new + i - 1 <= Capacity THEN new + i - 1 ELSE new + i - 1 - last
        /\ there = IF tail + i <= Capacity THEN tail + i ELSE tail + i - (Capacity + 1)
        /\ new = IF tail = Capacity THEN 0 ELSE tail + 1
        /\ last = Capacity + 1
        /\ i <= Capacity
    <3>1. tail + (i + 1) - 1 = tail + i
      BY <1>1, <1>3, <2>1
    <3>2. Ring!Waiting <= Capacity
      BY <1>3 DEF QueueView
    <3>3. i <= Capacity
      BY <1>3, <1>4, <2>1, <3>2
    <3>4. QED
      BY <1>2, <1>3, <2>2, <2>3, <3>1, <3>3
  <2> HIDE DEF here, there, new, last
  <2>5. here = there
    BY <1>1, <1>3, <2>1, <2>4
  <2>6. QED
    BY <2>5 DEF here, there
<1>8. Queue # <<>> /\ Head(Queue) = Queue[1] /\ Queue[1] = slots[tail]
  BY <1>4, <1>5, <1>6
<1>9. Queue' = Tail(Queue)
  <2>1. /\ Tail(Queue) \in Seq(Nat) /\ Len(Tail(Queue)) = Ring!Waiting - 1
        /\ \A i \in 1 .. Ring!Waiting - 1 : Tail(Queue)[i] = Queue[i + 1]
    BY <1>4, <1>5, <1>8, HeadTailProperties
  <2>2. \A i \in 1 .. Ring!Waiting - 1 : Queue'[i] = Queue[i + 1]
    BY <1>4, <1>5, <1>7
  <2>3. Len(Queue') = Len(Tail(Queue)) /\ \A i \in 1 .. Len(Queue') : Queue'[i] = Tail(Queue)[i]
    BY <1>5, <2>1, <2>2
  <2>4. QED
    BY <1>5, <2>1, <2>3, SeqEqual
<1>10. QED
  BY <1>1, <1>8, <1>9

(* Every step of the ring is a step of the queue or none.                   *)
LEMMA RingStepsRefine ==
  ASSUME RingInv, QueueView, QueueView', Ring!Next \/ UNCHANGED ringVars
  PROVE  Ring!Fifo!Next \/ UNCHANGED <<Answered, Queue, handled>>
<1> USE DEF RingInv, Ring!TypeOK
<1>1. /\ head \in 0 .. Capacity /\ tail \in 0 .. Capacity /\ asked \in Nat
      /\ Capacity \in Nat \ {0} /\ Ring!Storage = Capacity + 1 /\ Ring!Storage' = Capacity + 1
  BY ExchangesAssumption DEF Ring!Positions, Ring!Storage
<1>2. UNCHANGED <<head, tail, slots>> => Queue' = Queue
  BY <1>1 DEF Queue, Ring!Waiting
<1>3. CASE Ring!Ask
  <2>1. CASE Ring!After(head) = tail
    <3>1. Len(Queue) = Capacity
      <4>1. Ring!Waiting = IF tail <= head THEN head - tail ELSE head + Ring!Storage - tail
        BY DEF QueueView
      <4>2. tail = IF head = Capacity THEN 0 ELSE head + 1
        BY <1>1, <2>1, AfterFacts DEF Ring!Positions
      <4>3. Ring!Waiting = Capacity
        BY <1>1, <4>1, <4>2
      <4>4. QED
        BY <4>3 DEF QueueView
    <3>2. /\ Answered = asked /\ Answered' = asked + 1 /\ asked < MaxAsked
          /\ Queue' = Queue /\ handled' = handled
      BY <1>2, <1>3, <2>1 DEF Ring!Ask, Answered
    <3>3. Ring!Fifo!Refuse
      BY <3>1, <3>2 DEF Ring!Fifo!Refuse, Answered, Queue
    <3>4. QED
      BY <3>3 DEF Ring!Fifo!Next
  <2>2. CASE Ring!After(head) # tail
    BY <1>1, <1>2, <1>3, <2>2 DEF Ring!Ask, Answered
  <2>3. QED
    BY <2>1, <2>2
<1>4. CASE Ring!Fill
  <2>1. Ring!Waiting' = Ring!Waiting /\ \A i : Place(i)' = Place(i)
    BY <1>1, <1>4 DEF Ring!Fill, Ring!Waiting, Place
  <2>2. \A i \in 1 .. Ring!Waiting : slots'[Place(i)] = slots[Place(i)]
    BY <1>4 DEF QueueView, Ring!Fill
  <2>3. Queue' = Queue
    BY <2>1, <2>2 DEF QueueView
  <2>4. QED
    BY <1>4, <2>3 DEF Ring!Fill, Answered
<1>5. CASE Ring!Publish
  <2>1. Queue' = Append(Queue, asked) /\ Len(Queue) < Capacity
    BY <1>5, PublishAccepts
  <2>2. Answered = asked - 1 /\ Answered' = asked /\ asked - 1 < MaxAsked /\ handled' = handled
    BY <1>1, <1>5, ExchangesAssumption DEF Ring!Publish, Answered
  <2>3. Answered < MaxAsked /\ Answered' = Answered + 1 /\ Queue' = Append(Queue, Answered')
    BY <1>1, <2>1, <2>2
  <2>4. Ring!Fifo!Accept
    BY <2>1, <2>2, <2>3 DEF Ring!Fifo!Accept, Answered, Queue
  <2>5. QED
    BY <2>4 DEF Ring!Fifo!Next
<1>6. CASE Ring!EndPass
  BY <1>2, <1>6 DEF Ring!EndPass, Answered
<1>7. CASE Ring!BeginRequest
  BY <1>2, <1>7 DEF Ring!BeginRequest, Answered
<1>8. CASE Ring!Copy
  BY <1>2, <1>8 DEF Ring!Copy, Answered
<1>9. CASE Ring!FreeAndHandle
  <2>1. Queue # <<>> /\ handled' = Head(Queue) /\ Queue' = Tail(Queue)
    BY <1>9, FreeHandles
  <2>2. Answered' = Answered
    BY <1>9 DEF Ring!FreeAndHandle, Answered
  <2>3. Ring!Fifo!Handle
    BY <2>1, <2>2 DEF Ring!Fifo!Handle, Answered, Queue
  <2>4. QED
    BY <2>3 DEF Ring!Fifo!Next
<1>10. CASE UNCHANGED ringVars
  BY <1>2, <1>10 DEF ringVars, Answered
<1>11. QED
  BY <1>3, <1>4, <1>5, <1>6, <1>7, <1>8, <1>9, <1>10 DEF Ring!Next, Ring!Produce, Ring!Consume

(* An empty ring is an empty queue.                                         *)
LEMMA InitRefines == RingInv /\ Ring!Init => Ring!Fifo!Init
<1> SUFFICES ASSUME RingInv, Ring!Init PROVE Ring!Fifo!Init
  OBVIOUS
<1>1. QueueView
  BY QueueFacts
<1>2. Len(Queue) = 0 /\ Queue \in Seq(Nat)
  BY <1>1, ExchangesAssumption DEF QueueView, Ring!Init
<1>3. Queue = <<>>
  BY <1>2, EmptySeq
<1>4. QED
  BY <1>3 DEF Ring!Fifo!Init, Ring!Init, Queue

-----------------------------------------------------------------------------
(* The USB transfers: the replies that wait and the packets the host is     *)
(* owed.                                                                    *)

(* The packets of the replies q lie in s one after another, from start to   *)
(* the end: at[i] is where those of the i-th begin.                         *)
Places(s, q, start, at) ==
  /\ at \in [1 .. Len(q) + 1 -> 1 .. Len(s) + 1]
  /\ at[1] = start /\ at[Len(q) + 1] = Len(s) + 1
  /\ \A i, j \in 1 .. Len(q) + 1 : i <= j => at[i] <= at[j]
  /\ \A i \in 1 .. Len(q) :
       /\ at[i + 1] = at[i] + Usb!Fits(q[i])
       /\ s[at[i]] = [of |-> q[i], left |-> Usb!Fits(q[i])]
       /\ q[i] \in Long => s[at[i] + 1] = [of |-> q[i], left |-> 1]

(* The replies q are laid end to end in s, from start to its end.           *)
Queued(s, q, start) == \E at : Places(s, q, start, at)

(* A reply is one packet, or two when it is long.                           *)
LEMMA FitsType == \A n : Usb!Fits(n) \in 1 .. 2 /\ (n \in Long => Usb!Fits(n) = 2)
  BY DEF Usb!Fits

(* Where replies are laid is in range, and each packet of them has its      *)
(* place.                                                                   *)
LEMMA PlacesFacts ==
  ASSUME NEW s \in Seq(Usb!Packet), NEW q \in Seq(Usb!CommandNumbers), NEW start \in Nat, NEW at,
         Places(s, q, start, at)
  PROVE  /\ at[1] = start /\ at[Len(q) + 1] = Len(s) + 1
         /\ \A i \in 1 .. Len(q) + 1 : at[i] \in 1 .. Len(s) + 1 /\ start <= at[i]
         /\ \A i \in 1 .. Len(q) :
              /\ at[i] \in 1 .. Len(s) /\ (q[i] \in Long => at[i] + 1 \in 1 .. Len(s))
              /\ at[i + 1] = at[i] + Usb!Fits(q[i])
              /\ s[at[i]] = [of |-> q[i], left |-> Usb!Fits(q[i])]
              /\ q[i] \in Long => s[at[i] + 1] = [of |-> q[i], left |-> 1]
<1>1. at \in [1 .. Len(q) + 1 -> 1 .. Len(s) + 1] /\ Len(q) \in Nat /\ Len(s) \in Nat
  BY DEF Places
<1>2. ASSUME NEW i \in 1 .. Len(q) + 1
      PROVE  at[i] \in 1 .. Len(s) + 1
  BY <1>1
<1>3. ASSUME NEW i \in 1 .. Len(q) + 1
      PROVE  at[1] <= at[i]
  <2>1. 1 \in 1 .. Len(q) + 1 /\ 1 <= i
    BY <1>1
  <2>2. QED
    BY <2>1 DEF Places
<1>4. ASSUME NEW i \in 1 .. Len(q)
      PROVE  at[i] \in 1 .. Len(s) /\ (q[i] \in Long => at[i] + 1 \in 1 .. Len(s))
  <2>1. i \in 1 .. Len(q) + 1 /\ i + 1 \in 1 .. Len(q) + 1
    BY <1>1
  <2>2. at[i] \in 1 .. Len(s) + 1 /\ at[i + 1] \in 1 .. Len(s) + 1
    BY <1>2, <2>1
  <2>3. at[i + 1] = at[i] + Usb!Fits(q[i])
    BY DEF Places
  <2>4. QED
    BY <1>1, <2>2, <2>3, FitsType
<1>5. QED
  BY <1>2, <1>3, <1>4 DEF Places

(* No reply needs no packet.                                                *)
LEMMA NothingQueued == Queued(<<>>, <<>>, 1)
<1> DEFINE at == [i \in 1 .. 1 |-> 1]
<1>1. Places(<<>>, <<>>, 1, at)
  BY DEF Places
<1>2. QED
  BY <1>1 DEF Queued

(* When no reply waits, nothing is owed from the place they would begin at. *)
LEMMA QueuedEnds ==
  ASSUME NEW s \in Seq(Usb!Packet), NEW start \in Nat, Queued(s, <<>>, start)
  PROVE  Len(s) = start - 1
  BY DEF Queued, Places

(* The host takes a packet.                                                 *)
LEMMA QueuedTail ==
  ASSUME NEW s \in Seq(Usb!Packet), NEW q \in Seq(Usb!CommandNumbers), NEW start \in Nat, start > 1,
         s # <<>>, Queued(s, q, start)
  PROVE  Queued(Tail(s), q, start - 1)
<1>1. PICK at : Places(s, q, start, at)
  BY DEF Queued
<1> DEFINE to == [i \in 1 .. Len(q) + 1 |-> at[i] - 1]
<1>2. /\ Tail(s) \in Seq(Usb!Packet) /\ Len(Tail(s)) = Len(s) - 1
      /\ \A i \in 1 .. Len(s) - 1 : Tail(s)[i] = s[i + 1]
      /\ Len(s) \in Nat /\ Len(q) \in Nat /\ Len(s) > 0
  BY EmptySeq, HeadTailProperties
<1>3. \A i \in 1 .. Len(q) + 1 : at[i] \in 2 .. Len(s) + 1
  <2>1. \A i \in 1 .. Len(q) + 1 : at[i] \in 1 .. Len(s) + 1 /\ start <= at[i]
    BY <1>1, PlacesFacts
  <2>2. QED
    BY <1>2, <2>1
<1>4. \A i \in 1 .. Len(q) : at[i] \in 2 .. Len(s) /\ (q[i] \in Long => at[i] + 1 \in 2 .. Len(s))
  <2>1. \A i \in 1 .. Len(q) : at[i] \in 1 .. Len(s) /\ (q[i] \in Long => at[i] + 1 \in 1 .. Len(s))
    BY <1>1, PlacesFacts
  <2>2. \A i \in 1 .. Len(q) : i \in 1 .. Len(q) + 1
    BY <1>2
  <2>3. QED
    BY <1>2, <1>3, <2>1, <2>2
<1>5. /\ to \in [1 .. Len(q) + 1 -> 1 .. Len(Tail(s)) + 1]
      /\ to[1] = start - 1 /\ to[Len(q) + 1] = Len(Tail(s)) + 1
      /\ \A i, j \in 1 .. Len(q) + 1 : i <= j => to[i] <= to[j]
  BY <1>1, <1>2, <1>3 DEF Places
<1>6. ASSUME NEW i \in 1 .. Len(q)
      PROVE  /\ to[i + 1] = to[i] + Usb!Fits(q[i])
             /\ Tail(s)[to[i]] = [of |-> q[i], left |-> Usb!Fits(q[i])]
             /\ q[i] \in Long => Tail(s)[to[i] + 1] = [of |-> q[i], left |-> 1]
  <2>1. to[i] = at[i] - 1 /\ to[i + 1] = at[i + 1] - 1
    BY <1>2
  <2>2. at[i] \in 2 .. Len(s) /\ (q[i] \in Long => at[i] + 1 \in 2 .. Len(s))
    BY <1>4
  <2>3. /\ at[i + 1] = at[i] + Usb!Fits(q[i]) /\ s[at[i]] = [of |-> q[i], left |-> Usb!Fits(q[i])]
        /\ q[i] \in Long => s[at[i] + 1] = [of |-> q[i], left |-> 1]
    BY <1>1 DEF Places
  <2> HIDE DEF to
  <2>4. Tail(s)[to[i]] = s[at[i]]
    <3>1. at[i] - 1 \in 1 .. Len(s) - 1 /\ at[i] - 1 + 1 = at[i]
      BY <1>2, <2>2
    <3>2. QED
      BY <1>2, <2>1, <3>1
  <2>5. ASSUME q[i] \in Long PROVE Tail(s)[to[i] + 1] = s[at[i] + 1]
    <3>1. at[i] \in 1 .. Len(s) - 1 /\ to[i] + 1 = at[i]
      BY <1>2, <2>1, <2>2, <2>5
    <3>2. QED
      BY <1>2, <3>1
  <2>6. to[i + 1] = to[i] + Usb!Fits(q[i])
    <3>1. at[i] \in Nat /\ Usb!Fits(q[i]) \in Nat
      BY ONLY <2>2, FitsType
    <3>2. to[i + 1] = (at[i] + Usb!Fits(q[i])) - 1
      BY ONLY <2>1, <2>3
    <3>3. QED
      BY ONLY <2>1, <3>1, <3>2
  <2>7. QED
    BY <2>3, <2>4, <2>5, <2>6
<1>7. Places(Tail(s), q, start - 1, to)
  <2> HIDE DEF to
  <2> QED
    BY <1>5, <1>6 DEF Places
<1>8. QED
  BY <1>7 DEF Queued

(* A reply is queued.                                                       *)
LEMMA QueuedAppend ==
  ASSUME NEW s \in Seq(Usb!Packet), NEW q \in Seq(Usb!CommandNumbers), NEW start \in Nat,
         NEW n \in Usb!CommandNumbers, Queued(s, q, start)
  PROVE  Queued(s \o Usb!PacketsOf(n), Append(q, n), start)
<1>1. PICK at : Places(s, q, start, at)
  BY DEF Queued
<1> DEFINE r == s \o Usb!PacketsOf(n)
           p == Append(q, n)
           to == [i \in 1 .. Len(q) + 2 |-> IF i = Len(q) + 2 THEN Len(s) + 1 + Usb!Fits(n) ELSE at[i]]
<1>2. /\ Len(q) \in Nat /\ Len(s) \in Nat
      /\ Len(p) = Len(q) + 1 /\ p[Len(q) + 1] = n
      /\ \A i \in 1 .. Len(q) : p[i] = q[i]
  OBVIOUS
<1>3. /\ Usb!PacketsOf(n) \in Seq(Usb!Packet) /\ Len(Usb!PacketsOf(n)) = Usb!Fits(n)
      /\ Usb!PacketsOf(n)[1] = [of |-> n, left |-> Usb!Fits(n)]
      /\ n \in Long => Usb!PacketsOf(n)[2] = [of |-> n, left |-> 1]
  <2>1. [of |-> n, left |-> 1] \in Usb!Packet /\ [of |-> n, left |-> 2] \in Usb!Packet
    BY DEF Usb!Packet
  <2>2. CASE n \in Long
    <3>1. Usb!PacketsOf(n) = <<[of |-> n, left |-> 2], [of |-> n, left |-> 1]>> /\ Usb!Fits(n) = 2
      BY <2>2 DEF Usb!PacketsOf, Usb!Fits
    <3>2. QED
      BY <2>1, <3>1
  <2>3. CASE n \notin Long
    <3>1. Usb!PacketsOf(n) = <<[of |-> n, left |-> 1]>> /\ Usb!Fits(n) = 1
      BY <2>3 DEF Usb!PacketsOf, Usb!Fits
    <3>2. QED
      BY <2>1, <2>3, <3>1
  <2>4. QED
    BY <2>2, <2>3
<1>4. /\ Len(r) = Len(s) + Usb!Fits(n) /\ Usb!Fits(n) \in 1 .. 2
      /\ \A i \in 1 .. Len(s) : r[i] = s[i]
      /\ r[Len(s) + 1] = [of |-> n, left |-> Usb!Fits(n)]
      /\ n \in Long => r[Len(s) + 2] = [of |-> n, left |-> 1]
  <2>1. \A i \in 1 .. Len(Usb!PacketsOf(n)) : r[Len(s) + i] = Usb!PacketsOf(n)[i]
    BY <1>3, ConcatProperties
  <2>2. QED
    BY <1>3, <2>1, FitsType, ConcatProperties
<1>5. /\ at[1] = start /\ at[Len(q) + 1] = Len(s) + 1
      /\ \A i \in 1 .. Len(q) + 1 : at[i] \in 1 .. Len(s) + 1
      /\ \A i, j \in 1 .. Len(q) + 1 : i <= j => at[i] <= at[j]
      /\ \A i \in 1 .. Len(q) :
           /\ at[i] \in 1 .. Len(s) /\ (q[i] \in Long => at[i] + 1 \in 1 .. Len(s))
           /\ at[i + 1] = at[i] + Usb!Fits(q[i])
           /\ s[at[i]] = [of |-> q[i], left |-> Usb!Fits(q[i])]
           /\ q[i] \in Long => s[at[i] + 1] = [of |-> q[i], left |-> 1]
  <2>1. \A i, j \in 1 .. Len(q) + 1 : i <= j => at[i] <= at[j]
    BY <1>1 DEF Places
  <2>2. QED
    BY <1>1, <2>1, PlacesFacts
<1>6. /\ \A i \in 1 .. Len(q) + 1 : to[i] = at[i]
      /\ to[Len(q) + 2] = Len(s) + 1 + Usb!Fits(n)
  BY <1>2
<1>7. /\ to \in [1 .. Len(q) + 2 -> 1 .. Len(r) + 1]
      /\ \A i, j \in 1 .. Len(q) + 2 : i <= j => to[i] <= to[j]
  <2> HIDE DEF r
  <2>1. ASSUME NEW i \in 1 .. Len(q) + 2
        PROVE  /\ to[i] \in 1 .. Len(r) + 1
               /\ \A j \in 1 .. Len(q) + 2 : i <= j => to[i] <= to[j]
    <3>1. CASE i = Len(q) + 2
      BY <1>2, <1>4, <1>6, <3>1
    <3>2. CASE i # Len(q) + 2
      <4>1. i \in 1 .. Len(q) + 1 /\ to[i] = at[i] /\ at[i] \in 1 .. Len(s) + 1
        BY <1>2, <1>5, <1>6, <3>2
      <4>2. ASSUME NEW j \in 1 .. Len(q) + 2, i <= j
            PROVE  to[i] <= to[j]
        <5>1. CASE j = Len(q) + 2
          BY <1>2, <1>4, <1>6, <4>1, <5>1
        <5>2. CASE j # Len(q) + 2
          <6>1. j \in 1 .. Len(q) + 1
            BY <1>2, <5>2
          <6>2. QED
            BY <1>5, <1>6, <4>1, <4>2, <6>1
        <5>3. QED
          BY <5>1, <5>2
      <4>3. QED
        BY <1>2, <1>4, <4>1, <4>2
    <3>3. QED
      BY <3>1, <3>2
  <2>2. to = [i \in 1 .. Len(q) + 2 |-> to[i]]
    OBVIOUS
  <2>3. QED
    <3> HIDE DEF to
    <3> QED
      BY <2>1, <2>2
<1> HIDE DEF to, r, p
<1>8. ASSUME NEW i \in 1 .. Len(q) + 1
      PROVE  /\ to[i + 1] = to[i] + Usb!Fits(p[i])
             /\ r[to[i]] = [of |-> p[i], left |-> Usb!Fits(p[i])]
             /\ p[i] \in Long => r[to[i] + 1] = [of |-> p[i], left |-> 1]
  <2>1. CASE i = Len(q) + 1
    <3>1. to[i] = Len(s) + 1 /\ to[i + 1] = Len(s) + 1 + Usb!Fits(n) /\ p[i] = n
      BY <1>2, <1>5, <1>6, <2>1
    <3>2. QED
      BY <1>2, <1>4, <3>1
  <2>2. CASE i # Len(q) + 1
    <3>1. /\ i \in 1 .. Len(q) /\ i + 1 \in 1 .. Len(q) + 1
          /\ p[i] = q[i] /\ to[i] = at[i] /\ to[i + 1] = at[i + 1]
      BY <1>2, <1>6, <2>2
    <3>2. r[at[i]] = s[at[i]] /\ (q[i] \in Long => r[at[i] + 1] = s[at[i] + 1])
      BY <1>4, <1>5, <3>1
    <3>3. QED
      BY <1>5, <3>1, <3>2
  <2>3. QED
    BY <2>1, <2>2
<1>9. Places(r, p, start, to)
  <2>1. to[1] = start /\ to[Len(p) + 1] = Len(r) + 1
    BY <1>2, <1>4, <1>5, <1>6
  <2>2. Len(p) + 1 = Len(q) + 2
    BY <1>2
  <2>3. QED
    BY <1>2, <1>7, <1>8, <2>1, <2>2 DEF Places
<1>10. QED
  BY <1>9 DEF Queued, r, p

(* The next reply is begun.                                                 *)
LEMMA QueuedNext ==
  ASSUME NEW s \in Seq(Usb!Packet), NEW q \in Seq(Usb!CommandNumbers), q # <<>>, Queued(s, q, 1)
  PROVE  /\ Len(s) >= Usb!Fits(Head(q)) /\ s[1] = [of |-> Head(q), left |-> Usb!Fits(Head(q))]
         /\ Head(q) \in Long => s[2] = [of |-> Head(q), left |-> 1]
         /\ Queued(s, Tail(q), 1 + Usb!Fits(Head(q)))
<1>1. PICK at : Places(s, q, 1, at)
  BY DEF Queued
<1> DEFINE to == [i \in 1 .. Len(q) |-> at[i + 1]]
<1>2. /\ Tail(q) \in Seq(Usb!CommandNumbers) /\ Len(Tail(q)) = Len(q) - 1 /\ Head(q) = q[1]
      /\ \A i \in 1 .. Len(q) - 1 : Tail(q)[i] = q[i + 1]
      /\ Len(s) \in Nat /\ Len(q) \in Nat /\ Len(q) > 0
  BY EmptySeq, HeadTailProperties
<1>3. /\ at[1] = 1 /\ at[Len(q) + 1] = Len(s) + 1
      /\ \A i \in 1 .. Len(q) + 1 : at[i] \in 1 .. Len(s) + 1
      /\ \A i, j \in 1 .. Len(q) + 1 : i <= j => at[i] <= at[j]
      /\ \A i \in 1 .. Len(q) :
           /\ at[i] \in 1 .. Len(s)
           /\ at[i + 1] = at[i] + Usb!Fits(q[i])
           /\ s[at[i]] = [of |-> q[i], left |-> Usb!Fits(q[i])]
           /\ q[i] \in Long => s[at[i] + 1] = [of |-> q[i], left |-> 1]
  <2>1. \A i, j \in 1 .. Len(q) + 1 : i <= j => at[i] <= at[j]
    BY <1>1 DEF Places
  <2>2. QED
    BY <1>1, <2>1, PlacesFacts
<1>4. /\ at[2] = 1 + Usb!Fits(q[1]) /\ at[2] \in 1 .. Len(s) + 1
      /\ s[1] = [of |-> q[1], left |-> Usb!Fits(q[1])]
      /\ q[1] \in Long => s[2] = [of |-> q[1], left |-> 1]
  <2>1. 1 \in 1 .. Len(q) /\ 2 \in 1 .. Len(q) + 1 /\ 1 + 1 = 2
    BY <1>2
  <2>2. QED
    BY <1>3, <2>1
<1>5. \A i \in 1 .. Len(q) : to[i] = at[i + 1] /\ i + 1 \in 1 .. Len(q) + 1
  BY <1>2
<1>6. /\ to \in [1 .. Len(Tail(q)) + 1 -> 1 .. Len(s) + 1]
      /\ to[1] = 1 + Usb!Fits(q[1]) /\ to[Len(Tail(q)) + 1] = Len(s) + 1
      /\ \A i, j \in 1 .. Len(Tail(q)) + 1 : i <= j => to[i] <= to[j]
  <2>1. Len(Tail(q)) + 1 = Len(q)
    BY <1>2
  <2>2. to \in [1 .. Len(q) -> 1 .. Len(s) + 1]
    BY <1>2, <1>3
  <2> HIDE DEF to
  <2>3. to[1] = 1 + Usb!Fits(q[1]) /\ to[Len(q)] = Len(s) + 1
    BY <1>2, <1>3, <1>4, <1>5
  <2>4. \A i, j \in 1 .. Len(q) : i <= j => to[i] <= to[j]
    BY <1>2, <1>3, <1>5, SMTT(30)
  <2>5. QED
    BY <2>1, <2>2, <2>3, <2>4
<1>7. ASSUME NEW i \in 1 .. Len(Tail(q))
      PROVE  /\ to[i + 1] = to[i] + Usb!Fits(Tail(q)[i])
             /\ s[to[i]] = [of |-> Tail(q)[i], left |-> Usb!Fits(Tail(q)[i])]
             /\ Tail(q)[i] \in Long => s[to[i] + 1] = [of |-> Tail(q)[i], left |-> 1]
  <2>1. /\ to[i] = at[i + 1] /\ to[i + 1] = at[i + 1 + 1] /\ Tail(q)[i] = q[i + 1]
        /\ i + 1 \in 1 .. Len(q)
    BY <1>2, <1>5
  <2> HIDE DEF to
  <2>2. QED
    BY <1>3, <2>1
<1>8. Places(s, Tail(q), 1 + Usb!Fits(Head(q)), to)
  <2> HIDE DEF to
  <2> QED
    BY <1>2, <1>6, <1>7 DEF Places
<1>9. QED
  BY <1>2, <1>4, <1>8, FitsType DEF Queued

-----------------------------------------------------------------------------
(* The packet at the endpoint and those behind it.                          *)
Second(packet) == [of |-> packet.of, left |-> 1]

(* The vendor endpoint is idle: nothing is sent, waits or is owed.          *)
Nothing(c, busy, q, s) ==
  ~busy /\ ~c.ready["vendor"] /\ "vendor" \notin c.raised /\ q = <<>> /\ s = <<>>

(* A packet waits in the FIFO for the host: the first of what is owed, the  *)
(* second of its reply after it, then the replies in the queue.             *)
Waiting(c, q, s) ==
  /\ c.ready["vendor"] /\ "vendor" \notin c.raised
  /\ c.in \in Usb!Packet /\ s # <<>> /\ s[1] = c.in
  /\ c.in.left = 2 => Len(s) > 1 /\ s[2] = Second(c.in) /\ Queued(s, q, 3)
  /\ c.in.left = 1 => Queued(s, q, 2)

(* The host took a packet and its interrupt is pending: what is owed is the *)
(* rest of that reply, then the replies in the queue.                       *)
Taken(c, q, s) ==
  /\ ~c.ready["vendor"] /\ "vendor" \in c.raised /\ c.in \in Usb!Packet
  /\ c.in.left = 2 => s # <<>> /\ s[1] = Second(c.in) /\ Queued(s, q, 2)
  /\ c.in.left = 1 => Queued(s, q, 1)

(* The vendor endpoint is idle, or busy with a packet that waits or was     *)
(* taken.                                                                   *)
Order(c, busy, q, s) ==
  Nothing(c, busy, q, s) \/ (busy /\ (Waiting(c, q, s) \/ Taken(c, q, s)))

(* The replies are in order whenever the device is reset or configured.     *)
ReplyInv ==
  /\ bus = "reset" => Nothing(chip, dev.busy["vendor"], replies, owed) /\ chip.out = 0
  /\ bus = "configured" => chip.enabled /\ Order(chip, dev.busy["vendor"], replies, owed)

(* The inductive invariant of the USB transfers.                            *)
TransfersInv == Usb!TransfersTypeOK /\ ReplyInv

(* Writing a packet makes it the one that waits.                            *)
LEMMA WriteFacts ==
  ASSUME NEW c \in Usb!Chip, NEW packet \in Usb!Packet
  PROVE  /\ Usb!Write(c, packet) \in Usb!Chip /\ Usb!Write(c, packet).in = packet
         /\ Usb!Write(c, packet).ready["vendor"] = TRUE
         /\ Usb!Write(c, packet).raised = c.raised
         /\ Usb!Write(c, packet).enabled = c.enabled
  BY DEF Usb!Write, Usb!Chip, Usb!Endpoints

(* Starting the next reply keeps the types, and the device enabled.         *)
LEMMA StartNextFacts ==
  ASSUME NEW c \in Usb!Chip, NEW busy \in BOOLEAN, NEW q \in Seq(Usb!CommandNumbers), Len(q) <= Room
  PROVE  LET w == Usb!StartNext(c, busy, q)
         IN /\ w.chip \in Usb!Chip /\ w.busy \in BOOLEAN
            /\ w.replies \in Seq(Usb!CommandNumbers) /\ Len(w.replies) <= Room
            /\ w.chip.enabled = c.enabled
<1> DEFINE w == Usb!StartNext(c, busy, q)
           packet == [of |-> Head(q), left |-> Usb!Fits(Head(q))]
<1>1. CASE busy \/ q = <<>>
  BY <1>1 DEF Usb!StartNext
<1>2. CASE ~(busy \/ q = <<>>)
  <2>1. Tail(q) \in Seq(Usb!CommandNumbers) /\ Len(Tail(q)) <= Room /\ Head(q) \in Usb!CommandNumbers
    BY <1>2, HeadTailProperties, EmptySeq, ExchangesAssumption
  <2>2. packet \in Usb!Packet
    <3>1. Usb!Fits(Head(q)) \in 1 .. 2
      BY FitsType
    <3>2. QED
      BY <2>1, <3>1 DEF Usb!Packet
  <2>3. Usb!Writable(c) \in BOOLEAN
    BY DEF Usb!Writable, Usb!Chip, Usb!Endpoints
  <2>4. w = [chip |-> IF Usb!Writable(c) THEN Usb!Write(c, packet) ELSE c,
             busy |-> Usb!Writable(c), replies |-> Tail(q)]
    BY <1>2 DEF Usb!StartNext
  <2> HIDE DEF packet, w
  <2>5. /\ w.chip = IF Usb!Writable(c) THEN Usb!Write(c, packet) ELSE c
        /\ w.replies = Tail(q)
    BY <2>4
  <2>6. w.busy = Usb!Writable(c)
    BY <2>4, Zenon
  <2>7. /\ w.chip \in Usb!Chip /\ w.chip.enabled = c.enabled
    <3>1. Usb!Write(c, packet) \in Usb!Chip /\ Usb!Write(c, packet).enabled = c.enabled
      BY <2>2, WriteFacts
    <3>2. QED
      BY <2>5, <3>1, Zenon
  <2>8. QED
    BY <2>1, <2>3, <2>5, <2>6, <2>7, Zenon DEF w
<1>3. QED
  BY <1>1, <1>2

(* What is sent next is the first of what waits.                            *)
LEMMA StartNextOrders ==
  ASSUME NEW c \in Usb!Chip, NEW q \in Seq(Usb!CommandNumbers), NEW s \in Seq(Usb!Packet),
         c.enabled, ~c.ready["vendor"], "vendor" \notin c.raised, Queued(s, q, 1)
  PROVE  LET w == Usb!StartNext(c, FALSE, q) IN Order(w.chip, w.busy, w.replies, s)
<1> DEFINE w == Usb!StartNext(c, FALSE, q)
           packet == [of |-> Head(q), left |-> Usb!Fits(Head(q))]
<1>1. CASE q = <<>>
  <2>1. w = [chip |-> c, busy |-> FALSE, replies |-> q]
    BY <1>1 DEF Usb!StartNext
  <2>2. s = <<>>
    <3>1. 1 \in Nat /\ Len(s) = 1 - 1
      BY <1>1, QueuedEnds
    <3>2. QED
      BY <3>1, EmptySeq
  <2> HIDE DEF w
  <2>3. w.chip = c /\ w.busy = FALSE /\ w.replies = q
    BY <2>1
  <2>4. QED
    BY <1>1, <2>2, <2>3 DEF Order, Nothing, w
<1>2. CASE q # <<>>
  <2>1. Head(q) \in Usb!CommandNumbers
    BY <1>2
  <2>2. packet \in Usb!Packet /\ packet.of = Head(q) /\ packet.left = Usb!Fits(Head(q))
    <3>1. Usb!Fits(Head(q)) \in 1 .. 2
      BY FitsType
    <3>2. QED
      BY <2>1, <3>1 DEF Usb!Packet
  <2>3. w = [chip |-> Usb!Write(c, packet), busy |-> TRUE, replies |-> Tail(q)]
    BY <1>2 DEF Usb!StartNext, Usb!Writable
  <2>4. /\ Len(s) >= Usb!Fits(Head(q)) /\ s[1] = packet
        /\ Head(q) \in Long => s[2] = Second(packet)
        /\ Queued(s, Tail(q), 1 + Usb!Fits(Head(q)))
    BY <1>2, QueuedNext DEF Second
  <2>5. s # <<>>
    BY <2>4, FitsType
  <2> HIDE DEF packet, w
  <2>6. Waiting(Usb!Write(c, packet), Tail(q), s)
    <3>1. /\ Usb!Write(c, packet).ready["vendor"] = TRUE /\ Usb!Write(c, packet).in = packet
          /\ Usb!Write(c, packet).raised = c.raised
      BY <2>2, WriteFacts
    <3>2. CASE Head(q) \in Long
      <4>1. Usb!Fits(Head(q)) = 2
        BY <3>2, FitsType
      <4>2. QED
        BY <2>2, <2>4, <2>5, <3>1, <3>2, <4>1 DEF Waiting
    <3>3. CASE Head(q) \notin Long
      <4>1. Usb!Fits(Head(q)) = 1
        BY <3>3 DEF Usb!Fits
      <4>2. QED
        BY <2>2, <2>4, <2>5, <3>1, <4>1 DEF Waiting
    <3>4. QED
      BY <3>2, <3>3
  <2>7. w.chip = Usb!Write(c, packet) /\ w.busy = TRUE /\ w.replies = Tail(q)
    BY <2>3
  <2>8. QED
    BY <2>6, <2>7 DEF Order, w
<1>3. QED
  BY <1>1, <1>2

(* The order is about the endpoint alone.                                   *)
LEMMA OrderKept ==
  ASSUME NEW c, NEW d, NEW busy, NEW q, NEW s, Order(c, busy, q, s),
         d.ready["vendor"] = c.ready["vendor"], d.in = c.in,
         "vendor" \in d.raised <=> "vendor" \in c.raised
  PROVE  Order(d, busy, q, s)
  BY DEF Order, Nothing, Waiting, Taken

(* A step that leaves the replies, the endpoint and the bus alone.          *)
LEMMA RepliesKept ==
  ASSUME ReplyInv, UNCHANGED <<replies, owed, bus>>,
         dev'.busy["vendor"] = dev.busy["vendor"],
         chip'.ready["vendor"] = chip.ready["vendor"], chip'.in = chip.in,
         "vendor" \in chip'.raised <=> "vendor" \in chip.raised,
         chip'.enabled = chip.enabled, chip'.out = chip.out
  PROVE  ReplyInv'
  BY OrderKept DEF ReplyInv, Nothing

(* The device begins idle, with no reply owed.                              *)
LEMMA InitTransfers == Usb!Init => TransfersInv
  BY ExchangesAssumption
  DEF Usb!Init, TransfersInv, Usb!TransfersTypeOK, ReplyInv, Usb!Chip, Usb!Dev,
      Usb!Caller, Usb!Nobody,
      Usb!Endpoints, Usb!NoPacket

-----------------------------------------------------------------------------
(* The loop's send: its steps are about an endpoint of its own.             *)
LEMMA SendSteps ==
  ASSUME TransfersInv, Usb!Send
  PROVE  TransfersInv'
<1> USE DEF TransfersInv, Usb!LoopOnly, Usb!At, Usb!GoTo, Usb!Fail
<1>1. /\ chip \in Usb!Chip /\ dev \in Usb!Dev /\ caller \in Usb!Caller
      /\ "hid" \in Usb!Endpoints /\ "vendor" \in Usb!Endpoints /\ "hid" # "vendor"
  BY DEF Usb!TransfersTypeOK, Usb!Endpoints
<1>2. ASSUME chip' \in Usb!Chip, dev' \in Usb!Dev, caller' \in Usb!Caller, clobbered' \in SUBSET Usb!Endpoints,
             Usb!LoopOnly
      PROVE  Usb!TransfersTypeOK'
  BY <1>2 DEF Usb!TransfersTypeOK
<1>3. CASE Usb!SendReport
  <2>1. caller' \in Usb!Caller /\ caller'.at = "mark"
    BY <1>1, <1>3 DEF Usb!SendReport, Usb!Caller
  <2>2. QED
    BY <1>1, <1>2, <1>3, <2>1, RepliesKept DEF Usb!SendReport, Usb!TransfersTypeOK
<1>4. CASE Usb!MarkBusy
  <2>1. caller' \in Usb!Caller /\ caller'.at = "enter"
    BY <1>1, <1>4 DEF Usb!MarkBusy, Usb!Caller
  <2>2. dev' \in Usb!Dev /\ dev'.busy["vendor"] = dev.busy["vendor"]
    BY <1>1, <1>4 DEF Usb!MarkBusy, Usb!Dev
  <2>3. QED
    BY <1>1, <1>2, <1>4, <2>1, <2>2, RepliesKept DEF Usb!MarkBusy, Usb!TransfersTypeOK
<1>5. CASE Usb!EnterWrite
  <2>1. CASE ~chip.enabled
    <3>1. caller' \in Usb!Caller /\ caller'.at = "idle"
      BY <1>1, <1>5, <2>1 DEF Usb!EnterWrite, Usb!Caller
    <3>2. dev' \in Usb!Dev /\ dev'.busy["vendor"] = dev.busy["vendor"]
      <4>1. dev' = [dev EXCEPT !.busy["hid"] = FALSE]
        BY <1>5, <2>1 DEF Usb!EnterWrite
      <4>2. QED
        BY <1>1, <4>1 DEF Usb!Dev
    <3>3. QED
      BY <1>1, <1>2, <1>5, <2>1, <3>1, <3>2, RepliesKept
      DEF Usb!EnterWrite, Usb!TransfersTypeOK
  <2>2. CASE chip.enabled
    <3>1. caller' \in Usb!Caller
      BY <1>1, <1>5, <2>2 DEF Usb!EnterWrite, Usb!Caller
    <3>2. QED
      BY <1>1, <1>2, <1>5, <2>2, <3>1, RepliesKept
      DEF Usb!EnterWrite, Usb!TransfersTypeOK
  <2>3. QED
    BY <2>1, <2>2
<1>6. CASE Usb!Refused
  <2>1. caller' \in Usb!Caller /\ caller'.at = "idle"
    BY <1>1, <1>6 DEF Usb!Refused, Usb!Caller
  <2>2. dev' \in Usb!Dev /\ dev'.busy["vendor"] = dev.busy["vendor"]
    BY <1>1, <1>6 DEF Usb!Refused, Usb!Dev
  <2>3. QED
    BY <1>1, <1>2, <1>6, <2>1, <2>2, RepliesKept DEF Usb!Refused, Usb!TransfersTypeOK
<1>7. CASE Usb!LoadPacket
  <2>1. caller' \in Usb!Caller
    BY <1>1, <1>7 DEF Usb!LoadPacket, Usb!Caller, Usb!Chip
  <2>2. QED
    BY <1>1, <1>2, <1>7, <2>1, RepliesKept DEF Usb!LoadPacket, Usb!TransfersTypeOK
<1>8. CASE Usb!ArmInterrupt
  <2>1. caller' \in Usb!Caller /\ caller.mask \in SUBSET Usb!Endpoints
    BY <1>1, <1>8 DEF Usb!ArmInterrupt, Usb!Caller
  <2>2. /\ chip' \in Usb!Chip
        /\ chip'.ready = chip.ready /\ chip'.raised = chip.raised /\ chip'.in = chip.in
        /\ chip'.enabled = chip.enabled /\ chip'.out = chip.out
    BY <1>1, <1>8, <2>1 DEF Usb!ArmInterrupt, Usb!Chip
  <2>3. clobbered' \in SUBSET Usb!Endpoints
    BY <1>1, <1>8 DEF Usb!ArmInterrupt, Usb!Chip, Usb!TransfersTypeOK
  <2>4. QED
    BY <1>1, <1>2, <1>8, <2>1, <2>2, <2>3, RepliesKept DEF Usb!ArmInterrupt,
       Usb!TransfersTypeOK
<1>9. CASE Usb!Launch
  <2>1. caller' \in Usb!Caller
    BY <1>1, <1>9 DEF Usb!Launch, Usb!Caller
  <2>2. /\ chip' \in Usb!Chip
        /\ chip'.ready["vendor"] = chip.ready["vendor"] /\ chip'.raised = chip.raised
        /\ chip'.in = chip.in /\ chip'.enabled = chip.enabled /\ chip'.out = chip.out
    BY <1>1, <1>9 DEF Usb!Launch, Usb!Chip
  <2>3. QED
    BY <1>1, <1>2, <1>9, <2>1, <2>2, RepliesKept DEF Usb!Launch, Usb!TransfersTypeOK
<1>10. QED
  BY <1>3, <1>4, <1>5, <1>6, <1>7, <1>8, <1>9 DEF Usb!Send

(* The interrupt: the end of a packet, and a command.                       *)
LEMMA CompleteSteps ==
  ASSUME TransfersInv, Usb!Complete
  PROVE  TransfersInv'
<1> USE DEF TransfersInv, Usb!Interrupt
<1> DEFINE busy == dev.busy["vendor"]
<1>1. /\ chip \in Usb!Chip /\ dev \in Usb!Dev /\ dev.busy["vendor"] \in BOOLEAN
      /\ replies \in Seq(Usb!CommandNumbers) /\ Len(replies) <= Room /\ owed \in Seq(Usb!Packet)
      /\ "hid" \in Usb!Endpoints /\ "vendor" \in Usb!Endpoints /\ "hid" # "vendor"
  BY DEF Usb!TransfersTypeOK, Usb!Endpoints, Usb!Dev
<1>2. ASSUME chip' \in Usb!Chip, dev' \in Usb!Dev, replies' \in Seq(Usb!CommandNumbers),
             Len(replies') <= Room, owed' \in Seq(Usb!Packet), events' = events, Usb!Interrupt
      PROVE  Usb!TransfersTypeOK'
  BY <1>2 DEF Usb!TransfersTypeOK
<1>4. \A e \in Usb!Endpoints :
        /\ Usb!Served(e) \in Usb!Chip /\ Usb!Served(e).ready = chip.ready /\ Usb!Served(e).in = chip.in
        /\ Usb!Served(e).raised = chip.raised \ {e} /\ Usb!Served(e).enabled = chip.enabled
        /\ Usb!Served(e).out = chip.out /\ Usb!Served(e).mask = chip.mask
  BY <1>1 DEF Usb!Served, Usb!Chip
<1>5. CASE Usb!CompleteHid
  <2> DEFINE c == [Usb!Served("hid") EXCEPT !.mask = @ \ {"hid"}]
  <2>1. /\ c \in Usb!Chip /\ c.ready = chip.ready /\ c.in = chip.in
        /\ c.raised = chip.raised \ {"hid"} /\ c.enabled = chip.enabled /\ c.out = chip.out
    BY <1>1, <1>4 DEF Usb!Chip
  <2>2. chip' = c
    BY <1>5 DEF Usb!CompleteHid
  <2> HIDE DEF c
  <2>3. /\ chip' \in Usb!Chip /\ chip'.ready = chip.ready
        /\ chip'.in = chip.in /\ chip'.raised = chip.raised \ {"hid"}
        /\ chip'.enabled = chip.enabled /\ chip'.out = chip.out
    BY <1>1, <2>1, <2>2
  <2>4. dev' \in Usb!Dev /\ dev'.busy["vendor"] = dev.busy["vendor"]
    BY <1>1, <1>5 DEF Usb!CompleteHid, Usb!Dev
  <2>5. UNCHANGED <<replies, owed, events, caller, clobbered, bus, sent>>
    BY <1>5 DEF Usb!CompleteHid
  <2>6. QED
    BY <1>1, <1>2, <2>3, <2>4, <2>5, RepliesKept
<1>6. CASE Usb!ContinueReply
  <2> DEFINE c == [Usb!Served("vendor") EXCEPT !.in.left = @ - 1, !.ready["vendor"] = TRUE]
  <2>1. chip.in.left > 1 /\ "vendor" \in chip.raised
    BY <1>6 DEF Usb!ContinueReply
  <2>2. chip.in \in Usb!Packet /\ chip.in.left = 2
    BY <1>1, <2>1 DEF Usb!Chip, Usb!Packet, Usb!NoPacket
  <2>3. /\ c \in Usb!Chip /\ c.ready["vendor"] = TRUE /\ c.in = Second(chip.in)
        /\ c.raised = chip.raised \ {"vendor"} /\ c.enabled = chip.enabled /\ c.out = chip.out
    <3>1. /\ Usb!Served("vendor") \in Usb!Chip /\ Usb!Served("vendor").in = chip.in
          /\ chip.in.left - 1 = 1 /\ chip.in = [of |-> chip.in.of, left |-> chip.in.left]
          /\ Second(chip.in) \in Usb!Packet
      BY <1>1, <1>4, <2>2 DEF Usb!Packet, Second
    <3>2. [chip.in EXCEPT !.left = @ - 1] = Second(chip.in)
      BY <3>1 DEF Second
    <3>3. c = [Usb!Served("vendor") EXCEPT !.in = Second(chip.in),
                                       !.ready = [chip.ready EXCEPT !["vendor"] = TRUE]]
      BY <1>1, <1>4, <3>1, <3>2
    <3>4. [chip.ready EXCEPT !["vendor"] = TRUE] \in [Usb!Endpoints -> BOOLEAN]
      BY <1>1 DEF Usb!Chip
    <3> HIDE DEF c
    <3>5. QED
      BY <1>1, <1>4, <3>1, <3>3, <3>4 DEF Usb!Chip
  <2>4. chip' = c
    BY <1>6 DEF Usb!ContinueReply
  <2> HIDE DEF c
  <2>5. /\ chip' \in Usb!Chip /\ chip'.ready["vendor"] = TRUE
        /\ chip'.in = Second(chip.in) /\ chip'.raised = chip.raised \ {"vendor"}
        /\ chip'.enabled = chip.enabled /\ chip'.out = chip.out
    BY <1>1, <2>3, <2>4
  <2>6. UNCHANGED <<dev, replies, owed, events, caller, clobbered, bus, sent>>
    BY <1>6 DEF Usb!ContinueReply
  <2>7. ReplyInv'
    <3>1. bus # "reset"
      BY <2>1 DEF ReplyInv, Nothing
    <3>2. CASE bus = "configured"
      <4>1. chip.enabled /\ dev.busy["vendor"] /\ Taken(chip, replies, owed)
        BY <2>1, <3>2 DEF ReplyInv, Order, Nothing, Waiting
      <4>2. owed # <<>> /\ owed[1] = Second(chip.in) /\ Queued(owed, replies, 2)
        BY <2>2, <4>1 DEF Taken
      <4>3. Second(chip.in) \in Usb!Packet /\ Second(chip.in).left = 1
        BY <2>2 DEF Second, Usb!Packet
      <4>4. Waiting(chip', replies, owed)
        BY <2>5, <4>2, <4>3 DEF Waiting
      <4>5. QED
        BY <2>5, <2>6, <3>1, <4>1, <4>4 DEF ReplyInv, Order
    <3>3. QED
      BY <2>6, <3>1, <3>2 DEF ReplyInv
  <2>8. QED
    BY <1>1, <1>2, <2>5, <2>6, <2>7
<1>7. CASE Usb!CompleteReply
  <2> DEFINE c == [Usb!Served("vendor") EXCEPT !.mask = @ \ {"vendor"}]
             w == Usb!StartNext(c, FALSE, replies)
  <2>1. chip.in.left <= 1 /\ "vendor" \in chip.raised
    BY <1>7 DEF Usb!CompleteReply
  <2>2. /\ c \in Usb!Chip /\ c.ready = chip.ready /\ c.in = chip.in
        /\ c.raised = chip.raised \ {"vendor"} /\ c.enabled = chip.enabled
    BY <1>1, <1>4 DEF Usb!Chip
  <2>3. /\ chip' = w.chip /\ replies' = w.replies
        /\ dev' = [dev EXCEPT !.busy["vendor"] = w.busy]
    BY <1>7 DEF Usb!CompleteReply
  <2>4. /\ w.chip \in Usb!Chip /\ w.busy \in BOOLEAN /\ w.replies \in Seq(Usb!CommandNumbers)
        /\ Len(w.replies) <= Room /\ w.chip.enabled = c.enabled
    <3> HIDE DEF c
    <3> QED
      BY <1>1, <2>2, StartNextFacts
  <2>5. bus = "configured" => Order(w.chip, w.busy, w.replies, owed)
    <3> SUFFICES ASSUME bus = "configured" PROVE Order(w.chip, w.busy, w.replies, owed)
      OBVIOUS
    <3>1. chip.enabled /\ Taken(chip, replies, owed)
      BY <2>1 DEF ReplyInv, Order, Nothing, Waiting
    <3>2. chip.in.left = 1
      BY <2>1, <3>1 DEF Taken, Usb!Packet
    <3>3. Queued(owed, replies, 1) /\ ~chip.ready["vendor"]
      BY <3>1, <3>2 DEF Taken
    <3>4. c.enabled /\ ~c.ready["vendor"] /\ "vendor" \notin c.raised
      BY <2>2, <3>1, <3>3
    <3> HIDE DEF c
    <3>5. QED
      BY <1>1, <2>2, <3>3, <3>4, StartNextOrders
  <2> HIDE DEF c, w
  <2>6. UNCHANGED <<owed, events, caller, clobbered, bus, sent>>
    BY <1>7 DEF Usb!CompleteReply
  <2>7. /\ chip' \in Usb!Chip
        /\ chip'.ready = w.chip.ready /\ chip'.raised = w.chip.raised /\ chip'.in = w.chip.in
        /\ chip'.enabled = chip.enabled
    BY <1>1, <2>2, <2>3, <2>4
  <2>8. dev' \in Usb!Dev /\ dev'.busy["vendor"] = w.busy
    BY <1>1, <2>3, <2>4 DEF Usb!Dev
  <2>9. ReplyInv'
    <3>1. bus # "reset"
      BY <2>1 DEF ReplyInv, Nothing
    <3>2. CASE bus = "configured"
      <4>1. Order(chip', w.busy, w.replies, owed)
        BY <2>5, <2>7, <3>2, OrderKept
      <4>2. QED
        BY <2>3, <2>6, <2>7, <2>8, <3>1, <3>2, <4>1 DEF ReplyInv
    <3>3. QED
      BY <2>6, <3>1, <3>2 DEF ReplyInv
  <2>10. QED
    BY <1>1, <1>2, <2>3, <2>4, <2>6, <2>7, <2>8, <2>9
<1>8. CASE Usb!Command
  <2> DEFINE n == chip.out
             answers == n \notin Silent /\ Len(replies) < Room
             listening == [chip EXCEPT !.out = 0, !.listens = chip.enabled]
             w == IF answers THEN Usb!StartNext(listening, dev.busy["vendor"], Append(replies, n))
                  ELSE [chip |-> listening, busy |-> dev.busy["vendor"], replies |-> replies]
  <2>1. n \in Usb!CommandNumbers /\ n # 0
    BY <1>1, <1>8 DEF Usb!Command, Usb!Chip
  <2>2. /\ listening \in Usb!Chip /\ listening.ready = chip.ready /\ listening.in = chip.in
        /\ listening.raised = chip.raised /\ listening.enabled = chip.enabled
    BY <1>1 DEF Usb!Chip, Usb!CommandNumbers
  <2>3. /\ chip' = w.chip /\ replies' = w.replies
        /\ dev' = [dev EXCEPT !.busy["vendor"] = w.busy]
        /\ owed' = IF answers THEN owed \o Usb!PacketsOf(n) ELSE owed
        /\ UNCHANGED <<events, caller, clobbered, bus, sent>>
    BY <1>8 DEF Usb!Command
  <2>4. /\ Append(replies, n) \in Seq(Usb!CommandNumbers) /\ Append(replies, n) # <<>>
        /\ answers => Len(Append(replies, n)) <= Room
        /\ Usb!PacketsOf(n) \in Seq(Usb!Packet)
    <3>1. [of |-> n, left |-> 1] \in Usb!Packet /\ [of |-> n, left |-> 2] \in Usb!Packet
      BY <2>1 DEF Usb!Packet
    <3>2. Usb!PacketsOf(n) \in Seq(Usb!Packet)
      <4>1. CASE n \in Long
        BY <3>1, <4>1 DEF Usb!PacketsOf
      <4>2. CASE n \notin Long
        BY <3>1, <4>2 DEF Usb!PacketsOf
      <4>3. QED
        BY <4>1, <4>2
    <3>3. /\ Append(replies, n) \in Seq(Usb!CommandNumbers)
          /\ Len(Append(replies, n)) = Len(replies) + 1 /\ Len(replies) \in Nat
      BY <1>1, <2>1, AppendProperties
    <3>4. Append(replies, n) # <<>>
      <4>1. Len(Append(replies, n)) # 0
        BY <3>3
      <4>2. QED
        BY <3>3, <4>1, EmptySeq, Zenon
    <3>5. QED
      BY <3>2, <3>3, <3>4, ExchangesAssumption
  <2> HIDE DEF listening, n
  <2>5. /\ w.chip \in Usb!Chip /\ w.busy \in BOOLEAN /\ w.replies \in Seq(Usb!CommandNumbers)
        /\ Len(w.replies) <= Room /\ w.chip.enabled = chip.enabled
    <3>1. CASE answers
      BY <1>1, <2>2, <2>4, <3>1, StartNextFacts
    <3>2. CASE ~answers
      BY <1>1, <2>2, <3>2
    <3>3. QED
      BY <3>1, <3>2
  <2>6. bus = "configured" => Order(w.chip, w.busy, w.replies, owed')
    <3> SUFFICES ASSUME bus = "configured" PROVE Order(w.chip, w.busy, w.replies, owed')
      OBVIOUS
    <3>1. chip.enabled /\ Order(chip, dev.busy["vendor"], replies, owed)
      BY DEF ReplyInv
    <3>2. CASE ~answers
      <4>1. w.chip = listening /\ w.busy = dev.busy["vendor"] /\ w.replies = replies /\ owed' = owed
        BY <2>3, <3>2
      <4>2. QED
        BY <2>2, <3>1, <4>1, OrderKept
    <3>3. CASE answers /\ dev.busy["vendor"]
      <4>1. w = [chip |-> listening, busy |-> dev.busy["vendor"], replies |-> Append(replies, n)]
        BY <3>3 DEF Usb!StartNext
      <4>2. owed' = owed \o Usb!PacketsOf(n)
        BY <2>3, <3>3
      <4>3. \A start \in Nat : Queued(owed, replies, start) => Queued(owed', Append(replies, n), start)
        BY <1>1, <2>1, <4>2, QueuedAppend
      <4>4. Len(owed') >= Len(owed) /\ \A i \in 1 .. Len(owed) : owed'[i] = owed[i]
        <5>1. Len(Usb!PacketsOf(n)) \in Nat /\ Len(owed) \in Nat
          BY <1>1, <2>4
        <5>2. QED
          BY <1>1, <2>4, <4>2, <5>1, ConcatProperties
      <4>5. owed # <<>> => owed' # <<>> /\ owed'[1] = owed[1]
        BY <1>1, <2>4, <4>2, <4>4, EmptySeq
      <4>6. Len(owed) > 1 => Len(owed') > 1 /\ owed'[2] = owed[2]
        BY <1>1, <2>4, <4>2, <4>4
      <4>7. Waiting(chip, replies, owed) => Waiting(chip, Append(replies, n), owed')
        BY <4>3, <4>5, <4>6 DEF Waiting
      <4>8. Taken(chip, replies, owed) => Taken(chip, Append(replies, n), owed')
        BY <4>3, <4>5 DEF Taken
      <4>9. Order(chip, dev.busy["vendor"], Append(replies, n), owed')
        BY <3>1, <3>3, <4>7, <4>8 DEF Order, Nothing
      <4>10. w.chip = listening /\ w.busy = dev.busy["vendor"] /\ w.replies = Append(replies, n)
        <5> HIDE DEF w
        <5> QED
          BY <4>1
      <4>11. Order(listening, dev.busy["vendor"], Append(replies, n), owed')
        BY <2>2, <4>9, OrderKept
      <4> HIDE DEF w
      <4>12. QED
        BY <4>10, <4>11
    <3>4. CASE answers /\ ~dev.busy["vendor"]
      <4>1. Nothing(chip, dev.busy["vendor"], replies, owed)
        BY <3>1, <3>4 DEF Order
      <4>2. owed' = owed \o Usb!PacketsOf(n) /\ owed = <<>> /\ replies = <<>>
        BY <2>3, <3>4, <4>1 DEF Nothing
      <4>3. Queued(owed', Append(replies, n), 1)
        BY <1>1, <2>1, <4>2, NothingQueued, QueuedAppend
      <4>4. dev.busy["vendor"] = FALSE
        BY <1>1, <3>4
      <4>5. w = Usb!StartNext(listening, FALSE, Append(replies, n))
        BY <3>4, <4>4
      <4>6. listening.enabled /\ ~listening.ready["vendor"] /\ "vendor" \notin listening.raised
        BY <2>2, <3>1, <4>1 DEF Nothing
      <4>7. owed' \in Seq(Usb!Packet)
        BY <1>1, <2>4, <4>2, ConcatProperties
      <4> HIDE DEF w
      <4>8. QED
        BY <2>2, <2>4, <4>3, <4>5, <4>6, <4>7, StartNextOrders
    <3>5. QED
      BY <3>2, <3>3, <3>4
  <2>7. owed' \in Seq(Usb!Packet)
    BY <1>1, <2>3, <2>4, ConcatProperties
  <2> HIDE DEF w
  <2>8. /\ chip' \in Usb!Chip
        /\ chip'.ready = w.chip.ready /\ chip'.raised = w.chip.raised /\ chip'.in = w.chip.in
        /\ chip'.enabled = chip.enabled
    BY <1>1, <2>3, <2>5
  <2>9. dev' \in Usb!Dev /\ dev'.busy["vendor"] = w.busy
    BY <1>1, <2>3, <2>5 DEF Usb!Dev
  <2>10. ReplyInv'
    <3>1. bus # "reset"
      BY <2>1 DEF ReplyInv, n
    <3>2. CASE bus = "configured"
      <4>1. Order(chip', w.busy, w.replies, owed')
        BY <2>6, <2>8, <3>2, OrderKept
      <4>2. chip'.enabled
        BY <2>8, <3>2 DEF ReplyInv
      <4>3. QED
        BY <2>3, <2>9, <3>1, <4>1, <4>2 DEF ReplyInv
    <3>3. QED
      BY <2>3, <3>1, <3>2 DEF ReplyInv
  <2>11. QED
    BY <1>1, <1>2, <2>3, <2>5, <2>7, <2>8, <2>9, <2>10
<1>9. QED
  BY <1>5, <1>6, <1>7, <1>8 DEF Usb!Complete

-----------------------------------------------------------------------------
(* A bus reset leaves no packet and no interrupt behind.                    *)
LEMMA EmptiedFacts ==
  ASSUME NEW c \in Usb!Chip
  PROVE  /\ Usb!Emptied(c) \in Usb!Chip
         /\ ~Usb!Emptied(c).ready["vendor"] /\ Usb!Emptied(c).raised = {} /\ Usb!Emptied(c).out = 0
  BY DEF Usb!Emptied, Usb!Chip, Usb!Nobody, Usb!Endpoints

(* A reset empties the queue and the endpoint at once, and a new            *)
(* configuration finds both as the reset left them.                         *)
LEMMA BusSteps ==
  ASSUME TransfersInv, Usb!Bus
  PROVE  TransfersInv'
<1> USE DEF TransfersInv, Usb!At
<1>1. /\ chip \in Usb!Chip /\ dev \in Usb!Dev /\ caller \in Usb!Caller
      /\ "hid" \in Usb!Endpoints /\ "vendor" \in Usb!Endpoints /\ "hid" # "vendor"
      /\ Usb!Emptied(chip) \in Usb!Chip
      /\ ~Usb!Emptied(chip).ready["vendor"] /\ Usb!Emptied(chip).raised = {} /\ Usb!Emptied(chip).out = 0
      /\ Usb!Nobody \in [Usb!Endpoints -> BOOLEAN] /\ Usb!Nobody["vendor"] = FALSE
  BY EmptiedFacts DEF Usb!TransfersTypeOK, Usb!Endpoints, Usb!Nobody
<1>2. <<>> \in Seq(Usb!CommandNumbers) /\ <<>> \in Seq(Usb!Packet) /\ Len(<<>>) <= Room
  BY ExchangesAssumption
<1>3. Usb!Event => events' \in 0 .. MaxEvents
  BY ExchangesAssumption DEF Usb!Event, Usb!TransfersTypeOK
<1>4. CASE Usb!BusReset
  <2>1. /\ chip' \in Usb!Chip /\ ~chip'.ready["vendor"]
        /\ chip'.raised = {} /\ chip'.out = 0
    BY <1>1, <1>4 DEF Usb!BusReset, Usb!Chip
  <2>2. dev' \in Usb!Dev
    BY <1>1, <1>4 DEF Usb!BusReset, Usb!Dev
  <2>3. dev'.busy = Usb!Nobody
    BY <1>1, <1>4 DEF Usb!BusReset, Usb!Dev
  <2>4. ReplyInv'
    <3>1. ~dev'.busy["vendor"]
      BY <1>1, <2>3
    <3>2. QED
      BY <1>4, <2>1, <3>1 DEF Usb!BusReset, ReplyInv, Nothing
  <2>5. Usb!TransfersTypeOK'
    BY <1>1, <1>2, <1>3, <1>4, <2>1, <2>2 DEF Usb!BusReset, Usb!TransfersTypeOK
  <2>6. QED
    BY <1>4, <2>1, <2>4, <2>5 DEF Usb!BusReset
<1>5. CASE Usb!Configured
  <2>1. /\ chip' \in Usb!Chip /\ ~chip'.ready["vendor"]
        /\ chip'.raised = {} /\ chip'.enabled
    BY <1>1, <1>5 DEF Usb!Configured, Usb!Chip
  <2>2. dev' \in Usb!Dev
    BY <1>1, <1>5 DEF Usb!Configured, Usb!Dev
  <2>3. dev'.busy["vendor"] = dev.busy["vendor"]
    BY <1>1, <1>5 DEF Usb!Configured, Usb!Dev
  <2>4. ReplyInv'
    <3>1. ~dev'.busy["vendor"] /\ replies = <<>> /\ owed = <<>>
      BY <1>5, <2>3 DEF Usb!Configured, ReplyInv, Nothing
    <3>2. QED
      BY <1>5, <2>1, <3>1 DEF Usb!Configured, ReplyInv, Nothing, Order
  <2>5. Usb!TransfersTypeOK'
    BY <1>1, <1>5, <2>1, <2>2 DEF Usb!Configured, Usb!TransfersTypeOK
  <2>6. QED
    BY <1>5, <2>1, <2>4, <2>5 DEF Usb!Configured
<1>6. ASSUME NEW to \in BOOLEAN, Usb!SetSuspended(to)
      PROVE  TransfersInv'
  <2>1. dev' \in Usb!Dev /\ dev'.busy = dev.busy
    <3>1. dev' = [dev EXCEPT !.suspended = to]
      BY <1>6 DEF Usb!SetSuspended
    <3>2. QED
      BY <1>1, <3>1 DEF Usb!Dev
  <2>2. ReplyInv'
    BY <1>6, <2>1, RepliesKept DEF Usb!SetSuspended
  <2>3. Usb!TransfersTypeOK'
    BY <1>3, <1>6, <2>1 DEF Usb!SetSuspended, Usb!TransfersTypeOK
  <2>4. QED
    BY <2>2, <2>3
<1>7. CASE Usb!Reregister
  <2>1. chip' \in Usb!Chip
    BY <1>1, <1>7 DEF Usb!Reregister, Usb!Chip
  <2>2. dev' \in Usb!Dev
    BY <1>1, <1>7 DEF Usb!Reregister, Usb!Dev
  <2>3. ReplyInv'
    BY <1>7 DEF Usb!Reregister, ReplyInv
  <2>4. Usb!TransfersTypeOK'
    BY <1>1, <1>2, <1>3, <1>7, <2>1, <2>2 DEF Usb!Reregister, Usb!TransfersTypeOK
  <2>5. QED
    BY <2>3, <2>4
<1>8. CASE Usb!ForceReconnect
  BY <1>3, <1>8 DEF Usb!ForceReconnect, Usb!TransfersTypeOK, ReplyInv
<1>9. QED
  BY <1>4, <1>5, <1>6, <1>7, <1>8 DEF Usb!Bus

(* The host takes the first of the packets it is owed, or sends a command.  *)
LEMMA HostSteps ==
  ASSUME TransfersInv, Usb!Host
  PROVE  TransfersInv'
<1> USE DEF TransfersInv, Usb!Talking
<1>1. /\ chip \in Usb!Chip /\ owed \in Seq(Usb!Packet) /\ replies \in Seq(Usb!CommandNumbers)
      /\ "hid" \in Usb!Endpoints /\ "vendor" \in Usb!Endpoints /\ "hid" # "vendor"
  BY DEF Usb!TransfersTypeOK, Usb!Endpoints
<1>2. CASE Usb!SendsCommand
  <2>1. sent' \in Usb!CommandNumbers /\ sent' = sent + 1 /\ sent' \in 0 .. MaxCommands
    BY <1>2, ExchangesAssumption, SMTT(30) DEF Usb!SendsCommand, Usb!TransfersTypeOK, Usb!CommandNumbers
  <2>2. /\ chip' \in Usb!Chip
        /\ chip'.ready = chip.ready /\ chip'.raised = chip.raised
        /\ chip'.in = chip.in /\ chip'.enabled = chip.enabled
    BY <1>1, <1>2, <2>1 DEF Usb!SendsCommand, Usb!Chip
  <2>3. Usb!TransfersTypeOK'
    BY <1>2, <2>1, <2>2 DEF Usb!SendsCommand, Usb!TransfersTypeOK
  <2>4. ReplyInv'
    <3>1. bus = "configured" /\ Order(chip, dev.busy["vendor"], replies, owed)
      BY <1>2 DEF Usb!SendsCommand, ReplyInv
    <3>2. Order(chip', dev.busy["vendor"], replies, owed)
      BY <2>2, <3>1, OrderKept
    <3>3. QED
      BY <1>2, <2>2, <3>1, <3>2 DEF Usb!SendsCommand, ReplyInv
  <2>5. QED
    BY <2>3, <2>4
<1>3. CASE Usb!Takes("hid")
  <2>1. /\ chip' \in Usb!Chip
        /\ chip'.ready["vendor"] = chip.ready["vendor"] /\ chip'.raised = chip.raised \cup {"hid"}
        /\ chip'.in = chip.in /\ chip'.enabled = chip.enabled /\ chip'.out = chip.out
    BY <1>1, <1>3 DEF Usb!Takes, Usb!Chip
  <2>2. UNCHANGED <<dev, replies, caller, bus, sent, owed, clobbered, events>>
    BY <1>3 DEF Usb!Takes
  <2>3. Usb!TransfersTypeOK'
    BY <2>1, <2>2 DEF Usb!TransfersTypeOK
  <2>4. QED
    BY <2>1, <2>2, <2>3, RepliesKept
<1>4. CASE Usb!Takes("vendor")
  <2>1. bus = "configured" /\ chip.ready["vendor"]
    BY <1>4 DEF Usb!Takes
  <2>2. /\ chip' \in Usb!Chip
        /\ ~chip'.ready["vendor"] /\ chip'.raised = chip.raised \cup {"vendor"}
        /\ chip'.in = chip.in /\ chip'.enabled = chip.enabled
    BY <1>1, <1>4 DEF Usb!Takes, Usb!Chip
  <2>3. chip.enabled /\ dev.busy["vendor"] /\ Waiting(chip, replies, owed)
    BY <2>1 DEF ReplyInv, Order, Nothing, Taken
  <2>4. /\ UNCHANGED <<dev, replies, caller, bus, sent, clobbered, events>>
        /\ owed # <<>> /\ owed' = Tail(owed)
    BY <1>4, <2>3 DEF Usb!Takes, Waiting
  <2>5. owed' \in Seq(Usb!Packet) /\ (Len(owed) > 1 => owed' # <<>> /\ owed'[1] = owed[2])
    <3>1. /\ owed' \in Seq(Usb!Packet) /\ Len(owed') = Len(owed) - 1 /\ Len(owed) \in Nat
          /\ \A i \in 1 .. Len(owed') : owed'[i] = owed[i + 1]
      BY <1>1, <2>4, HeadTailProperties
    <3>2. Len(owed) > 1 => 1 \in 1 .. Len(owed') /\ 1 + 1 = 2
      BY <3>1
    <3>3. QED
      BY <3>1, <3>2, EmptySeq
  <2>6. \A start \in Nat : start > 1 /\ Queued(owed, replies, start)
                           => Queued(owed', replies, start - 1)
    BY <1>1, <2>4, QueuedTail
  <2>7. Taken(chip', replies, owed')
    <3>1. chip.in.left = 2 => owed' # <<>> /\ owed'[1] = Second(chip.in) /\ Queued(owed', replies, 2)
      <4> SUFFICES ASSUME chip.in.left = 2
                   PROVE owed' # <<>> /\ owed'[1] = Second(chip.in) /\ Queued(owed', replies, 2)
        OBVIOUS
      <4>1. Len(owed) > 1 /\ owed[2] = Second(chip.in) /\ Queued(owed, replies, 3)
        BY <2>3 DEF Waiting
      <4>2. 3 \in Nat /\ 3 > 1 /\ 3 - 1 = 2
        OBVIOUS
      <4>3. Queued(owed', replies, 2)
        BY <2>6, <4>1, <4>2
      <4>4. QED
        BY <2>5, <4>1, <4>3
    <3>2. chip.in.left = 1 => Queued(owed', replies, 1)
      <4>1. 2 \in Nat /\ 2 > 1 /\ 2 - 1 = 1
        OBVIOUS
      <4>2. chip.in.left = 1 => Queued(owed, replies, 2)
        BY <2>3 DEF Waiting
      <4>3. QED
        BY <2>6, <4>1, <4>2
    <3>3. chip.in \in Usb!Packet
      BY <2>3 DEF Waiting
    <3>4. QED
      BY <2>2, <3>1, <3>2, <3>3 DEF Taken
  <2>8. ReplyInv'
    BY <2>1, <2>2, <2>3, <2>4, <2>7 DEF ReplyInv, Order
  <2>9. Usb!TransfersTypeOK'
    BY <2>2, <2>4, <2>5 DEF Usb!TransfersTypeOK
  <2>10. QED
    BY <2>8, <2>9
<1>5. QED
  BY <1>2, <1>3, <1>4 DEF Usb!Host, Usb!Endpoints

(* Nothing else changes what is owed.                                       *)
LEMMA TransfersSteps ==
  ASSUME TransfersInv, Usb!Next \/ UNCHANGED usbVars
  PROVE  TransfersInv'
<1>1. CASE UNCHANGED usbVars
  BY <1>1
  DEF TransfersInv, Usb!TransfersTypeOK, ReplyInv, Order, Nothing, Waiting, Taken, usbVars
<1>2. CASE Usb!Next
  BY <1>2, SendSteps, CompleteSteps, BusSteps, HostSteps DEF Usb!Next
<1>3. QED
  BY <1>1, <1>2

(* The packet the host finds is the first of those it is owed, and while it *)
(* is owed any, the endpoint is busy.                                       *)
LEMMA TransfersInOrder == TransfersInv => Usb!VendorRepliesInOrder
<1> SUFFICES ASSUME TransfersInv, Usb!Talking
             PROVE  /\ chip.ready["vendor"] => owed # <<>> /\ chip.in = Head(owed)
                    /\ owed # <<>> => dev.busy["vendor"]
  BY DEF Usb!VendorRepliesInOrder
<1>1. Order(chip, dev.busy["vendor"], replies, owed) /\ owed \in Seq(Usb!Packet)
  BY DEF TransfersInv, Usb!TransfersTypeOK, ReplyInv, Usb!Talking
<1>2. owed # <<>> => dev.busy["vendor"]
  BY <1>1 DEF Order, Nothing
<1>3. ASSUME chip.ready["vendor"]
      PROVE  owed # <<>> /\ chip.in = Head(owed)
  <2>1. Waiting(chip, replies, owed)
    BY <1>1, <1>3 DEF Order, Nothing, Taken
  <2>2. QED
    BY <1>1, <2>1, HeadTailProperties DEF Waiting
<1>4. QED
  BY <1>2, <1>3

-----------------------------------------------------------------------------
(* The audio worker and the manager's replies: their proofs are about their *)
(* modules, of which these exchanges are instances.                         *)
AudioProofs == INSTANCE AudioWorker_proofs
(* The theorems of the manager, for the variables of its part.              *)
ManagerProofs == INSTANCE ManagerReply_proofs

(* The worker's initial states, steps and types are those the proofs are    *)
(* about.                                                                   *)
LEMMA SameAudioInit == Audio!Init => AudioProofs!Init
  BY DEF Audio!Init, AudioProofs!Init

(* What the instance of the worker says and what the instance of its proofs *)
(* says is the same.                                                        *)
LEMMA SameAudioType == Audio!AudioTypeOK <=> AudioProofs!AudioTypeOK
  BY DEF Audio!AudioTypeOK, AudioProofs!AudioTypeOK, Audio!Numbers, AudioProofs!Numbers,
      Audio!Mishaps, AudioProofs!Mishaps

(* Their steps are the same too.                                            *)
LEMMA SameAudio == Audio!Next => AudioProofs!Next
  BY DEF Audio!Released, AudioProofs!Released, Audio!Wakes, AudioProofs!Wakes, Audio!Woken,
      AudioProofs!Woken, Audio!WorkOf, AudioProofs!WorkOf, Audio!Requested,
      AudioProofs!Requested, Audio!Due, AudioProofs!Due, Audio!Collect,
      AudioProofs!Collect, Audio!Tell, AudioProofs!Tell, Audio!Retry,
      AudioProofs!Retry, Audio!Reset, AudioProofs!Reset, Audio!Interrupt,
      AudioProofs!Interrupt, Audio!Request, AudioProofs!Request, Audio!Block,
      AudioProofs!Block, Audio!SetSpeaker, AudioProofs!SetSpeaker, Audio!SetMic,
      AudioProofs!SetMic, Audio!BusReset, AudioProofs!BusReset, Audio!Worker,
      AudioProofs!Worker, Audio!WorkerAt, AudioProofs!WorkerAt, Audio!WorkerTo,
      AudioProofs!WorkerTo, Audio!StopHaptics, AudioProofs!StopHaptics,
      Audio!TakeWork, AudioProofs!TakeWork, Audio!WorkerCollects,
      AudioProofs!WorkerCollects, Audio!WorkerTells, AudioProofs!WorkerTells,
      Audio!WorkerRetries, AudioProofs!WorkerRetries, Audio!Claim,
      AudioProofs!Claim, Audio!CopySpeaker, AudioProofs!CopySpeaker,
      Audio!CopyHaptics, AudioProofs!CopyHaptics, Audio!FreeAndPlay,
      AudioProofs!FreeAndPlay, Audio!Work, AudioProofs!Work, Audio!Loop,
      AudioProofs!Loop, Audio!LoopAt, AudioProofs!LoopAt, Audio!LoopTo,
      AudioProofs!LoopTo, Audio!SeeLink, AudioProofs!SeeLink, Audio!RepeatState,
      AudioProofs!RepeatState, Audio!WakeWorker, AudioProofs!WakeWorker,
      Audio!CloseStreams, AudioProofs!CloseStreams, Audio!LoopCollects,
      AudioProofs!LoopCollects, Audio!LoopTells, AudioProofs!LoopTells,
      Audio!Detach, AudioProofs!Detach, Audio!Pass, AudioProofs!Pass,
      Audio!Outside, AudioProofs!Outside, Audio!RetryTime, AudioProofs!RetryTime,
      Audio!LinkUp, AudioProofs!LinkUp, Audio!LinkDown, AudioProofs!LinkDown,
      Audio!Next, AudioProofs!Next

(* And so are those of the replies.                                         *)
LEMMA SameManagerInit == Manager!Init => ManagerProofs!Init
  BY DEF Manager!Init, ManagerProofs!Init

(* So are the types of the manager.                                         *)
LEMMA SameManagerType == Manager!ReplyTypeOK <=> ManagerProofs!ReplyTypeOK
  BY DEF Manager!ReplyTypeOK, ManagerProofs!ReplyTypeOK, Manager!CommandIds,
      ManagerProofs!CommandIds, Manager!Chunk, ManagerProofs!Chunk, Manager!Reply,
      ManagerProofs!Reply, Manager!Mixed, ManagerProofs!Mixed

(* And its steps.                                                           *)
LEMMA SameManager == Manager!Next => ManagerProofs!Next
  BY DEF Manager!Set, ManagerProofs!Set, Manager!SendCommand, ManagerProofs!SendCommand,
      Manager!SetNative, ManagerProofs!SetNative, Manager!ToManager,
      ManagerProofs!ToManager, Manager!AfterChunk, ManagerProofs!AfterChunk,
      Manager!StillAwaited, ManagerProofs!StillAwaited, Manager!GetChunk,
      ManagerProofs!GetChunk, Manager!GetNative, ManagerProofs!GetNative,
      Manager!GiveUp, ManagerProofs!GiveUp, Manager!Loop, ManagerProofs!Loop,
      Manager!LoopAt, ManagerProofs!LoopAt, Manager!LoopTo, ManagerProofs!LoopTo,
      Manager!TakeSet, ManagerProofs!TakeSet, Manager!Build, ManagerProofs!Build,
      Manager!Building, ManagerProofs!Building, Manager!WriteBytes,
      ManagerProofs!WriteBytes, Manager!WriteLength, ManagerProofs!WriteLength,
      Manager!WriteOffset, ManagerProofs!WriteOffset, Manager!MakeCurrent,
      ManagerProofs!MakeCurrent, Manager!SwitchPersona,
      ManagerProofs!SwitchPersona, Manager!Serve, ManagerProofs!Serve,
      Manager!Next, ManagerProofs!Next

-----------------------------------------------------------------------------
(* All five exchanges.                                                      *)

(* The inductive invariants of the audio worker, of the manager, and of all *)
(* the exchanges.                                                           *)
AudioInv == Audio!AudioTypeOK /\ AudioProofs!HandOffInv
ManagerInv == Manager!ReplyTypeOK /\ ManagerProofs!ReplyInv

ExchangesInv == MailboxInv /\ RingInv /\ TransfersInv /\ AudioInv /\ ManagerInv

(* The steps of the worker, the interrupt and the loop; one of another      *)
(* exchange is none of theirs.                                              *)
LEMMA AudioSteps ==
  ASSUME AudioInv, Audio!Next \/ UNCHANGED audioVars
  PROVE  AudioInv'
<1> USE DEF AudioInv
<1>1. CASE Audio!Next
  <2>1. AudioProofs!Next /\ AudioProofs!AudioTypeOK
    BY <1>1, SameAudio, SameAudioType
  <2>2. AudioProofs!AudioTypeOK'
    BY <2>1, AudioProofs!AudioTypeSteps, ExchangesAssumption
  <2>3. AudioProofs!HandOffInv'
    BY <2>1, AudioProofs!InterruptSteps, AudioProofs!LoopSteps, AudioProofs!WorkerSteps
    DEF AudioProofs!Next
  <2>4. Audio!AudioTypeOK'
    BY <2>2, SameAudioType, PTL
  <2>5. QED
    BY <2>3, <2>4
<1>2. CASE UNCHANGED audioVars
  <2>1. Audio!AudioTypeOK'
    BY <1>2 DEF audioVars, Audio!AudioTypeOK
  <2>2. AudioProofs!HandOffInv'
    BY <1>2, AudioProofs!UnchangedLeavesClaim, AudioProofs!OtherContexts DEF audioVars
  <2>3. QED
    BY <2>1, <2>2
<1>3. QED
  BY <1>1, <1>2

(* The steps of the client, the interrupt and the loop.                     *)
LEMMA ManagerSteps ==
  ASSUME ManagerInv, Manager!Next \/ UNCHANGED managerVars
  PROVE  ManagerInv'
<1> USE DEF ManagerInv
<1>1. CASE Manager!Next
  <2>1. ManagerProofs!Next /\ ManagerProofs!ReplyTypeOK
    BY <1>1, SameManager, SameManagerType
  <2>2. ManagerProofs!ReplyTypeOK'
    BY <2>1, ManagerProofs!ReplyTypeSteps, ExchangesAssumption
  <2>3. ManagerProofs!ReplyInv'
    BY <2>1, ManagerProofs!SetSteps, ManagerProofs!PollSteps, ManagerProofs!LeavingSteps,
       ManagerProofs!TakeStep, ManagerProofs!WriteSteps, ManagerProofs!ShowStep
    DEF ManagerProofs!Next, ManagerProofs!Serve
  <2>4. Manager!ReplyTypeOK'
    BY <2>2, SameManagerType, PTL
  <2>5. QED
    BY <2>3, <2>4
<1>2. CASE UNCHANGED managerVars
  <2>1. Manager!ReplyTypeOK'
    BY <1>2 DEF managerVars, Manager!ReplyTypeOK
  <2>2. ManagerProofs!ReplyInv'
    BY <1>2
    DEF managerVars, ManagerProofs!ReplyInv, ManagerProofs!Types, ManagerProofs!OrderInv,
        ManagerProofs!BuildInv, ManagerProofs!ClientInv, ManagerProofs!Shown,
        ManagerProofs!Idle, ManagerProofs!LoopAt, ManagerProofs!Build
  <2>3. QED
    BY <2>1, <2>2
<1>3. QED
  BY <1>1, <1>2

(* The callback's steps and the loop's.                                     *)
LEMMA MailboxSteps ==
  ASSUME MailboxInv, Next \/ UNCHANGED vars
  PROVE  MailboxInv'
<1>1. CASE UNCHANGED vars
  BY <1>1 DEF MailboxInv, TypeOK, WriterInv, ReaderInv, DeliveredInv, NoTornSample, vars,
              writerVars, readerVars
<1>2. CASE Next
  BY <1>2, WriterSteps, ReaderSteps DEF Next
<1>3. QED
  BY <1>1, <1>2

(* A step is one of one exchange, and the others stand still.               *)
PartStep ==
  /\ Next \/ UNCHANGED vars
  /\ Ring!Next \/ UNCHANGED ringVars
  /\ Usb!Next \/ UNCHANGED usbVars
  /\ Audio!Next \/ UNCHANGED audioVars
  /\ Manager!Next \/ UNCHANGED managerVars

LEMMA StepsOfParts == [ExchangesNext]_exchangesVars => PartStep
<1> SUFFICES ASSUME ExchangesNext \/ UNCHANGED exchangesVars PROVE PartStep
  OBVIOUS
<1> USE DEF PartStep
<1>1. CASE MailboxNext
  BY <1>1 DEF MailboxNext
<1>2. CASE RingNext
  BY <1>2 DEF RingNext
<1>3. CASE UsbNext
  BY <1>3 DEF UsbNext
<1>4. CASE AudioNext
  BY <1>4 DEF AudioNext
<1>5. CASE ManagerNext
  BY <1>5 DEF ManagerNext
<1>6. CASE UNCHANGED exchangesVars
  BY <1>6 DEF exchangesVars
<1>7. QED
  BY <1>1, <1>2, <1>3, <1>4, <1>5, <1>6 DEF ExchangesNext

(* Every exchange begins in its invariant.                                  *)
LEMMA InitExchanges == ExchangesInit => ExchangesInv
<1> SUFFICES ASSUME ExchangesInit PROVE ExchangesInv
  OBVIOUS
<1>1. Init /\ Ring!Init /\ Usb!Init /\ Audio!Init /\ Manager!Init
  BY DEF ExchangesInit
<1>2. AudioInv
  <2>1. AudioProofs!Init
    BY <1>1, SameAudioInit
  <2>2. AudioProofs!HandOffInv
    BY <2>1, AudioProofs!InitHandOff
  <2>3. AudioProofs!AudioTypeOK
    BY <2>1, AudioProofs!InitAudioType, ExchangesAssumption
  <2>4. QED
    BY <2>2, <2>3, SameAudioType DEF AudioInv
<1>3. ManagerInv
  <2>1. ManagerProofs!Init
    BY <1>1, SameManagerInit
  <2>2. ManagerProofs!ReplyInv
    BY <2>1, ManagerProofs!InitReply
  <2>3. ManagerProofs!ReplyTypeOK
    BY <2>1, ManagerProofs!InitReplyType, ExchangesAssumption
  <2>4. QED
    BY <2>2, <2>3, SameManagerType DEF ManagerInv
<1>4. QED
  BY <1>1, <1>2, <1>3, InitMailbox, InitRing, InitTransfers DEF ExchangesInv

(* The invariants of the parts hold in every reachable state.               *)
THEOREM ExchangesCorrect == ExchangesSpec => []ExchangesInv
<1>1. ExchangesInv /\ [ExchangesNext]_exchangesVars => ExchangesInv'
  BY StepsOfParts, MailboxSteps, RingSteps, TransfersSteps, AudioSteps, ManagerSteps
  DEF ExchangesInv, PartStep
<1>2. QED
  BY <1>1, InitExchanges, PTL DEF ExchangesSpec

(* What is numbered, queued or copied stays in its range, in every          *)
(* exchange.                                                                *)
THEOREM PartsTypeCorrect == ExchangesSpec => []PartsTypeOK
<1>1. ExchangesInv => PartsTypeOK
  BY DEF ExchangesInv, MailboxInv, RingInv, TransfersInv, AudioInv, ManagerInv, PartsTypeOK
<1>2. QED
  BY <1>1, ExchangesCorrect, PTL

(* The packet the host finds at the vendor endpoint is the next one of the  *)
(* replies it is owed, whatever the interrupt does between two steps of the *)
(* loop's send (usbd_ep_start_write, vendor_start_next_reply).              *)
THEOREM RepliesInOrder == ExchangesSpec => []VendorRepliesInOrder
<1>1. ExchangesInv => VendorRepliesInOrder
  BY TransfersInOrder DEF ExchangesInv, VendorRepliesInOrder
<1>2. QED
  BY <1>1, ExchangesCorrect, PTL

(* Speaker and haptics samples that the worker sends belong together        *)
(* (audio_bridge_claim_output).                                             *)
THEOREM SamplesBelongTogether == ExchangesSpec => []BlocksAreWhole
<1>1. ExchangesInv => BlocksAreWhole
  BY DEF ExchangesInv, AudioInv, AudioProofs!HandOffInv, AudioProofs!ClaimInv,
         AudioProofs!BlocksAreWhole, AudioProofs!WorkerAt, BlocksAreWhole,
         Audio!BlocksAreWhole, Audio!WorkerAt
<1>2. QED
  BY <1>1, ExchangesCorrect, PTL

(* A client in step takes every chunk of its own command's reply, in order  *)
(* (ns2_profile_on_feature_get, queue_json).                                *)
THEOREM RepliesAreWhole == ExchangesSpec => []AnswersAreWhole
<1>1. ExchangesInv => AnswersAreWhole
  BY DEF ExchangesInv, ManagerInv, ManagerProofs!ReplyInv, ManagerProofs!ClientInv,
         ManagerProofs!Shown, ManagerProofs!Whole, AnswersAreWhole,
         Manager!AnswersAreWhole, Manager!Whole
<1>2. QED
  BY <1>1, ExchangesCorrect, PTL

(* What the specification says without its fairness.                        *)
SafeSpec == ExchangesInit /\ [][ExchangesNext]_exchangesVars

(* The specification implies it.                                            *)
LEMMA SafetyPart == ExchangesSpec => SafeSpec
BY PTL DEF ExchangesSpec, SafeSpec

(* A request ring implements the bounded queue: a request is refused only   *)
(* when Capacity others wait, and the others are handled, once each and in  *)
(* order.  This is all of IsBoundedFifo but that the queue is empty again   *)
(* and again.                                                               *)
THEOREM RingImplementsQueue ==
  ExchangesSpec => Ring!Fifo!Init /\ [][Ring!Fifo!Next]_queueVars
<1>1. ExchangesInit => Ring!Fifo!Init
  BY InitExchanges, InitRefines DEF ExchangesInit, ExchangesInv
<1>2. ExchangesInv => QueueView
  BY QueueFacts DEF ExchangesInv
<1>3. ExchangesInv /\ QueueView /\ QueueView' /\ [ExchangesNext]_exchangesVars
        => [Ring!Fifo!Next]_queueVars
  BY StepsOfParts, RingStepsRefine DEF ExchangesInv, PartStep, queueVars
<1>4. SafeSpec /\ []ExchangesInv => Ring!Fifo!Init /\ [][Ring!Fifo!Next]_queueVars
  BY <1>1, <1>2, <1>3, PTL DEF SafeSpec
<1>5. QED
  BY <1>4, SafetyPart, ExchangesCorrect, PTL

=============================================================================
