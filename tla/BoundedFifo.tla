----------------------------- MODULE BoundedFifo -----------------------------
(***************************************************************************)
(* What a request ring promises: a first-in first-out queue of at most     *)
(* Capacity requests.  A request that finds the queue full is refused, and *)
(* only such a request; the others are handled once each, in order, and    *)
(* none waits for ever.                                                    *)
(***************************************************************************)
EXTENDS Naturals, Sequences

CONSTANTS Capacity, MaxAsked

VARIABLES
  asked,    (* requests so far, numbered from 1                            *)
  queue,    (* the numbers of those that wait                              *)
  handled   (* the number of the last one handled, 0 for none              *)

Init == asked = 0 /\ queue = <<>> /\ handled = 0

Accept ==
  /\ asked < MaxAsked
  /\ Len(queue) < Capacity
  /\ asked' = asked + 1
  /\ queue' = Append(queue, asked')
  /\ UNCHANGED handled

Refuse ==
  /\ asked < MaxAsked
  /\ Len(queue) = Capacity
  /\ asked' = asked + 1
  /\ UNCHANGED <<queue, handled>>

Handle ==
  /\ queue # <<>>
  /\ handled' = Head(queue)
  /\ queue' = Tail(queue)
  /\ UNCHANGED asked

Next == Accept \/ Refuse \/ Handle

(* The requests are bounded in number, so that none waits for ever means    *)
(* that the queue is empty again and again.                                 *)
Spec == Init /\ [][Next]_<<asked, queue, handled>> /\ []<>(queue = <<>>)

=============================================================================
