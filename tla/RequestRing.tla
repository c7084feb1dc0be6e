----------------------------- MODULE RequestRing -----------------------------
(***************************************************************************)
(* The rings between an interrupt or a shell and the main loop: output     *)
(* reports of the host (bridge_usb_output, bridge_process_usb_output),     *)
(* feature reports (sf32lb52_usb_hid_set_report_cb,                        *)
(* sf32lb52_usb_device_task) and control commands                          *)
(* (bridge_queue_control_command, bridge_process_control_commands).  No    *)
(* lock is taken: the producer alone writes head, the consumer alone       *)
(* writes tail, and one slot more than the capacity stays empty.  Either   *)
(* side may be preempted between any two steps.                            *)
(*                                                                         *)
(* Requests are numbered in the order in which the producer asks.  One     *)
(* context produces.  That is so for the first two rings; control commands *)
(* also come from the manager in the main loop, which this module leaves   *)
(* out.                                                                    *)
(*                                                                         *)
(* Operators named for another one and a fault ("AskUnchecked") are       *)
(* mutated forms, kept to show that the properties can fail.               *)
(***************************************************************************)
EXTENDS Naturals, Sequences

CONSTANTS
  Capacity,    (* *_QUEUE_CAPACITY                                         *)
  MaxAsked     (* bound on the requests, for model checking                *)

VARIABLES
  slots,       (* the number of the request in each slot, 0 before the first *)
  head,        (* *_head                                                   *)
  tail,        (* *_tail                                                   *)
  asked,       (* requests so far                                          *)
  producer,    (* the producer's next step                                 *)
  consumer,    (* the consumer's next step                                 *)
  command,     (* the request the consumer copied                          *)
  handled,     (* the last request it handled                              *)
  inPass       (* requests handled in this pass of the loop                *)

vars ==
  <<slots, head, tail, asked, producer, consumer, command, handled, inPass>>

Storage == Capacity + 1
Positions == 0 .. Capacity

After(position) == (position + 1) % Storage

TypeOK ==
  /\ slots \in [Positions -> Nat]
  /\ head \in Positions /\ tail \in Positions
  /\ asked \in Nat /\ command \in Nat /\ handled \in Nat
  /\ producer \in {"idle", "fill", "publish"}
  /\ consumer \in {"pass", "copy", "free"}
  /\ inPass \in 0 .. Capacity

Init ==
  /\ slots = [p \in Positions |-> 0]
  /\ head = 0 /\ tail = 0
  /\ asked = 0 /\ command = 0 /\ handled = 0
  /\ producer = "idle" /\ consumer = "pass" /\ inPass = 0

(***************************************************************************)
(* The producer.                                                           *)
(***************************************************************************)

AskUnchecked ==
  /\ producer = "idle"
  /\ asked < MaxAsked
  /\ asked' = asked + 1
  /\ producer' = "fill"
  /\ UNCHANGED <<slots, head, tail, consumer, command, handled, inPass>>

(* A request is dropped if the ring is full when it is asked.               *)
Ask ==
  /\ producer = "idle"
  /\ asked < MaxAsked
  /\ asked' = asked + 1
  /\ producer' = IF After(head) = tail THEN "idle" ELSE "fill"
  /\ UNCHANGED <<slots, head, tail, consumer, command, handled, inPass>>

Fill ==
  /\ producer = "fill"
  /\ producer' = "publish"
  /\ slots' = [slots EXCEPT ![head] = asked]
  /\ UNCHANGED <<head, tail, asked, consumer, command, handled, inPass>>

Publish ==
  /\ producer = "publish"
  /\ producer' = "idle"
  /\ head' = After(head)
  /\ UNCHANGED <<slots, tail, asked, consumer, command, handled, inPass>>

(***************************************************************************)
(* The consumer: a pass handles at most Capacity requests.                 *)
(***************************************************************************)

EndPass ==
  /\ consumer = "pass"
  /\ tail = head \/ inPass = Capacity
  /\ inPass' = 0
  /\ UNCHANGED <<slots, head, tail, asked, producer, consumer, command, handled>>

BeginRequest ==
  /\ consumer = "pass"
  /\ tail # head /\ inPass < Capacity
  /\ consumer' = "copy"
  /\ UNCHANGED <<slots, head, tail, asked, producer, command, handled, inPass>>

Copy ==
  /\ consumer = "copy"
  /\ consumer' = "free"
  /\ command' = slots[tail]
  /\ UNCHANGED <<slots, head, tail, asked, producer, handled, inPass>>

(* The slot is free from here on; the request is handled from the copy.     *)
FreeAndHandle ==
  /\ consumer = "free"
  /\ consumer' = "pass"
  /\ tail' = After(tail)
  /\ handled' = command
  /\ inPass' = inPass + 1
  /\ UNCHANGED <<slots, head, asked, producer, command>>

(***************************************************************************)
(* The specification.                                                      *)
(***************************************************************************)

Produce == Ask \/ Fill \/ Publish
Consume == EndPass \/ BeginRequest \/ Copy \/ FreeAndHandle

Next == Produce \/ Consume

Spec == Init /\ [][Next]_vars

(* The producer finishes a request it began, the loop runs.                 *)
FairSpec == Spec /\ WF_vars(Fill \/ Publish) /\ WF_vars(Consume)

(***************************************************************************)
(* Properties.                                                             *)
(***************************************************************************)

Waiting == (head + Storage - tail) % Storage

Fifo == INSTANCE BoundedFifo WITH
  asked <- IF producer = "idle" THEN asked ELSE asked - 1,
  queue <- [i \in 1 .. Waiting |-> slots[(tail + i - 1) % Storage]]

(* The ring is a bounded queue: a request is refused only when Capacity     *)
(* others wait, and the rest are handled, once each and in order, however   *)
(* producer and consumer interleave and although a pass is limited.         *)
IsBoundedFifo == Fifo!Spec

=============================================================================
