---------------------------- MODULE SampleMailbox ----------------------------
(***************************************************************************)
(* The one-slot mailboxes between a Bluetooth or USB callback and the main *)
(* loop (sf32lb52_app.c: pending_ns2_input, pending_ds5_input and          *)
(* pending_audio_haptics).  The callback overwrites the slot between two   *)
(* increments of a sequence number; the loop copies the slot and keeps the *)
(* copy only if the number was even and did not move meanwhile.  Either    *)
(* side may be preempted between any two steps.                            *)
(*                                                                         *)
(* Samples are numbered in the order of their callbacks.  The slot and the *)
(* copy are two words, enough for a copy to be torn.  The sequence number  *)
(* does not wrap here: a wrap within one copy takes 2^31 callbacks.        *)
(*                                                                         *)
(* Operators named for another one and a fault ("DeliverUnverified") are   *)
(* mutated forms, kept to show that the properties can fail.               *)
(***************************************************************************)
EXTENDS Naturals

CONSTANTS
  Attempts,    (* copies one call tries: 8 for the inputs, 2 for haptics   *)
  MaxSamples   (* bound on the callbacks, for model checking               *)

ASSUME AttemptsAssumption == Attempts \in Nat \ {0}
ASSUME MaxSamplesAssumption == MaxSamples \in Nat

VARIABLES
  sequence,    (* pending_*_sequence                                       *)
  slot,        (* pending_*                                                *)
  sample,      (* callbacks so far                                         *)
  writer,      (* the callback's next step                                 *)
  processed,   (* processed_*_sequence                                     *)
  before,
  copy,
  attempts,
  reader,      (* the loop's next step                                     *)
  delivered    (* the last sample the loop got, and how many it got        *)

writerVars == <<sequence, slot, sample, writer>>
readerVars == <<processed, before, copy, attempts, reader, delivered>>
vars == <<writerVars, readerVars>>

Words == [first : Nat, second : Nat]

TypeOK ==
  /\ sequence \in Nat /\ sample \in Nat /\ processed \in Nat /\ before \in Nat
  /\ slot \in Words /\ copy \in Words
  /\ writer \in {"idle", "first", "second", "end"}
  /\ attempts \in 0 .. Attempts
  /\ reader \in {"begin", "first", "second", "check"}
  /\ delivered \in [first : Nat, second : Nat, count : Nat]

Empty == [first |-> 0, second |-> 0]

Init ==
  /\ sequence = 0 /\ sample = 0 /\ slot = Empty /\ writer = "idle"
  /\ processed = 0 /\ before = 0 /\ copy = Empty /\ attempts = 0
  /\ reader = "begin"
  /\ delivered = [first |-> 0, second |-> 0, count |-> 0]

(***************************************************************************)
(* The callback: bridge_on_ns2_input, bridge_on_ds5_input and the end of   *)
(* bridge_on_usb_audio_haptics.                                            *)
(***************************************************************************)

BeginWrite ==
  /\ writer = "idle"
  /\ sample < MaxSamples
  /\ writer' = "first"
  /\ sample' = sample + 1
  /\ sequence' = sequence + 1
  /\ UNCHANGED <<slot, readerVars>>

WriteFirst ==
  /\ writer = "first"
  /\ writer' = "second"
  /\ slot' = [slot EXCEPT !.first = sample]
  /\ UNCHANGED <<sequence, sample, readerVars>>

WriteSecond ==
  /\ writer = "second"
  /\ writer' = "end"
  /\ slot' = [slot EXCEPT !.second = sample]
  /\ UNCHANGED <<sequence, sample, readerVars>>

EndWrite ==
  /\ writer = "end"
  /\ writer' = "idle"
  /\ sequence' = sequence + 1
  /\ UNCHANGED <<slot, sample, readerVars>>

(***************************************************************************)
(* The loop: bridge_take_ns2_input, bridge_take_ds5_input and              *)
(* bridge_process_audio_haptics.                                           *)
(***************************************************************************)

Busy == sequence % 2 = 1

NothingToRead ==
  /\ reader = "begin"
  /\ sequence = processed \/ Busy
  /\ attempts' = 0
  /\ UNCHANGED <<writerVars, processed, before, copy, reader, delivered>>

BeginRead ==
  /\ reader = "begin"
  /\ sequence # processed /\ ~Busy
  /\ before' = sequence
  /\ attempts' = attempts + 1
  /\ reader' = "first"
  /\ UNCHANGED <<writerVars, processed, copy, delivered>>

ReadFirst ==
  /\ reader = "first"
  /\ reader' = "second"
  /\ copy' = [copy EXCEPT !.first = slot.first]
  /\ UNCHANGED <<writerVars, processed, before, attempts, delivered>>

ReadSecond ==
  /\ reader = "second"
  /\ reader' = "check"
  /\ copy' = [copy EXCEPT !.second = slot.second]
  /\ UNCHANGED <<writerVars, processed, before, attempts, delivered>>

Hand == [first |-> copy.first, second |-> copy.second, count |-> delivered.count + 1]

DeliverUnverified ==
  /\ reader = "check"
  /\ reader' = "begin" /\ attempts' = 0
  /\ processed' = before
  /\ delivered' = Hand
  /\ UNCHANGED <<writerVars, before, copy>>

DeliverTwice ==
  /\ reader = "check" /\ before = sequence
  /\ reader' = "begin" /\ attempts' = 0
  /\ delivered' = Hand
  /\ UNCHANGED <<writerVars, processed, before, copy>>

Deliver ==
  /\ reader = "check" /\ before = sequence
  /\ reader' = "begin" /\ attempts' = 0
  /\ processed' = sequence
  /\ delivered' = Hand
  /\ UNCHANGED <<writerVars, before, copy>>

RetryOrGiveUpForGood ==
  /\ reader = "check" /\ before # sequence
  /\ reader' = "begin"
  /\ attempts' = IF attempts < Attempts THEN attempts ELSE 0
  /\ processed' = IF attempts < Attempts THEN processed ELSE sequence
  /\ UNCHANGED <<writerVars, before, copy, delivered>>

(* The number moved: try again, or give up until the next call.             *)
RetryOrGiveUp ==
  /\ reader = "check" /\ before # sequence
  /\ reader' = "begin"
  /\ attempts' = IF attempts < Attempts THEN attempts ELSE 0
  /\ UNCHANGED <<writerVars, processed, before, copy, delivered>>

(***************************************************************************)
(* The specification.                                                      *)
(***************************************************************************)

FinishWrite == WriteFirst \/ WriteSecond \/ EndWrite

Read ==
  NothingToRead \/ BeginRead \/ ReadFirst \/ ReadSecond \/ Deliver \/ RetryOrGiveUp

Next == BeginWrite \/ FinishWrite \/ Read

Spec == Init /\ [][Next]_vars

(* A callback that began ends, and the loop keeps calling.                  *)
FairSpec == Spec /\ WF_vars(FinishWrite) /\ WF_vars(Read)

(***************************************************************************)
(* Properties.                                                             *)
(***************************************************************************)

(* What the loop gets is one sample, not a mixture of two, however the      *)
(* callback interrupts the copy.                                            *)
NoTornSample == delivered.first = delivered.second

(* The loop never gets a sample twice and never an older one after a newer: *)
(* with the stamps in the samples, arbitration sees time move forward.      *)
SamplesInOrder ==
  [][delivered' # delivered => delivered'.first > delivered.first]_delivered

(* When the callbacks pause, the loop gets the last sample: a released      *)
(* button is not lost to the overwriting, the retries or the giving up.     *)
NewestIsDelivered ==
  <>[][sample' = sample]_sample => []<>(delivered.first = sample)

=============================================================================
