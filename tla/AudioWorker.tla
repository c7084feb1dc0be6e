----------------------------- MODULE AudioWorker -----------------------------
(***************************************************************************)
(* The audio of the DualSense personas (sf32lb52_usb_device.c): blocks of  *)
(* speaker and haptics samples that the USB interrupt passes to a worker   *)
(* thread, and the state of the microphone, which the worker tells the     *)
(* controller when the host opens or closes it and when the controller     *)
(* comes back.  The main loop takes part: it watches the link, and closes  *)
(* the microphone itself before it disconnects from the bus.               *)
(*                                                                         *)
(* The interrupt is one step.  A step of a thread is what the code does    *)
(* with interrupts disabled, or one call.  The worker's semaphore is       *)
(* counted up to MaxWork.  The samples, their encoding, the volume and the *)
(* microphone's own samples are left out.  A link that goes down stays so  *)
(* until the loop has seen it, for it takes the controller seconds to come *)
(* back, and then its microphone is off.                                   *)
(*                                                                         *)
(* Operators named for another one and a fault ("BlockUnguarded") are      *)
(* mutated forms, kept to show that the properties can fail.               *)
(***************************************************************************)
EXTENDS Naturals

CONSTANTS
  MaxWork,      (* bound on the count of audio_work_sem                    *)
  MaxBlocks,    (* bound on the blocks, which are numbered                 *)
  MaxRequests,  (* bound on what the host, the bus and the loop ask for    *)
  MaxFailures   (* bound on failed sends and lost links                    *)

VARIABLES
  mic,        (* open, pending, notified and seen: audio_mic_open,         *)
              (* audio_mic_state_*, audio_mic_classic_connected; due: its  *)
              (* retry time has come                                       *)
  blocks,     (* blocks so far                                             *)
  passed,     (* ready: the block in the ready buffers, 0 if there is      *)
              (* none; buffer: what they hold; claimed; stop:              *)
              (* audio_haptics_stop_pending                                *)
  work,       (* audio_work_sem                                            *)
  worker,     (* where the worker is, with its locals                      *)
  loop,       (* where the main loop is, with its locals                   *)
  heard,      (* the last block the haptics callback was given, 0 for stop *)
  host,       (* speaker, mic: the streams the host has opened; attached   *)
  pad,        (* up: the controller is connected; mic: its microphone      *)
  mishaps,    (* history: which of Mishaps have happened                   *)
  requests, failures

vars == <<mic, blocks, passed, work, worker, loop, heard, host, pad, mishaps, requests, failures>>

(* The worker sent a state that another had replaced meanwhile; the loop    *)
(* wrote back a state the host had changed meanwhile.                       *)
Mishaps == {"overtaken", "reverted"}

Numbers == 0 .. MaxBlocks

AudioTypeOK ==
  /\ mic \in [open : BOOLEAN, pending : BOOLEAN, notified : BOOLEAN, due : BOOLEAN, seen : BOOLEAN]
  /\ blocks \in Numbers
  /\ passed \in [ready : BOOLEAN, buffer : Numbers, claimed : BOOLEAN, stop : BOOLEAN]
  /\ work \in 0 .. MaxWork
  /\ worker \in [at : {"stop", "take", "state", "send", "failed", "claim", "speaker", "haptics", "free"},
                 enabled : BOOLEAN, speaker : Numbers, haptics : Numbers]
  /\ loop \in [at : {"sync", "request", "wake", "close", "send", "failed", "detach"}, enabled : BOOLEAN]
  /\ heard \in Numbers
  /\ host \in [speaker : BOOLEAN, mic : BOOLEAN, attached : BOOLEAN]
  /\ pad \in [up : BOOLEAN, mic : BOOLEAN]
  /\ mishaps \in SUBSET Mishaps
  /\ requests \in 0 .. MaxRequests /\ failures \in 0 .. MaxFailures

Init ==
  /\ mic = [open |-> FALSE, pending |-> FALSE, notified |-> FALSE, due |-> TRUE, seen |-> FALSE]
  /\ blocks = 0
  /\ passed = [ready |-> FALSE, buffer |-> 0, claimed |-> FALSE, stop |-> TRUE]
  /\ work = 0
  /\ worker = [at |-> "stop", enabled |-> FALSE, speaker |-> 0, haptics |-> 0]
  /\ loop = [at |-> "sync", enabled |-> FALSE]
  /\ heard = 0
  /\ host = [speaker |-> FALSE, mic |-> FALSE, attached |-> TRUE]
  /\ pad \in [up : BOOLEAN, mic : {FALSE}]
  /\ mishaps = {} /\ requests = 0 /\ failures = 0

Released(n) == IF n < MaxWork THEN n + 1 ELSE n

-----------------------------------------------------------------------------
(* Parts of the microphone's state machine.                                 *)

(* audio_mic_wake_worker_if_due, on the state and the semaphore.            *)
Wakes(m) == m.pending /\ ~m.notified /\ m.due
Woken(m) == IF Wakes(m) THEN [m EXCEPT !.notified = TRUE] ELSE m
WorkOf(m, n) == IF Wakes(m) THEN Released(n) ELSE n

(* audio_mic_request_state with interrupts disabled.                        *)
Requested(m, open, force) ==
  IF m.open # open \/ force THEN [m EXCEPT !.open = open, !.pending = TRUE, !.due = TRUE] ELSE m

(* audio_mic_process_state up to the send, as worker and loop do it.        *)
Due == mic.pending /\ mic.due
Collect == mic' = [mic EXCEPT !.notified = FALSE, !.pending = @ /\ ~mic.due]

(* The send; a controller that is not connected, or congested, fails it.    *)
Tell(enabled, ok) ==
  /\ ok => pad.up
  /\ ~ok /\ pad.up => failures < MaxFailures
  /\ failures' = IF ~ok /\ pad.up THEN failures + 1 ELSE failures
  /\ pad' = IF ok THEN [pad EXCEPT !.mic = enabled] ELSE pad
  /\ mishaps' = IF ok /\ mic.open # enabled /\ ~mic.pending THEN mishaps \cup {"overtaken"} ELSE mishaps

GiveUp(enabled) == UNCHANGED mic

(* A failed send is tried again unless the state is no longer the one sent. *)
Retry(enabled) ==
  mic' = IF mic.open = enabled THEN [mic EXCEPT !.pending = TRUE, !.due = FALSE] ELSE mic

ResetKeepsHaptics(p) == [p EXCEPT !.ready = @ /\ p.claimed]

(* audio_bridge_reset: blocks that wait are dropped, one that is being      *)
(* copied is left, and the worker is told to stop the haptics.              *)
Reset(p) == [p EXCEPT !.ready = @ /\ p.claimed, !.stop = TRUE]

-----------------------------------------------------------------------------
(* The USB interrupt.                                                       *)

Interrupt == UNCHANGED <<worker, loop, heard, pad, mishaps, failures>>
Request == requests < MaxRequests /\ requests' = requests + 1

(* As Block, with a ready block overwritten.                                *)
BlockUnguarded ==
  /\ host.speaker /\ blocks < MaxBlocks
  /\ blocks' = blocks + 1
  /\ passed' = [passed EXCEPT !.ready = TRUE, !.buffer = blocks + 1]
  /\ work' = Released(work)
  /\ Interrupt /\ UNCHANGED <<mic, host, requests>>

(* audio_bridge_accept_pcm with the sample that completes a block.          *)
Block ==
  /\ host.speaker /\ blocks < MaxBlocks
  /\ blocks' = blocks + 1
  /\ passed' = IF passed.claimed \/ passed.ready THEN passed
               ELSE [passed EXCEPT !.ready = TRUE, !.buffer = blocks + 1]
  /\ work' = Released(work)
  /\ Interrupt /\ UNCHANGED <<mic, host, requests>>

(* usbd_audio_open and usbd_audio_close, for either interface.              *)
SetSpeaker(open) ==
  /\ Request /\ host.attached /\ host.speaker # open
  /\ host' = [host EXCEPT !.speaker = open]
  /\ passed' = Reset(passed) /\ work' = Released(work)
  /\ Interrupt /\ UNCHANGED <<mic, blocks>>

SetMic(open) ==
  /\ Request /\ host.attached /\ host.mic # open
  /\ host' = [host EXCEPT !.mic = open]
  /\ LET m == Requested(mic, open, ~open) IN mic' = Woken(m) /\ work' = WorkOf(m, work)
  /\ Interrupt /\ UNCHANGED <<blocks, passed>>

(* The bus is reset; the host has no stream open then.                      *)
BusReset ==
  /\ host.attached => requests < MaxRequests
  /\ requests' = IF host.attached THEN requests + 1 ELSE requests
  /\ host' = [speaker |-> FALSE, mic |-> FALSE, attached |-> TRUE]
  /\ passed' = Reset(passed)
  /\ LET m == Requested(mic, FALSE, TRUE)
     IN mic' = Woken(m) /\ work' = WorkOf(m, Released(work))
  /\ Interrupt /\ UNCHANGED blocks

-----------------------------------------------------------------------------
(* The worker.                                                              *)

Worker == UNCHANGED <<blocks, loop, host, requests>>
WorkerAt(step) == worker.at = step
WorkerTo(step) == worker' = [worker EXCEPT !.at = step]

StopHaptics ==
  /\ WorkerAt("stop") /\ WorkerTo("take")
  /\ passed' = [passed EXCEPT !.stop = FALSE]
  /\ heard' = IF passed.stop THEN 0 ELSE heard
  /\ Worker /\ UNCHANGED <<mic, work, pad, mishaps, failures>>

TakeWork ==
  /\ WorkerAt("take") /\ work > 0 /\ WorkerTo("state")
  /\ work' = work - 1
  /\ Worker /\ UNCHANGED <<mic, passed, heard, pad, mishaps, failures>>

WorkerCollects ==
  /\ WorkerAt("state") /\ Collect
  /\ worker' = [worker EXCEPT !.at = IF Due THEN "send" ELSE "claim", !.enabled = mic.open]
  /\ Worker /\ UNCHANGED <<passed, work, heard, pad, mishaps, failures>>

WorkerTells ==
  /\ WorkerAt("send")
  /\ \E ok \in BOOLEAN : Tell(worker.enabled, ok) /\ WorkerTo(IF ok THEN "claim" ELSE "failed")
  /\ Worker /\ UNCHANGED <<mic, passed, work, heard>>

WorkerRetries ==
  /\ WorkerAt("failed") /\ WorkerTo("claim") /\ Retry(worker.enabled)
  /\ Worker /\ UNCHANGED <<passed, work, heard, pad, mishaps, failures>>

(* audio_bridge_claim_output, in steps.                                     *)
Claim ==
  /\ WorkerAt("claim") /\ WorkerTo(IF passed.ready THEN "speaker" ELSE "stop")
  /\ passed' = [passed EXCEPT !.claimed = passed.ready]
  /\ Worker /\ UNCHANGED <<mic, work, heard, pad, mishaps, failures>>

CopySpeaker ==
  /\ WorkerAt("speaker")
  /\ worker' = [worker EXCEPT !.at = "haptics", !.speaker = passed.buffer]
  /\ Worker /\ UNCHANGED <<mic, passed, work, heard, pad, mishaps, failures>>

CopyHaptics ==
  /\ WorkerAt("haptics")
  /\ worker' = [worker EXCEPT !.at = "free", !.haptics = passed.buffer]
  /\ Worker /\ UNCHANGED <<mic, passed, work, heard, pad, mishaps, failures>>

(* The buffers are free again; the haptics callback gets its part.          *)
FreeAndPlay ==
  /\ WorkerAt("free") /\ WorkerTo("stop")
  /\ passed' = [passed EXCEPT !.ready = FALSE, !.claimed = FALSE]
  /\ heard' = worker.haptics
  /\ Worker /\ UNCHANGED <<mic, work, pad, mishaps, failures>>

Work ==
  \/ StopHaptics \/ TakeWork \/ WorkerCollects \/ WorkerTells \/ WorkerRetries
  \/ Claim \/ CopySpeaker \/ CopyHaptics \/ FreeAndPlay

-----------------------------------------------------------------------------
(* The main loop: audio_mic_sync_classic_state in every pass, and what      *)
(* precedes a disconnection from the bus.                                   *)

Loop == UNCHANGED <<blocks, worker, heard>>
LoopAt(step) == loop.at = step
LoopTo(step) == loop' = [loop EXCEPT !.at = step]

(* The state to repeat to a controller that came back is read here, and     *)
(* written two steps later.                                                 *)
SeeLink ==
  /\ LoopAt("sync")
  /\ mic' = [mic EXCEPT !.seen = pad.up]
  /\ loop' = [at |-> IF pad.up /\ ~mic.seen THEN "request" ELSE "wake", enabled |-> mic.open]
  /\ Loop /\ UNCHANGED <<passed, work, host, pad, mishaps, requests, failures>>

RepeatState ==
  /\ LoopAt("request") /\ LoopTo("wake")
  /\ mishaps' = IF mic.open # loop.enabled THEN mishaps \cup {"reverted"} ELSE mishaps
  /\ LET m == Requested(mic, loop.enabled, TRUE) IN mic' = Woken(m) /\ work' = WorkOf(m, work)
  /\ Loop /\ UNCHANGED <<passed, host, pad, requests, failures>>

WakeWorker ==
  /\ LoopAt("wake")
  /\ \/ LoopTo("sync") /\ UNCHANGED requests
     \/ host.attached /\ Request /\ LoopTo("close")
  /\ mic' = Woken(mic) /\ work' = WorkOf(mic, work)
  /\ Loop /\ UNCHANGED <<passed, host, pad, mishaps, failures>>

(* usb_apply_pending_role: the stream ends, audio_mic_force_closed.         *)
CloseStreams ==
  /\ LoopAt("close") /\ LoopTo("send")
  /\ passed' = Reset(passed)
  /\ LET m == Requested(mic, FALSE, TRUE)
     IN mic' = Woken(m) /\ work' = WorkOf(m, Released(work))
  /\ Loop /\ UNCHANGED <<host, pad, mishaps, requests, failures>>

LoopCollects ==
  /\ LoopAt("send") /\ Collect
  /\ loop' = [at |-> IF Due THEN "failed" ELSE "detach", enabled |-> mic.open]
  /\ Loop /\ UNCHANGED <<passed, work, host, pad, mishaps, requests, failures>>

LoopTells ==
  /\ LoopAt("failed") /\ LoopTo("detach")
  /\ \E ok \in BOOLEAN :
       /\ Tell(loop.enabled, ok)
       /\ IF ok THEN UNCHANGED mic ELSE Retry(loop.enabled)
  /\ Loop /\ UNCHANGED <<passed, work, host, requests>>

Detach ==
  /\ LoopAt("detach") /\ LoopTo("sync")
  /\ host' = [speaker |-> FALSE, mic |-> FALSE, attached |-> FALSE]
  /\ Loop /\ UNCHANGED <<mic, passed, work, pad, mishaps, requests, failures>>

Pass == SeeLink \/ RepeatState \/ WakeWorker \/ CloseStreams \/ LoopCollects \/ LoopTells \/ Detach

-----------------------------------------------------------------------------
(* Time and the controller's link.                                          *)

Outside == UNCHANGED <<blocks, passed, work, worker, loop, heard, host, mishaps, requests>>

RetryTime ==
  /\ ~mic.due /\ mic' = [mic EXCEPT !.due = TRUE]
  /\ Outside /\ UNCHANGED <<pad, failures>>

LinkUp ==
  /\ ~pad.up /\ ~mic.seen
  /\ pad' = [up |-> TRUE, mic |-> FALSE]
  /\ Outside /\ UNCHANGED <<mic, failures>>

LinkDown ==
  /\ pad.up /\ failures < MaxFailures
  /\ failures' = failures + 1
  /\ pad' = [up |-> FALSE, mic |-> FALSE]
  /\ Outside /\ UNCHANGED mic

-----------------------------------------------------------------------------
Next ==
  \/ Block \/ BusReset
  \/ \E open \in BOOLEAN : SetSpeaker(open) \/ SetMic(open)
  \/ Work \/ Pass \/ RetryTime \/ LinkUp \/ LinkDown

Spec == Init /\ [][Next]_vars

(* Both threads run, time passes, and a host resets what it finds attached. *)
FairSpec ==
  /\ Spec /\ WF_vars(Work) /\ WF_vars(Pass) /\ WF_vars(RetryTime)
  /\ WF_vars(~host.attached /\ BusReset)

-----------------------------------------------------------------------------
(* Properties.                                                              *)

(* Speaker and haptics samples the worker sends belong together, however    *)
(* blocks and resets of the stream fall between its copies.                 *)
BlocksAreWhole == WorkerAt("free") => worker.speaker = worker.haptics

(* A stream that ends leaves the motors still: the last the haptics hear is *)
(* to stop, although a block claimed before the end is played after it.     *)
EndedStreamIsSilent == <>[](~host.speaker) => <>[](heard = 0)

(* The controller's microphone ends up in the state the host chose, over    *)
(* failed sends, lost links, resets and disconnections.  Excepted are two   *)
(* races the code leaves: the worker sends the state it read before the     *)
(* loop sent another, and the loop, to repeat the state to a controller     *)
(* that came back, writes one the host has just changed.                    *)
MicFollowsHost ==
  <>[]pad.up /\ <>[][host' = host]_host
    => <>[](pad.mic = host.mic \/ mishaps # {})

=============================================================================
