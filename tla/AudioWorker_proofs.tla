------------------------- MODULE AudioWorker_proofs -------------------------
(***************************************************************************)
(* The worker sends whole blocks, for any number of blocks, streams and    *)
(* resets: a claim keeps the block in its buffers until it is handed back, *)
(* whatever the interrupt and the main loop do to the flags meanwhile.     *)
(***************************************************************************)
EXTENDS AudioWorker, TLAPS

(* The flags and the worker are records; what is in them matters little.    *)
Shapes ==
  /\ passed = [ready |-> passed.ready, buffer |-> passed.buffer,
               claimed |-> passed.claimed, stop |-> passed.stop]
  /\ passed.ready \in BOOLEAN
  /\ worker = [at |-> worker.at, enabled |-> worker.enabled,
               speaker |-> worker.speaker, haptics |-> worker.haptics]

(* The worker holds a buffer while it copies and until it frees it.         *)
Copying == worker.at \in {"speaker", "haptics", "free"}

(* While the worker copies, the block is claimed, and what it has copied is *)
(* of the block that is still there.                                        *)
ClaimInv ==
  /\ Copying => passed.claimed = TRUE
  /\ WorkerAt("haptics") => worker.speaker = passed.buffer
  /\ BlocksAreWhole

(* The inductive invariant of the hand-off.                                 *)
HandOffInv == Shapes /\ ClaimInv

(* What a step of another context may do to the flags: it leaves a claimed  *)
(* block in its buffers.                                                    *)
LeavesClaim ==
  /\ passed' = [ready |-> passed'.ready, buffer |-> passed'.buffer,
                claimed |-> passed'.claimed, stop |-> passed'.stop]
  /\ passed'.ready \in BOOLEAN
  /\ passed.claimed = TRUE => passed'.claimed = TRUE /\ passed'.buffer = passed.buffer

(* Resetting the bridge does.                                               *)
LEMMA ResetLeavesClaim ==
  ASSUME Shapes, passed' = Reset(passed)
  PROVE  LeavesClaim
<1>1. passed' = [ready |-> passed.ready /\ passed.claimed, buffer |-> passed.buffer,
                 claimed |-> passed.claimed, stop |-> TRUE]
  BY DEF Shapes, Reset
<1>2. QED
  BY <1>1 DEF LeavesClaim

(* A step that leaves the worker where it is and respects its claim.        *)
LEMMA OtherContexts ==
  ASSUME HandOffInv, UNCHANGED worker, LeavesClaim
  PROVE  HandOffInv'
  BY DEF HandOffInv, Shapes, ClaimInv, BlocksAreWhole, Copying, WorkerAt, LeavesClaim

(* A step that leaves the buffers and the worker alone keeps it.            *)
LEMMA UnchangedLeavesClaim ==
  ASSUME HandOffInv, UNCHANGED passed
  PROVE  LeavesClaim
  BY DEF HandOffInv, Shapes, LeavesClaim

(* Audio is idle at the start.                                              *)
LEMMA InitHandOff == Init => HandOffInv
  BY DEF Init, HandOffInv, Shapes, ClaimInv, BlocksAreWhole, Copying, WorkerAt

(* A block that is completed while another waits or is copied is dropped.   *)
LEMMA BlockLeavesClaim ==
  ASSUME HandOffInv, Block
  PROVE  LeavesClaim
<1> USE DEF HandOffInv, Shapes, LeavesClaim, Block
<1>1. CASE passed.claimed \/ passed.ready
  <2>1. passed' = passed
    BY <1>1
  <2>2. QED
    BY <2>1
<1>2. CASE ~(passed.claimed \/ passed.ready)
  <2>1. passed' = [ready |-> TRUE, buffer |-> blocks + 1, claimed |-> passed.claimed,
                   stop |-> passed.stop]
    BY <1>2
  <2>2. passed.claimed # TRUE
    BY <1>2
  <2>3. QED
    BY <2>1, <2>2
<1>3. QED
  BY <1>1, <1>2

(* The interrupt: a block, a stream, a bus reset.                           *)
LEMMA InterruptSteps ==
  ASSUME HandOffInv,
         Block \/ BusReset \/ \E open \in BOOLEAN : SetSpeaker(open) \/ SetMic(open)
  PROVE  HandOffInv'
<1>1. CASE Block
  BY <1>1, BlockLeavesClaim, OtherContexts DEF Block, Interrupt
<1>2. CASE BusReset
  BY <1>2, ResetLeavesClaim, OtherContexts DEF BusReset, Interrupt, HandOffInv
<1>3. ASSUME NEW open \in BOOLEAN, SetSpeaker(open) PROVE HandOffInv'
  BY <1>3, ResetLeavesClaim, OtherContexts DEF SetSpeaker, Interrupt, HandOffInv
<1>4. ASSUME NEW open \in BOOLEAN, SetMic(open) PROVE HandOffInv'
  BY <1>4, UnchangedLeavesClaim, OtherContexts DEF SetMic, Interrupt
<1>5. QED
  BY <1>1, <1>2, <1>3, <1>4

(* The main loop, time and the controller's link: only the end of the       *)
(* streams touches the flags, and it resets the bridge.                     *)
LEMMA LoopSteps ==
  ASSUME HandOffInv, Pass \/ RetryTime \/ LinkUp \/ LinkDown
  PROVE  HandOffInv'
<1>1. UNCHANGED worker
  BY DEF Pass, SeeLink, RepeatState, WakeWorker, CloseStreams, LoopCollects, LoopTells, Detach,
         RetryTime, LinkUp, LinkDown, Loop, Outside
<1>2. CASE CloseStreams
  BY <1>1, <1>2, ResetLeavesClaim, OtherContexts DEF CloseStreams, HandOffInv
<1>3. CASE ~CloseStreams
  <2>1. UNCHANGED passed
    BY <1>3 DEF Pass, SeeLink, RepeatState, WakeWorker, LoopCollects, LoopTells, Detach,
                RetryTime, LinkUp, LinkDown, Loop, Outside
  <2>2. QED
    BY <1>1, <2>1, UnchangedLeavesClaim, OtherContexts
<1>4. QED
  BY <1>2, <1>3

(* A worker's step that neither begins to copy nor copies.                  *)
LEMMA NotCopying ==
  ASSUME HandOffInv, Shapes', ~Copying'
  PROVE  HandOffInv'
  BY DEF HandOffInv, ClaimInv, BlocksAreWhole, Copying, WorkerAt

(* The worker: claim, two copies, hand back; the rest is not about blocks.  *)
LEMMA WorkerSteps ==
  ASSUME HandOffInv, Work
  PROVE  HandOffInv'
<1> USE DEF HandOffInv, Shapes
<1>1. CASE StopHaptics
  <2>1. Shapes' /\ ~Copying'
    BY <1>1 DEF StopHaptics, WorkerTo, Copying
  <2>2. QED
    BY <2>1, NotCopying
<1>2. CASE TakeWork
  <2>1. Shapes' /\ ~Copying'
    BY <1>2 DEF TakeWork, WorkerTo, Copying
  <2>2. QED
    BY <2>1, NotCopying
<1>3. CASE WorkerCollects
  <2>1. Shapes' /\ ~Copying'
    BY <1>3 DEF WorkerCollects, Copying
  <2>2. QED
    BY <2>1, NotCopying
<1>4. CASE WorkerTells
  <2>1. Shapes' /\ ~Copying'
    BY <1>4 DEF WorkerTells, WorkerTo, Copying
  <2>2. QED
    BY <2>1, NotCopying
<1>5. CASE WorkerRetries
  <2>1. Shapes' /\ ~Copying'
    BY <1>5 DEF WorkerRetries, WorkerTo, Copying
  <2>2. QED
    BY <2>1, NotCopying
<1>6. CASE Claim
  <2>1. passed' = [ready |-> passed.ready, buffer |-> passed.buffer,
                   claimed |-> passed.ready, stop |-> passed.stop]
    BY <1>6 DEF Claim
  <2>2. worker' = [at |-> IF passed.ready THEN "speaker" ELSE "stop", enabled |-> worker.enabled,
                   speaker |-> worker.speaker, haptics |-> worker.haptics]
    BY <1>6 DEF Claim, WorkerTo
  <2>3. CASE passed.ready = TRUE
    BY <2>1, <2>2, <2>3 DEF ClaimInv, BlocksAreWhole, Copying, WorkerAt
  <2>4. CASE passed.ready = FALSE
    BY <2>1, <2>2, <2>4 DEF ClaimInv, BlocksAreWhole, Copying, WorkerAt
  <2>5. QED
    BY <2>3, <2>4
<1>7. CASE CopySpeaker
  BY <1>7 DEF CopySpeaker, ClaimInv, BlocksAreWhole, Copying, WorkerAt
<1>8. CASE CopyHaptics
  BY <1>8 DEF CopyHaptics, ClaimInv, BlocksAreWhole, Copying, WorkerAt
<1>9. CASE FreeAndPlay
  <2>1. Shapes' /\ ~Copying'
    BY <1>9 DEF FreeAndPlay, WorkerTo, Copying
  <2>2. QED
    BY <2>1, NotCopying
<1>10. QED
  BY <1>1, <1>2, <1>3, <1>4, <1>5, <1>6, <1>7, <1>8, <1>9 DEF Work

(* The claim holds in every reachable state.                                *)
THEOREM ClaimCorrect == Spec => []HandOffInv
<1>1. HandOffInv /\ UNCHANGED vars => HandOffInv'
  BY UnchangedLeavesClaim, OtherContexts DEF vars
<1>2. HandOffInv /\ [Next]_vars => HandOffInv'
  BY <1>1, InterruptSteps, LoopSteps, WorkerSteps DEF Next
<1>3. QED
  BY <1>2, InitHandOff, PTL DEF Spec

(* Speaker and haptics samples that the worker sends are of one block,      *)
(* however many blocks and resets of the stream fall between its copies     *)
(* (audio_bridge_claim_output).                                             *)
THEOREM BlocksStayWhole == Spec => []BlocksAreWhole
<1>1. HandOffInv => BlocksAreWhole
  BY DEF HandOffInv, ClaimInv
<1>2. QED
  BY <1>1, ClaimCorrect, PTL

(* The records of the microphone, of the ready buffer and of the worker.    *)
Mics == [open : BOOLEAN, pending : BOOLEAN, notified : BOOLEAN, due : BOOLEAN, seen : BOOLEAN]
Flags == [ready : BOOLEAN, buffer : Numbers, claimed : BOOLEAN, stop : BOOLEAN]
Workers ==
  [at : {"stop", "take", "state", "send", "failed", "claim", "speaker", "haptics", "free"},
   enabled : BOOLEAN, speaker : Numbers, haptics : Numbers]

(* The variables keep their types: the count of the semaphore, the numbers  *)
(* of the blocks and the bounds stay in their ranges.                       *)
LEMMA InitAudioType ==
  ASSUME MaxWork \in Nat, MaxBlocks \in Nat, MaxRequests \in Nat, MaxFailures \in Nat, Init
  PROVE  AudioTypeOK
<1>1. 0 \in Numbers /\ 0 \in 0 .. MaxWork /\ 0 \in 0 .. MaxRequests /\ 0 \in 0 .. MaxFailures
  BY DEF Numbers
<1>2. pad \in [up : BOOLEAN, mic : BOOLEAN]
  BY DEF Init
<1>3. mic \in Mics /\ passed \in Flags
  BY <1>1 DEF Init, Mics, Flags
<1>4. worker \in Workers
  BY <1>1 DEF Init, Workers
<1>5. QED
  BY <1>1, <1>2, <1>3, <1>4 DEF Init, AudioTypeOK, Mics, Flags, Workers

(* The parts of the microphone's state machine, and the bridge's reset.     *)
LEMMA PartsTyped ==
  ASSUME MaxWork \in Nat, NEW m \in Mics, NEW n \in 0 .. MaxWork, NEW p \in Flags
  PROVE  /\ Woken(m) \in Mics /\ Released(n) \in 0 .. MaxWork /\ WorkOf(m, n) \in 0 .. MaxWork
         /\ Reset(p) \in Flags
         /\ \A open \in BOOLEAN, force \in BOOLEAN : Requested(m, open, force) \in Mics
<1>1. Woken(m) \in Mics
  BY DEF Woken, Mics
<1>2. Released(n) \in 0 .. MaxWork
  BY DEF Released
<1>3. WorkOf(m, n) \in 0 .. MaxWork
  BY <1>2 DEF WorkOf
<1>4. Reset(p) \in Flags
  BY DEF Reset, Flags
<1>5. \A open \in BOOLEAN, force \in BOOLEAN : Requested(m, open, force) \in Mics
  BY DEF Requested, Mics
<1>6. QED
  BY <1>1, <1>2, <1>3, <1>4, <1>5

(* Every step keeps the types: counts and numbers stay in their bounds.     *)
LEMMA AudioTypeSteps ==
  ASSUME MaxWork \in Nat, MaxBlocks \in Nat, MaxRequests \in Nat, MaxFailures \in Nat,
         AudioTypeOK, Next
  PROVE  AudioTypeOK'
<1> USE DEF Interrupt, Request, Worker, WorkerAt, WorkerTo, Loop, LoopAt, LoopTo, Outside
<1>1. /\ mic \in Mics /\ passed \in Flags /\ work \in 0 .. MaxWork /\ blocks \in Numbers
      /\ mic.open \in BOOLEAN
  BY DEF AudioTypeOK, Mics, Flags
<1>2. ASSUME mic' \in Mics, passed' \in Flags, work' \in 0 .. MaxWork,
             blocks' \in Numbers, requests' \in 0 .. MaxRequests,
             host' \in [speaker : BOOLEAN, mic : BOOLEAN, attached : BOOLEAN], Interrupt
      PROVE  AudioTypeOK'
  BY <1>2 DEF AudioTypeOK, Mics, Flags
<1>3. CASE Block
  <2>1. blocks' \in Numbers /\ blocks' = blocks + 1
    BY <1>1, <1>3 DEF Block, Numbers
  <2>2. passed' \in Flags
    BY <1>1, <1>3, <2>1 DEF Block, Flags
  <2>3. work' \in 0 .. MaxWork
    BY <1>1, <1>3, PartsTyped DEF Block
  <2>4. QED
    BY <1>1, <1>2, <1>3, <2>1, <2>2, <2>3 DEF Block, AudioTypeOK
<1>4. CASE BusReset
  <2>1. /\ Requested(mic, FALSE, TRUE) \in Mics /\ Reset(passed) \in Flags
        /\ Released(work) \in 0 .. MaxWork
    BY <1>1, PartsTyped
  <2>2. mic' \in Mics /\ work' \in 0 .. MaxWork /\ passed' \in Flags
    BY <1>1, <1>4, <2>1, PartsTyped DEF BusReset
  <2>3. requests' \in 0 .. MaxRequests
    BY <1>4 DEF BusReset, AudioTypeOK
  <2>4. host' \in [speaker : BOOLEAN, mic : BOOLEAN, attached : BOOLEAN]
    BY <1>4 DEF BusReset
  <2>5. QED
    BY <1>1, <1>2, <1>4, <2>2, <2>3, <2>4 DEF BusReset
<1>5. ASSUME NEW open \in BOOLEAN, SetSpeaker(open) PROVE AudioTypeOK'
  <2>1. passed' \in Flags /\ work' \in 0 .. MaxWork
    BY <1>1, <1>5, PartsTyped DEF SetSpeaker
  <2>2. requests' \in 0 .. MaxRequests
    BY <1>5 DEF SetSpeaker, AudioTypeOK
  <2>3. host' \in [speaker : BOOLEAN, mic : BOOLEAN, attached : BOOLEAN]
    BY <1>5 DEF SetSpeaker, AudioTypeOK
  <2>4. QED
    BY <1>1, <1>2, <1>5, <2>1, <2>2, <2>3 DEF SetSpeaker
<1>6. ASSUME NEW open \in BOOLEAN, SetMic(open) PROVE AudioTypeOK'
  <2>1. Requested(mic, open, ~open) \in Mics
    BY <1>1, PartsTyped
  <2>2. mic' \in Mics /\ work' \in 0 .. MaxWork
    BY <1>1, <1>6, <2>1, PartsTyped DEF SetMic
  <2>3. requests' \in 0 .. MaxRequests
    BY <1>6 DEF SetMic, AudioTypeOK
  <2>4. host' \in [speaker : BOOLEAN, mic : BOOLEAN, attached : BOOLEAN]
    BY <1>6 DEF SetMic, AudioTypeOK
  <2>5. QED
    BY <1>1, <1>2, <1>6, <2>2, <2>3, <2>4 DEF SetMic
<1>7. ASSUME NEW enabled \in BOOLEAN, NEW ok \in BOOLEAN, Tell(enabled, ok)
      PROVE  /\ failures' \in 0 .. MaxFailures /\ pad' \in [up : BOOLEAN, mic : BOOLEAN]
             /\ mishaps' \in SUBSET Mishaps
  BY <1>7 DEF Tell, AudioTypeOK, Mishaps
<1>8. ASSUME NEW enabled \in BOOLEAN, Retry(enabled) PROVE mic' \in Mics
  BY <1>1, <1>8 DEF Retry, Mics
<1>9. Collect => mic' \in Mics
  BY <1>1 DEF Collect, Mics
<1>10. CASE Work
  <2> DEFINE WorkerDone ==
        /\ mic' \in Mics /\ passed' \in Flags /\ worker' \in Workers /\ work' \in 0 .. MaxWork
        /\ heard' \in Numbers
        /\ pad' \in [up : BOOLEAN, mic : BOOLEAN]
        /\ mishaps' \in SUBSET Mishaps /\ failures' \in 0 .. MaxFailures
  <2>a. worker \in Workers /\ heard \in Numbers /\ pad \in [up : BOOLEAN, mic : BOOLEAN]
        /\ mishaps \in SUBSET Mishaps /\ failures \in 0 .. MaxFailures
    BY DEF AudioTypeOK, Workers
  <2>b. ASSUME WorkerDone, Worker PROVE AudioTypeOK'
    BY <2>b DEF AudioTypeOK, Mics, Flags, Workers
  <2>c. ASSUME NEW step \in {"stop", "take", "state", "send", "failed", "claim", "speaker",
                             "haptics", "free"}, WorkerTo(step)
        PROVE  worker' \in Workers
    BY <2>a, <2>c DEF Workers
  <2>1. CASE StopHaptics
    <3>1. passed' \in Flags
      BY <1>1, <2>1 DEF StopHaptics, Flags
    <3>2. heard' \in Numbers
      BY <2>1, <2>a DEF StopHaptics, Numbers
    <3>3. QED
      BY <1>1, <2>1, <2>a, <2>b, <2>c, <3>1, <3>2 DEF StopHaptics
  <2>2. CASE TakeWork
    BY <1>1, <2>2, <2>a, <2>b, <2>c DEF TakeWork
  <2>3. CASE WorkerCollects
    <3>1. worker' \in Workers
      BY <1>1, <2>3, <2>a DEF WorkerCollects, Workers
    <3>2. QED
      BY <1>1, <1>9, <2>3, <2>a, <2>b, <3>1 DEF WorkerCollects
  <2>4. CASE WorkerTells
    <3>1. PICK ok \in BOOLEAN : Tell(worker.enabled, ok) /\ WorkerTo(IF ok THEN "claim" ELSE "failed")
      BY <2>4 DEF WorkerTells
    <3>2. worker.enabled \in BOOLEAN
      BY <2>a DEF Workers
    <3>3. /\ failures' \in 0 .. MaxFailures /\ pad' \in [up : BOOLEAN, mic : BOOLEAN]
          /\ mishaps' \in SUBSET Mishaps
      BY <1>7, <3>1, <3>2
    <3>4. QED
      BY <1>1, <2>4, <2>a, <2>b, <2>c, <3>1, <3>3 DEF WorkerTells
  <2>5. CASE WorkerRetries
    <3>1. worker.enabled \in BOOLEAN
      BY <2>a DEF Workers
    <3>2. QED
      BY <1>1, <1>8, <2>5, <2>a, <2>b, <2>c, <3>1 DEF WorkerRetries
  <2>6. CASE Claim
    <3>1. passed' \in Flags
      BY <1>1, <2>6 DEF Claim, Flags
    <3>2. QED
      BY <1>1, <2>6, <2>a, <2>b, <2>c, <3>1 DEF Claim
  <2>7. CASE CopySpeaker
    <3>1. worker' \in Workers
      BY <1>1, <2>7, <2>a DEF CopySpeaker, Workers, Flags
    <3>2. QED
      BY <1>1, <2>7, <2>a, <2>b, <3>1 DEF CopySpeaker
  <2>8. CASE CopyHaptics
    <3>1. worker' \in Workers
      BY <1>1, <2>8, <2>a DEF CopyHaptics, Workers, Flags
    <3>2. QED
      BY <1>1, <2>8, <2>a, <2>b, <3>1 DEF CopyHaptics
  <2>9. CASE FreeAndPlay
    <3>1. passed' \in Flags /\ heard' \in Numbers
      BY <1>1, <2>9, <2>a DEF FreeAndPlay, Flags, Workers
    <3>2. QED
      BY <1>1, <2>9, <2>a, <2>b, <2>c, <3>1 DEF FreeAndPlay
  <2>10. QED
    BY <1>10, <2>1, <2>2, <2>3, <2>4, <2>5, <2>6, <2>7, <2>8, <2>9 DEF Work
<1>11. CASE Pass
  <2>1. CASE SeeLink
    BY <2>1 DEF SeeLink, AudioTypeOK
  <2>2. CASE RepeatState
    <3>1. loop.enabled \in BOOLEAN
      BY DEF AudioTypeOK
    <3>2. mic' \in Mics /\ work' \in 0 .. MaxWork
      BY <1>1, <2>2, <3>1, PartsTyped DEF RepeatState
    <3>3. mishaps' \in SUBSET Mishaps
      BY <2>2 DEF RepeatState, AudioTypeOK, Mishaps
    <3>4. loop' \in [at : {"sync", "request", "wake", "close", "send", "failed", "detach"},
                     enabled : BOOLEAN]
      BY <2>2 DEF RepeatState, AudioTypeOK
    <3>5. UNCHANGED <<blocks, passed, worker, heard, host, pad, requests, failures>>
      BY <2>2 DEF RepeatState
    <3>6. QED
      BY <3>2, <3>3, <3>4, <3>5 DEF AudioTypeOK, Mics
  <2>3. CASE WakeWorker
    <3>1. mic' \in Mics /\ work' \in 0 .. MaxWork
      BY <1>1, <2>3, PartsTyped DEF WakeWorker
    <3>2. QED
      BY <2>3, <3>1 DEF WakeWorker, AudioTypeOK, Mics
  <2>4. CASE CloseStreams
    <3>1. /\ Requested(mic, FALSE, TRUE) \in Mics /\ Reset(passed) \in Flags
          /\ Released(work) \in 0 .. MaxWork
      BY <1>1, PartsTyped
    <3>2. mic' \in Mics /\ work' \in 0 .. MaxWork /\ passed' \in Flags
      BY <1>1, <2>4, <3>1, PartsTyped DEF CloseStreams
    <3>3. QED
      BY <2>4, <3>2 DEF CloseStreams, AudioTypeOK, Mics, Flags
  <2>5. CASE LoopCollects
    BY <1>1, <1>9, <2>5 DEF LoopCollects, AudioTypeOK, Mics
  <2>6. CASE LoopTells
    <3>1. PICK ok \in BOOLEAN :
            /\ Tell(loop.enabled, ok)
            /\ IF ok THEN UNCHANGED mic ELSE Retry(loop.enabled)
      BY <2>6 DEF LoopTells
    <3>2. loop.enabled \in BOOLEAN
      BY DEF AudioTypeOK
    <3>3. /\ failures' \in 0 .. MaxFailures /\ pad' \in [up : BOOLEAN, mic : BOOLEAN]
          /\ mishaps' \in SUBSET Mishaps
      BY <1>7, <3>1, <3>2
    <3>4. mic' \in Mics
      BY <1>1, <1>8, <3>1, <3>2
    <3>5. QED
      BY <2>6, <3>3, <3>4 DEF LoopTells, AudioTypeOK, Mics
  <2>7. CASE Detach
    BY <2>7 DEF Detach, AudioTypeOK
  <2>8. QED
    BY <1>11, <2>1, <2>2, <2>3, <2>4, <2>5, <2>6, <2>7 DEF Pass
<1>12. CASE RetryTime
  <2>1. mic' \in Mics
    BY <1>1, <1>12 DEF RetryTime, Mics
  <2>2. QED
    BY <1>12, <2>1 DEF RetryTime, AudioTypeOK, Mics
<1>13. CASE LinkUp
  BY <1>13 DEF LinkUp, AudioTypeOK
<1>14. CASE LinkDown
  <2>1. failures' \in 0 .. MaxFailures /\ pad' \in [up : BOOLEAN, mic : BOOLEAN]
    BY <1>14 DEF LinkDown, AudioTypeOK
  <2>2. QED
    BY <1>14, <2>1 DEF LinkDown, AudioTypeOK
<1>15. QED
  BY <1>3, <1>4, <1>5, <1>6, <1>10, <1>11, <1>12, <1>13, <1>14 DEF Next

=============================================================================
