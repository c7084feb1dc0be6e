------------------------------ MODULE Ds5Output ------------------------------
(***************************************************************************)
(* The output reports of the DualSense link (ds5_classic_sifli.c).  The    *)
(* main loop and the audio worker send output states, the worker audio as  *)
(* well; the loop primes a new link.  One report is with the Bluetooth     *)
(* stack at a time.  Meanwhile the last state and the last audio report    *)
(* wait, each in its own slot, and take turns when the stack confirms the  *)
(* report, which its thread sees.                                          *)
(*                                                                         *)
(* The scheduler is locked in what is one step here, and the threads may   *)
(* be interleaved between any two steps.  States are numbered in the order *)
(* in which they are composed.  Every state is whole: it contains what the *)
(* ones before it have set, so the controller needs only the last.  The    *)
(* stack confirms every report of a link that stays up.                    *)
(*                                                                         *)
(* Operators named for another one and a fault ("NextReportAudioFirst")    *)
(* are mutated forms, kept to show that the properties can fail.           *)
(***************************************************************************)
EXTENDS Naturals

CONSTANTS
  MaxStates,   (* bound on the states                                      *)
  MaxFailures  (* bound on failed reports and lost links                   *)

Senders == {"loop", "worker"}

VARIABLES
  up,        (* status.connected                                           *)
  composed,  (* states so far: output_state                                *)
  holds,     (* the state each sender has composed but not handed over     *)
  waiting,   (* pending_output_report, pending_audio_valid                 *)
  audioNext, (* output_next_audio                                          *)
  flying,    (* output_busy, and what output_packet holds                  *)
  confirmed, (* the Bluetooth thread is past the confirmation              *)
  primer,    (* primer_output_pending, neutral_output_pending              *)
  pass,      (* where the loop is in its pass                              *)
  shown,     (* the last state the controller got on this link             *)
  newest,    (* the last state handed over on this link                    *)
  slips,     (* history: which of Slips have happened                      *)
  failures

vars == <<up, composed, holds, waiting, audioNext, flying, confirmed, primer, pass,
          shown, newest, slips, failures>>

(* A sender was overtaken by the other between composing a state and        *)
(* handing it over; a report was sent at once while a state waited; the     *)
(* stack failed to send a state.                                            *)
Slips == {"late", "passed", "failed"}

States == 0 .. MaxStates
None == [kind |-> "none", state |-> 0]
Audio == [kind |-> "audio", state |-> 0]
Primer == [kind |-> "primer", state |-> 0]   (* a report 0x32 *)
State(n) == [kind |-> "state", state |-> n]

OutputTypeOK ==
  /\ up \in BOOLEAN /\ composed \in States /\ holds \in [Senders -> States]
  /\ waiting \in [state : States, audio : BOOLEAN]
  /\ audioNext \in BOOLEAN /\ confirmed \in BOOLEAN
  /\ flying \in {None, Audio, Primer} \cup {State(n) : n \in States}
  /\ primer \in {"primer", "neutral", "done"}
  /\ pass \in {"send", "prime", "try"}
  /\ shown \in States /\ newest \in States
  /\ slips \in SUBSET Slips /\ failures \in 0 .. MaxFailures

Init ==
  /\ up = FALSE /\ composed = 0 /\ holds = [t \in Senders |-> 0]
  /\ waiting = [state |-> 0, audio |-> FALSE] /\ audioNext = FALSE
  /\ flying = None /\ confirmed = FALSE
  /\ primer = "done" /\ pass = "send"
  /\ shown = 0 /\ newest = 0 /\ slips = {} /\ failures = 0

Busy == flying # None

-----------------------------------------------------------------------------
(* Senders: ds5_classic_send_output_report composes a state and             *)
(* ds5_classic_send_raw_output_report hands it over.                        *)

Compose(t) ==
  /\ holds[t] = 0 /\ composed < MaxStates
  /\ t = "loop" => pass = "send"
  /\ composed' = composed + 1
  /\ holds' = [holds EXCEPT ![t] = composed + 1]
  /\ UNCHANGED <<up, waiting, audioNext, flying, confirmed, primer, pass, shown, newest, slips, failures>>

(* Nothing is sent, and nothing kept, without a link.                       *)
Refuse(t) ==
  /\ holds[t] # 0 /\ ~up
  /\ holds' = [holds EXCEPT ![t] = 0]
  /\ UNCHANGED <<up, composed, waiting, audioNext, flying, confirmed, primer, pass, shown, newest, slips, failures>>

Passes == ~Busy /\ waiting.state # 0

Larger(m, n) == IF m > n THEN m ELSE n

HandOver(t) ==
  /\ holds[t] # 0 /\ up
  /\ holds' = [holds EXCEPT ![t] = 0]
  /\ IF Busy THEN waiting' = [waiting EXCEPT !.state = holds[t]] /\ UNCHANGED flying
             ELSE flying' = State(holds[t]) /\ UNCHANGED waiting
  /\ primer' = IF primer = "neutral" THEN "done" ELSE primer
  /\ newest' = Larger(newest, holds[t])
  /\ slips' = slips \cup {s \in {"late", "passed"} :
                IF s = "late" THEN holds[t] < newest ELSE Passes}
  /\ UNCHANGED <<up, composed, audioNext, confirmed, pass, shown, failures>>

SendAudio ==
  /\ up /\ holds["worker"] = 0
  /\ IF Busy THEN waiting' = [waiting EXCEPT !.audio = TRUE] /\ UNCHANGED flying
             ELSE flying' = Audio /\ UNCHANGED waiting
  /\ primer' = IF primer = "neutral" THEN "done" ELSE primer
  /\ slips' = IF Passes THEN slips \cup {"passed"} ELSE slips
  /\ UNCHANGED <<up, composed, holds, audioNext, confirmed, pass, shown, newest, failures>>

(* The state of the microphone, which like the primer does not wait.        *)
SendMic ==
  /\ up /\ holds["worker"] = 0
  /\ flying' = IF Busy THEN flying ELSE Primer
  /\ primer' = IF primer = "neutral" THEN "done" ELSE primer
  /\ slips' = IF Passes THEN slips \cup {"passed"} ELSE slips
  /\ UNCHANGED <<up, composed, holds, waiting, audioNext, confirmed, pass, shown, newest, failures>>

-----------------------------------------------------------------------------
(* ds5_classic_try_send_pending_output.                                     *)

SomethingWaits == waiting.state # 0 \/ waiting.audio

NextReportAudioFirst == IF waiting.audio THEN Audio ELSE State(waiting.state)

(* Of two that wait, the kind whose turn it is.                             *)
NextReport ==
  IF waiting.audio /\ (waiting.state = 0 \/ audioNext) THEN Audio ELSE State(waiting.state)

(* As TrySend, with both slots emptied.                                     *)
TrySendEmpties ==
  IF SomethingWaits /\ ~Busy /\ up
  THEN /\ flying' = NextReport /\ waiting' = [state |-> 0, audio |-> FALSE]
       /\ audioNext' = (NextReport # Audio)
  ELSE UNCHANGED <<flying, waiting, audioNext>>

TrySend ==
  IF SomethingWaits /\ ~Busy /\ up
  THEN /\ flying' = NextReport
       /\ waiting' = IF NextReport = Audio THEN [waiting EXCEPT !.audio = FALSE]
                     ELSE [waiting EXCEPT !.state = 0]
       /\ audioNext' = (NextReport # Audio)
  ELSE UNCHANGED <<flying, waiting, audioNext>>

-----------------------------------------------------------------------------
(* The Bluetooth thread.                                                    *)

Stack == UNCHANGED <<up, composed, holds, primer, pass, newest>>

Confirm ==
  /\ Busy /\ ~confirmed /\ up
  /\ confirmed' = TRUE /\ flying' = None
  /\ \/ shown' = (IF flying.kind = "state" THEN flying.state ELSE shown)
        /\ UNCHANGED <<slips, failures>>
     \/ /\ failures < MaxFailures /\ failures' = failures + 1
        /\ slips' = IF flying.kind = "state" THEN slips \cup {"failed"} ELSE slips
        /\ UNCHANGED shown
  /\ Stack /\ UNCHANGED <<waiting, audioNext>>

SendWaiting ==
  /\ confirmed /\ confirmed' = FALSE
  /\ TrySend
  /\ Stack /\ UNCHANGED <<shown, slips, failures>>

(* ds5_classic_clear_link, and a new link, on which a sender may hand over  *)
(* what it composed before.                                                 *)
LinkDown ==
  /\ up /\ failures < MaxFailures /\ ~confirmed
  /\ failures' = failures + 1
  /\ up' = FALSE /\ flying' = None /\ waiting' = [state |-> 0, audio |-> FALSE]
  /\ primer' = "done"
  /\ UNCHANGED <<composed, holds, audioNext, confirmed, pass, shown, newest, slips>>

LinkUp ==
  /\ ~up /\ ~confirmed
  /\ up' = TRUE /\ primer' = "primer" /\ shown' = 0 /\ newest' = 0
  /\ UNCHANGED <<composed, holds, waiting, audioNext, flying, confirmed, pass, slips, failures>>

-----------------------------------------------------------------------------
(* The loop: reports of its own, then ds5_classic_poll.                     *)

Pass == UNCHANGED <<up, composed, holds, confirmed, shown, newest, slips, failures>>

EndSending ==
  /\ pass = "send" /\ holds["loop"] = 0 /\ pass' = "prime"
  /\ Pass /\ UNCHANGED <<waiting, audioNext, flying, primer>>

(* The report that opens a new link; after it, a neutral state is composed, *)
(* and handed over before the pass goes on.                                 *)
MayPrime == ~Busy /\ ~SomethingWaits
NeutralDue == primer = "neutral" /\ MayPrime /\ composed < MaxStates

Prime ==
  /\ pass = "prime" /\ holds["loop"] = 0 /\ ~NeutralDue /\ pass' = "try"
  /\ IF up /\ primer = "primer" /\ MayPrime
     THEN flying' = Primer /\ primer' = "neutral"
     ELSE UNCHANGED <<flying, primer>>
  /\ Pass /\ UNCHANGED <<waiting, audioNext>>

Neutral ==
  /\ pass = "prime" /\ holds["loop"] = 0 /\ NeutralDue
  /\ composed' = composed + 1 /\ holds' = [holds EXCEPT !["loop"] = composed + 1]
  /\ UNCHANGED <<up, waiting, audioNext, flying, confirmed, primer, pass, shown, newest, slips, failures>>

Try ==
  /\ pass = "try" /\ pass' = "send" /\ TrySend
  /\ Pass /\ UNCHANGED primer

Loop == EndSending \/ Prime \/ Neutral \/ Try

-----------------------------------------------------------------------------
Next ==
  \/ \E t \in Senders : Compose(t) \/ Refuse(t) \/ HandOver(t)
  \/ SendAudio \/ SendMic \/ Confirm \/ SendWaiting \/ LinkDown \/ LinkUp
  \/ Loop

Spec == Init /\ [][Next]_vars

(* The threads run and the stack confirms.  No fairness of the audio: it    *)
(* may stop, or go on for ever.                                             *)
FairSpec ==
  /\ Spec /\ WF_vars(Loop) /\ WF_vars(Confirm) /\ WF_vars(SendWaiting)
  /\ \A t \in Senders : WF_vars(Refuse(t) \/ HandOver(t))

-----------------------------------------------------------------------------
(* Properties.                                                              *)

(* Of the states handed over on this link, the newest is the last in line:  *)
(* it waits, or nothing waits and it is with the stack, or the controller   *)
(* has it.  So it is not lost while it waits, and no older one follows it,  *)
(* unless the code slipped in one of the three ways.                        *)
NewestIsLast ==
  up /\ slips = {} =>
    newest = IF waiting.state # 0 THEN waiting.state
             ELSE IF flying.kind = "state" THEN flying.state ELSE shown

(* On a link that stays up, the controller ends up with the last state that *)
(* was sent, however the two threads and the confirmations interleave and   *)
(* however much audio goes with it.  Excepted are the three ways in which   *)
(* the code loses it: a state handed over after a later one was, a report   *)
(* that a sender slipped in between a confirmation and the sending of the   *)
(* state that waited, and a state the stack could not send.                 *)
LastStateIsShown == <>[]up => <>[](shown = newest \/ slips # {})

=============================================================================
