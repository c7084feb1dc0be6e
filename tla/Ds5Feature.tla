----------------------------- MODULE Ds5Feature ------------------------------
(***************************************************************************)
(* The feature reports of the DualSense link (ds5_classic_sifli.c): what   *)
(* the controller answers is cached; a fixed list of features is fetched   *)
(* when the link comes up, then what the USB host asks for in vain; an     *)
(* Edge has its profiles unlocked and fetched.  One life of the link is    *)
(* modelled, from its opening.                                             *)
(*                                                                         *)
(* The loop and the Bluetooth thread lock the scheduler for what they do   *)
(* to this state; but the host's GET_REPORT is answered in the USB         *)
(* interrupt, which the lock does not keep out.  So a critical section is  *)
(* one step up to its second access to the request, and the interrupt may  *)
(* fall in between.  The features stand for kinds: the firmware (0x20),    *)
(* the first profile (0x70), and the last (0x7b), which is not on the list. *)
(* External: the stack, which confirms what it has sent before the answer  *)
(* arrives, and the controller, which answers in order, late, or never; a  *)
(* refusal does not say what is refused.                                   *)
(*                                                                         *)
(* Operators named for another one and a fault ("AnswersAnything") are     *)
(* mutated forms, kept to show that the properties can fail.               *)
(***************************************************************************)
EXTENDS Naturals, Sequences

CONSTANTS
  MaxRetries,  (* DS5_CLASSIC_FEATURE_REQUEST_MAX_RETRIES                  *)
  MaxSent,     (* packets the stack takes before it confirms the first     *)
  MaxAsked,    (* packets the controller has yet to answer; it forgets the *)
               (* oldest of more                                           *)
  MaxHost,     (* bound on what the USB host asks for or sets              *)
  MaxTroubles  (* bound on failed packets and controllers' silences        *)

Features == {"firmware", "first", "last"}
Profiles == {"first", "last"}
Prefetch == <<"firmware", "first">>   (* ds5_feature_prefetch_ids          *)
Nothing == "none"
Closed == [next |-> "none", id |-> "firmware"]

VARIABLES
  request,  (* pending, awaiting, id and retries of the one request        *)
  control,  (* the operation that keeps control_busy set, "none" if none;  *)
            (* it is cleared with control_operation                        *)
  index,    (* feature_prefetch_index, from 1                              *)
  phase,    (* dse_unlock_phase                                            *)
  profile,  (* dse_profile_next                                            *)
  cache,    (* the features in feature_cache                               *)
  section,  (* what the open critical section does next, with a feature    *)
  sent,     (* packets the stack has not confirmed                         *)
  asked,    (* packets the controller has not answered                     *)
  gives,    (* the features the controller has                             *)
  givenUp,  (* history: features given up after the last retry             *)
  mistaken, (* history: which of Mistakes have happened                    *)
  hosts, troubles

vars == <<request, control, index, phase, profile, cache, section, sent, asked,
          gives, givenUp, mistaken, hosts, troubles>>

(* The interrupt scheduled a request in the middle of a critical section; a *)
(* refusal was taken for that of another feature; an answer for the first   *)
(* profile that is no news, or came too late, began the unlocking.          *)
Mistakes == {"stolen", "misread", "belated"}

Phases == {"idle", "firmware", "command", "wait", "prefetch", "ready"}
Packets == [op : {"get", "set"}, id : Features \cup {Nothing}]

FeatureTypeOK ==
  /\ request \in [pending : BOOLEAN, awaiting : BOOLEAN, id : Features, retries : 0 .. MaxRetries]
  /\ control \in {"none", "get", "set"}
  /\ index \in 1 .. Len(Prefetch) + 1
  /\ phase \in Phases /\ profile \in Profiles
  /\ cache \in SUBSET Features
  /\ section \in [next : {"none", "arm", "schedule"}, id : Features]
  /\ sent \in Seq(Packets) /\ asked \in Seq(Packets)
  /\ gives \in SUBSET Features /\ givenUp \in SUBSET Features
  /\ mistaken \in SUBSET Mistakes
  /\ hosts \in 0 .. MaxHost /\ troubles \in 0 .. MaxTroubles

Init ==
  /\ request = [pending |-> TRUE, awaiting |-> FALSE, id |-> Prefetch[1], retries |-> 0]
  /\ control = "none"
  /\ index = 1 /\ phase = "idle" /\ profile = "first"
  /\ cache = {} /\ section = Closed
  /\ sent = <<>> /\ asked = <<>>
  /\ gives \in {{"firmware"}, {"firmware", "first"}, Features}
  /\ givenUp = {} /\ mistaken = {} /\ hosts = 0 /\ troubles = 0

-----------------------------------------------------------------------------
(* Parts.                                                                   *)

(* ds5_classic_schedule_feature_request.                                    *)
Scheduled(id) ==
  IF request.pending \/ request.awaiting THEN request
  ELSE [request EXCEPT !.pending = TRUE, !.id = id,
                       !.retries = IF request.id = id THEN @ ELSE 0]

NoSection == section = Closed
Continue(next, id) == section' = [next |-> next, id |-> id]
Leave == section' = Closed

Prefetching(id) == index <= Len(Prefetch) /\ id = Prefetch[index]

RecoverForEver ==
  /\ request' = [request EXCEPT !.awaiting = FALSE]
  /\ Continue("schedule", request.id)
  /\ UNCHANGED <<index, phase, givenUp>>

(* ds5_classic_recover_feature_request_locked: again, or on to the next.    *)
Recover ==
  LET id == request.id
      again == request.retries < MaxRetries
      next == ~again /\ Prefetching(id)
  IN /\ request' = [request EXCEPT !.awaiting = FALSE, !.retries = IF again THEN @ + 1 ELSE 0]
     /\ givenUp' = IF again THEN givenUp ELSE givenUp \cup ({id} \cap {Prefetch[i] : i \in DOMAIN Prefetch})
     /\ index' = IF next THEN index + 1 ELSE index
     /\ phase' = IF ~again /\ ~next /\ phase = "prefetch" /\ id = profile THEN "idle" ELSE phase
     /\ IF again THEN Continue("schedule", id)
        ELSE IF next /\ index < Len(Prefetch) THEN Continue("schedule", Prefetch[index + 1])
        ELSE Leave

(* The rest of the section.                                                 *)
Schedule ==
  /\ section.next = "schedule" /\ Leave
  /\ request' = Scheduled(section.id)
  /\ UNCHANGED <<control, index, phase, profile, cache, sent, asked, gives, givenUp,
                 mistaken, hosts, troubles>>

-----------------------------------------------------------------------------
(* The USB host.                                                            *)

Host == hosts < MaxHost /\ hosts' = hosts + 1

(* ds5_classic_get_feature_report of a feature that is not cached, in the   *)
(* interrupt.                                                               *)
HostGets(id) ==
  /\ Host /\ id \notin cache
  /\ id \in Profiles => phase \in {"idle", "ready"}
  /\ request' = Scheduled(id)
  /\ mistaken' = IF NoSection \/ request' = request THEN mistaken ELSE mistaken \cup {"stolen"}
  /\ UNCHANGED <<control, index, phase, profile, cache, section, sent, asked, gives,
                 givenUp, troubles>>

(* ds5_classic_set_feature_report, in the loop.                             *)
HostSets ==
  /\ Host /\ NoSection
  /\ control = "none" /\ ~request.awaiting /\ Len(sent) < MaxSent
  /\ control' = "set" /\ sent' = Append(sent, [op |-> "set", id |-> Nothing])
  /\ UNCHANGED <<request, index, phase, profile, cache, section, asked, gives,
                 givenUp, mistaken, troubles>>

-----------------------------------------------------------------------------
(* The loop: ds5_classic_poll.  What it does in a pass has an order, which  *)
(* is left open here, as is how much time has passed.                       *)

Loop == NoSection /\ UNCHANGED <<cache, asked, gives, mistaken, hosts, troubles>>

(* ds5_classic_poll_feature_timeout.                                        *)
PollTimeout ==
  /\ Loop /\ request.awaiting
  /\ Recover /\ control' = (IF control = "get" THEN "none" ELSE control)
  /\ UNCHANGED <<profile, sent>>

(* ds5_classic_poll_dse_unlock.                                             *)
Unlock(from) ==
  /\ Loop /\ control = "none" /\ ~request.awaiting /\ phase = from
  /\ UNCHANGED <<index, section, givenUp>>
Sends(next) ==
  /\ Len(sent) < MaxSent /\ phase' = next /\ control' = "set"
  /\ sent' = Append(sent, [op |-> "set", id |-> Nothing])
Silent == UNCHANGED <<control, sent>>

UnlockFirmware ==
  /\ Unlock("firmware")
  /\ IF "firmware" \in cache THEN Sends("command") ELSE phase' = "idle" /\ Silent
  /\ UNCHANGED <<profile, request>>
UnlockCommand ==
  /\ Unlock("command") /\ Sends("wait") /\ UNCHANGED <<profile, request>>
UnlockWait ==
  /\ Unlock("wait") /\ phase' = "prefetch" /\ profile' = "first"
  /\ Silent /\ UNCHANGED request
UnlockFetch ==
  /\ Unlock("prefetch") /\ ~request.pending
  /\ request' = Scheduled(profile)
  /\ Silent /\ UNCHANGED <<phase, profile>>

PollUnlock == UnlockFirmware \/ UnlockCommand \/ UnlockWait \/ UnlockFetch

(* ds5_classic_try_send_feature_request: the packet is built ...            *)
BuildRequest ==
  /\ Loop /\ request.pending /\ control = "none" /\ Len(sent) < MaxSent
  /\ request' = [request EXCEPT !.pending = FALSE]
  /\ control' = "get" /\ Continue("arm", request.id)
  /\ UNCHANGED <<index, phase, profile, sent, givenUp>>

(* ... and sent, and its answer awaited.                                    *)
ArmRequest ==
  /\ section.next = "arm" /\ Leave
  /\ request' = [request EXCEPT !.awaiting = TRUE]
  /\ sent' = Append(sent, [op |-> "get", id |-> section.id])
  /\ UNCHANGED <<control, index, phase, profile, cache, asked, gives, givenUp, mistaken, hosts,
                 troubles>>

-----------------------------------------------------------------------------
(* The Bluetooth thread.                                                    *)

Trouble == troubles < MaxTroubles /\ troubles' = troubles + 1
Stack == UNCHANGED <<profile, gives, hosts>>

(* A confirmation of success.                                               *)
Confirm ==
  /\ NoSection /\ sent # <<>> /\ sent' = Tail(sent)
  /\ asked' = Append(IF Len(asked) < MaxAsked THEN asked ELSE Tail(asked), Head(sent))
  /\ control' = "none"
  /\ Stack /\ UNCHANGED <<request, index, phase, cache, section, givenUp, mistaken, troubles>>

(* Of failure: it is taken for that of the operation under way.             *)
ConfirmFailure ==
  /\ NoSection /\ Trouble /\ sent # <<>> /\ sent' = Tail(sent)
  /\ control' = "none"
  /\ IF control = "get" THEN Recover
     ELSE /\ phase' = IF phase \in {"command", "wait"} THEN "idle" ELSE phase
          /\ UNCHANGED <<request, index, section, givenUp>>
  /\ Stack /\ UNCHANGED <<cache, asked, mistaken>>

AnswersAnything(id, refused) == request.awaiting

(* ds5_classic_handle_control: whether this is the awaited answer.          *)
Answers(id, refused) == request.awaiting /\ (refused \/ id = request.id)

Answer ==
  /\ NoSection /\ asked # <<>> /\ asked' = Tail(asked) /\ Head(asked).op = "get"
  /\ LET id == Head(asked).id
         refused == id \notin gives
         awaited == Answers(id, refused)
         next == awaited /\ Prefetching(request.id)
         wanted == ~refused /\ phase = "prefetch" /\ id = profile
     IN /\ cache' = IF refused THEN cache ELSE cache \cup {id}
        /\ request' = IF awaited THEN [request EXCEPT !.awaiting = FALSE, !.retries = 0] ELSE request
        /\ index' = IF next THEN index + 1 ELSE index
        /\ IF next /\ index < Len(Prefetch) THEN Continue("schedule", Prefetch[index + 1])
           ELSE UNCHANGED section
        /\ phase' = IF ~refused /\ id = "first" /\ phase = "idle" THEN "firmware"
                    ELSE IF wanted /\ id = "last" THEN "ready" ELSE phase
        /\ profile' = IF wanted THEN "last" ELSE profile
        /\ mistaken' = mistaken \cup {m \in {"misread", "belated"} :
                       IF m = "misread" THEN refused /\ awaited /\ id # request.id
                       ELSE phase = "idle" /\ phase' # phase /\ id \in cache \cup givenUp}
  /\ UNCHANGED <<control, sent, gives, givenUp, hosts, troubles>>

(* The answer to a feature that was set; a refusal is an answer to          *)
(* whatever is awaited.                                                     *)
AnswerToSet ==
  /\ NoSection /\ asked # <<>> /\ asked' = Tail(asked) /\ Head(asked).op = "set"
  /\ \/ UNCHANGED <<request, index, section, mistaken, troubles>>
     \/ /\ Trouble /\ Answers(Nothing, TRUE)
        /\ request' = [request EXCEPT !.awaiting = FALSE, !.retries = 0]
        /\ mistaken' = mistaken \cup {"misread"}
        /\ index' = IF Prefetching(request.id) THEN index + 1 ELSE index
        /\ IF Prefetching(request.id) /\ index < Len(Prefetch)
           THEN Continue("schedule", Prefetch[index + 1]) ELSE UNCHANGED section
  /\ Stack /\ UNCHANGED <<control, phase, cache, sent, givenUp>>

(* The controller does not answer.                                          *)
NoAnswer ==
  /\ Trouble /\ asked # <<>> /\ asked' = Tail(asked)
  /\ Stack /\ UNCHANGED <<request, control, index, phase, cache, section, sent, givenUp, mistaken>>

-----------------------------------------------------------------------------
Section == Schedule \/ ArmRequest

Next ==
  \/ \E id \in Features : HostGets(id)
  \/ HostSets \/ Section \/ PollTimeout \/ PollUnlock \/ BuildRequest
  \/ Confirm \/ ConfirmFailure \/ Answer \/ AnswerToSet \/ NoAnswer

Spec == Init /\ [][Next]_vars

(* The threads run, the stack confirms and time passes; nothing is assumed  *)
(* of the controller's answers.                                             *)
FairSpec ==
  /\ Spec /\ WF_vars(Section) /\ WF_vars(PollTimeout) /\ WF_vars(PollUnlock)
  /\ WF_vars(BuildRequest) /\ WF_vars(Confirm \/ ConfirmFailure)

-----------------------------------------------------------------------------
(* Properties.                                                              *)

(* A feature of the list that has been passed over is cached, or the        *)
(* controller does not have it, or every retry failed: an answer that is    *)
(* late, or belongs to another request, does not count for it.  Excepted is *)
(* a refusal that does, for it does not name its feature.                   *)
PassedOverIsSettled ==
  "misread" \notin mistaken =>
    \A i \in 1 .. index - 1 : Prefetch[i] \in cache \cup givenUp \cup (Features \ gives)

(* Fetching and unlocking end, whatever answers are late or missing, unless *)
(* the interrupt took the request from the list in the middle of a section, *)
(* or the controller has the first profile and refuses another, which is    *)
(* asked for again and again, or an answer for the first profile that comes *)
(* after the unlocking was given up begins it anew.                         *)
FetchingEnds ==
  <>[]( \/ index > Len(Prefetch) /\ phase \in {"idle", "ready"}
        \/ mistaken \cap {"stolen", "belated"} # {}
        \/ "first" \in gives /\ "last" \notin gives)

=============================================================================
