---------------------------- MODULE ManagerReply -----------------------------
(***************************************************************************)
(* The manager's commands and replies over feature reports: the host       *)
(* queues a command with SET_REPORT and then polls with GET_REPORT, which  *)
(* hands it one chunk of the current reply after the other, while the main *)
(* loop takes the command, builds its reply in the other one of two        *)
(* buffers and makes it current (sf32lb52_usb_device.c, ns2_profile.c,     *)
(* sf32lb52_ns2_protocol.c).  Both requests of the host are answered in    *)
(* the USB interrupt, which is one step and falls between any two of the   *)
(* loop's.                                                                 *)
(*                                                                         *)
(* A DualSense persona has features of its own under the same report: its  *)
(* GET_REPORT reaches the manager only while manager_reply_pending is set. *)
(* External: the client, tools/webhid_smoke.html, which polls at once and  *)
(* takes what it has got for the reply when it is as long as the last      *)
(* chunk says.  A client may give up, and others set native features.      *)
(* Commands are numbered, a reply is known by the number of its command,   *)
(* the one built at boot by 0.  The shell's sf32_mgr is left out.          *)
(*                                                                         *)
(* Operators named for another one and a fault ("BuildInPlace") are        *)
(* mutated forms, kept to show that the properties can fail.               *)
(***************************************************************************)
EXTENDS Naturals, Sequences

CONSTANTS
  SetRoom,      (* USB_FEATURE_SET_QUEUE_CAPACITY                          *)
  MaxLength,    (* the longest reply, in chunks                            *)
  MaxExchanges, (* bound on the commands                                   *)
  MaxNatives    (* bound on native features set and on persona switches    *)

VARIABLES
  sets,      (* feature_set_queue: a command, or 0 for a native feature    *)
  awaited,   (* manager_reply_pending                                      *)
  dualsense, (* the persona is a DualSense                                 *)
  buffers,   (* g_feature_replies                                          *)
  current,   (* g_feature_reply_index                                      *)
  task,      (* the loop's next step, the command and its reply's length   *)
  client,    (* its command, the chunks it has, and how that ended         *)
  mixed,     (* history: which of Mixed have happened                      *)
  natives

vars == <<sets, awaited, dualsense, buffers, current, task, client, mixed, natives>>

(* A command found the queue full; a chunk of an earlier reply was taken;   *)
(* an earlier reply, read to its end, closed the exchange.                  *)
Mixed == {"dropped", "stale", "closed"}

CommandIds == 0 .. MaxExchanges
Chunk == [of : CommandIds, offset : 0 .. MaxLength]
Reply == [of : CommandIds, length : 0 .. MaxLength, offset : 0 .. MaxLength]

ReplyTypeOK ==
  /\ sets \in Seq(CommandIds) /\ Len(sets) <= SetRoom
  /\ awaited \in BOOLEAN /\ dualsense \in BOOLEAN
  /\ buffers \in [{0, 1} -> Reply] /\ current \in {0, 1}
  /\ task \in [at : {"take", "bytes", "length", "offset", "flip"},
               of : CommandIds, length : 1 .. MaxLength]
  /\ client \in [of : CommandIds, at : {"idle", "polls", "done", "failed"}, chunks : Seq(Chunk)]
  /\ mixed \in SUBSET Mixed /\ natives \in 0 .. MaxNatives

Init ==
  /\ sets = <<>> /\ awaited = FALSE /\ dualsense \in BOOLEAN
  /\ buffers = [b \in {0, 1} |-> [of |-> 0, length |-> b, offset |-> 0]]
  /\ current = 1
  /\ task = [at |-> "take", of |-> 0, length |-> 1]
  /\ client = [of |-> 0, at |-> "idle", chunks |-> <<>>]
  /\ mixed = {} /\ natives = 0

-----------------------------------------------------------------------------
(* SET_REPORT of a feature: queued unless the queue is full.                *)

Set(n) ==
  /\ sets' = IF Len(sets) < SetRoom THEN Append(sets, n) ELSE sets
  /\ UNCHANGED <<dualsense, buffers, current, task>>

SendCommand ==
  /\ client.at # "polls" /\ client.of < MaxExchanges
  /\ client' = [of |-> client.of + 1, at |-> "polls", chunks |-> <<>>]
  /\ Set(client.of + 1)
  /\ awaited' = (awaited \/ Len(sets) < SetRoom)
  /\ mixed' = IF Len(sets) < SetRoom THEN mixed ELSE mixed \cup {"dropped"}
  /\ UNCHANGED natives

SetNative ==
  /\ dualsense /\ natives < MaxNatives
  /\ natives' = natives + 1
  /\ Set(0)
  /\ UNCHANGED <<awaited, client, mixed>>

-----------------------------------------------------------------------------
(* GET_REPORT of the manager's feature: ns2_profile_on_feature_get, and     *)
(* what the client makes of the chunk.                                      *)

ToManager == ~dualsense \/ awaited

AfterChunk(reply) == [reply EXCEPT !.offset = IF @ < reply.length THEN @ + 1 ELSE reply.length]

(* The exchange is over when the chunk reaches the end of the reply.        *)
StillAwaited(reply) == awaited /\ AfterChunk(reply).offset < reply.length

GetChunk ==
  /\ client.at = "polls" /\ ToManager
  /\ LET reply == buffers[current]
         some == reply.offset < reply.length
         chunks == IF some THEN Append(client.chunks, [of |-> reply.of, offset |-> reply.offset])
                   ELSE client.chunks
     IN /\ buffers' = [buffers EXCEPT ![current] = AfterChunk(reply)]
        /\ awaited' = StillAwaited(reply)
        /\ client' = [client EXCEPT !.chunks = chunks,
                                    !.at = IF Len(chunks) >= reply.length THEN "done" ELSE @]
        /\ mixed' = mixed \cup {f \in {"stale", "closed"} :
                      IF f = "stale" THEN some /\ reply.of < client.of
                      ELSE dualsense /\ reply.of < client.of /\ ~StillAwaited(reply)}
  /\ UNCHANGED <<sets, dualsense, current, task, natives>>

(* A native feature: "bad reply magic".                                     *)
GetNative ==
  /\ client.at = "polls" /\ ~ToManager
  /\ client' = [client EXCEPT !.at = "failed"]
  /\ UNCHANGED <<sets, awaited, dualsense, buffers, current, task, mixed, natives>>

GiveUp ==
  /\ client.at = "polls"
  /\ client' = [client EXCEPT !.at = "idle"]
  /\ UNCHANGED <<sets, awaited, dualsense, buffers, current, task, mixed, natives>>

-----------------------------------------------------------------------------
(* The loop: sf32lb52_usb_device_task, and queue_json for the reply.        *)

Loop == UNCHANGED <<client, mixed>>
LoopAt(step) == task.at = step
LoopTo(step) == task' = [task EXCEPT !.at = step]

TakeSet ==
  /\ LoopAt("take") /\ sets # <<>>
  /\ sets' = Tail(sets)
  /\ IF Head(sets) = 0 THEN UNCHANGED task
     ELSE \E n \in 1 .. MaxLength : task' = [at |-> "bytes", of |-> Head(sets), length |-> n]
  /\ Loop /\ UNCHANGED <<awaited, dualsense, buffers, current, natives>>

BuildInPlace == current

(* The buffer that is not the current one.                                  *)
Build == 1 - current

Building(step, next) ==
  /\ LoopAt(step) /\ LoopTo(next)
  /\ Loop /\ UNCHANGED <<sets, awaited, dualsense, natives>>

WriteBytes ==
  /\ Building("bytes", "length") /\ UNCHANGED current
  /\ buffers' = [buffers EXCEPT ![Build].of = task.of]
WriteLength ==
  /\ Building("length", "offset") /\ UNCHANGED current
  /\ buffers' = [buffers EXCEPT ![Build].length = task.length]
WriteOffset ==
  /\ Building("offset", "flip") /\ UNCHANGED current
  /\ buffers' = [buffers EXCEPT ![Build].offset = 0]

MakeCurrentFirst ==
  /\ Building("flip", "take") /\ UNCHANGED buffers
  /\ current' = 0

MakeCurrent ==
  /\ Building("flip", "take") /\ UNCHANGED buffers
  /\ current' = Build

(* usb_apply_pending_role: the client finds its device gone.                *)
SwitchPersona ==
  /\ LoopAt("take") /\ natives < MaxNatives
  /\ natives' = natives + 1
  /\ dualsense' \in BOOLEAN
  /\ sets' = <<>> /\ awaited' = FALSE
  /\ client' = [client EXCEPT !.at = IF @ = "polls" THEN "idle" ELSE @]
  /\ UNCHANGED <<buffers, current, task, mixed>>

-----------------------------------------------------------------------------
Serve == TakeSet \/ WriteBytes \/ WriteLength \/ WriteOffset \/ MakeCurrent

Next == SendCommand \/ SetNative \/ GetChunk \/ GetNative \/ GiveUp \/ Serve \/ SwitchPersona

Spec == Init /\ [][Next]_vars

(* The loop runs and a client that has not given up polls.                  *)
FairSpec == Spec /\ WF_vars(Serve) /\ WF_vars(GetChunk \/ GetNative)

-----------------------------------------------------------------------------
(* Properties.                                                              *)

Whole(n, chunks) ==
  \A i \in 1 .. Len(chunks) : chunks[i] = [of |-> n, offset |-> i - 1]

(* However early a client polls, and wherever a poll falls into the         *)
(* building of a reply, what it takes for the reply is every chunk of its   *)
(* own command's reply, in order, as long as it stayed in step: it was not  *)
(* given a chunk left over from an earlier reply, as the one built at boot, *)
(* its command was not dropped, and on a DualSense its early poll did not   *)
(* end the exchange.                                                        *)
AnswersAreWhole ==
  mixed = {} =>
    /\ client.at # "failed"
    /\ client.at = "done" =>
         /\ Len(client.chunks) = buffers[current].length
         /\ Whole(client.of, client.chunks)

(* A client in step gets its answer, unless it gives up or the persona      *)
(* changes.                                                                 *)
CommandIsAnswered == ~<>[](client.at = "polls" /\ mixed = {})

=============================================================================
