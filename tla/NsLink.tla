------------------------------- MODULE NsLink --------------------------------
(***************************************************************************)
(* The Bluetooth LE link to an NS2Pro controller (ble_gatt_sifli.c): scan, *)
(* connection, search for the service, registration of its handles, the    *)
(* subscription to the acknowledgements, the commands that set the         *)
(* controller up, the subscription to the input reports, and the recovery  *)
(* when one of these steps fails or is not answered.                       *)
(*                                                                         *)
(* The stack's callbacks only put events into a ring and note candidates.  *)
(* The main loop calls the API and ble_gatt_poll, which drains the ring,   *)
(* takes a candidate and looks at the deadlines, one phase after the       *)
(* other; callbacks come between any two steps.  The Bluetooth stack and   *)
(* the controllers are external.  A connection's index is the controller   *)
(* it leads to, a deadline is only set or not, and may have passed at any  *)
(* time after.  The MTU, the handles' values (never zero once a service is *)
(* known) and the input reports are left out.                              *)
(*                                                                         *)
(* Operators named for another one and a fault ("PushMayLoseLoss") are     *)
(* mutated forms, kept to show that the properties can fail.               *)
(***************************************************************************)
EXTENDS Naturals, Sequences, SequencesExt

CONSTANTS
  Pads,           (* the controllers around                                *)
  Elsewhere,      (* addresses of controllers that are not                 *)
  None,           (* no controller, or any                                 *)
  Commands,       (* the commands of the set-up, in order                  *)
  MaxRetries,     (* BLE_GATT_RECOVERY_MAX_RETRIES                         *)
  Room,           (* events the ring holds: BLE_GATT_CONTROL_EVENT_COUNT-1 *)
  MaxWrites,      (* bound on the writes the stack has not sent yet        *)
  MaxIncidents,   (* bound on refusals, losses and silence                 *)
  MaxCalls        (* bound on the application's calls                      *)

FlashRead == 2

ASSUME NsLinkAssumption ==
  /\ None \notin Pads \cup Elsewhere
  /\ Commands \in Seq([op : Nat, sub : Nat, address : Nat])
  /\ MaxRetries \in Nat /\ Room \in Nat \ {0} /\ MaxWrites \in Nat \ {0}
  /\ MaxIncidents \in Nat /\ MaxCalls \in Nat

(* What an acknowledgement is matched by tells the commands apart.          *)
ASSUME AcknowledgementsDiffer ==
  \A i, j \in DOMAIN Commands :
    /\ Commands[i].op = Commands[j].op /\ Commands[i].sub = Commands[j].sub
    /\ Commands[i].op = FlashRead => Commands[i].address = Commands[j].address
    => i = j

Index == 0 .. Len(Commands) - 1
Subscriptions == {"ackCccd", "inputCccd"}
Stages == {"idle", "subscribeAck", "initializing", "subscribeInput", "ready"}
RecoveryActions == {"none", "register", "ackCccd", "init", "inputCccd", "disconnect"}

(* init_commands: opcode, subcommand and, for the two FLASH_READs, the      *)
(* address, which are what an acknowledgement is matched by.                *)
Command(op, sub, address) == [op |-> op, sub |-> sub, address |-> address]
InitCommands ==
  <<Command(3, 13, 0), Command(7, 1, 0), Command(22, 1, 0), Command(21, 3, 0),
    Command(12, 2, 0), Command(17, 3, 0), Command(10, 8, 0), Command(12, 4, 0),
    Command(3, 10, 0), Command(16, 1, 0), Command(1, 12, 0), Command(1, 1, 0),
    Command(9, 7, 0), Command(FlashRead, 4, 77992), Command(FlashRead, 4, 78056)>>

VARIABLES
  app,        (* what the code's static variables say, by the main loop    *)
  candidate,  (* g_candidate_address while g_candidate_pending             *)
  queue,      (* g_control_events                                          *)
  phase,      (* where the main loop is                                    *)
  link,       (* the stack's and the controller's side of each connection  *)
  radio,      (* what the stack does besides                               *)
  mishaps,    (* history: which of Mishaps have happened                   *)
  changed,    (* history: candidates may still be there from before a call *)
  incidents, calls  (* bounds used up                                      *)

vars == <<app, candidate, queue, phase, link, radio, mishaps, changed, incidents, calls>>

(* The ring lost an event, or the news that a link is lost to the same news *)
(* of another one; the answer to one write passed for another's; a scan goes*)
(* on that is not wanted or that the code has forgotten: an event *)
(* of before said that it had ended, or it was begun over a link and the    *)
(* call to end the link did not end it.                                     *)
Mishaps == {"dropped", "purged", "borrowed", "strayScan"}

AppState == [
  powered : BOOLEAN, wanted : BOOLEAN, scanning : BOOLEAN, scanRetry : BOOLEAN,
  connecting : BOOLEAN, connected : BOOLEAN, conn : Pads \cup {None},
  target : Pads \cup Elsewhere \cup {None}, stage : Stages, registered : BOOLEAN, registering : BOOLEAN,
  cccd : Subscriptions \cup {"none"}, action : RecoveryActions, retries : 0 .. MaxRetries,
  deadline : BOOLEAN, waiting : BOOLEAN, index : 0 .. Len(Commands)]

Write(kind, n) == [kind |-> kind, index |-> n]
Writes == [kind : {"ackCccd", "inputCccd", "command"}, index : Nat]

(* The far side of a connection: what was asked of the stack and is not     *)
(* answered, what is on its way, and what the controller has got.           *)
LinkState == [
  up : BOOLEAN, leaving : BOOLEAN, searching : BOOLEAN, registering : BOOLEAN,
  writes : Seq(Writes), owed : Seq(Index), on : SUBSET Subscriptions, heard : SUBSET Index]
Down == [up |-> FALSE, leaving |-> FALSE, searching |-> FALSE, registering |-> FALSE,
         writes |-> <<>>, owed |-> <<>>, on |-> {}, heard |-> {}]

EventKinds == {"powerOn", "scanFailed", "scanStopped", "connectFailed", "connected",
               "disconnected", "searched", "registered", "written", "acked"}
Event(kind, p, ok, of) == [kind |-> kind, pad |-> p, ok |-> ok, of |-> of]
Plain(kind) == Event(kind, None, TRUE, Write("command", 0))

-----------------------------------------------------------------------------
(* The ring.                                                                *)

(* The news that the link to p is lost waits in the ring.                   *)
LossQueued(p) == \E i \in DOMAIN queue : queue[i].kind = "disconnected" /\ queue[i].pad = p

(* As Push, with the loss of the link dropped like any other event.         *)
PushMayLoseLoss(q, e) == IF Len(q) < Room THEN Append(q, e) ELSE q

Push(q, e) ==
  CASE Len(q) < Room -> Append(q, e)
    [] Len(q) >= Room /\ e.kind = "disconnected" -> <<e>>
    [] OTHER -> q

Purges(e) ==
  e.kind = "disconnected" /\ \E p \in Pads \ {e.pad} : LossQueued(p)

Tell(e) ==
  /\ queue' = Push(queue, e)
  /\ mishaps' = IF Len(queue) < Room THEN mishaps
                ELSE mishaps \cup {"dropped"} \cup IF Purges(e) THEN {"purged"} ELSE {}

-----------------------------------------------------------------------------
(* The helpers of the code.  Those on g work on the application's state,    *)
(* those on w on all that a call to the stack may change; ok is what the    *)
(* stack says to the call.                                                  *)

RecoveryClear(g) ==
  [g EXCEPT !.action = "none", !.retries = 0, !.deadline = FALSE, !.waiting = FALSE,
            !.registering = FALSE, !.cccd = "none"]

RecoveryPrepare(g, a) ==
  IF g.action = a THEN g ELSE [g EXCEPT !.action = a, !.retries = 0, !.deadline = FALSE]

(* As RecoveryFail, with retries without end.                               *)
RecoveryFailForever(g, a) ==
  [RecoveryPrepare(g, a) EXCEPT !.waiting = FALSE, !.deadline = TRUE]

RecoveryFail(g, a) ==
  LET failed == [RecoveryPrepare(g, a) EXCEPT !.waiting = FALSE, !.deadline = TRUE]
  IN IF failed.retries >= MaxRetries THEN [failed EXCEPT !.action = "disconnect"]
     ELSE [failed EXCEPT !.retries = @ + 1]

RecoveryDisconnectNow(g) ==
  [g EXCEPT !.waiting = FALSE, !.cccd = "none", !.registering = FALSE,
            !.action = "disconnect", !.deadline = TRUE]

Now == [g |-> app, l |-> link, r |-> radio]

(* ble_gatt_write_remote: the write is queued in the stack or refused.      *)
Accepted(w, ok) ==
  /\ ok /\ w.g.registered /\ w.g.connected
  /\ w.l[w.g.conn].up /\ Len(w.l[w.g.conn].writes) < MaxWrites
WriteRemote(w, x) == [w EXCEPT !.l[w.g.conn].writes = Append(@, x)]

(* As Subscribe, without a deadline for the answer.                         *)
SubscribeAndWait(w, stage, cccd, ok) ==
  LET g == RecoveryPrepare([w.g EXCEPT !.stage = stage], cccd)
  IN IF Accepted(w, ok)
     THEN WriteRemote([w EXCEPT !.g = [g EXCEPT !.cccd = cccd]], Write(cccd, 0))
     ELSE [w EXCEPT !.g = RecoveryFail(g, cccd)]

Subscribe(w, stage, cccd, ok) ==
  LET g == RecoveryPrepare([w.g EXCEPT !.stage = stage], cccd)
  IN IF Accepted(w, ok)
     THEN WriteRemote([w EXCEPT !.g = [g EXCEPT !.cccd = cccd, !.deadline = TRUE]],
                      Write(cccd, 0))
     ELSE [w EXCEPT !.g = RecoveryFail(g, cccd)]

FinishRegistration(w, ok) == Subscribe(w, "subscribeAck", "ackCccd", ok)
StartInputSubscription(w, ok) == Subscribe(w, "subscribeInput", "inputCccd", ok)

SendInitCommand(w, ok) ==
  IF w.g.index >= Len(Commands)
  THEN StartInputSubscription([w EXCEPT !.g = RecoveryClear(@)], ok)
  ELSE LET g == RecoveryPrepare(w.g, "init")
       IN IF Accepted(w, ok)
          THEN WriteRemote([w EXCEPT !.g = [g EXCEPT !.deadline = FALSE, !.waiting = TRUE]],
                           Write("command", w.g.index))
          ELSE [w EXCEPT !.g = RecoveryFail(g, "init")]

Unregister(g) ==
  IF g.registered THEN [g EXCEPT !.registered = FALSE, !.registering = FALSE] ELSE g

AttemptRegistration(w, ok) ==
  LET g == RecoveryPrepare(w.g, "register")
  IN CASE ~w.g.connected -> w
       [] w.g.connected /\ ok /\ w.l[g.conn].up ->
            [w EXCEPT !.l[g.conn].registering = TRUE,
                      !.g = [g EXCEPT !.registered = TRUE, !.registering = TRUE,
                                      !.deadline = TRUE]]
       [] OTHER -> [w EXCEPT !.g = RecoveryFail([g EXCEPT !.registered = FALSE,
                                                          !.registering = FALSE], "register")]

BeginRegistration(w, ok) == AttemptRegistration([w EXCEPT !.g = RecoveryClear(@)], ok)

StartScanNow(w, ok) ==
  IF ok THEN [w EXCEPT !.g.scanRetry = FALSE, !.g.scanning = TRUE, !.r.scan = TRUE]
  ELSE [w EXCEPT !.g.scanRetry = TRUE]

(* ble_gap_scan_stop: the stack says later that it has stopped.             *)
StopScanning(w) ==
  IF w.g.scanning THEN [w EXCEPT !.g.scanning = FALSE, !.r.scan = FALSE, !.r.stopped = @ \/ w.r.scan]
  ELSE w

ConnectCandidate(w, p, ok) ==
  LET quiet == StopScanning(w)
  IN CASE w.g.connecting \/ w.g.connected -> w
       [] ~(w.g.connecting \/ w.g.connected) /\ ok /\ w.r.creating = None /\ ~w.l[p].up ->
            [quiet EXCEPT !.g.connecting = TRUE, !.r.creating = p, !.r.cancelled = FALSE]
       [] OTHER -> quiet

OnConnected(w, p, found, ok) ==
  LET g == [RecoveryClear(w.g)
              EXCEPT !.connected = TRUE, !.connecting = FALSE, !.scanning = FALSE,
                     !.scanRetry = FALSE, !.registered = FALSE, !.index = 0,
                     !.stage = "idle", !.conn = p]
  IN IF found /\ w.l[p].up THEN [w EXCEPT !.g = g, !.l[p].searching = TRUE]
     ELSE BeginRegistration([w EXCEPT !.g = g], ok)

OnDisconnected(w, p, ok) ==
  LET gone == [RecoveryClear(w.g)
                 EXCEPT !.connected = FALSE, !.connecting = FALSE, !.registered = FALSE,
                        !.index = 0, !.stage = "idle", !.conn = None]
      after == IF w.g.conn = p THEN [w EXCEPT !.g = gone] ELSE w
  IN IF w.g.wanted THEN StartScanNow(after, ok) ELSE after

(* As InitAckMatches, without the address of a FLASH_READ.                  *)
InitAckMatchesOpcode(w, n) ==
  /\ w.g.index < Len(Commands)
  /\ LET sent == Commands[w.g.index + 1]  got == Commands[n + 1]
     IN got.op = sent.op /\ got.sub = sent.sub

InitAckMatches(w, n) ==
  /\ w.g.index < Len(Commands)
  /\ LET sent == Commands[w.g.index + 1]  got == Commands[n + 1]
     IN /\ got.op = sent.op /\ got.sub = sent.sub
        /\ sent.op = FlashRead => got.address = sent.address

ForThisLink(w, e) == w.g.connected /\ e.pad = w.g.conn

-----------------------------------------------------------------------------
(* ble_gatt_process_control_event, one action for each type.                *)

Result(w) == app' = w.g /\ link' = w.l /\ radio' = w.r
Charge(n) == incidents + n <= MaxIncidents /\ incidents' = incidents + n
Refusal(ok) == Charge(IF ok THEN 0 ELSE 1)

(* The event does not say which write it answers.                           *)
Borrowed(e) ==
  e.kind = "written" /\ ForThisLink(Now, e) /\ app.cccd # "none" /\ e.of.kind # app.cccd
StrayScan(w) == w.r.scan /\ ~(w.g.wanted /\ w.g.scanning)
Noted(w) == mishaps \cup IF StrayScan(w) THEN {"strayScan"} ELSE {}

Handle(kind, w) ==
  /\ phase \in {"calls", "events"} /\ queue # <<>> /\ Head(queue).kind = kind
  /\ Result(w)
  /\ queue' = Tail(queue) /\ phase' = "events"
  /\ mishaps' = Noted(w) \cup IF Borrowed(Head(queue)) THEN {"borrowed"} ELSE {}
  /\ UNCHANGED <<candidate, changed, calls>>
HandleQuietly(kind, w) == Handle(kind, w) /\ UNCHANGED incidents

HandlePowerOn == \E ok \in BOOLEAN :
  LET on == [Now EXCEPT !.g.powered = TRUE]
  IN /\ Handle("powerOn", IF app.wanted THEN StartScanNow(on, ok) ELSE on)
     /\ Refusal(ok)

HandleScanFailed ==
  HandleQuietly("scanFailed", [Now EXCEPT !.g.scanning = FALSE, !.g.scanRetry = TRUE])

HandleScanStopped == HandleQuietly("scanStopped", [Now EXCEPT !.g.scanning = FALSE])

HandleConnectFailed ==
  HandleQuietly("connectFailed", [Now EXCEPT !.g.connecting = FALSE, !.g.scanRetry = TRUE])

HandleConnected == \E found, ok \in BOOLEAN :
  /\ Handle("connected", OnConnected(Now, Head(queue).pad, found, ok))
  /\ Refusal(found /\ ok)

HandleDisconnected == \E ok \in BOOLEAN :
  /\ Handle("disconnected", OnDisconnected(Now, Head(queue).pad, ok))
  /\ Refusal(ok)

(* Found or not, the handles are registered: those found or those known.    *)
HandleSearched == \E ok \in BOOLEAN :
  /\ Handle("searched", IF ForThisLink(Now, Head(queue)) THEN BeginRegistration(Now, ok) ELSE Now)
  /\ Refusal(ok)

HandleRegistered == \E ok \in BOOLEAN :
  /\ Handle("registered",
       CASE ~ForThisLink(Now, Head(queue)) \/ ~app.registering -> Now
         [] ForThisLink(Now, Head(queue)) /\ app.registering /\ Head(queue).ok ->
              FinishRegistration([Now EXCEPT !.g = RecoveryClear(@)], ok)
         [] OTHER -> [Now EXCEPT !.g = RecoveryFail(Unregister(@), "register")])
  /\ Refusal(ok)

AfterWrite(w, cccd, ok) ==
  IF cccd = "ackCccd"
  THEN SendInitCommand([w EXCEPT !.g.stage = "initializing", !.g.index = 0], ok)
  ELSE [w EXCEPT !.g.stage = "ready"]

HandleWritten == \E ok \in BOOLEAN :
  LET e == Head(queue)
      taken == ForThisLink(Now, e) /\ app.cccd # "none"
  IN /\ Handle("written",
          CASE ~taken -> Now
            [] taken /\ e.ok -> AfterWrite([Now EXCEPT !.g = RecoveryClear(@)], app.cccd, ok)
            [] OTHER -> [Now EXCEPT !.g = RecoveryFail([@ EXCEPT !.cccd = "none", !.deadline = FALSE],
                                                       app.cccd)])
     /\ Refusal(ok)

HandleAcked == \E ok \in BOOLEAN :
  LET e == Head(queue)
      taken == /\ ForThisLink(Now, e) /\ app.stage = "initializing" /\ app.waiting
               /\ InitAckMatches(Now, e.of.index)
  IN /\ Handle("acked",
          IF taken
          THEN SendInitCommand([Now EXCEPT !.g = [RecoveryClear(app) EXCEPT !.index = @ + 1]], ok)
          ELSE Now)
     /\ Refusal(ok)

ProcessControlEvent ==
  \/ HandlePowerOn \/ HandleScanFailed \/ HandleScanStopped \/ HandleConnectFailed
  \/ HandleConnected \/ HandleDisconnected \/ HandleSearched \/ HandleRegistered
  \/ HandleWritten \/ HandleAcked

-----------------------------------------------------------------------------
(* The rest of ble_gatt_poll.                                               *)

(* As ProcessCandidate, keeping a candidate that cannot be called yet.      *)
ProcessCandidateKeeps == \E ok \in BOOLEAN :
  /\ phase = "events" \/ (phase = "calls" /\ queue = <<>>)
  /\ Result(IF candidate = None THEN Now ELSE ConnectCandidate(Now, candidate, ok))
  /\ candidate' = IF app.connected \/ app.connecting THEN candidate ELSE None
  /\ changed' = (changed /\ radio.stopped) /\ phase' = "timers"
  /\ Refusal(ok)
  /\ UNCHANGED <<queue, mishaps, calls>>

(* A pass handles at most 16 events before this, and may leave some.        *)
ProcessCandidate == \E ok \in BOOLEAN :
  /\ phase = "events" \/ (phase = "calls" /\ queue = <<>>)
  /\ Result(IF candidate = None THEN Now ELSE ConnectCandidate(Now, candidate, ok))
  /\ candidate' = None
  /\ changed' = (changed /\ radio.stopped) /\ phase' = "timers"
  /\ Refusal(ok)
  /\ UNCHANGED <<queue, mishaps, calls>>

(* The tail of ble_gatt_stop_scan: a connection that is being made may be   *)
(* cancelled too late.                                                      *)
StopScan(w) ==
  LET off == [w EXCEPT !.g.wanted = FALSE, !.g.scanRetry = FALSE]
  IN StopScanning(IF off.g.connecting
                  THEN [off EXCEPT !.g.connecting = FALSE, !.r.cancelled = TRUE] ELSE off)

StartScan(w, ok) ==
  LET on == [w EXCEPT !.g.wanted = TRUE] IN IF on.g.powered THEN StartScanNow(on, ok) ELSE on

(* ble_gatt_disconnect.                                                     *)
Disconnect(w, resume, ok) ==
  LET told == [w EXCEPT !.g.wanted = resume]
  IN CASE ~w.g.connected /\ resume -> StartScan(told, ok)
       [] ~w.g.connected /\ ~resume -> StopScan(told)
       [] w.g.connected /\ ok /\ w.l[w.g.conn].up -> [told EXCEPT !.l[w.g.conn].leaving = TRUE]
       [] OTHER -> told

(* What a deadline that has passed sets off.                                *)
Recover(w, ok) ==
  LET g == [w.g EXCEPT !.deadline = FALSE]  due == [w EXCEPT !.g = g]
      left == Disconnect(due, g.wanted, ok)
  IN CASE g.action = "register" /\ g.registering ->
            [w EXCEPT !.g = RecoveryDisconnectNow(Unregister(g))]
       [] g.action = "register" /\ ~g.registering -> AttemptRegistration(due, ok)
       [] g.action \in Subscriptions /\ g.cccd # "none" ->
            [w EXCEPT !.g = RecoveryDisconnectNow(g)]
       [] g.action = "ackCccd" /\ g.cccd = "none" -> FinishRegistration(due, ok)
       [] g.action = "inputCccd" /\ g.cccd = "none" -> StartInputSubscription(due, ok)
       [] g.action = "init" -> SendInitCommand(due, ok)
       [] g.action = "disconnect" ->
            IF ok THEN [left EXCEPT !.g = RecoveryClear(@)]
            ELSE [left EXCEPT !.g.deadline = TRUE]
       [] OTHER -> due

(* The scan is started again, the ACK's time is over, or the deadline's.    *)
(* A disconnect that the first sets off is due in the same pass.            *)
PollTimers(w, ackDue, due, ok) ==
  LET timedOut == IF w.g.waiting /\ ackDue THEN [w EXCEPT !.g = RecoveryFail(@, "init")] ELSE w
  IN CASE ~w.g.connected ->
            IF /\ w.g.wanted /\ w.g.powered /\ ~w.g.scanning /\ ~w.g.connecting
               /\ w.g.scanRetry => due
            THEN StartScanNow(w, ok) ELSE w
       [] w.g.connected /\ timedOut.g.deadline /\ (due \/ timedOut.g.action = "disconnect") ->
            Recover(timedOut, ok)
       [] OTHER -> timedOut

Timers(ackDue, due) == \E ok \in BOOLEAN :
  /\ phase = "timers" /\ phase' = "calls"
  /\ Result(PollTimers(Now, ackDue, due, ok))
  /\ Refusal(ok)
  /\ UNCHANGED <<candidate, queue, mishaps, changed, calls>>

Poll == ProcessControlEvent \/ ProcessCandidate \/ \E ackDue, due \in BOOLEAN : Timers(ackDue, due)

-----------------------------------------------------------------------------
(* The application's calls.                                                 *)

Call(w, noted) ==
  /\ phase = "calls" /\ calls < MaxCalls /\ calls' = calls + 1
  /\ Result(w) /\ candidate' = noted /\ changed' = TRUE
  /\ mishaps' = Noted(w)
  /\ UNCHANGED <<queue, phase>>

CallDisconnect(resume) == \E ok \in BOOLEAN :
  Call(Disconnect(Now, resume, ok), candidate) /\ Refusal(ok)
CallStartScan == \E ok \in BOOLEAN : Call(StartScan(Now, ok), candidate) /\ Refusal(ok)
SetTarget(p) == Call([Now EXCEPT !.g.target = p], candidate) /\ UNCHANGED incidents
ClearTarget == Call([Now EXCEPT !.g.target = None], None) /\ UNCHANGED incidents

Application ==
  \/ \E resume \in BOOLEAN : CallDisconnect(resume)
  \/ CallStartScan \/ ClearTarget \/ \E p \in Pads \cup Elsewhere : SetTarget(p)

-----------------------------------------------------------------------------
(* The stack, its callbacks and the controllers (external but for the       *)
(* events that the callbacks make of what happens).                         *)

Outside == UNCHANGED <<app, phase, changed, calls>>
Radio(r, e) ==
  /\ radio' = r /\ Tell(e) /\ Outside /\ UNCHANGED <<candidate, link>>
OnLink(p, l, e) ==
  /\ link' = [link EXCEPT ![p] = l] /\ Tell(e) /\ Outside /\ UNCHANGED <<candidate, radio>>
Silently(p, l) ==
  /\ link' = [link EXCEPT ![p] = l]
  /\ Outside /\ UNCHANGED <<candidate, radio, queue, mishaps>>
Answer(kind, p, ok) == Event(kind, p, ok, Write("command", 0))

PowersOn == ~radio.on /\ Radio([radio EXCEPT !.on = TRUE], Plain("powerOn")) /\ Charge(0)

ScanStops ==
  /\ radio.stopped
  /\ Radio([radio EXCEPT !.stopped = FALSE], Plain("scanStopped")) /\ Charge(0)

ScanFails ==
  /\ radio.scan
  /\ Radio([radio EXCEPT !.scan = FALSE], Plain("scanFailed")) /\ Charge(1)

(* A candidate's advertisement is heard, perhaps while the scan ends:       *)
(* BLE_GAP_EXT_ADV_REPORT_IND.                                              *)
Advertises(p) ==
  /\ radio.scan \/ radio.stopped
  /\ app.target \in {None, p} /\ candidate # p
  /\ candidate' = p
  /\ Outside /\ UNCHANGED <<queue, link, radio, mishaps, incidents>>

Connects(p) ==
  /\ radio.creating = p
  /\ radio' = [radio EXCEPT !.creating = None, !.cancelled = FALSE]
  /\ link' = [link EXCEPT ![p] = [Down EXCEPT !.up = TRUE]]
  /\ Tell(Answer("connected", p, TRUE)) /\ Outside /\ UNCHANGED <<candidate, incidents>>

FailsToConnect ==
  /\ radio.creating # None
  /\ Radio([radio EXCEPT !.creating = None, !.cancelled = FALSE], Plain("connectFailed"))
  /\ Charge(IF radio.cancelled THEN 0 ELSE 1)

LinkEnds(p) ==
  /\ link[p].up
  /\ OnLink(p, Down, Answer("disconnected", p, TRUE))
  /\ Charge(IF link[p].leaving THEN 0 ELSE 1)

Searched(p) ==
  /\ link[p].searching
  /\ OnLink(p, [link[p] EXCEPT !.searching = FALSE], Answer("searched", p, TRUE)) /\ Charge(0)

Registers(p, ok) ==
  /\ link[p].registering
  /\ OnLink(p, [link[p] EXCEPT !.registering = FALSE], Answer("registered", p, ok))
  /\ Refusal(ok)

(* The next write goes out and is answered; a command the controller owes   *)
(* an acknowledgement for.                                                  *)
SendsSubscription(p, ok) ==
  /\ link[p].writes # <<>>
  /\ LET x == Head(link[p].writes)
     IN /\ x.kind \in Subscriptions
        /\ OnLink(p, [link[p] EXCEPT !.writes = Tail(@), !.on = IF ok THEN @ \cup {x.kind} ELSE @],
                  Event("written", p, ok, x))
  /\ Refusal(ok)

SendsCommand(p) ==
  /\ link[p].writes # <<>> /\ Len(link[p].owed) < MaxWrites
  /\ LET x == Head(link[p].writes)
     IN /\ x.kind = "command"
        /\ OnLink(p, [link[p] EXCEPT !.writes = Tail(@), !.heard = @ \cup {x.index},
                                     !.owed = Append(@, x.index)],
                  Event("written", p, TRUE, x))
  /\ Charge(0)

(* SIBLES_REMOTE_EVENT_IND on the acknowledgements' handle.                 *)
Acknowledges(p) ==
  /\ link[p].owed # <<>>
  /\ LET owing == [link[p] EXCEPT !.owed = Tail(@)]
     IN IF "ackCccd" \in link[p].on /\ app.connected /\ app.conn = p
        THEN OnLink(p, owing, Event("acked", p, TRUE, Write("command", Head(link[p].owed))))
        ELSE Silently(p, owing)
  /\ Charge(0)

(* An answer that never comes.                                              *)
StaysSilent(p) ==
  /\ \/ /\ link[p].owed # <<>> /\ Silently(p, [link[p] EXCEPT !.owed = Tail(@)])
     \/ /\ link[p].registering /\ Silently(p, [link[p] EXCEPT !.registering = FALSE])
     \/ /\ link[p].writes # <<>> /\ Head(link[p].writes).kind # "command"
        /\ Silently(p, [link[p] EXCEPT !.writes = Tail(@)])
  /\ Charge(1)

Stack ==
  \/ PowersOn \/ ScanStops \/ ScanFails \/ FailsToConnect
  \/ \E p \in Pads :
       \/ Advertises(p) \/ Connects(p) \/ LinkEnds(p) \/ Searched(p)
       \/ SendsCommand(p) \/ Acknowledges(p) \/ StaysSilent(p)
       \/ \E ok \in BOOLEAN : Registers(p, ok) \/ SendsSubscription(p, ok)

-----------------------------------------------------------------------------
Init ==
  /\ \E wanted \in BOOLEAN : app =
           [powered |-> FALSE, wanted |-> wanted, scanning |-> FALSE, scanRetry |-> FALSE,
            connecting |-> FALSE, connected |-> FALSE, conn |-> None, target |-> None,
            stage |-> "idle", registered |-> FALSE, registering |-> FALSE, cccd |-> "none",
            action |-> "none", retries |-> 0, deadline |-> FALSE, waiting |-> FALSE,
            index |-> 0]
  /\ candidate = None /\ queue = <<>> /\ phase = "calls"
  /\ link = [p \in Pads |-> Down]
  /\ radio = [on |-> FALSE, scan |-> FALSE, stopped |-> FALSE, creating |-> None,
              cancelled |-> FALSE]
  /\ mishaps = {} /\ changed = FALSE
  /\ incidents = 0 /\ calls = 0

Next == Poll \/ Application \/ Stack

Spec == Init /\ [][Next]_vars

(* The main loop goes round, deadlines pass, and the stack goes on          *)
(* answering, in whatever order.                                            *)
Answering ==
  \/ PowersOn \/ ScanStops \/ FailsToConnect
  \/ \E p \in Pads :
       \/ Connects(p) \/ (link[p].leaving /\ LinkEnds(p)) \/ Searched(p) \/ Registers(p, TRUE)
       \/ SendsCommand(p) \/ SendsSubscription(p, TRUE) \/ Acknowledges(p)

FairSpec ==
  Spec /\ WF_vars(Poll) /\ SF_vars(Timers(TRUE, TRUE)) /\ WF_vars(Answering)

-----------------------------------------------------------------------------
TypeOK ==
  /\ app \in AppState /\ candidate \in Pads \cup {None}
  /\ \A i \in DOMAIN queue :
       queue[i] \in [kind : EventKinds, pad : Pads \cup {None}, ok : BOOLEAN, of : Writes]
  /\ phase \in {"calls", "events", "timers"}
  /\ link \in [Pads -> LinkState]
  /\ radio \in [on : BOOLEAN, scan : BOOLEAN, stopped : BOOLEAN,
                creating : Pads \cup {None}, cancelled : BOOLEAN]
  /\ mishaps \subseteq Mishaps /\ changed \in BOOLEAN
  /\ incidents \in 0 .. MaxIncidents /\ calls \in 0 .. MaxCalls

(* On the link at hand the controller has got every command before the one  *)
(* at index, whatever was repeated, late or answered twice; and a link that *)
(* is ready has both subscriptions, unless the answer to another write      *)
(* passed for theirs.  While the ring holds the news that the link is lost, *)
(* the controller may be back already and the answers be those of before.   *)
ReadyIsEarned ==
  app.connected /\ link[app.conn].up /\ ~LossQueued(app.conn) /\ "purged" \notin mishaps =>
    /\ 0 .. app.index - 1 \subseteq link[app.conn].heard
    /\ app.stage = "ready" =>
         app.index = Len(Commands) /\ (link[app.conn].on = Subscriptions \/ "borrowed" \in mishaps)

(* The code never takes a link for up that is down without the ring holding *)
(* the news, however full it was when it came, unless the loss of another   *)
(* link emptied the full ring of it.                                        *)
LossIsSeen ==
  app.connected /\ ~link[app.conn].up /\ "purged" \notin mishaps => LossQueued(app.conn)

(* A link that is up and not ready has something that will move it on: an   *)
(* answer that is sure to come, or a deadline.                              *)
SomethingIsDue ==
  app.connected /\ link[app.conn].up /\ app.stage # "ready" /\ "dropped" \notin mishaps =>
    \/ app.deadline \/ app.waiting
    \/ link[app.conn].searching \/ link[app.conn].leaving
    \/ \E i \in DOMAIN queue :
         queue[i].kind \in {"searched", "disconnected"} /\ queue[i].pad = app.conn

(* A connection is begun only while one is wanted, and only with the target *)
(* if there is one; a call may come too late for a candidate already heard, *)
(* but not by more than one pass of the poll after the scan has ended.      *)
OnlyWantedConnections ==
  [][radio'.creating \notin {radio.creating, None} =>
       changed \/ "strayScan" \in mishaps
         \/ (app.wanted /\ app.target \in {None, radio'.creating})]_vars

(* A link ends up ready or is given up.                                     *)
Settles == app.connected ~> app.stage = "ready" \/ ~app.connected \/ "dropped" \in mishaps

(* A scan that is wanted is under way in the end, or led to a connection.   *)
RadioSearches ==
  app.wanted /\ app.powered
    ~> radio.scan \/ radio.creating # None \/ app.connected \/ ~app.wanted \/ "dropped" \in mishaps
=============================================================================
