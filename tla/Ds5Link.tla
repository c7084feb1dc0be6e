------------------------------- MODULE Ds5Link -------------------------------
(***************************************************************************)
(* The life of the Bluetooth Classic link to a DualSense                   *)
(* (ds5_classic_sifli.c): pairing, the two L2CAP channels of a HID         *)
(* transport, loss, reconnection, and the calls of the application.        *)
(*                                                                         *)
(* Three parties take steps.  The application calls the API and            *)
(* ds5_classic_poll from its main loop.  The stack's task hands events to  *)
(* ds5_classic_bt_event_handler, in order, some time after they happened.  *)
(* The Bluetooth stack and the controllers (external) open, refuse and     *)
(* close channels, and put the events into the queue.                      *)
(*                                                                         *)
(* A handler, a call and a pass of the poll are one step each.  Time is    *)
(* left out: a reconnect that is pending may be due at once or late, so    *)
(* the backoff's delay is not told apart.  A channel's identifier is the   *)
(* device it leads to, for the stack keeps one channel per device and PSM. *)
(* The registration of the PSMs is one step, and what flows over an open   *)
(* link, the error code and the hold on the ACL are other matters.         *)
(*                                                                         *)
(* Operators named for another one and a fault ("TeardownForGood") are    *)
(* mutated forms, kept to show that the properties can fail.               *)
(***************************************************************************)
EXTENDS Naturals, Sequences, FiniteSets

CONSTANTS
  Devices,        (* the controllers around                                *)
  NoDevice,       (* an address that is not valid                          *)
  Pads,           (* those whose bond the stack's store may hold at boot   *)
  MayPair,        (* whether the application starts pairing                *)
  Patient,        (* whether a reconnect falls due only after the stack    *)
                  (* has answered everything before it: the delay doubles  *)
                  (* up to 8 s                                             *)
  MaxEvents,      (* bound on the queue when the stack adds to it          *)
  MaxIncidents,   (* bound on what radio and controllers do unasked        *)
  MaxCalls        (* bound on the application's calls                      *)

ASSUME Ds5LinkAssumption ==
  /\ NoDevice \notin Devices /\ Pads \subseteq Devices /\ MayPair \in BOOLEAN
  /\ Patient \in BOOLEAN
  /\ MaxEvents \in Nat /\ MaxIncidents \in Nat /\ MaxCalls \in Nat

PSMs == {"control", "interrupt"}
Other(p) == IF p = "control" THEN "interrupt" ELSE "control"
Address == Devices \cup {NoDevice}

VARIABLES
  app,        (* g_ds5                                                     *)
  channel,    (* what the stack has: [Devices -> [PSMs -> ...]]            *)
  events,     (* its events the handler has not seen                       *)
  bond,       (* the device its store holds, NoDevice for none             *)
  managed,    (* whether the connection manager knows bonds for pads       *)
  inquiry,    (* whether it searches for devices                           *)
  security,   (* the steps of pairing asked of it and not answered         *)
  stopped,    (* history: the application's last word was to stop          *)
  mixups,     (* history: which of Mixups have happened                    *)
  incidents, calls  (* bounds used up                                      *)

vars == <<app, channel, events, bond, managed, inquiry, security, stopped, mixups,
          incidents, calls>>
stackVars == <<bond, inquiry, security>>
bounds == <<incidents, calls>>

AppState == [
  active : Address, saved : Address, injected : BOOLEAN,
  connected : BOOLEAN, connecting : BOOLEAN, disconnecting : BOOLEAN,
  cid : [PSMs -> Address], pending : SUBSET PSMs, requested : SUBSET PSMs,
  reconnectPending : BOOLEAN, suppressed : BOOLEAN, autoReconnect : BOOLEAN,
  registered : BOOLEAN, readWanted : BOOLEAN, reading : BOOLEAN, waiting : BOOLEAN,
  wantPairing : BOOLEAN, candidate : Address, candidateValid : BOOLEAN,
  discovering : BOOLEAN, pairing : BOOLEAN,
  todo : SUBSET {"stopDiscovery", "pair", "auth", "encrypt", "startDiscovery"}]

EventKinds == {"connected", "disconnected", "failed", "aclGone", "found", "discoveryDone",
               "aclOpen", "auth", "encrypted", "paired", "records", "keyMissing", "unpaired"}
Event(kind, d, p, ok) == [kind |-> kind, dev |-> d, psm |-> p, ok |-> ok]
ChannelEvent(kind, d, p) == Event(kind, d, p, TRUE)
DeviceEvent(kind, d, ok) == Event(kind, d, "control", ok)

-----------------------------------------------------------------------------
(* The helpers of the code, on the application's state.                     *)

Idle(a) == ~a.connected /\ ~a.connecting /\ ~a.disconnecting /\ ~a.discovering /\ ~a.pairing

ReconnectAllowed(a) == a.autoReconnect /\ ~a.suppressed /\ a.saved # NoDevice

ScheduleReconnect(a) == [a EXCEPT !.reconnectPending = ReconnectAllowed(a)]

(* As ClearLink, with the link still taken for up.                          *)
ClearLinkKeepsConnected(a) ==
  [a EXCEPT !.cid = [p \in PSMs |-> NoDevice], !.connecting = FALSE,
            !.disconnecting = FALSE, !.pending = {}, !.requested = {},
            !.reconnectPending = FALSE, !.active = NoDevice]

ClearLink(a) ==
  [a EXCEPT !.cid = [p \in PSMs |-> NoDevice], !.connected = FALSE, !.connecting = FALSE,
            !.disconnecting = FALSE, !.pending = {}, !.requested = {},
            !.reconnectPending = FALSE, !.active = NoDevice]

(* As Teardown, for good.                                                   *)
TeardownForGood(a, unexpected) == ClearLink(a)

Teardown(a, unexpected) ==
  IF unexpected THEN ScheduleReconnect(ClearLink(a)) ELSE ClearLink(a)

ScheduleConnect(a, d) ==
  [a EXCEPT !.active = d, !.connecting = TRUE, !.disconnecting = FALSE,
            !.reconnectPending = FALSE, !.pending = @ \cup {"control"}, !.requested = {}]

(* ds5_classic_load_saved_from_connection_manager: the connection manager's *)
(* bond, unless an address was injected.                                    *)
Loaded(a) == a.injected \/ (managed /\ bond # NoDevice)
LoadSaved(a) == IF Loaded(a) /\ ~a.injected THEN [a EXCEPT !.saved = bond] ELSE a

(* As AddressAllowed, without regard to a stop.                             *)
AddressAllowedAfterStop(a, d) ==
  IF a.active # NoDevice THEN d = a.active
  ELSE IF a.wantPairing THEN a.candidateValid => d = a.candidate
  ELSE ~a.reconnectPending /\ (a.saved # NoDevice => d = a.saved)

AddressAllowed(a, d) ==
  IF a.active # NoDevice THEN d = a.active
  ELSE IF a.wantPairing THEN a.candidateValid => d = a.candidate
  ELSE ~a.reconnectPending /\ ~a.suppressed /\ (a.saved # NoDevice => d = a.saved)

MatchesActive(a, e) == (a.active # NoDevice /\ e.dev = a.active) \/ e.dev = a.cid[e.psm]

PairComplete(a, d, ok) ==
  LET done == [a EXCEPT !.pairing = FALSE, !.wantPairing = FALSE, !.candidateValid = FALSE,
                        !.todo = @ \ {"pair", "auth", "encrypt"}]
      kept == [done EXCEPT !.saved = d, !.injected = FALSE]
  IN CASE a.candidateValid /\ d # a.candidate -> a
       [] ~(a.candidateValid /\ d # a.candidate) /\ ok ->
            IF a.connected \/ a.connecting THEN kept ELSE ScheduleConnect(kept, d)
       [] OTHER -> ScheduleReconnect(done)

(* Ways in which the code acts on a link that the event at hand has nothing *)
(* to do with: the answer connect_saved waits for arrives when a link has   *)
(* begun or been given up meanwhile; pairing begins, or a bond is made,     *)
(* with one device while there is a link to another; the baseband link of   *)
(* another device is lost; or, although the application has stopped, a      *)
(* device calls that is active since pairing with it failed.                *)
Mixups == {"lateRead", "pairOverLink", "foreignLoss", "leftOver"}
Handles(kinds) == events # <<>> /\ events' = Tail(events) /\ Head(events).kind \in kinds
Happens(m) ==
  CASE m = "lateRead" -> /\ app.waiting /\ ~app'.waiting /\ calls' = calls
                         /\ app.active # NoDevice \/ stopped
                         /\ app' # [app EXCEPT !.waiting = FALSE]
    [] m = "pairOverLink" -> /\ app.connected \/ app.connecting \/ app.disconnecting
                             /\ app'.active # app.active
                             /\ \/ "pair" \in app.todo \ app'.todo
                                \/ Handles({"encrypted", "paired"})
    [] m = "foreignLoss" -> /\ Handles({"aclGone"}) /\ app' # app
                            /\ Head(events).dev # app.active
    [] m = "leftOver" -> /\ app.suppressed /\ app.active # NoDevice
                         /\ ~app.connected /\ ~app.connecting /\ ~app.disconnecting
                         /\ app'.connecting /\ app'.active = app.active
Remember == mixups' = mixups \cup {m \in Mixups : Happens(m)}

-----------------------------------------------------------------------------
(* The stack and the controllers (external).                                *)

(* bt_l2cap_profile_disconn_req: an open channel closes and the stack says  *)
(* so; for one that is not open nothing happens and nothing is said.        *)
Notices(d, ps) ==
  LET Of(p) == IF p \in ps /\ channel[d][p] = "open"
               THEN <<ChannelEvent("disconnected", d, p)>> ELSE <<>>
  IN Of("interrupt") \o Of("control")
Closed(d, ps) ==
  [channel EXCEPT ![d] = [p \in PSMs |-> IF p \in ps /\ @[p] = "open" THEN "closed" ELSE @[p]]]

(* As DisconnReq, for the interrupt channel alone.                          *)
DisconnReqInterrupt(d, ps, queue) ==
  IF d = NoDevice THEN channel' = channel /\ events' = queue
  ELSE /\ channel' = Closed(d, ps \cap {"interrupt"})
       /\ events' = queue \o Notices(d, ps \cap {"interrupt"})

DisconnReq(d, ps, queue) ==
  IF d = NoDevice THEN channel' = channel /\ events' = queue
  ELSE channel' = Closed(d, ps) /\ events' = queue \o Notices(d, ps)

Tell(e) == Len(events) < MaxEvents /\ events' = Append(events, e)
Incident == incidents < MaxIncidents /\ incidents' = incidents + 1 /\ UNCHANGED calls

(* Both PSMs are registered; handle_registration asks for the bonds.        *)
Registered ==
  /\ ~app.registered
  /\ app' = [app EXCEPT !.registered = TRUE, !.readWanted = TRUE]
  /\ UNCHANGED <<channel, events, managed, stackVars, stopped, bounds>>

Opens(d, p) ==
  /\ channel[d][p] = "opening"
  /\ channel' = [channel EXCEPT ![d][p] = "open"]
  /\ Tell(ChannelEvent("connected", d, p))
  /\ UNCHANGED <<app, managed, stackVars, stopped, bounds>>

FailsToOpen(d, p) ==
  /\ channel[d][p] = "opening"
  /\ channel' = [channel EXCEPT ![d][p] = "closed"]
  /\ Tell(ChannelEvent("failed", d, p))
  /\ Incident
  /\ UNCHANGED <<app, managed, stackVars, stopped>>

LosesChannel(d, p) ==
  /\ channel[d][p] = "open"
  /\ channel' = [channel EXCEPT ![d][p] = "closed"]
  /\ Tell(ChannelEvent("disconnected", d, p))
  /\ Incident
  /\ UNCHANGED <<app, managed, stackVars, stopped>>

(* The baseband link of a device is lost, and its channels with it.         *)
LosesDevice(d) ==
  LET Of(p) == CASE channel[d][p] = "open" -> <<ChannelEvent("disconnected", d, p)>>
                 [] channel[d][p] = "opening" -> <<ChannelEvent("failed", d, p)>>
                 [] OTHER -> <<>>
      told == Of("interrupt") \o Of("control")
  IN /\ told # <<>> \/ (security # {} /\ d = app.candidate)
     /\ channel' = [channel EXCEPT ![d] = [p \in PSMs |-> "closed"]]
     /\ security' = IF d = app.candidate THEN {} ELSE security
     /\ Len(events) < MaxEvents
     /\ events' = events \o told \o <<DeviceEvent("aclGone", d, TRUE)>>
     /\ Incident
     /\ UNCHANGED <<app, managed, bond, inquiry, stopped>>

LosesKey(d) ==
  /\ bond = d
  /\ bond' = NoDevice
  /\ Tell(DeviceEvent("keyMissing", d, TRUE))
  /\ Incident
  /\ UNCHANGED <<app, channel, managed, inquiry, security, stopped>>

(* A bonded controller opens a channel, and bt_l2cap_profile_app_conn_ind   *)
(* answers.  One that is refused leaves nothing behind.                     *)
ConnInd(d, p) ==
  /\ app.registered /\ channel[d][p] = "closed"
  /\ d \in Pads \/ d = bond
  /\ ~app.disconnecting
  /\ AddressAllowed(app, d)
  /\ app.cid[p] = NoDevice /\ p \notin app.pending \cup app.requested
  /\ app' = [app EXCEPT !.active = d, !.connecting = TRUE, !.reconnectPending = FALSE]
  /\ channel' = [channel EXCEPT ![d][p] = "opening"]
  /\ Incident
  /\ UNCHANGED <<events, managed, stackVars, stopped>>

ReadsBonds ==
  /\ app.reading /\ \A i \in DOMAIN events : events[i].kind # "records"
  /\ Tell(DeviceEvent("records", bond, TRUE))
  /\ UNCHANGED <<app, channel, managed, stackVars, stopped, bounds>>

Finds(d) ==
  /\ inquiry
  /\ Tell(DeviceEvent("found", d, TRUE))
  /\ Incident
  /\ UNCHANGED <<app, channel, managed, stackVars, stopped>>

EndsInquiry ==
  /\ inquiry
  /\ inquiry' = FALSE
  /\ Tell(DeviceEvent("discoveryDone", NoDevice, TRUE))
  /\ UNCHANGED <<app, channel, managed, bond, security, stopped, bounds>>

(* A step of pairing that was asked is answered, well or not.               *)
Answers(step, kind, ok) ==
  /\ step \in security
  /\ security' = security \ {step}
  /\ Tell(DeviceEvent(kind, app.candidate, ok))
  /\ IF ok THEN UNCHANGED bounds ELSE Incident
  /\ UNCHANGED <<app, channel, managed, bond, inquiry, stopped>>

(* A bond is made or not: by the authentication asked for, or by one that   *)
(* a controller began and ds5_classic_address_allowed let through.          *)
Bonds(d, ok) ==
  /\ \/ "auth" \in security /\ d = app.candidate
     \/ "auth" \notin security /\ AddressAllowed(app, d)
  /\ bond' = IF ok THEN d ELSE bond
  /\ Tell(DeviceEvent("paired", d, ok))
  /\ Incident
  /\ UNCHANGED <<app, channel, managed, inquiry, security, stopped>>

StackStep ==
  \/ Registered \/ ReadsBonds \/ EndsInquiry
  \/ \E d \in Devices, p \in PSMs :
       Opens(d, p) \/ FailsToOpen(d, p) \/ LosesChannel(d, p) \/ ConnInd(d, p)
  \/ \E d \in Devices : LosesDevice(d) \/ LosesKey(d) \/ Finds(d)
  \/ \E ok \in BOOLEAN :
       \/ \E d \in Devices : Bonds(d, ok)
       \/ Answers("open", "aclOpen", ok)
       \/ Answers("auth", "auth", ok)
       \/ Answers("encrypt", "encrypted", ok)

Stack == StackStep /\ Remember

-----------------------------------------------------------------------------
(* ds5_classic_bt_event_handler, one action for each kind of event.         *)

Handle(kind) == events # <<>> /\ Head(events).kind = kind
Rest == Tail(events)
OnlyApp(a) ==
  /\ app' = a /\ events' = Rest
  /\ UNCHANGED <<channel, managed, stackVars, stopped, bounds>>

(* A channel came up: ds5_classic_handle_connection.                        *)
WithChannel(a, d, p) ==
  LET up == [a EXCEPT !.active = d, !.connecting = TRUE, !.cid[p] = d,
                      !.requested = @ \ {p},
                      !.pending = IF a.cid[Other(p)] = NoDevice /\ Other(p) \notin a.requested
                                  THEN (@ \ {p}) \cup {Other(p)} ELSE @ \ {p}]
  IN IF up.cid[Other(p)] # NoDevice /\ ~a.connected
     THEN [up EXCEPT !.connecting = FALSE, !.connected = TRUE, !.disconnecting = FALSE,
                     !.reconnectPending = FALSE]
     ELSE up

HandleConnected ==
  /\ Handle("connected")
  /\ LET d == Head(events).dev  p == Head(events).psm
     IN CASE ~AddressAllowed(app, d) ->
               app' = app /\ DisconnReq(d, {p}, Rest)
          [] AddressAllowed(app, d) /\ app.cid[p] \notin {NoDevice, d} ->
               app' = Teardown(app, TRUE) /\ DisconnReq(d, PSMs, Rest)
          [] OTHER ->
               app' = WithChannel(app, d, p) /\ channel' = channel /\ events' = Rest
  /\ UNCHANGED <<managed, stackVars, stopped, bounds>>

HandleDisconnected ==
  /\ Handle("disconnected")
  /\ IF MatchesActive(app, Head(events))
     THEN app' = Teardown(app, ~app.disconnecting) /\ DisconnReq(app.active, PSMs, Rest)
     ELSE app' = app /\ channel' = channel /\ events' = Rest
  /\ UNCHANGED <<managed, stackVars, stopped, bounds>>

HandleFailed ==
  /\ Handle("failed")
  /\ IF MatchesActive(app, Head(events))
     THEN app' = Teardown(app, TRUE) /\ DisconnReq(app.active, PSMs, Rest)
     ELSE app' = app /\ channel' = channel /\ events' = Rest
  /\ UNCHANGED <<managed, stackVars, stopped, bounds>>

(* The event does not say whose link it was, and is not asked.              *)
HandleAclGone ==
  /\ Handle("aclGone")
  /\ OnlyApp(IF app.pairing THEN PairComplete(app, app.candidate, FALSE)
             ELSE IF app.connected \/ app.connecting \/ app.disconnecting
                  THEN Teardown(app, ~app.disconnecting) ELSE app)

HandleFound ==
  /\ Handle("found")
  /\ OnlyApp(IF app.wantPairing /\ ~app.candidateValid
             THEN [app EXCEPT !.candidate = Head(events).dev, !.candidateValid = TRUE,
                              !.todo = @ \cup {"stopDiscovery"}]
             ELSE app)

HandleDiscoveryDone ==
  /\ Handle("discoveryDone")
  /\ OnlyApp([app EXCEPT !.discovering = FALSE,
                         !.todo = IF ~app.wantPairing THEN @
                                  ELSE @ \cup {IF app.candidateValid THEN "pair"
                                               ELSE "startDiscovery"}])

(* The answers to the steps of pairing; one that comes late is not for the  *)
(* candidate or finds no pairing, and is dropped.                           *)
HandleAnswer(kind, next) ==
  /\ Handle(kind)
  /\ LET e == Head(events)
     IN OnlyApp(CASE ~app.pairing \/ e.dev # app.candidate -> app
                  [] app.pairing /\ e.dev = app.candidate /\ e.ok /\ kind # "encrypted" ->
                       [app EXCEPT !.todo = @ \cup {next}]
                  [] OTHER -> PairComplete(app, e.dev, e.ok))

(* While the application pairs, a key is only noted.  Otherwise the device  *)
(* just bonded is called, even if the application had stopped.              *)
HandlePaired ==
  /\ Handle("paired")
  /\ LET e == Head(events)
     IN /\ app' = IF app.pairing /\ e.ok THEN [app EXCEPT !.saved = e.dev]
                  ELSE PairComplete(app, e.dev, e.ok)
        /\ stopped' = (stopped /\ ~e.ok)
  /\ events' = Rest
  /\ UNCHANGED <<channel, managed, stackVars, bounds>>

(* What follows once it is known whether there is a saved address.          *)
AfterRead(a) ==
  CASE a.waiting /\ a.saved # NoDevice -> ScheduleConnect([a EXCEPT !.waiting = FALSE], a.saved)
    [] a.waiting /\ a.saved = NoDevice -> [a EXCEPT !.waiting = FALSE]
    [] ~a.waiting /\ ReconnectAllowed(a) /\ ~a.connected /\ ~a.connecting -> ScheduleReconnect(a)
    [] OTHER -> a

HandleRecords ==
  /\ Handle("records")
  /\ OnlyApp(AfterRead([app EXCEPT !.reading = FALSE,
                                   !.saved = IF @ = NoDevice THEN Head(events).dev ELSE @]))

ForgetSaved(a) == [a EXCEPT !.saved = NoDevice, !.injected = FALSE, !.reconnectPending = FALSE]

HandleKeyMissing ==
  /\ Handle("keyMissing")
  /\ OnlyApp(IF app.saved = Head(events).dev THEN ForgetSaved(app) ELSE app)

HandleUnpaired == Handle("unpaired") /\ OnlyApp(ForgetSaved(app))

EventHandlerStep ==
  \/ HandleConnected \/ HandleDisconnected \/ HandleFailed \/ HandleAclGone
  \/ HandleFound \/ HandleDiscoveryDone
  \/ HandleAnswer("aclOpen", "auth") \/ HandleAnswer("auth", "encrypt")
  \/ HandleAnswer("encrypted", "none")
  \/ HandlePaired \/ HandleRecords \/ HandleKeyMissing \/ HandleUnpaired

EventHandler == EventHandlerStep /\ Remember

-----------------------------------------------------------------------------
(* The calls of the application.                                            *)

Call(a, stop) ==
  /\ calls < MaxCalls /\ calls' = calls + 1
  /\ app' = a /\ stopped' = stop
  /\ UNCHANGED <<managed, inquiry, security, incidents>>
SilentCall(a, stop) == Call(a, stop) /\ UNCHANGED <<channel, events, bond>>

SetSavedAddress(d) ==
  LET saved == [app EXCEPT !.saved = d, !.injected = TRUE, !.waiting = FALSE]
  IN SilentCall(IF Idle(app) /\ ~app.wantPairing /\ ReconnectAllowed(saved)
                THEN ScheduleReconnect(saved) ELSE saved, stopped)

ClearSavedAddress == SilentCall([ForgetSaved(app) EXCEPT !.waiting = FALSE], stopped)

EnableReconnect ==
  LET on == [app EXCEPT !.autoReconnect = TRUE, !.suppressed = FALSE]
      known == IF on.saved = NoDevice THEN LoadSaved(on) ELSE on
  IN SilentCall(CASE known.saved = NoDevice -> [known EXCEPT !.readWanted = TRUE]
                  [] known.saved # NoDevice /\ Idle(app) /\ ~app.wantPairing ->
                       ScheduleReconnect(known)
                  [] OTHER -> known, FALSE)

(* Either setting ends a stop; after this one controllers may call.         *)
DisableReconnect ==
  SilentCall([app EXCEPT !.autoReconnect = FALSE, !.suppressed = FALSE,
                         !.reconnectPending = FALSE], FALSE)

StartPairing ==
  /\ MayPair /\ Idle(app)
  /\ SilentCall([app EXCEPT !.wantPairing = TRUE, !.candidateValid = FALSE,
                            !.reconnectPending = FALSE, !.waiting = FALSE,
                            !.todo = (@ \ {"pair", "auth", "encrypt"})
                                       \cup IF app.registered THEN {"startDiscovery"} ELSE {}],
                FALSE)

ConnectSaved ==
  /\ Idle(app) /\ ~app.wantPairing
  /\ LET resumed == [app EXCEPT !.suppressed = FALSE, !.reconnectPending = FALSE]
         known == IF app.saved = NoDevice THEN LoadSaved(resumed) ELSE resumed
     IN SilentCall(IF known.saved # NoDevice THEN ScheduleConnect(known, known.saved)
                   ELSE [known EXCEPT !.waiting = TRUE, !.readWanted = TRUE], FALSE)

(* A pairing that is wanted, about to begin or under way survives both      *)
(* calls below, so they count as a stop only without one.                   *)
NoPairing(a) == ~a.wantPairing /\ ~a.pairing /\ "pair" \notin a.todo

CanDisconnect(a) == a.active # NoDevice /\ (a.connected \/ a.connecting)
Stop(a) == [a EXCEPT !.disconnecting = TRUE, !.connecting = FALSE, !.wantPairing = FALSE,
                     !.suppressed = TRUE, !.reconnectPending = FALSE]

Disconnect ==
  /\ CanDisconnect(app)
  /\ Call(Stop(app), NoPairing(app))
  /\ DisconnReq(app.active, PSMs, events)
  /\ UNCHANGED bond

(* The link is given up with the address, and the store's bond for it; the  *)
(* stack may answer that with an event of its own.                          *)
Forget ==
  LET off == [app EXCEPT !.suppressed = TRUE, !.reconnectPending = FALSE]
      known == IF app.saved = NoDevice THEN LoadSaved(off) ELSE off
  IN IF known.saved = NoDevice THEN SilentCall(known, stopped)
     ELSE /\ Call([(IF CanDisconnect(known) THEN Stop(known) ELSE known)
                     EXCEPT !.saved = NoDevice, !.injected = FALSE], NoPairing(app))
          /\ bond' = IF bond = known.saved THEN NoDevice ELSE bond
          /\ \E said \in {<<>>, <<DeviceEvent("unpaired", known.saved, TRUE)>>} :
               DisconnReq(IF CanDisconnect(known) THEN known.active ELSE NoDevice, PSMs,
                          events \o said)

ApplicationStep ==
  \/ \E d \in Devices : SetSavedAddress(d)
  \/ ClearSavedAddress \/ EnableReconnect \/ DisableReconnect
  \/ StartPairing \/ ConnectSaved \/ Disconnect \/ Forget

Application == ApplicationStep /\ Remember

-----------------------------------------------------------------------------
(* ds5_classic_poll.  A pass looks for work in this order and does the      *)
(* first it finds; a pending reconnect may not be due yet.                  *)

WantsInquiry(a) == a.wantPairing /\ ~a.discovering /\ ~a.pairing /\ ~a.candidateValid
MayOpen(a, p) ==
  a.registered /\ p \in a.pending \ a.requested /\ a.active # NoDevice /\ ~a.disconnecting

Order == <<"read", "stopDiscovery", "pair", "auth", "encrypt", "startDiscovery",
           "control", "interrupt">>
HasWork(a, w) ==
  CASE w = "read" -> a.registered /\ a.readWanted /\ ~a.reading
    [] w = "pair" -> "pair" \in a.todo /\ ~a.discovering
    [] w = "startDiscovery" -> a.registered /\ ("startDiscovery" \in a.todo \/ WantsInquiry(a))
    [] w \in PSMs -> MayOpen(a, w)
    [] OTHER -> w \in a.todo
Turn(w) ==
  \E i \in DOMAIN Order : Order[i] = w /\ HasWork(app, w)
                            /\ \A j \in 1 .. i - 1 : ~HasWork(app, Order[j])

Pass(a) == app' = a /\ UNCHANGED <<managed, bond, stopped, bounds>>
Done(w) == [app EXCEPT !.todo = @ \ {w}]

ReadSaved ==
  /\ Turn("read")
  /\ LET read == [app EXCEPT !.readWanted = FALSE]
     IN Pass(IF Loaded(app) THEN AfterRead(LoadSaved(read)) ELSE [read EXCEPT !.reading = TRUE])
  /\ UNCHANGED <<channel, events, inquiry, security>>

Quiet == events = <<>> /\ \A d \in Devices, p \in PSMs : channel[d][p] # "opening"

Reconnect ==
  /\ ~HasWork(app, "read")
  /\ app.reconnectPending
  /\ Patient => Quiet
  /\ IF ~ReconnectAllowed(app) THEN Pass([app EXCEPT !.reconnectPending = FALSE])
     ELSE /\ Idle(app) /\ ~app.wantPairing /\ ~app.reading /\ app.registered
          /\ Pass(ScheduleConnect(app, app.saved))
  /\ UNCHANGED <<channel, events, inquiry, security>>

StopDiscovery ==
  /\ Turn("stopDiscovery")
  /\ Pass(Done("stopDiscovery"))
  /\ inquiry' = FALSE
  /\ events' = Append(events, DeviceEvent("discoveryDone", NoDevice, TRUE))
  /\ UNCHANGED <<channel, security>>

BeginPairing ==
  /\ Turn("pair")
  /\ Pass([Done("pair") EXCEPT !.pairing = TRUE, !.active = app.candidate])
  /\ security' = security \cup {"open"}
  /\ UNCHANGED <<channel, events, inquiry>>

Secure(step) ==
  /\ Turn(step)
  /\ Pass(Done(step))
  /\ security' = security \cup {step}
  /\ UNCHANGED <<channel, events, inquiry>>

StartDiscovery ==
  /\ Turn("startDiscovery")
  /\ Pass([Done("startDiscovery") EXCEPT !.discovering = TRUE])
  /\ inquiry' = TRUE
  /\ UNCHANGED <<channel, events, security>>

(* Before the registration a search is only noted.                          *)
NoteDiscovery ==
  /\ ~app.registered /\ WantsInquiry(app) /\ "startDiscovery" \notin app.todo
  /\ \A w \in {"stopDiscovery", "pair", "auth", "encrypt"} : ~HasWork(app, w)
  /\ Pass([app EXCEPT !.todo = @ \cup {"startDiscovery"}])
  /\ UNCHANGED <<channel, events, inquiry, security>>

(* A request for a channel that is on its way, or up, from the other side   *)
(* is the same channel to the stack, or is refused.                         *)
OpenChannel(p) ==
  /\ Turn(p)
  /\ Pass([app EXCEPT !.pending = @ \ {p}, !.requested = @ \cup {p}])
  /\ \/ /\ channel' = [channel EXCEPT ![app.active][p] = IF @ = "open" THEN @ ELSE "opening"]
        /\ events' = IF channel[app.active][p] = "open"
                     THEN Append(events, ChannelEvent("connected", app.active, p)) ELSE events
     \/ /\ channel[app.active][p] # "closed"
        /\ events' = Append(events, ChannelEvent("failed", app.active, p))
        /\ UNCHANGED channel
  /\ UNCHANGED <<inquiry, security>>

PollStep ==
  \/ ReadSaved \/ Reconnect \/ StopDiscovery \/ BeginPairing
  \/ Secure("auth") \/ Secure("encrypt")
  \/ StartDiscovery \/ NoteDiscovery
  \/ OpenChannel("control") \/ OpenChannel("interrupt")

Poll == PollStep /\ Remember

-----------------------------------------------------------------------------
Init ==
  /\ app = [active |-> NoDevice, saved |-> NoDevice, injected |-> FALSE,
            connected |-> FALSE, connecting |-> FALSE, disconnecting |-> FALSE,
            cid |-> [p \in PSMs |-> NoDevice], pending |-> {}, requested |-> {},
            reconnectPending |-> FALSE, suppressed |-> FALSE, autoReconnect |-> FALSE,
            registered |-> FALSE, readWanted |-> FALSE, reading |-> FALSE, waiting |-> FALSE,
            wantPairing |-> FALSE, candidate |-> NoDevice, candidateValid |-> FALSE,
            discovering |-> FALSE, pairing |-> FALSE, todo |-> {}]
  /\ channel = [d \in Devices |-> [p \in PSMs |-> "closed"]]
  /\ events = <<>>
  /\ bond \in Pads \cup {NoDevice} /\ managed \in BOOLEAN
  /\ inquiry = FALSE /\ security = {} /\ stopped = FALSE /\ mixups = {}
  /\ incidents = 0 /\ calls = 0

Next == Stack \/ EventHandler \/ Application \/ Poll

Spec == Init /\ [][Next]_vars

(* The task of the stack and the main loop go on, the stack answers what it *)
(* was asked, and a controller that is called answers in the end.           *)
FairSpec ==
  /\ Spec
  /\ WF_vars(EventHandler) /\ WF_vars(Poll) /\ WF_vars(Registered /\ Remember) /\ WF_vars(ReadsBonds /\ Remember)
  /\ \A d \in Devices, p \in PSMs : WF_vars(Opens(d, p) /\ Remember)

-----------------------------------------------------------------------------
TypeOK ==
  /\ app \in AppState
  /\ channel \in [Devices -> [PSMs -> {"closed", "opening", "open"}]]
  /\ events \in Seq([kind : EventKinds, dev : Address, psm : PSMs, ok : BOOLEAN])
  /\ bond \in Address /\ managed \in BOOLEAN /\ inquiry \in BOOLEAN
  /\ security \subseteq {"open", "auth", "encrypt"} /\ stopped \in BOOLEAN /\ mixups \subseteq Mixups
  /\ incidents \in 0 .. MaxIncidents /\ calls \in 0 .. MaxCalls

(* "A HID transport is only valid while both PSMs are alive"                *)
(* (ds5_classic_teardown_link): the link is up exactly when both channels   *)
(* are, and they lead to one device, the active one.                        *)
LinkIsWhole ==
  mixups \subseteq {"foreignLoss", "leftOver"} =>
    (app.connected <=> /\ app.cid["control"] # NoDevice
                       /\ app.cid["interrupt"] = app.cid["control"]
                       /\ app.active = app.cid["control"])

(* With every event seen, whatever was asked, lost or refused before, the   *)
(* application and the stack agree on the channels: a link taken for up has *)
(* both open, and none is open that the application does not know, which    *)
(* would keep its controller from calling again, unless the loss of another *)
(* device made it forget them.                                              *)
ChannelsAgree ==
  events = <<>> /\ mixups \subseteq {"foreignLoss", "leftOver"} =>
    /\ app.connected => \A p \in PSMs : channel[app.cid[p]][p] = "open"
    /\ "foreignLoss" \notin mixups =>
         \A d \in Devices, p \in PSMs : channel[d][p] = "open" => app.cid[p] = d

(* "Explicit disconnect/forget suppresses reconnect until the app enables   *)
(* it again or calls ds5_classic_connect_saved" (ds5_classic.h): once the   *)
(* stack's events are seen, a stopped link asks for no channel, unless an   *)
(* earlier connect_saved was answered late, a device that is active since   *)
(* pairing with it failed called, or pairing began over another link.       *)
StopHoldsUnlessLate ==
  [][stopped /\ stopped' /\ mixups \subseteq {"foreignLoss"} /\ events = <<>>
       => app'.requested \subseteq app.requested]_vars

(* The same sentence, for the other direction: with reconnecting enabled    *)
(* and a saved address, the controller is called.                           *)
EnablingResumes ==
  ReconnectAllowed(app) /\ app.registered ~>
    app.connected \/ app.connecting \/ ~ReconnectAllowed(app)

(* A lost link, or a call that failed, is repaired as long as reconnecting  *)
(* stays allowed and the link is not being given up.                        *)
LossIsRepaired ==
  app.reconnectPending ~> app.connected \/ ~ReconnectAllowed(app) \/ app.disconnecting

=============================================================================
