----------------------------- MODULE Ds5_proofs -----------------------------
(***************************************************************************)
(* The driver of the DualSense, part by part as MCDs5 puts them together.  *)
(*                                                                         *)
(* The link is whole, for any number of controllers, events and calls: it  *)
(* is up exactly when both its channels are, and both lead to the active   *)
(* device.  Once every event of the stack is seen, the application and the *)
(* stack agree on what is open.  And a link that the application stopped   *)
(* asks for no channel until a link is wanted again.                       *)
(*                                                                         *)
(* Of the output states of a link the newest is the last in line, and the  *)
(* fetching of features leaves none behind that is not settled, for any    *)
(* number of reports, retries and mishaps.                                 *)
(***************************************************************************)
EXTENDS MCDs5, SequenceTheorems, TLAPS

EventRecord == [kind : EventKinds, dev : Address, psm : PSMs, ok : BOOLEAN]

(* An event of a channel that came up names a device.                       *)
NamesDevice(e) == e.kind = "connected" => e.dev # NoDevice
Told == {e \in EventRecord : NamesDevice(e)}

(* What the stack and the application's records hold.                      *)
Channels == [Devices -> [PSMs -> {"closed", "opening", "open"}]]
OthersOK ==
  /\ bond \in Address /\ managed \in BOOLEAN /\ inquiry \in BOOLEAN
  /\ security \subseteq {"open", "auth", "encrypt"} /\ stopped \in BOOLEAN
  /\ incidents \in 0 .. MaxIncidents /\ calls \in 0 .. MaxCalls
StepTypes == app \in AppState /\ channel \in Channels /\ events \in Seq(Told) /\ OthersOK
TypeInv == StepTypes /\ mixups \subseteq Mixups

-----------------------------------------------------------------------------
(* The operators on the application's state keep its type.                  *)

LEMMA ClearedType ==
  ASSUME NEW a \in AppState
  PROVE  ClearLink(a) \in AppState
BY DEF ClearLink, AppState, Address

LEMMA ScheduledType ==
  ASSUME NEW a \in AppState
  PROVE  ScheduleReconnect(a) \in AppState
BY DEF ScheduleReconnect, ReconnectAllowed, AppState

LEMMA TornDownType ==
  ASSUME NEW a \in AppState, NEW unexpected \in BOOLEAN
  PROVE  Teardown(a, unexpected) \in AppState
BY ClearedType, ScheduledType DEF Teardown

LEMMA CalledType ==
  ASSUME NEW a \in AppState, NEW d \in Address
  PROVE  ScheduleConnect(a, d) \in AppState
BY DEF ScheduleConnect, AppState, PSMs

LEMMA LoadedType ==
  ASSUME NEW a \in AppState, bond \in Address
  PROVE  LoadSaved(a) \in AppState
BY DEF LoadSaved, AppState

LEMMA CompleteType ==
  ASSUME NEW a \in AppState, NEW d \in Address, NEW ok \in BOOLEAN
  PROVE  PairComplete(a, d, ok) \in AppState
<1> DEFINE done == [a EXCEPT !.pairing = FALSE, !.wantPairing = FALSE, !.candidateValid = FALSE,
                             !.todo = @ \ {"pair", "auth", "encrypt"}]
           kept == [done EXCEPT !.saved = d, !.injected = FALSE]
<1>1. done \in AppState
  BY DEF AppState
<1> HIDE DEF done
<1>2. kept \in AppState
  BY <1>1 DEF AppState
<1>3. ScheduleConnect(kept, d) \in AppState /\ ScheduleReconnect(done) \in AppState
  BY <1>1, <1>2, CalledType, ScheduledType
<1> HIDE DEF kept
<1>4. PairComplete(a, d, ok) \in {a, kept, ScheduleConnect(kept, d), ScheduleReconnect(done)}
  BY DEF PairComplete, done, kept
<1>5. QED
  BY <1>1, <1>2, <1>3, <1>4

LEMMA UpType ==
  ASSUME NEW a \in AppState, NEW d \in Address, NEW p \in PSMs
  PROVE  WithChannel(a, d, p) \in AppState
<1> DEFINE raised == [a EXCEPT !.active = d, !.connecting = TRUE, !.cid[p] = d,
                           !.requested = @ \ {p},
                           !.pending = IF a.cid[Other(p)] = NoDevice /\ Other(p) \notin a.requested
                                       THEN (@ \ {p}) \cup {Other(p)} ELSE @ \ {p}]
<1>1. Other(p) \in PSMs
  BY DEF Other, PSMs
<1>2. raised \in AppState
  BY <1>1 DEF AppState
<1> HIDE DEF raised
<1>3. [raised EXCEPT !.connecting = FALSE, !.connected = TRUE, !.disconnecting = FALSE,
                 !.reconnectPending = FALSE] \in AppState
  BY <1>2 DEF AppState
<1>4. QED
  BY <1>2, <1>3 DEF WithChannel, raised

LEMMA ReadType ==
  ASSUME NEW a \in AppState
  PROVE  AfterRead(a) \in AppState
<1>1. [a EXCEPT !.waiting = FALSE] \in AppState /\ a.saved \in Address
  BY DEF AppState
<1>2. ScheduleConnect([a EXCEPT !.waiting = FALSE], a.saved) \in AppState
  BY <1>1, CalledType
<1>3. ScheduleReconnect(a) \in AppState
  BY ScheduledType
<1>4. QED
  BY <1>1, <1>2, <1>3 DEF AfterRead

LEMMA ForgottenType ==
  ASSUME NEW a \in AppState
  PROVE  ForgetSaved(a) \in AppState
BY DEF ForgetSaved, AppState, Address

LEMMA StoppedType ==
  ASSUME NEW a \in AppState
  PROVE  Stop(a) \in AppState
BY DEF Stop, AppState

-----------------------------------------------------------------------------
(* What is put into the queue of events, or taken from it.                  *)

LEMMA EventType ==
  ASSUME NEW kind \in EventKinds, NEW d \in Address, NEW p \in PSMs, NEW ok \in BOOLEAN,
         kind = "connected" => d # NoDevice
  PROVE  Event(kind, d, p, ok) \in Told
BY DEF Event, Told, NamesDevice, EventRecord

LEMMA Single ==
  ASSUME NEW e \in Told
  PROVE  <<e>> \in Seq(Told)
OBVIOUS

LEMMA Queued ==
  ASSUME events \in Seq(Told), NEW e \in Told, Tell(e)
  PROVE  events' \in Seq(Told)
BY AppendProperties DEF Tell

LEMMA Taken ==
  ASSUME events \in Seq(Told), events # <<>>
  PROVE  /\ Rest \in Seq(Told) /\ Head(events) \in Told
         /\ Head(events).dev \in Address /\ Head(events).psm \in PSMs /\ Head(events).ok \in BOOLEAN
         /\ Head(events).kind = "connected" => Head(events).dev \in Devices
<1>1. Rest \in Seq(Told) /\ Head(events) \in Told
  BY HeadTailProperties DEF Rest
<1>2. QED
  BY <1>1 DEF Told, EventRecord, NamesDevice, Address

LEMMA NoticesType ==
  ASSUME NEW d \in Devices, NEW ps
  PROVE  Notices(d, ps) \in Seq(Told)
<1>1. \A p \in PSMs : ChannelEvent("disconnected", d, p) \in Told
  BY EventType DEF ChannelEvent, EventKinds, Address
<1>2. \A p \in PSMs : <<ChannelEvent("disconnected", d, p)>> \in Seq(Told)
  BY <1>1
<1>3. <<>> \in Seq(Told)
  OBVIOUS
<1> DEFINE Of(p) == IF p \in ps /\ channel[d][p] = "open"
                    THEN <<ChannelEvent("disconnected", d, p)>> ELSE <<>>
<1>4. Of("interrupt") \in Seq(Told) /\ Of("control") \in Seq(Told)
  BY <1>2, <1>3 DEF PSMs
<1> HIDE DEF Of
<1>5. Of("interrupt") \o Of("control") \in Seq(Told)
  BY <1>4, ConcatProperties
<1>6. QED
  BY <1>5 DEF Notices, Of

LEMMA DisconnType ==
  ASSUME NEW d \in Address, NEW ps, NEW queue \in Seq(Told), channel \in Channels,
         DisconnReq(d, ps, queue)
  PROVE  channel' \in Channels /\ events' \in Seq(Told)
<1>1. CASE d = NoDevice
  BY <1>1 DEF DisconnReq
<1>2. CASE d # NoDevice
  <2>1. d \in Devices
    BY <1>2 DEF Address
  <2>2. channel' \in Channels
    BY <1>2, <2>1 DEF DisconnReq, Closed, Channels, PSMs
  <2>3. queue \o Notices(d, ps) \in Seq(Told)
    BY <2>1, NoticesType, ConcatProperties
  <2>4. QED
    BY <1>2, <2>2, <2>3 DEF DisconnReq
<1>3. QED
  BY <1>1, <1>2

-----------------------------------------------------------------------------
(* Every step keeps the types.                                              *)

LEMMA InitTypes == Init => TypeInv
<1> SUFFICES ASSUME Init PROVE TypeInv
  OBVIOUS
<1>1. app \in AppState
  BY DEF Init, AppState, Address
<1>2. channel \in Channels /\ events \in Seq(Told)
  BY DEF Init, Channels
<1>3. OthersOK
  <2>1. bond \in Address /\ managed \in BOOLEAN
    BY Ds5LinkAssumption DEF Init, Address
  <2>2. inquiry \in BOOLEAN /\ security = {} /\ stopped \in BOOLEAN
    BY DEF Init
  <2>3. incidents \in 0 .. MaxIncidents /\ calls \in 0 .. MaxCalls
    BY Ds5LinkAssumption DEF Init
  <2>4. QED
    BY <2>1, <2>2, <2>3 DEF OthersOK
<1>4. QED
  BY <1>1, <1>2, <1>3 DEF Init, TypeInv, StepTypes

LEMMA IncidentTypes ==
  ASSUME OthersOK, Incident
  PROVE  incidents' \in 0 .. MaxIncidents /\ calls' \in 0 .. MaxCalls
BY Ds5LinkAssumption DEF OthersOK, Incident

(* What the stack and the controllers do to a channel.                      *)
LEMMA ChannelTypes ==
  ASSUME StepTypes, NEW d \in Devices, NEW p \in PSMs,
         Opens(d, p) \/ FailsToOpen(d, p) \/ LosesChannel(d, p) \/ ConnInd(d, p)
  PROVE  StepTypes'
<1>1. /\ ChannelEvent("connected", d, p) \in Told /\ ChannelEvent("failed", d, p) \in Told
      /\ ChannelEvent("disconnected", d, p) \in Told
  BY EventType, Ds5LinkAssumption DEF ChannelEvent, EventKinds, Address
<1>2. CASE Opens(d, p)
  <2>1. channel' \in Channels
    BY <1>2 DEF Opens, StepTypes, Channels
  <2>2. events' \in Seq(Told)
    BY <1>1, <1>2, Queued DEF Opens, StepTypes
  <2>3. QED
    BY <1>2, <2>1, <2>2 DEF Opens, StepTypes, OthersOK, stackVars, bounds
<1>3. CASE FailsToOpen(d, p)
  <2>1. channel' \in Channels
    BY <1>3 DEF FailsToOpen, StepTypes, Channels
  <2>2. events' \in Seq(Told)
    BY <1>1, <1>3, Queued DEF FailsToOpen, StepTypes
  <2>3. incidents' \in 0 .. MaxIncidents /\ calls' \in 0 .. MaxCalls
    BY <1>3, IncidentTypes DEF FailsToOpen, StepTypes
  <2>4. QED
    BY <1>3, <2>1, <2>2, <2>3 DEF FailsToOpen, StepTypes, OthersOK, stackVars
<1>4. CASE LosesChannel(d, p)
  <2>1. channel' \in Channels
    BY <1>4 DEF LosesChannel, StepTypes, Channels
  <2>2. events' \in Seq(Told)
    BY <1>1, <1>4, Queued DEF LosesChannel, StepTypes
  <2>3. incidents' \in 0 .. MaxIncidents /\ calls' \in 0 .. MaxCalls
    BY <1>4, IncidentTypes DEF LosesChannel, StepTypes
  <2>4. QED
    BY <1>4, <2>1, <2>2, <2>3 DEF LosesChannel, StepTypes, OthersOK, stackVars
<1>5. CASE ConnInd(d, p)
  <2>1. channel' \in Channels
    BY <1>5 DEF ConnInd, StepTypes, Channels
  <2>2. app' \in AppState
    BY <1>5, ZenonT(40) DEF ConnInd, StepTypes, AppState, Address
  <2>3. incidents' \in 0 .. MaxIncidents /\ calls' \in 0 .. MaxCalls
    BY <1>5, IncidentTypes DEF ConnInd, StepTypes
  <2>4. QED
    BY <1>5, <2>1, <2>2, <2>3 DEF ConnInd, StepTypes, OthersOK, stackVars
<1>6. QED
  BY <1>2, <1>3, <1>4, <1>5

(* What they do to a device.                                                *)
LEMMA DeviceTypes ==
  ASSUME StepTypes, NEW d \in Devices, LosesDevice(d) \/ LosesKey(d) \/ Finds(d)
  PROVE  StepTypes'
<1>1. \A kind \in EventKinds \ {"connected"} : DeviceEvent(kind, d, TRUE) \in Told
  BY EventType DEF DeviceEvent, Address, PSMs
<1>2. CASE LosesDevice(d)
  <2> DEFINE Of(p) == CASE channel[d][p] = "open" -> <<ChannelEvent("disconnected", d, p)>>
                        [] channel[d][p] = "opening" -> <<ChannelEvent("failed", d, p)>>
                        [] OTHER -> <<>>
             told == Of("interrupt") \o Of("control")
  <2>1. \A p \in PSMs : /\ ChannelEvent("disconnected", d, p) \in Told
                        /\ ChannelEvent("failed", d, p) \in Told
    BY EventType DEF ChannelEvent, EventKinds, Address
  <2>2. Of("interrupt") \in Seq(Told) /\ Of("control") \in Seq(Told)
    BY <2>1, Single DEF PSMs
  <2> HIDE DEF Of
  <2>3. told \in Seq(Told)
    BY <2>2, ConcatProperties
  <2> HIDE DEF told
  <2>4. DeviceEvent("aclGone", d, TRUE) \in Told
    BY <1>1 DEF EventKinds
  <2>5. events \o told \in Seq(Told)
    BY <2>3, ConcatProperties DEF StepTypes
  <2>6. (events \o told) \o <<DeviceEvent("aclGone", d, TRUE)>> \in Seq(Told)
    <3>1. <<DeviceEvent("aclGone", d, TRUE)>> \in Seq(Told)
      BY <2>4, Single
    <3>2. QED
      BY <2>5, <3>1, ConcatProperties
  <2>7. events' = events \o told \o <<DeviceEvent("aclGone", d, TRUE)>>
    BY <1>2 DEF LosesDevice, told, Of
  <2>8. channel' \in Channels
    BY <1>2 DEF LosesDevice, StepTypes, Channels, PSMs
  <2>9. incidents' \in 0 .. MaxIncidents /\ calls' \in 0 .. MaxCalls
    BY <1>2, IncidentTypes DEF LosesDevice, StepTypes
  <2>10. QED
    BY <1>2, <2>6, <2>7, <2>8, <2>9 DEF LosesDevice, StepTypes, OthersOK
<1>3. CASE LosesKey(d)
  <2>1. events' \in Seq(Told)
    BY <1>1, <1>3, Queued DEF LosesKey, StepTypes, EventKinds
  <2>2. incidents' \in 0 .. MaxIncidents /\ calls' \in 0 .. MaxCalls
    BY <1>3, IncidentTypes DEF LosesKey, StepTypes
  <2>3. QED
    BY <1>3, <2>1, <2>2 DEF LosesKey, StepTypes, OthersOK, Address
<1>4. CASE Finds(d)
  <2>1. events' \in Seq(Told)
    BY <1>1, <1>4, Queued DEF Finds, StepTypes, EventKinds
  <2>2. incidents' \in 0 .. MaxIncidents /\ calls' \in 0 .. MaxCalls
    BY <1>4, IncidentTypes DEF Finds, StepTypes
  <2>3. QED
    BY <1>4, <2>1, <2>2 DEF Finds, StepTypes, OthersOK, stackVars
<1>5. QED
  BY <1>2, <1>3, <1>4

(* What they answer.                                                        *)
LEMMA AnswerTypes ==
  ASSUME StepTypes, NEW step \in {"open", "auth", "encrypt"}, NEW ok \in BOOLEAN,
         NEW kind \in EventKinds \ {"connected"}, Answers(step, kind, ok)
  PROVE  StepTypes'
<1>1. DeviceEvent(kind, app.candidate, ok) \in Told
  BY EventType DEF DeviceEvent, PSMs, StepTypes, AppState
<1>2. events' \in Seq(Told)
  BY <1>1, Queued DEF Answers, StepTypes
<1>3. incidents' \in 0 .. MaxIncidents /\ calls' \in 0 .. MaxCalls
  BY IncidentTypes DEF Answers, StepTypes, bounds, OthersOK
<1>4. QED
  BY <1>2, <1>3 DEF Answers, StepTypes, OthersOK

LEMMA OtherStackTypes ==
  ASSUME StepTypes,
         \/ Registered \/ ReadsBonds \/ EndsInquiry
         \/ \E d \in Devices, ok \in BOOLEAN : Bonds(d, ok)
  PROVE  StepTypes'
<1>1. CASE Registered
  <2>1. app' \in AppState
    BY <1>1 DEF Registered, StepTypes, AppState
  <2>2. QED
    BY <1>1, <2>1 DEF Registered, StepTypes, OthersOK, stackVars, bounds
<1>2. CASE ReadsBonds
  <2>1. DeviceEvent("records", bond, TRUE) \in Told
    BY EventType DEF DeviceEvent, PSMs, EventKinds, StepTypes, OthersOK
  <2>2. events' \in Seq(Told)
    BY <1>2, <2>1, Queued DEF ReadsBonds, StepTypes
  <2>3. QED
    BY <1>2, <2>2 DEF ReadsBonds, StepTypes, OthersOK, stackVars, bounds
<1>3. CASE EndsInquiry
  <2>1. DeviceEvent("discoveryDone", NoDevice, TRUE) \in Told
    BY EventType DEF DeviceEvent, PSMs, EventKinds, Address
  <2>2. events' \in Seq(Told)
    BY <1>3, <2>1, Queued DEF EndsInquiry, StepTypes
  <2>3. QED
    BY <1>3, <2>2 DEF EndsInquiry, StepTypes, OthersOK, bounds
<1>4. ASSUME NEW d \in Devices, NEW ok \in BOOLEAN, Bonds(d, ok) PROVE StepTypes'
  <2>1. DeviceEvent("paired", d, ok) \in Told
    BY EventType DEF DeviceEvent, PSMs, EventKinds, Address
  <2>2. events' \in Seq(Told)
    BY <1>4, <2>1, Queued DEF Bonds, StepTypes
  <2>3. incidents' \in 0 .. MaxIncidents /\ calls' \in 0 .. MaxCalls
    BY <1>4, IncidentTypes DEF Bonds, StepTypes
  <2>4. bond' \in Address
    BY <1>4 DEF Bonds, StepTypes, OthersOK, Address
  <2>5. QED
    BY <1>4, <2>2, <2>3, <2>4 DEF Bonds, StepTypes, OthersOK
<1>5. QED
  BY <1>1, <1>2, <1>3, <1>4

LEMMA StackTypes ==
  ASSUME StepTypes, StackStep
  PROVE  StepTypes'
<1>1. {"aclOpen", "auth", "encrypted"} \subseteq EventKinds \ {"connected"}
  BY DEF EventKinds
<1>2. QED
  BY <1>1, ChannelTypes, DeviceTypes, AnswerTypes, OtherStackTypes DEF StackStep

(* The handler takes an event, and leaves most of the rest alone.           *)
LEMMA HandledTypes ==
  ASSUME StepTypes, NEW a \in AppState, events # <<>>, OnlyApp(a)
  PROVE  StepTypes'
BY Taken DEF OnlyApp, StepTypes, OthersOK, stackVars, bounds

LEMMA ChannelHandlerTypes ==
  ASSUME StepTypes, HandleConnected \/ HandleDisconnected \/ HandleFailed
  PROVE  StepTypes'
<1> DEFINE d == Head(events).dev  p == Head(events).psm
<1>1. events # <<>>
  BY DEF HandleConnected, HandleDisconnected, HandleFailed, Handle
<1>2. Rest \in Seq(Told) /\ d \in Address /\ p \in PSMs
  BY <1>1, Taken DEF StepTypes
<1>3. app.active \in Address
  BY DEF StepTypes, AppState
<1> DEFINE Typed == app' \in AppState /\ channel' \in Channels /\ events' \in Seq(Told)
<1>4. CASE HandleConnected
  <2> HIDE DEF d, p
  <2>1. app' \in {app, Teardown(app, TRUE), WithChannel(app, d, p)}
    BY <1>4 DEF HandleConnected, d, p
  <2>2. app' \in AppState
    BY <1>2, <2>1, TornDownType, UpType DEF StepTypes
  <2>3. \/ \E ps : DisconnReq(d, ps, Rest)
        \/ channel' = channel /\ events' = Rest
    BY <1>4 DEF HandleConnected, d, p
  <2>4. Typed
    BY <1>2, <2>2, <2>3, DisconnType DEF StepTypes
  <2>5. QED
    BY <1>4, <2>4 DEF HandleConnected, StepTypes, OthersOK, stackVars, bounds
<1>5. CASE HandleDisconnected
  <2>1. /\ app' \in {app, Teardown(app, ~app.disconnecting)}
        /\ \/ DisconnReq(app.active, PSMs, Rest)
           \/ channel' = channel /\ events' = Rest
    BY <1>5 DEF HandleDisconnected
  <2>2. Typed
    BY <1>2, <1>3, <2>1, TornDownType, DisconnType DEF StepTypes
  <2>3. QED
    BY <1>5, <2>2 DEF HandleDisconnected, StepTypes, OthersOK, stackVars, bounds
<1>6. CASE HandleFailed
  <2>1. /\ app' \in {app, Teardown(app, TRUE)}
        /\ \/ DisconnReq(app.active, PSMs, Rest)
           \/ channel' = channel /\ events' = Rest
    BY <1>6 DEF HandleFailed
  <2>2. Typed
    BY <1>2, <1>3, <2>1, TornDownType, DisconnType DEF StepTypes
  <2>3. QED
    BY <1>6, <2>2 DEF HandleFailed, StepTypes, OthersOK, stackVars, bounds
<1>7. QED
  BY <1>4, <1>5, <1>6

LEMMA LossHandlerTypes ==
  ASSUME StepTypes, HandleAclGone \/ HandleFound \/ HandleDiscoveryDone
  PROVE  StepTypes'
<1>1. events # <<>> /\ Head(events).dev \in Address
  BY Taken DEF HandleAclGone, HandleFound, HandleDiscoveryDone, Handle, StepTypes
<1>2. CASE HandleAclGone
  <2>1. app.candidate \in Address /\ app.disconnecting \in BOOLEAN
    BY DEF StepTypes, AppState
  <2>2. /\ PairComplete(app, app.candidate, FALSE) \in AppState
        /\ Teardown(app, ~app.disconnecting) \in AppState
    BY <2>1, CompleteType, TornDownType DEF StepTypes
  <2>3. PICK a \in AppState : OnlyApp(a)
    BY <1>2, <2>2 DEF HandleAclGone, StepTypes
  <2>4. QED
    BY <1>1, <2>3, HandledTypes
<1>3. CASE HandleFound
  <2>1. [app EXCEPT !.candidate = Head(events).dev, !.candidateValid = TRUE,
                    !.todo = @ \cup {"stopDiscovery"}] \in AppState
    BY <1>1 DEF StepTypes, AppState
  <2>2. PICK a \in AppState : OnlyApp(a)
    BY <1>3, <2>1 DEF HandleFound, StepTypes
  <2>3. QED
    BY <1>1, <2>2, HandledTypes
<1>4. CASE HandleDiscoveryDone
  <2> DEFINE a == [app EXCEPT !.discovering = FALSE,
                              !.todo = IF ~app.wantPairing THEN @
                                       ELSE @ \cup {IF app.candidateValid THEN "pair"
                                                    ELSE "startDiscovery"}]
  <2>1. a \in AppState
    BY DEF StepTypes, AppState
  <2>2. OnlyApp(a)
    BY <1>4 DEF HandleDiscoveryDone
  <2>3. QED
    BY <1>1, <2>1, <2>2, HandledTypes
<1>5. QED
  BY <1>2, <1>3, <1>4

LEMMA AnswerHandlerTypes ==
  ASSUME StepTypes,
         \/ HandleAnswer("aclOpen", "auth") \/ HandleAnswer("auth", "encrypt")
         \/ HandleAnswer("encrypted", "none")
  PROVE  StepTypes'
<1> DEFINE Asks(next) == [app EXCEPT !.todo = @ \cup {next}]
           complete == PairComplete(app, Head(events).dev, Head(events).ok)
<1>1. /\ events # <<>> /\ Head(events).dev \in Address /\ Head(events).ok \in BOOLEAN
  BY Taken DEF HandleAnswer, Handle, StepTypes
<1>2. Asks("auth") \in AppState /\ Asks("encrypt") \in AppState
  BY DEF StepTypes, AppState
<1>3. complete \in AppState
  BY <1>1, CompleteType DEF StepTypes
<1> HIDE DEF Asks, complete
<1>4. OnlyApp(app) \/ OnlyApp(Asks("auth")) \/ OnlyApp(Asks("encrypt")) \/ OnlyApp(complete)
  BY DEF HandleAnswer, Asks, complete
<1>5. QED
  BY <1>1, <1>2, <1>3, <1>4, HandledTypes DEF StepTypes

LEMMA BondHandlerTypes ==
  ASSUME StepTypes, HandlePaired \/ HandleRecords \/ HandleKeyMissing \/ HandleUnpaired
  PROVE  StepTypes'
<1>1. /\ events # <<>> /\ Head(events).dev \in Address /\ Head(events).ok \in BOOLEAN
      /\ Rest \in Seq(Told)
  BY Taken DEF HandlePaired, HandleRecords, HandleKeyMissing, HandleUnpaired, Handle, StepTypes
<1>2. CASE HandlePaired
  <2>1. [app EXCEPT !.saved = Head(events).dev] \in AppState
    BY <1>1 DEF StepTypes, AppState
  <2>2. PairComplete(app, Head(events).dev, Head(events).ok) \in AppState
    BY <1>1, CompleteType DEF StepTypes
  <2>3. app' \in AppState
    BY <1>2, <2>1, <2>2 DEF HandlePaired
  <2>4. QED
    BY <1>1, <1>2, <2>3 DEF HandlePaired, StepTypes, OthersOK, stackVars, bounds
<1>3. CASE HandleRecords
  <2> DEFINE read == [app EXCEPT !.reading = FALSE,
                                 !.saved = IF @ = NoDevice THEN Head(events).dev ELSE @]
  <2>1. read \in AppState
    BY <1>1 DEF StepTypes, AppState
  <2> HIDE DEF read
  <2>2. AfterRead(read) \in AppState
    BY <2>1, ReadType
  <2>3. OnlyApp(AfterRead(read))
    BY <1>3 DEF HandleRecords, read
  <2>4. QED
    BY <1>1, <2>2, <2>3, HandledTypes
<1>4. CASE HandleKeyMissing \/ HandleUnpaired
  <2>1. OnlyApp(app) \/ OnlyApp(ForgetSaved(app))
    BY <1>4 DEF HandleKeyMissing, HandleUnpaired
  <2>2. QED
    BY <1>1, <2>1, ForgottenType, HandledTypes DEF StepTypes
<1>5. QED
  BY <1>2, <1>3, <1>4

LEMMA HandlerTypes ==
  ASSUME StepTypes, EventHandlerStep
  PROVE  StepTypes'
BY ChannelHandlerTypes, LossHandlerTypes, AnswerHandlerTypes, BondHandlerTypes
   DEF EventHandlerStep

(* A call changes the application's state, and is counted.                  *)
LEMMA CallTypes ==
  ASSUME StepTypes, NEW a \in AppState, NEW stop \in BOOLEAN, Call(a, stop),
         channel' \in Channels, events' \in Seq(Told), bond' \in Address
  PROVE  StepTypes'
BY Ds5LinkAssumption DEF Call, StepTypes, OthersOK

LEMMA SilentCallTypes ==
  ASSUME StepTypes, NEW a \in AppState, NEW stop \in BOOLEAN, SilentCall(a, stop)
  PROVE  StepTypes'
BY CallTypes DEF SilentCall, StepTypes, OthersOK

LEMMA SettingTypes ==
  ASSUME StepTypes,
         \/ \E d \in Devices : SetSavedAddress(d)
         \/ ClearSavedAddress \/ EnableReconnect \/ DisableReconnect
  PROVE  StepTypes'
<1>1. stopped \in BOOLEAN /\ app \in AppState /\ bond \in Address
  BY DEF StepTypes, OthersOK
<1>2. ASSUME NEW d \in Devices, SetSavedAddress(d) PROVE StepTypes'
  <2> DEFINE saved == [app EXCEPT !.saved = d, !.injected = TRUE, !.waiting = FALSE]
  <2>1. saved \in AppState
    BY <1>1 DEF AppState, Address
  <2> HIDE DEF saved
  <2>2. SilentCall(saved, stopped) \/ SilentCall(ScheduleReconnect(saved), stopped)
    BY <1>2 DEF SetSavedAddress, saved
  <2>3. QED
    BY <1>1, <2>1, <2>2, ScheduledType, SilentCallTypes
<1>3. CASE ClearSavedAddress
  <2>1. [ForgetSaved(app) EXCEPT !.waiting = FALSE] \in AppState
    BY <1>1, ForgottenType DEF AppState
  <2>2. QED
    BY <1>1, <1>3, <2>1, SilentCallTypes DEF ClearSavedAddress
<1>4. CASE EnableReconnect
  <2> DEFINE on == [app EXCEPT !.autoReconnect = TRUE, !.suppressed = FALSE]
             known == IF on.saved = NoDevice THEN LoadSaved(on) ELSE on
  <2>1. on \in AppState
    BY <1>1 DEF AppState
  <2> HIDE DEF on
  <2>2. known \in AppState
    BY <1>1, <2>1, LoadedType
  <2> HIDE DEF known
  <2>3. [known EXCEPT !.readWanted = TRUE] \in AppState
    BY <2>2 DEF AppState
  <2>4. \E a \in {known, ScheduleReconnect(known), [known EXCEPT !.readWanted = TRUE]} :
          SilentCall(a, FALSE)
    BY <1>4 DEF EnableReconnect, known, on
  <2>5. QED
    BY <2>2, <2>3, <2>4, ScheduledType, SilentCallTypes
<1>5. CASE DisableReconnect
  <2>1. [app EXCEPT !.autoReconnect = FALSE, !.suppressed = FALSE,
                    !.reconnectPending = FALSE] \in AppState
    BY <1>1 DEF AppState
  <2>2. QED
    BY <1>5, <2>1, SilentCallTypes DEF DisableReconnect
<1>6. QED
  BY <1>2, <1>3, <1>4, <1>5

LEMMA LinkCallTypes ==
  ASSUME StepTypes, StartPairing \/ ConnectSaved \/ Disconnect \/ Forget
  PROVE  StepTypes'
<1>1. /\ stopped \in BOOLEAN /\ app \in AppState /\ bond \in Address /\ channel \in Channels
      /\ events \in Seq(Told) /\ app.active \in Address
  BY DEF StepTypes, OthersOK, AppState
<1>2. CASE StartPairing
  <2> DEFINE t == (app.todo \ {"pair", "auth", "encrypt"})
                    \cup IF app.registered THEN {"startDiscovery"} ELSE {}
             a == [app EXCEPT !.wantPairing = TRUE, !.candidateValid = FALSE,
                              !.reconnectPending = FALSE, !.waiting = FALSE, !.todo = t]
  <2>1. t \in SUBSET {"stopDiscovery", "pair", "auth", "encrypt", "startDiscovery"}
    BY <1>1 DEF AppState
  <2> HIDE DEF t
  <2>2. a \in AppState
    BY <1>1, <2>1 DEF AppState
  <2>3. SilentCall(a, FALSE)
    BY <1>2 DEF StartPairing, t
  <2>4. QED
    BY <2>2, <2>3, SilentCallTypes
<1>3. CASE ConnectSaved
  <2> DEFINE resumed == [app EXCEPT !.suppressed = FALSE, !.reconnectPending = FALSE]
             known == IF app.saved = NoDevice THEN LoadSaved(resumed) ELSE resumed
  <2>1. resumed \in AppState
    BY <1>1 DEF AppState
  <2> HIDE DEF resumed
  <2>2. known \in AppState
    BY <1>1, <2>1, LoadedType
  <2> HIDE DEF known
  <2>3. [known EXCEPT !.waiting = TRUE, !.readWanted = TRUE] \in AppState /\ known.saved \in Address
    BY <2>2 DEF AppState
  <2>4. \E a \in {ScheduleConnect(known, known.saved),
                  [known EXCEPT !.waiting = TRUE, !.readWanted = TRUE]} : SilentCall(a, FALSE)
    BY <1>3 DEF ConnectSaved, known, resumed
  <2>5. QED
    BY <2>2, <2>3, <2>4, CalledType, SilentCallTypes
<1>4. CASE Disconnect
  <2>1. Stop(app) \in AppState /\ NoPairing(app) \in BOOLEAN
    BY <1>1, StoppedType DEF NoPairing
  <2>2. channel' \in Channels /\ events' \in Seq(Told)
    BY <1>1, <1>4, DisconnType DEF Disconnect
  <2>3. QED
    BY <1>1, <1>4, <2>1, <2>2, CallTypes DEF Disconnect
<1>5. CASE Forget
  <2> DEFINE off == [app EXCEPT !.suppressed = TRUE, !.reconnectPending = FALSE]
             known == IF app.saved = NoDevice THEN LoadSaved(off) ELSE off
             gone == IF CanDisconnect(known) THEN Stop(known) ELSE known
             d == IF CanDisconnect(known) THEN known.active ELSE NoDevice
  <2>1. off \in AppState
    BY <1>1 DEF AppState
  <2> HIDE DEF off
  <2>2. known \in AppState
    BY <1>1, <2>1, LoadedType
  <2> HIDE DEF known
  <2>3. gone \in AppState /\ known.saved \in Address /\ d \in Address
    BY <2>2, StoppedType DEF AppState, Address
  <2> HIDE DEF gone, d
  <2>4. [gone EXCEPT !.saved = NoDevice, !.injected = FALSE] \in AppState
    BY <2>3 DEF AppState, Address
  <2>5. CASE known.saved = NoDevice
    BY <1>1, <1>5, <2>2, <2>5, SilentCallTypes DEF Forget, known, off
  <2>6. CASE known.saved # NoDevice
    <3>1. /\ Call([gone EXCEPT !.saved = NoDevice, !.injected = FALSE], NoPairing(app))
          /\ bond' = (IF bond = known.saved THEN NoDevice ELSE bond)
          /\ \E said \in {<<>>, <<DeviceEvent("unpaired", known.saved, TRUE)>>} :
               DisconnReq(d, PSMs, events \o said)
      BY <1>5, <2>6 DEF Forget, known, off, gone, d
    <3>2. DeviceEvent("unpaired", known.saved, TRUE) \in Told
      BY <2>3, EventType DEF DeviceEvent, PSMs, EventKinds
    <3>3. PICK said \in {<<>>, <<DeviceEvent("unpaired", known.saved, TRUE)>>} :
            DisconnReq(d, PSMs, events \o said)
      BY <3>1
    <3>4. said \in Seq(Told)
      BY <3>2, <3>3, Single, EmptySeq
    <3>5. events \o said \in Seq(Told)
      BY <1>1, <3>4, ConcatProperties
    <3>6. channel' \in Channels /\ events' \in Seq(Told)
      BY <1>1, <2>3, <3>3, <3>5, DisconnType
    <3>7. NoPairing(app) \in BOOLEAN /\ bond' \in Address
      BY <1>1, <3>1 DEF NoPairing, Address
    <3>8. QED
      BY <2>4, <3>1, <3>6, <3>7, CallTypes
  <2>7. QED
    BY <2>5, <2>6
<1>6. QED
  BY <1>2, <1>3, <1>4, <1>5

LEMMA ApplicationTypes ==
  ASSUME StepTypes, ApplicationStep
  PROVE  StepTypes'
BY SettingTypes, LinkCallTypes DEF ApplicationStep

(* A pass of the poll.                                                      *)
LEMMA PassTypes ==
  ASSUME StepTypes, NEW a \in AppState, Pass(a),
         channel' \in Channels, events' \in Seq(Told), inquiry' \in BOOLEAN,
         security' \subseteq {"open", "auth", "encrypt"}
  PROVE  StepTypes'
BY DEF Pass, StepTypes, OthersOK, bounds

LEMMA DoneType ==
  ASSUME NEW w, app \in AppState
  PROVE  Done(w) \in AppState
BY DEF Done, AppState

LEMMA PollTypes ==
  ASSUME StepTypes, PollStep
  PROVE  StepTypes'
<1>1. /\ app \in AppState /\ channel \in Channels /\ events \in Seq(Told) /\ inquiry \in BOOLEAN
      /\ bond \in Address
      /\ security \subseteq {"open", "auth", "encrypt"} /\ app.active \in Address
      /\ app.saved \in Address /\ app.candidate \in Address
  BY DEF StepTypes, OthersOK, AppState
<1>2. CASE ReadSaved
  <2> DEFINE read == [app EXCEPT !.readWanted = FALSE]
  <2>1. read \in AppState
    BY <1>1 DEF AppState
  <2> HIDE DEF read
  <2>2. AfterRead(LoadSaved(read)) \in AppState /\ [read EXCEPT !.reading = TRUE] \in AppState
    <3>1. [read EXCEPT !.reading = TRUE] \in AppState
      BY <2>1 DEF AppState
    <3>2. QED
      BY <1>1, <2>1, <3>1, LoadedType, ReadType
  <2>3. \E a \in {AfterRead(LoadSaved(read)), [read EXCEPT !.reading = TRUE]} : Pass(a)
    BY <1>2 DEF ReadSaved, read
  <2>4. UNCHANGED <<channel, events, inquiry, security>>
    BY <1>2 DEF ReadSaved
  <2>5. QED
    BY <1>1, <2>2, <2>3, <2>4, PassTypes
<1>3. CASE Reconnect
  <2>1. [app EXCEPT !.reconnectPending = FALSE] \in AppState
    BY <1>1 DEF AppState
  <2>2. ScheduleConnect(app, app.saved) \in AppState
    BY <1>1, CalledType
  <2>3. \E a \in {[app EXCEPT !.reconnectPending = FALSE], ScheduleConnect(app, app.saved)} : Pass(a)
    BY <1>3 DEF Reconnect
  <2>4. UNCHANGED <<channel, events, inquiry, security>>
    BY <1>3 DEF Reconnect
  <2>5. QED
    BY <1>1, <2>1, <2>2, <2>3, <2>4, PassTypes
<1>4. CASE StopDiscovery
  <2>1. DeviceEvent("discoveryDone", NoDevice, TRUE) \in Told
    BY EventType DEF DeviceEvent, PSMs, EventKinds, Address
  <2>2. events' \in Seq(Told)
    BY <1>1, <1>4, <2>1, AppendProperties DEF StopDiscovery
  <2>3. QED
    BY <1>1, <1>4, <2>2, DoneType, PassTypes DEF StopDiscovery
<1>5. CASE BeginPairing
  <2>1. [Done("pair") EXCEPT !.pairing = TRUE, !.active = app.candidate] \in AppState
    BY <1>1, DoneType DEF AppState
  <2>2. security' \subseteq {"open", "auth", "encrypt"}
    BY <1>1, <1>5 DEF BeginPairing
  <2>3. QED
    BY <1>1, <1>5, <2>1, <2>2, PassTypes DEF BeginPairing
<1>6. ASSUME NEW step \in {"auth", "encrypt"}, Secure(step) PROVE StepTypes'
  <2>1. security' \subseteq {"open", "auth", "encrypt"}
    BY <1>1, <1>6 DEF Secure
  <2>2. QED
    BY <1>1, <1>6, <2>1, DoneType, PassTypes DEF Secure
<1>7. CASE StartDiscovery
  <2>1. [Done("startDiscovery") EXCEPT !.discovering = TRUE] \in AppState
    BY <1>1, DoneType DEF AppState
  <2>2. QED
    BY <1>1, <1>7, <2>1, PassTypes DEF StartDiscovery
<1>8. CASE NoteDiscovery
  <2>1. [app EXCEPT !.todo = @ \cup {"startDiscovery"}] \in AppState
    BY <1>1 DEF AppState
  <2>2. QED
    BY <1>1, <1>8, <2>1, PassTypes DEF NoteDiscovery
<1>9. ASSUME NEW p \in PSMs, OpenChannel(p) PROVE StepTypes'
  <2>1. app.active \in Devices
    BY <1>1, <1>9 DEF OpenChannel, Turn, HasWork, MayOpen, PSMs, Address
  <2>2. [app EXCEPT !.pending = @ \ {p}, !.requested = @ \cup {p}] \in AppState
    BY <1>1, <1>9 DEF AppState
  <2>3. channel' \in Channels
    BY <1>1, <1>9, <2>1 DEF OpenChannel, Channels
  <2>4. /\ ChannelEvent("connected", app.active, p) \in Told
        /\ ChannelEvent("failed", app.active, p) \in Told
    BY <2>1, EventType, Ds5LinkAssumption DEF ChannelEvent, EventKinds, Address
  <2>5. events' \in Seq(Told)
    BY <1>1, <1>9, <2>4, AppendProperties, SMTT(30) DEF OpenChannel
  <2>6. QED
    BY <1>1, <1>9, <2>2, <2>3, <2>5, PassTypes DEF OpenChannel
<1>10. QED
  BY <1>2, <1>3, <1>4, <1>5, <1>6, <1>7, <1>8, <1>9 DEF PollStep, PSMs

LEMMA TypesKept == TypeInv /\ [Next]_vars => TypeInv'
<1> SUFFICES ASSUME TypeInv, [Next]_vars PROVE TypeInv'
  OBVIOUS
<1>1. CASE UNCHANGED vars
  BY <1>1 DEF vars, TypeInv, StepTypes, OthersOK
<1>2. CASE Next
  <2>1. /\ StackStep \/ EventHandlerStep \/ ApplicationStep \/ PollStep
        /\ Remember
    BY <1>2 DEF Next, Stack, EventHandler, Application, Poll
  <2>2. StepTypes'
    BY <2>1, StackTypes, HandlerTypes, ApplicationTypes, PollTypes DEF TypeInv
  <2>3. mixups' \subseteq Mixups
    BY <2>1 DEF Remember, TypeInv
  <2>4. QED
    BY <2>2, <2>3 DEF TypeInv
<1>3. QED
  BY <1>1, <1>2

(* The variables keep their types, and every event of a channel names its   *)
(* device.                                                                  *)
THEOREM LinkTypeCorrect == Spec => []TypeOK
<1>1. TypeInv => TypeOK
  <2>1. events \in Seq(Told) => events \in Seq(EventRecord)
    BY SeqMonotonic DEF Told
  <2>2. QED
    BY <2>1 DEF TypeInv, StepTypes, OthersOK, TypeOK, EventRecord, Channels
<1>2. QED
  BY <1>1, InitTypes, TypesKept, PTL DEF Spec

-----------------------------------------------------------------------------
(* The link.  A channel is one of the active device, there is none when     *)
(* nothing is up, on its way or being closed, and with both the link is up. *)

Linked(a) ==
  /\ \A p \in PSMs : a.cid[p] # NoDevice => a.active = a.cid[p]
  /\ \A p \in PSMs : a.cid[p] # NoDevice => a.connected \/ a.connecting \/ a.disconnecting
  /\ a.connected <=> \A p \in PSMs : a.cid[p] # NoDevice

(* Steps that do not touch it.                                              *)
SameLink(a, b) ==
  /\ b.cid = a.cid /\ b.active = a.active /\ b.connected = a.connected
  /\ b.connecting = a.connecting /\ b.disconnecting = a.disconnecting

LinkInv == mixups \subseteq {"foreignLoss", "leftOver"} => Linked(app)
WholeInv == TypeInv /\ LinkInv

LEMMA SameIsLinked ==
  ASSUME NEW a \in AppState, NEW b \in AppState, Linked(a), SameLink(a, b)
  PROVE  Linked(b)
BY DEF Linked, SameLink

LEMMA SameTwice ==
  ASSUME NEW a \in AppState, NEW b \in AppState, NEW c \in AppState, SameLink(a, b), SameLink(b, c)
  PROVE  SameLink(a, c)
BY DEF SameLink

LEMMA ClearedLink ==
  ASSUME NEW a \in AppState
  PROVE  Linked(ClearLink(a))
<1>1. /\ ClearLink(a).cid = [p \in PSMs |-> NoDevice]
      /\ ClearLink(a).connected = FALSE
  BY DEF ClearLink, AppState
<1>2. QED
  BY <1>1 DEF Linked, PSMs

LEMMA ScheduledLink ==
  ASSUME NEW a \in AppState
  PROVE  SameLink(a, ScheduleReconnect(a))
BY DEF ScheduleReconnect, SameLink, AppState

LEMMA TornDownLink ==
  ASSUME NEW a \in AppState, NEW unexpected \in BOOLEAN
  PROVE  Linked(Teardown(a, unexpected))
<1>1. ClearLink(a) \in AppState /\ ScheduleReconnect(ClearLink(a)) \in AppState
  BY ClearedType, ScheduledType
<1>2. Linked(ClearLink(a)) /\ Linked(ScheduleReconnect(ClearLink(a)))
  BY <1>1, ClearedLink, ScheduledLink, SameIsLinked
<1>3. QED
  BY <1>2 DEF Teardown

(* A call leaves a link whole when there is none to another device.         *)
LEMMA CalledLink ==
  ASSUME NEW a \in AppState, NEW d \in Address, Linked(a),
         \A p \in PSMs : a.cid[p] \in {NoDevice, d}
  PROVE  Linked(ScheduleConnect(a, d))
<1>1. /\ ScheduleConnect(a, d).cid = a.cid /\ ScheduleConnect(a, d).active = d
      /\ ScheduleConnect(a, d).connected = a.connected
      /\ ScheduleConnect(a, d).connecting = TRUE
  BY DEF ScheduleConnect, AppState
<1>2. QED
  BY <1>1 DEF Linked, AppState, PSMs

LEMMA NoChannelWhenIdle ==
  ASSUME NEW a \in AppState, Linked(a), Idle(a)
  PROVE  \A p \in PSMs : a.cid[p] = NoDevice
BY DEF Linked, Idle

(* A channel that comes up for a device allowed joins the link.             *)
LEMMA UpLink ==
  ASSUME NEW a \in AppState, NEW d \in Devices, NEW p \in PSMs, Linked(a),
         a.active \in {NoDevice, d}
  PROVE  Linked(WithChannel(a, d, p))
<1> DEFINE raised == [a EXCEPT !.active = d, !.connecting = TRUE, !.cid[p] = d,
                           !.requested = @ \ {p},
                           !.pending = IF a.cid[Other(p)] = NoDevice /\ Other(p) \notin a.requested
                                       THEN (@ \ {p}) \cup {Other(p)} ELSE @ \ {p}]
           joined == [raised EXCEPT !.connecting = FALSE, !.connected = TRUE, !.disconnecting = FALSE,
                                !.reconnectPending = FALSE]
<1>1. /\ Other(p) \in PSMs /\ Other(p) # p /\ PSMs = {p, Other(p)} /\ d # NoDevice
  BY Ds5LinkAssumption DEF Other, PSMs
<1>2. /\ raised \in AppState /\ raised.active = d /\ raised.connecting = TRUE /\ raised.connected = a.connected
      /\ raised.cid = [a.cid EXCEPT ![p] = d]
  BY <1>1 DEF AppState, Address
<1> HIDE DEF raised
<1>3. /\ joined.active = d /\ joined.connected = TRUE /\ joined.cid = raised.cid
  BY <1>2 DEF AppState
<1>4. raised.cid[p] = d /\ raised.cid[Other(p)] = a.cid[Other(p)] /\ a.cid[Other(p)] \in {NoDevice, d}
  BY <1>1, <1>2 DEF AppState, Linked
<1>5. WithChannel(a, d, p) = IF raised.cid[Other(p)] # NoDevice /\ ~a.connected THEN joined ELSE raised
  BY DEF WithChannel, raised
<1> HIDE DEF joined
<1>6. a.connected => a.cid[Other(p)] # NoDevice
  BY <1>1 DEF Linked
<1>7. CASE raised.cid[Other(p)] # NoDevice /\ ~a.connected
  BY <1>1, <1>3, <1>4, <1>5, <1>7 DEF Linked
<1>8. CASE ~(raised.cid[Other(p)] # NoDevice /\ ~a.connected)
  BY <1>1, <1>2, <1>4, <1>5, <1>6, <1>8 DEF Linked
<1>9. QED
  BY <1>7, <1>8

(* What else the operators do to it.                                        *)
LEMMA LoadedLink ==
  ASSUME NEW a \in AppState
  PROVE  SameLink(a, LoadSaved(a))
BY DEF LoadSaved, SameLink, AppState

LEMMA ForgottenLink ==
  ASSUME NEW a \in AppState
  PROVE  SameLink(a, ForgetSaved(a))
BY DEF ForgetSaved, SameLink, AppState

LEMMA StoppedLink ==
  ASSUME NEW a \in AppState, Linked(a)
  PROVE  Linked(Stop(a))
<1>1. /\ Stop(a).cid = a.cid /\ Stop(a).active = a.active /\ Stop(a).connected = a.connected
      /\ Stop(a).disconnecting = TRUE
  BY DEF Stop, AppState
<1>2. QED
  BY <1>1 DEF Linked

(* A bond made leaves the link alone, or calls the device when nothing but  *)
(* a link being closed is there.                                            *)
LEMMA CompleteLink ==
  ASSUME NEW a \in AppState, NEW d \in Address, NEW ok \in BOOLEAN, Linked(a)
  PROVE  \/ Linked(PairComplete(a, d, ok))
         \/ ok /\ a.disconnecting /\ a.active # d /\ PairComplete(a, d, ok).active = d
<1> DEFINE done == [a EXCEPT !.pairing = FALSE, !.wantPairing = FALSE, !.candidateValid = FALSE,
                             !.todo = @ \ {"pair", "auth", "encrypt"}]
           kept == [done EXCEPT !.saved = d, !.injected = FALSE]
<1>1. done \in AppState /\ SameLink(a, done)
  <2>1. done \in AppState
    BY DEF AppState
  <2>2. SameLink(a, done)
    BY DEF AppState, SameLink
  <2>3. QED
    BY <2>1, <2>2
<1> HIDE DEF done
<1>2. kept \in AppState /\ SameLink(done, kept)
  BY <1>1 DEF AppState, SameLink
<1> HIDE DEF kept
<1>3. Linked(done) /\ Linked(kept) /\ SameLink(a, kept)
  BY <1>1, <1>2, SameIsLinked, SameTwice
<1>4. Linked(ScheduleReconnect(done))
  BY <1>1, <1>3, ScheduledLink, ScheduledType, SameIsLinked
<1>5. CASE PairComplete(a, d, ok) \in {a, kept, ScheduleReconnect(done)}
  BY <1>3, <1>4, <1>5
<1>6. CASE ok /\ ~a.connected /\ ~a.connecting /\ PairComplete(a, d, ok) = ScheduleConnect(kept, d)
  <2>1. ScheduleConnect(kept, d).active = d
    BY <1>2 DEF ScheduleConnect, AppState
  <2>2. CASE \A p \in PSMs : kept.cid[p] \in {NoDevice, d}
    BY <1>2, <1>3, <1>6, <2>2, CalledLink
  <2>3. CASE \E p \in PSMs : kept.cid[p] \notin {NoDevice, d}
    BY <1>3, <1>6, <2>1, <2>3 DEF Linked, SameLink
  <2>4. QED
    BY <2>2, <2>3
<1>7. \/ PairComplete(a, d, ok) \in {a, kept, ScheduleReconnect(done)}
      \/ ok /\ ~a.connected /\ ~a.connecting /\ PairComplete(a, d, ok) = ScheduleConnect(kept, d)
  BY DEF PairComplete, done, kept
<1>8. QED
  BY <1>5, <1>6, <1>7

(* An answer to connect_saved leaves the link whole when there is none.     *)
LEMMA ReadLink ==
  ASSUME NEW a \in AppState, Linked(a)
  PROVE  \/ Linked(AfterRead(a))
         \/ a.waiting /\ a.active # NoDevice /\ ~AfterRead(a).waiting /\ AfterRead(a).connecting
<1> DEFINE b == [a EXCEPT !.waiting = FALSE]
<1>1. b \in AppState /\ SameLink(a, b) /\ b.saved = a.saved /\ b.waiting = FALSE /\ a.saved \in Address
  BY DEF AppState, SameLink
<1> HIDE DEF b
<1>2. Linked(b)
  BY <1>1, SameIsLinked
<1>3. Linked(ScheduleReconnect(a))
  BY ScheduledLink, ScheduledType, SameIsLinked
<1>4. CASE a.waiting /\ AfterRead(a) = ScheduleConnect(b, a.saved)
  <2>1. /\ ScheduleConnect(b, a.saved).connecting = TRUE
        /\ ScheduleConnect(b, a.saved).waiting = FALSE
    BY <1>1 DEF ScheduleConnect, AppState
  <2>2. CASE a.active # NoDevice
    BY <1>4, <2>1, <2>2
  <2>3. CASE a.active = NoDevice
    <3>1. \A p \in PSMs : b.cid[p] = NoDevice
      BY <1>1, <1>2, <2>3 DEF Linked, SameLink
    <3>2. QED
      BY <1>1, <1>2, <1>4, <3>1, CalledLink
  <2>4. QED
    BY <2>2, <2>3
<1>5. \/ AfterRead(a) \in {b, ScheduleReconnect(a), a}
      \/ a.waiting /\ AfterRead(a) = ScheduleConnect(b, a.saved)
  BY DEF AfterRead, b
<1>6. QED
  BY <1>2, <1>3, <1>4, <1>5

-----------------------------------------------------------------------------
(* Every step that mixes nothing up keeps the link.                         *)

Unmixed == Remember /\ mixups' \subseteq {"foreignLoss", "leftOver"}

LEMMA NotFlagged ==
  ASSUME Unmixed
  PROVE  /\ mixups \subseteq {"foreignLoss", "leftOver"}
         /\ ~Happens("lateRead") /\ ~Happens("pairOverLink")
BY DEF Unmixed, Remember, Mixups

LEMMA LinkedNext ==
  ASSUME NEW a, Linked(a), app' = a
  PROVE  Linked(app)'
BY DEF Linked

LEMMA SameLinkKept ==
  ASSUME StepTypes, StepTypes', Linked(app), SameLink(app, app')
  PROVE  Linked(app)'
BY SameIsLinked DEF StepTypes, Linked, SameLink

LEMMA StackLink ==
  ASSUME StepTypes, StepTypes', Linked(app), StackStep
  PROVE  Linked(app)'
<1>1. ASSUME NEW d \in Devices, NEW p \in PSMs, ConnInd(d, p) PROVE Linked(app)'
  <2>1. /\ app'.cid = app.cid /\ app'.active = d /\ app'.connecting = TRUE
        /\ app'.connected = app.connected
    BY <1>1 DEF ConnInd, StepTypes, AppState
  <2>2. app.active # NoDevice => d = app.active
    BY <1>1 DEF ConnInd, AddressAllowed
  <2>3. QED
    BY <2>1, <2>2 DEF Linked
<1>2. CASE Registered
  BY <1>2, SameLinkKept, SMTT(30) DEF Registered, SameLink, StepTypes, AppState
<1>3. app' = app \/ Registered \/ \E d \in Devices, p \in PSMs : ConnInd(d, p)
  BY DEF StackStep, ReadsBonds, EndsInquiry, Opens, FailsToOpen, LosesChannel, LosesDevice,
         LosesKey, Finds, Bonds, Answers
<1>4. QED
  BY <1>1, <1>2, <1>3 DEF Linked

LEMMA ChannelHandlerLink ==
  ASSUME StepTypes, StepTypes', Linked(app),
         HandleConnected \/ HandleDisconnected \/ HandleFailed
  PROVE  Linked(app)'
<1>1. app \in AppState /\ (~app.disconnecting) \in BOOLEAN
  BY DEF StepTypes
<1>2. CASE HandleConnected
  <2> DEFINE d == Head(events).dev  p == Head(events).psm
  <2>1. d \in Devices /\ p \in PSMs
    BY <1>2, Taken DEF HandleConnected, Handle, StepTypes
  <2> HIDE DEF d, p
  <2>2. \/ app' = app \/ app' = Teardown(app, TRUE)
        \/ AddressAllowed(app, d) /\ app' = WithChannel(app, d, p)
    BY <1>2 DEF HandleConnected, d, p
  <2>3. AddressAllowed(app, d) => app.active \in {NoDevice, d}
    BY DEF AddressAllowed
  <2>4. QED
    BY <1>1, <2>1, <2>2, <2>3, TornDownLink, UpLink, LinkedNext
<1>3. CASE HandleDisconnected \/ HandleFailed
  <2>1. app' \in {app, Teardown(app, ~app.disconnecting), Teardown(app, TRUE)}
    BY <1>3 DEF HandleDisconnected, HandleFailed
  <2>2. QED
    BY <1>1, <2>1, TornDownLink, LinkedNext
<1>4. QED
  BY <1>2, <1>3

LEMMA PairedLink ==
  ASSUME StepTypes, StepTypes', Linked(app), Unmixed, Handle("paired") \/ Handle("encrypted"),
         events' = Rest, app' = PairComplete(app, Head(events).dev, Head(events).ok)
  PROVE  Linked(app)'
<1>1. Head(events).dev \in Address /\ Head(events).ok \in BOOLEAN /\ app \in AppState
  BY Taken DEF Handle, StepTypes
<1>2. Handles({"encrypted", "paired"})
  BY DEF Handles, Handle, Rest
<1>3. ~(app.disconnecting /\ app'.active # app.active)
  BY <1>2, NotFlagged DEF Happens
<1>4. QED
  BY <1>1, <1>3, CompleteLink DEF Linked

LEMMA ReadAnswerLink ==
  ASSUME StepTypes, StepTypes', Linked(app), Unmixed, NEW a \in AppState, SameLink(app, a),
         a.waiting = app.waiting, app' = AfterRead(a), UNCHANGED calls
  PROVE  Linked(app)'
<1>1. Linked(a) /\ app \in AppState
  BY SameIsLinked DEF StepTypes
<1>2. CASE Linked(AfterRead(a))
  BY <1>2 DEF Linked
<1>3. CASE app.waiting /\ app.active # NoDevice /\ ~app'.waiting
  <2>1. app' = [app EXCEPT !.waiting = FALSE]
    BY <1>3, NotFlagged DEF Happens
  <2>2. SameLink(app, app')
    BY <1>1, <2>1 DEF SameLink, AppState
  <2>3. QED
    BY <2>2, SameLinkKept
<1>4. QED
  BY <1>1, <1>2, <1>3, ReadLink DEF SameLink

LEMMA OtherHandlerLink ==
  ASSUME StepTypes, StepTypes', Linked(app), Unmixed,
         \/ HandleAclGone \/ HandleFound \/ HandleDiscoveryDone
         \/ HandleAnswer("aclOpen", "auth") \/ HandleAnswer("auth", "encrypt")
         \/ HandleAnswer("encrypted", "none")
         \/ HandlePaired \/ HandleRecords \/ HandleKeyMissing \/ HandleUnpaired
  PROVE  Linked(app)'
<1>1. app \in AppState /\ (~app.disconnecting) \in BOOLEAN /\ app.candidate \in Address
  BY DEF StepTypes, AppState
<1>2. CASE HandleAclGone
  <2>1. app' \in {PairComplete(app, app.candidate, FALSE), Teardown(app, ~app.disconnecting), app}
    BY <1>2 DEF HandleAclGone, OnlyApp
  <2>2. QED
    BY <1>1, <2>1, CompleteLink, TornDownLink, LinkedNext
<1>3. CASE HandleFound
  <2>1. SameLink(app, app')
    BY <1>1, <1>3 DEF HandleFound, OnlyApp, SameLink, AppState
  <2>2. QED
    BY <2>1, SameLinkKept
<1>4. CASE HandleDiscoveryDone
  <2>1. SameLink(app, app')
    BY <1>1, <1>4 DEF HandleDiscoveryDone, OnlyApp, SameLink, AppState
  <2>2. QED
    BY <2>1, SameLinkKept
<1>5. ASSUME NEW kind, NEW next, HandleAnswer(kind, next),
             <<kind, next>> \in {<<"aclOpen", "auth">>, <<"auth", "encrypt">>, <<"encrypted", "none">>}
      PROVE Linked(app)'
  <2>1. CASE app' = app \/ app' = [app EXCEPT !.todo = @ \cup {next}]
    <3>1. SameLink(app, app')
      BY <1>1, <2>1 DEF SameLink, AppState
    <3>2. QED
      BY <3>1, SameLinkKept
  <2>2. CASE app' = PairComplete(app, Head(events).dev, Head(events).ok) /\ ~Head(events).ok
    <3>1. Head(events).dev \in Address /\ Head(events).ok = FALSE
      BY <1>5, <2>2, Taken DEF HandleAnswer, Handle, StepTypes
    <3>2. QED
      BY <1>1, <2>2, <3>1, CompleteLink, LinkedNext
  <2>3. CASE app' = PairComplete(app, Head(events).dev, Head(events).ok) /\ kind = "encrypted"
    BY <1>5, <2>3, PairedLink DEF HandleAnswer, OnlyApp
  <2>4. QED
    BY <1>5, <2>1, <2>2, <2>3 DEF HandleAnswer, OnlyApp
<1>6. CASE HandlePaired
  <2>1. CASE app' = [app EXCEPT !.saved = Head(events).dev]
    <3>1. SameLink(app, app')
      BY <1>1, <2>1 DEF SameLink, AppState
    <3>2. QED
      BY <3>1, SameLinkKept
  <2>2. CASE app' = PairComplete(app, Head(events).dev, Head(events).ok)
    BY <1>6, <2>2, PairedLink DEF HandlePaired
  <2>3. QED
    BY <1>6, <2>1, <2>2 DEF HandlePaired
<1>7. CASE HandleRecords
  <2> DEFINE a == [app EXCEPT !.reading = FALSE,
                              !.saved = IF @ = NoDevice THEN Head(events).dev ELSE @]
  <2>1. Head(events).dev \in Address
    BY <1>7, Taken DEF HandleRecords, Handle, StepTypes
  <2>2. a \in AppState
    BY <1>1, <2>1 DEF AppState
  <2>3. SameLink(app, a) /\ a.waiting = app.waiting
    BY <1>1 DEF SameLink, AppState
  <2> HIDE DEF a
  <2>4. app' = AfterRead(a) /\ UNCHANGED calls
    BY <1>7 DEF HandleRecords, OnlyApp, bounds, a
  <2>5. QED
    BY <2>2, <2>3, <2>4, ReadAnswerLink
<1>8. CASE HandleKeyMissing \/ HandleUnpaired
  <2>1. app' \in {app, ForgetSaved(app)}
    BY <1>8 DEF HandleKeyMissing, HandleUnpaired, OnlyApp
  <2>2. SameLink(app, app')
    BY <1>1, <2>1, ForgottenLink DEF SameLink
  <2>3. QED
    BY <2>2, SameLinkKept
<1>9. QED
  BY <1>2, <1>3, <1>4, <1>5, <1>6, <1>7, <1>8

LEMMA ApplicationLink ==
  ASSUME StepTypes, StepTypes', Linked(app), ApplicationStep
  PROVE  Linked(app)'
<1>1. app \in AppState /\ bond \in Address
  BY DEF StepTypes, OthersOK
<1>2. ASSUME NEW d \in Devices, SetSavedAddress(d) PROVE Linked(app)'
  <2> DEFINE saved == [app EXCEPT !.saved = d, !.injected = TRUE, !.waiting = FALSE]
  <2>1. saved \in AppState /\ SameLink(app, saved)
    BY <1>1 DEF AppState, SameLink, Address
  <2> HIDE DEF saved
  <2>2. app' = saved \/ app' = ScheduleReconnect(saved)
    BY <1>2 DEF SetSavedAddress, SilentCall, Call, saved
  <2>3. SameLink(app, app')
    BY <2>1, <2>2, ScheduledLink DEF SameLink
  <2>4. QED
    BY <2>3, SameLinkKept
<1>3. CASE ClearSavedAddress
  <2>1. ForgetSaved(app) \in AppState /\ SameLink(app, ForgetSaved(app))
    BY <1>1, ForgottenType, ForgottenLink
  <2>2. app' = [ForgetSaved(app) EXCEPT !.waiting = FALSE]
    BY <1>3 DEF ClearSavedAddress, SilentCall, Call
  <2>3. SameLink(app, app')
    BY <2>1, <2>2 DEF SameLink, AppState
  <2>4. QED
    BY <2>3, SameLinkKept
<1>4. CASE EnableReconnect
  <2> DEFINE on == [app EXCEPT !.autoReconnect = TRUE, !.suppressed = FALSE]
             known == IF on.saved = NoDevice THEN LoadSaved(on) ELSE on
  <2>1. on \in AppState /\ SameLink(app, on)
    BY <1>1 DEF AppState, SameLink
  <2> HIDE DEF on
  <2>2. known \in AppState /\ SameLink(app, known)
    BY <1>1, <2>1, LoadedType, LoadedLink DEF SameLink
  <2> HIDE DEF known
  <2>3. app' \in {known, ScheduleReconnect(known), [known EXCEPT !.readWanted = TRUE]}
    BY <1>4 DEF EnableReconnect, SilentCall, Call, known, on
  <2>4. SameLink(known, [known EXCEPT !.readWanted = TRUE])
    BY <2>2 DEF SameLink, AppState
  <2>5. SameLink(app, app')
    BY <2>2, <2>3, <2>4, ScheduledLink DEF SameLink
  <2>6. QED
    BY <2>5, SameLinkKept
<1>5. CASE DisableReconnect
  <2>1. SameLink(app, app')
    BY <1>1, <1>5 DEF DisableReconnect, SilentCall, Call, SameLink, AppState
  <2>2. QED
    BY <2>1, SameLinkKept
<1>6. CASE StartPairing
  <2>1. SameLink(app, app')
    BY <1>1, <1>6 DEF StartPairing, SilentCall, Call, SameLink, AppState
  <2>2. QED
    BY <2>1, SameLinkKept
<1>7. CASE ConnectSaved
  <2> DEFINE resumed == [app EXCEPT !.suppressed = FALSE, !.reconnectPending = FALSE]
             known == IF app.saved = NoDevice THEN LoadSaved(resumed) ELSE resumed
  <2>1. resumed \in AppState /\ SameLink(app, resumed)
    BY <1>1 DEF AppState, SameLink
  <2> HIDE DEF resumed
  <2>2. known \in AppState /\ SameLink(app, known)
    BY <1>1, <2>1, LoadedType, LoadedLink DEF SameLink
  <2> HIDE DEF known
  <2>3. CASE app' = ScheduleConnect(known, known.saved)
    <3>1. \A p \in PSMs : known.cid[p] = NoDevice
      BY <1>1, <1>7, <2>2, NoChannelWhenIdle DEF ConnectSaved, SameLink
    <3>2. Linked(known) /\ known.saved \in Address
      BY <1>1, <2>2, SameIsLinked DEF AppState
    <3>3. QED
      BY <2>2, <2>3, <3>1, <3>2, CalledLink, LinkedNext
  <2>4. CASE app' = [known EXCEPT !.waiting = TRUE, !.readWanted = TRUE]
    <3>1. SameLink(known, app')
      BY <2>2, <2>4 DEF SameLink, AppState
    <3>2. QED
      BY <2>2, <3>1, SameLinkKept DEF SameLink
  <2>5. QED
    BY <1>7, <2>3, <2>4 DEF ConnectSaved, SilentCall, Call, known, resumed
<1>8. CASE Disconnect
  BY <1>1, <1>8, StoppedLink, LinkedNext DEF Disconnect, Call
<1>9. CASE Forget
  <2> DEFINE off == [app EXCEPT !.suppressed = TRUE, !.reconnectPending = FALSE]
             known == IF app.saved = NoDevice THEN LoadSaved(off) ELSE off
             gone == IF CanDisconnect(known) THEN Stop(known) ELSE known
  <2>1. off \in AppState /\ SameLink(app, off)
    BY <1>1 DEF AppState, SameLink
  <2> HIDE DEF off
  <2>2. known \in AppState /\ SameLink(app, known)
    BY <1>1, <2>1, LoadedType, LoadedLink DEF SameLink
  <2> HIDE DEF known
  <2>3. Linked(known)
    BY <1>1, <2>2, SameIsLinked
  <2>4. gone \in AppState /\ Linked(gone)
    BY <2>2, <2>3, StoppedType, StoppedLink
  <2> HIDE DEF gone
  <2>5. /\ [gone EXCEPT !.saved = NoDevice, !.injected = FALSE] \in AppState
        /\ SameLink(gone, [gone EXCEPT !.saved = NoDevice, !.injected = FALSE])
    BY <2>4 DEF AppState, SameLink, Address
  <2>6. Linked([gone EXCEPT !.saved = NoDevice, !.injected = FALSE])
    BY <2>4, <2>5, SameIsLinked
  <2>7. app' \in {known, [gone EXCEPT !.saved = NoDevice, !.injected = FALSE]}
    BY <1>9 DEF Forget, SilentCall, Call, known, off, gone
  <2>8. QED
    BY <2>3, <2>6, <2>7, LinkedNext
<1>10. QED
  BY <1>2, <1>3, <1>4, <1>5, <1>6, <1>7, <1>8, <1>9 DEF ApplicationStep

LEMMA PollLink ==
  ASSUME StepTypes, StepTypes', Linked(app), Unmixed, PollStep
  PROVE  Linked(app)'
<1>1. app \in AppState /\ bond \in Address /\ app.saved \in Address
  BY DEF StepTypes, OthersOK, AppState
<1>2. CASE ReadSaved
  <2> DEFINE read == [app EXCEPT !.readWanted = FALSE]
  <2>1. read \in AppState /\ SameLink(app, read) /\ read.waiting = app.waiting
    BY <1>1 DEF AppState, SameLink
  <2> HIDE DEF read
  <2>2. CASE app' = AfterRead(LoadSaved(read))
    <3>1. /\ LoadSaved(read) \in AppState /\ SameLink(app, LoadSaved(read))
          /\ LoadSaved(read).waiting = app.waiting
      <4>1. LoadSaved(read).waiting = read.waiting
        BY <2>1 DEF LoadSaved, AppState
      <4>2. QED
        BY <1>1, <2>1, <4>1, LoadedType, LoadedLink DEF SameLink
    <3>2. UNCHANGED calls
      BY <1>2 DEF ReadSaved, Pass, bounds
    <3>3. QED
      BY <2>2, <3>1, <3>2, ReadAnswerLink
  <2>3. CASE app' = [read EXCEPT !.reading = TRUE]
    <3>1. SameLink(read, app')
      BY <2>1, <2>3 DEF SameLink, AppState
    <3>2. QED
      BY <2>1, <3>1, SameLinkKept DEF SameLink
  <2>4. QED
    BY <1>2, <2>2, <2>3 DEF ReadSaved, Pass, read
<1>3. CASE Reconnect
  <2>1. CASE app' = [app EXCEPT !.reconnectPending = FALSE]
    <3>1. SameLink(app, app')
      BY <1>1, <2>1 DEF SameLink, AppState
    <3>2. QED
      BY <3>1, SameLinkKept
  <2>2. CASE Idle(app) /\ app' = ScheduleConnect(app, app.saved)
    BY <1>1, <2>2, NoChannelWhenIdle, CalledLink, LinkedNext
  <2>3. QED
    BY <1>3, <2>1, <2>2 DEF Reconnect, Pass
<1>4. CASE BeginPairing
  <2>1. /\ app'.cid = app.cid /\ app'.connected = app.connected
        /\ app'.connecting = app.connecting /\ app'.disconnecting = app.disconnecting
    BY <1>1, <1>4 DEF BeginPairing, Pass, Done, AppState
  <2>2. "pair" \in app.todo \ app'.todo
    <3>1. "pair" \in app.todo
      BY <1>4 DEF BeginPairing, Turn, HasWork, PSMs
    <3>2. app'.todo = app.todo \ {"pair"}
      BY <1>1, <1>4 DEF BeginPairing, Pass, Done, AppState
    <3>3. QED
      BY <3>1, <3>2
  <2>3. app.connected \/ app.connecting \/ app.disconnecting => app'.active = app.active
    BY <2>2, NotFlagged DEF Happens
  <2>4. QED
    BY <2>1, <2>3 DEF Linked
<1>5. CASE \/ StopDiscovery \/ Secure("auth") \/ Secure("encrypt") \/ StartDiscovery
           \/ NoteDiscovery \/ OpenChannel("control") \/ OpenChannel("interrupt")
  <2>1. SameLink(app, app')
    BY <1>1, <1>5 DEF StopDiscovery, Secure, StartDiscovery, NoteDiscovery, OpenChannel, Pass,
                      Done, SameLink, AppState
  <2>2. QED
    BY <2>1, SameLinkKept
<1>6. QED
  BY <1>2, <1>3, <1>4, <1>5 DEF PollStep

LEMMA InitWhole == Init => WholeInv
<1> SUFFICES ASSUME Init PROVE WholeInv
  OBVIOUS
<1>1. app.cid = [p \in PSMs |-> NoDevice] /\ app.connected = FALSE
  BY DEF Init
<1>2. Linked(app)
  BY <1>1 DEF Linked, PSMs
<1>3. QED
  BY <1>2, InitTypes DEF WholeInv, LinkInv

LEMMA WholeKept == WholeInv /\ [Next]_vars => WholeInv'
<1> SUFFICES ASSUME WholeInv, [Next]_vars PROVE WholeInv'
  OBVIOUS
<1>1. TypeInv'
  BY TypesKept DEF WholeInv
<1>2. StepTypes /\ StepTypes'
  BY <1>1 DEF WholeInv, TypeInv
<1>3. CASE UNCHANGED vars
  BY <1>1, <1>3 DEF vars, WholeInv, LinkInv, Linked
<1>4. CASE Next
  <2>1. Remember /\ (StackStep \/ EventHandlerStep \/ ApplicationStep \/ PollStep)
    BY <1>4 DEF Next, Stack, EventHandler, Application, Poll
  <2>2. ASSUME mixups' \subseteq {"foreignLoss", "leftOver"} PROVE Linked(app)'
    <3>1. Unmixed
      BY <2>1, <2>2 DEF Unmixed
    <3>2. Linked(app)
      BY <3>1, NotFlagged DEF WholeInv, LinkInv
    <3>3. QED
      BY <1>2, <2>1, <3>1, <3>2, StackLink, ChannelHandlerLink, OtherHandlerLink, ApplicationLink,
         PollLink DEF EventHandlerStep
  <2>3. QED
    BY <1>1, <2>2 DEF WholeInv, LinkInv
<1>5. QED
  BY <1>3, <1>4

(* Whatever controllers do, whatever the application asks and in whatever   *)
(* order the stack's events come, the link is taken for up exactly when     *)
(* both channels are known and lead to the active device                    *)
(* (ds5_classic_handle_connection, ds5_classic_teardown_link).              *)
THEOREM LinkStaysWhole == Spec => []LinkIsWhole
<1>1. WholeInv => LinkIsWhole
  <2> SUFFICES ASSUME WholeInv, mixups \subseteq {"foreignLoss", "leftOver"}
               PROVE  app.connected <=> /\ app.cid["control"] # NoDevice
                                        /\ app.cid["interrupt"] = app.cid["control"]
                                        /\ app.active = app.cid["control"]
    BY DEF LinkIsWhole
  <2>1. Linked(app)
    BY DEF WholeInv, LinkInv
  <2>2. QED
    BY <2>1 DEF Linked, PSMs
<1>2. QED
  BY <1>1, InitWhole, WholeKept, PTL DEF Spec

-----------------------------------------------------------------------------
(* What the application knows of a channel: what it has, and the events     *)
(* that it has not seen.  The stack's word on the channel of device d for p *)
(* at place j of the queue q, where place 0 is what the application has, c. *)

ConnectedTo(e, d, p) == e.kind = "connected" /\ e.dev = d /\ e.psm = p
LostBy(e, d, p) == e.kind = "disconnected" /\ e.dev = d /\ e.psm = p
EndsIt(e, d, p) == LostBy(e, d, p) \/ (e.kind = "aclGone" /\ e.dev = d)
Opened(q, j, c, d, p) == IF j = 0 THEN c = d ELSE ConnectedTo(q[j], d, p)

(* An open channel is known, or the news is under way, and no later event   *)
(* takes it back; of one that is not open every such news is taken back.    *)
KnowsOpen(q, c, d, p) ==
  \E j \in 0 .. Len(q) : Opened(q, j, c, d, p) /\ \A k \in j + 1 .. Len(q) : ~EndsIt(q[k], d, p)
KnowsShut(q, c, d, p) ==
  \A j \in 0 .. Len(q) :
    Opened(q, j, c, d, p) => \E k \in j + 1 .. Len(q) : LostBy(q[k], d, p)
Agrees(q, c, s, d, p) == IF s = "open" THEN KnowsOpen(q, c, d, p) ELSE KnowsShut(q, c, d, p)

(* The events r are the stack's word on a channel that goes from s to t.    *)
Follows(r, s, t, d, p) ==
  IF t = "open"
  THEN \E j \in 0 .. Len(r) : /\ IF j = 0 THEN s = "open" ELSE ConnectedTo(r[j], d, p)
                              /\ \A k \in j + 1 .. Len(r) : ~EndsIt(r[k], d, p)
  ELSE /\ \A i \in 1 .. Len(r) : ~ConnectedTo(r[i], d, p)
       /\ s = "open" => \E i \in 1 .. Len(r) : LostBy(r[i], d, p)

(* An event e makes the application replace c by b as its channel: it       *)
(* takes up what the event says and gives up only what the event ends.      *)
Learns(e, c, b, s, d, p) ==
  IF s = "open"
  THEN (ConnectedTo(e, d, p) => b = d) /\ (c = d /\ ~EndsIt(e, d, p) => b = d)
  ELSE b = d => ConnectedTo(e, d, p) \/ (c = d /\ ~LostBy(e, d, p))

(* Events added to the queue keep the agreement when they tell what became  *)
(* of the channel.                                                          *)
LEMMA AddedAgrees ==
  ASSUME NEW q \in Seq(Told), NEW r \in Seq(Told), NEW c, NEW s, NEW t, NEW d, NEW p,
         Agrees(q, c, s, d, p), Follows(r, s, t, d, p)
  PROVE  Agrees(q \o r, c, t, d, p)
<1> DEFINE all == q \o r
<1>1. /\ Len(q) \in Nat /\ Len(r) \in Nat /\ Len(all) = Len(q) + Len(r)
      /\ \A i \in 1 .. Len(q) : all[i] = q[i]
      /\ \A i \in 1 .. Len(r) : all[Len(q) + i] = r[i]
      /\ \A i \in Len(q) + 1 .. Len(all) : i - Len(q) \in 1 .. Len(r) /\ all[i] = r[i - Len(q)]
  <2>1. /\ Len(q) \in Nat /\ Len(r) \in Nat /\ Len(all) = Len(q) + Len(r)
        /\ \A i \in 1 .. Len(q) + Len(r) : all[i] = IF i <= Len(q) THEN q[i] ELSE r[i - Len(q)]
    BY ConcatProperties, LenProperties
  <2> HIDE DEF all
  <2>2. QED
    BY <2>1, SMTT(30)
<1> HIDE DEF all
<1>2. CASE t = "open"
  <2>1. PICK j \in 0 .. Len(r) : /\ IF j = 0 THEN s = "open" ELSE ConnectedTo(r[j], d, p)
                                 /\ \A k \in j + 1 .. Len(r) : ~EndsIt(r[k], d, p)
    BY <1>2 DEF Follows
  <2>2. CASE j = 0
    <3>1. PICK i \in 0 .. Len(q) :
             Opened(q, i, c, d, p) /\ \A k \in i + 1 .. Len(q) : ~EndsIt(q[k], d, p)
      BY <2>1, <2>2 DEF Agrees, KnowsOpen
    <3>2. i \in 0 .. Len(all) /\ Opened(all, i, c, d, p)
      BY <1>1, <3>1 DEF Opened
    <3>3. ASSUME NEW k \in i + 1 .. Len(all) PROVE ~EndsIt(all[k], d, p)
      <4>1. CASE k <= Len(q)
        BY <1>1, <3>1, <4>1
      <4>2. CASE k > Len(q)
        <5>1. all[k] = r[k - Len(q)] /\ k - Len(q) \in 1 .. Len(r)
          BY <1>1, <4>2
        <5>2. QED
          BY <2>1, <2>2, <5>1
      <4>3. QED
        BY <1>1, <3>1, <4>1, <4>2
    <3>4. KnowsOpen(all, c, d, p)
      BY <3>2, <3>3 DEF KnowsOpen
    <3>5. QED
      BY <1>2, <3>4 DEF Agrees, all
  <2>3. CASE j # 0
    <3>1. /\ Len(q) + j \in 0 .. Len(all) /\ Len(q) + j # 0
          /\ all[Len(q) + j] = r[j]
      BY <1>1, <2>1, <2>3
    <3>2. Opened(all, Len(q) + j, c, d, p)
      BY <2>1, <2>3, <3>1 DEF Opened
    <3>3. ASSUME NEW k \in (Len(q) + j) + 1 .. Len(all) PROVE ~EndsIt(all[k], d, p)
      <4>1. all[k] = r[k - Len(q)] /\ k - Len(q) \in j + 1 .. Len(r)
        BY <1>1, <2>1
      <4>2. QED
        BY <2>1, <4>1
    <3>4. KnowsOpen(all, c, d, p)
      BY <3>1, <3>2, <3>3 DEF KnowsOpen
    <3>5. QED
      BY <1>2, <3>4 DEF Agrees, all
  <2>4. QED
    BY <2>2, <2>3
<1>3. CASE t # "open"
  <2>1. /\ \A i \in 1 .. Len(r) : ~ConnectedTo(r[i], d, p)
        /\ s = "open" => \E i \in 1 .. Len(r) : LostBy(r[i], d, p)
    BY <1>3 DEF Follows
  <2>2. ASSUME NEW j \in 0 .. Len(all), Opened(all, j, c, d, p)
        PROVE  \E k \in j + 1 .. Len(all) : LostBy(all[k], d, p)
    <3>1. j <= Len(q) /\ Opened(q, j, c, d, p)
      <4>1. CASE j = 0
        BY <1>1, <2>2, <4>1 DEF Opened
      <4>2. CASE j # 0
        BY <1>1, <2>1, <2>2, <4>2 DEF Opened
      <4>3. QED
        BY <4>1, <4>2
    <3>2. CASE s = "open"
      <4>1. PICK i \in 1 .. Len(r) : LostBy(r[i], d, p)
        BY <2>1, <3>2
      <4>2. Len(q) + i \in j + 1 .. Len(all) /\ all[Len(q) + i] = r[i]
        BY <1>1, <3>1
      <4>3. QED
        BY <4>1, <4>2
    <3>3. CASE s # "open"
      <4>1. PICK k \in j + 1 .. Len(q) : LostBy(q[k], d, p)
        BY <3>1, <3>3 DEF Agrees, KnowsShut
      <4>2. k \in j + 1 .. Len(all) /\ all[k] = q[k]
        BY <1>1
      <4>3. QED
        BY <4>1, <4>2
    <3>4. QED
      BY <3>2, <3>3
  <2>3. KnowsShut(all, c, d, p)
    BY <2>2 DEF KnowsShut
  <2>4. QED
    BY <1>3, <2>3 DEF Agrees, all
<1>4. QED
  BY <1>2, <1>3

(* An event taken from the queue keeps it when the code learns what the     *)
(* event says.                                                              *)
LEMMA TakenAgrees ==
  ASSUME NEW q \in Seq(Told), q # <<>>, NEW c, NEW b, NEW s, NEW d, NEW p,
         Agrees(q, c, s, d, p), Learns(Head(q), c, b, s, d, p)
  PROVE  Agrees(Tail(q), b, s, d, p)
<1> DEFINE rest == Tail(q)
<1>1. /\ Len(rest) \in Nat /\ Len(q) = Len(rest) + 1 /\ q[1] = Head(q)
      /\ \A i \in 1 .. Len(rest) : rest[i] = q[i + 1]
      /\ \A i \in 2 .. Len(q) : i - 1 \in 1 .. Len(rest) /\ rest[i - 1] = q[i]
  <2>1. /\ Len(rest) \in Nat /\ Len(q) \in Nat /\ Len(rest) = Len(q) - 1
        /\ \A i \in 1 .. Len(rest) : rest[i] = q[i + 1]
    BY HeadTailProperties, LenProperties
  <2>2. q[1] = Head(q)
    OBVIOUS
  <2> HIDE DEF rest
  <2>3. QED
    BY <2>1, <2>2
<1> HIDE DEF rest
<1>2. CASE s = "open"
  <2>1. PICK j \in 0 .. Len(q) :
           Opened(q, j, c, d, p) /\ \A k \in j + 1 .. Len(q) : ~EndsIt(q[k], d, p)
    BY <1>2 DEF Agrees, KnowsOpen
  <2>2. CASE j <= 1
    <3>1. b = d
      <4>1. CASE j = 0
        <5>1. c = d /\ ~EndsIt(Head(q), d, p)
          BY <1>1, <2>1, <4>1 DEF Opened
        <5>2. QED
          BY <1>2, <5>1 DEF Learns
      <4>2. CASE j = 1
        <5>1. ConnectedTo(Head(q), d, p)
          BY <1>1, <2>1, <4>2 DEF Opened
        <5>2. QED
          BY <1>2, <5>1 DEF Learns
      <4>3. QED
        BY <2>2, <4>1, <4>2
    <3>2. \A k \in 0 + 1 .. Len(rest) : ~EndsIt(rest[k], d, p)
      BY <1>1, <2>1, <2>2
    <3>3. 0 \in 0 .. Len(rest) /\ Opened(rest, 0, b, d, p)
      BY <1>1, <3>1 DEF Opened
    <3>4. KnowsOpen(rest, b, d, p)
      BY <3>2, <3>3 DEF KnowsOpen
    <3>5. QED
      BY <1>2, <3>4 DEF Agrees, rest
  <2>3. CASE j > 1
    <3>1. j - 1 \in 0 .. Len(rest) /\ j - 1 # 0 /\ rest[j - 1] = q[j]
      BY <1>1, <2>3
    <3>2. Opened(rest, j - 1, b, d, p)
      BY <2>1, <2>3, <3>1 DEF Opened
    <3>3. \A k \in (j - 1) + 1 .. Len(rest) : ~EndsIt(rest[k], d, p)
      BY <1>1, <2>1, <2>3
    <3>4. KnowsOpen(rest, b, d, p)
      BY <3>1, <3>2, <3>3 DEF KnowsOpen
    <3>5. QED
      BY <1>2, <3>4 DEF Agrees, rest
  <2>4. QED
    BY <2>2, <2>3
<1>3. CASE s # "open"
  <2>1. ASSUME NEW j \in 0 .. Len(rest), Opened(rest, j, b, d, p)
        PROVE  \E k \in j + 1 .. Len(rest) : LostBy(rest[k], d, p)
    <3>1. PICK i \in {0, j + 1} : /\ Opened(q, i, c, d, p) /\ (j # 0 => i = j + 1)
                                  /\ i = 0 => ~LostBy(Head(q), d, p)
      <4>1. CASE j = 0
        <5>1. b = d
          BY <2>1, <4>1 DEF Opened
        <5>2. ConnectedTo(Head(q), d, p) \/ (c = d /\ ~LostBy(Head(q), d, p))
          BY <1>3, <5>1 DEF Learns
        <5>3. Opened(q, 1, c, d, p) \/ (Opened(q, 0, c, d, p) /\ ~LostBy(Head(q), d, p))
          BY <1>1, <5>2 DEF Opened
        <5>4. QED
          BY <4>1, <5>3
      <4>2. CASE j # 0
        <5>1. j + 1 # 0 /\ rest[j] = q[j + 1]
          BY <1>1, <4>2
        <5>2. QED
          BY <2>1, <4>2, <5>1 DEF Opened
      <4>3. QED
        BY <4>1, <4>2
    <3>2. i \in 0 .. Len(q)
      BY <1>1
    <3>3. PICK k \in i + 1 .. Len(q) : LostBy(q[k], d, p)
      BY <1>3, <3>1, <3>2 DEF Agrees, KnowsShut
    <3>4. k # 1
      BY <1>1, <3>1, <3>3
    <3>5. k - 1 \in j + 1 .. Len(rest) /\ rest[k - 1] = q[k]
      BY <1>1, <3>1, <3>4
    <3>6. QED
      BY <3>3, <3>5
  <2>2. KnowsShut(rest, b, d, p)
    BY <2>1 DEF KnowsShut
  <2>3. QED
    BY <1>3, <2>2 DEF Agrees, rest
<1>4. QED
  BY <1>2, <1>3

(* A channel that is closed with a notice is known to be, whatever there    *)
(* was before.                                                              *)
LEMMA ClosedAgrees ==
  ASSUME NEW q \in Seq(Told), NEW r \in Seq(Told), NEW c, NEW t, NEW d, NEW p,
         t # "open", Follows(r, "open", t, d, p)
  PROVE  Agrees(q \o r, c, t, d, p)
<1> DEFINE all == q \o r
<1>1. /\ Len(q) \in Nat /\ Len(r) \in Nat /\ Len(all) = Len(q) + Len(r)
      /\ \A i \in 1 .. Len(q) + Len(r) : all[i] = IF i <= Len(q) THEN q[i] ELSE r[i - Len(q)]
  BY ConcatProperties, LenProperties
<1> HIDE DEF all
<1>2. \A i \in 1 .. Len(r) : ~ConnectedTo(r[i], d, p)
  BY DEF Follows
<1>3. PICK i \in 1 .. Len(r) : LostBy(r[i], d, p)
  BY DEF Follows
<1>4. ASSUME NEW j \in 0 .. Len(all), Opened(all, j, c, d, p)
      PROVE  \E k \in j + 1 .. Len(all) : LostBy(all[k], d, p)
  <2>1. j <= Len(q)
    <3>1. CASE j > Len(q)
      <4>1. j # 0 /\ all[j] = r[j - Len(q)] /\ j - Len(q) \in 1 .. Len(r)
        BY <1>1, <3>1
      <4>2. QED
        BY <1>2, <1>4, <4>1 DEF Opened
    <3>2. QED
      BY <1>1, <3>1
  <2>2. Len(q) + i \in j + 1 .. Len(all) /\ all[Len(q) + i] = r[i]
    BY <1>1, <2>1
  <2>3. QED
    BY <1>3, <2>2
<1>5. KnowsShut(all, c, d, p)
  BY <1>4 DEF KnowsShut
<1>6. QED
  BY <1>5 DEF Agrees, all

-----------------------------------------------------------------------------
(* What the stack says of what it does.                                     *)

Says(queue, r) ==
  /\ r \in Seq(Told) /\ events' = queue \o r
  /\ \A d \in Devices, p \in PSMs : Follows(r, channel[d][p], channel'[d][p], d, p)

(* A channel that stays as it was needs no event.                           *)
LEMMA NothingFollows ==
  ASSUME NEW s, NEW t, s = "open" <=> t = "open", NEW d, NEW p
  PROVE  Follows(<<>>, s, t, d, p)
<1>1. Len(<<>>) = 0 /\ 1 .. 0 = {} /\ 0 + 1 .. 0 = {} /\ 0 \in 0 .. 0
  OBVIOUS
<1>2. QED
  BY <1>1 DEF Follows

(* One event does for a channel it opens or ends, and for those it does not *)
(* speak of.                                                                *)
LEMMA OneFollows ==
  ASSUME NEW e \in Told, NEW s, NEW t, NEW d, NEW p,
         \/ (s = "open" <=> t = "open") /\ ~ConnectedTo(e, d, p) /\ ~EndsIt(e, d, p)
         \/ t = "open" /\ ConnectedTo(e, d, p)
         \/ t # "open" /\ LostBy(e, d, p)
  PROVE  Follows(<<e>>, s, t, d, p)
<1>1. /\ Len(<<e>>) = 1 /\ <<e>>[1] = e /\ 1 .. 1 = {1} /\ 0 + 1 .. 1 = {1} /\ 1 + 1 .. 1 = {}
      /\ 0 \in 0 .. 1 /\ 1 \in 0 .. 1
  OBVIOUS
<1>2. LostBy(e, d, p) => ~ConnectedTo(e, d, p)
  BY DEF LostBy, ConnectedTo
<1>3. QED
  BY <1>1, <1>2 DEF Follows

(* A channel that begins to open says nothing.                              *)
LEMMA QuietSays ==
  ASSUME StepTypes, events' = events, NEW d \in Devices, NEW p \in PSMs,
         channel[d][p] # "open", channel' = channel \/ channel' = [channel EXCEPT ![d][p] = "opening"]
  PROVE  Says(events, <<>>)
<1>1. \A x \in Devices, y \in PSMs : channel[x][y] = "open" <=> channel'[x][y] = "open"
  BY DEF StepTypes, Channels
<1>2. \A x \in Devices, y \in PSMs : Follows(<<>>, channel[x][y], channel'[x][y], x, y)
  BY <1>1, NothingFollows
<1>3. events \o <<>> = events /\ <<>> \in Seq(Told)
  BY ConcatEmptySeq DEF StepTypes
<1>4. QED
  BY <1>2, <1>3 DEF Says

(* Steps that leave the channels alone, without an event or with one of     *)
(* another kind.                                                            *)
LEMMA SameSays ==
  ASSUME NEW queue \in Seq(Told), events' = queue, channel' = channel
  PROVE  Says(queue, <<>>)
<1>1. \A x \in Devices, y \in PSMs : Follows(<<>>, channel[x][y], channel'[x][y], x, y)
  BY NothingFollows
<1>2. queue \o <<>> = queue /\ <<>> \in Seq(Told)
  BY ConcatEmptySeq
<1>3. QED
  BY <1>1, <1>2 DEF Says

LEMMA OtherSays ==
  ASSUME NEW queue \in Seq(Told), NEW e \in Told, events' = queue \o <<e>>, channel' = channel,
         e.kind \notin {"connected", "disconnected", "aclGone"}
  PROVE  Says(queue, <<e>>)
<1>1. ASSUME NEW x \in Devices, NEW y \in PSMs
      PROVE  Follows(<<e>>, channel[x][y], channel'[x][y], x, y)
  <2>1. ~ConnectedTo(e, x, y) /\ ~EndsIt(e, x, y)
    BY DEF ConnectedTo, EndsIt, LostBy
  <2>2. QED
    BY <2>1, OneFollows
<1>2. QED
  BY <1>1, Single DEF Says

(* A channel of its own: it opens, fails or is lost.                        *)
LEMMA ChannelSays ==
  ASSUME StepTypes, NEW d \in Devices, NEW p \in PSMs, NEW kind, NEW t,
         events' = Append(events, ChannelEvent(kind, d, p)),
         channel' = [channel EXCEPT ![d][p] = t],
         \/ kind = "connected" /\ t = "open"
         \/ kind = "failed" /\ t = "closed" /\ channel[d][p] # "open"
         \/ kind = "disconnected" /\ t = "closed"
  PROVE  Says(events, <<ChannelEvent(kind, d, p)>>)
<1> DEFINE e == ChannelEvent(kind, d, p)
<1>1. e \in Told
  BY EventType, Ds5LinkAssumption DEF ChannelEvent, EventKinds, Address
<1>2. e.kind = kind /\ e.dev = d /\ e.psm = p
  BY DEF ChannelEvent, Event
<1> HIDE DEF e
<1>3. ASSUME NEW x \in Devices, NEW y \in PSMs
      PROVE  Follows(<<e>>, channel[x][y], channel'[x][y], x, y)
  <2>1. channel'[x][y] = IF x = d /\ y = p THEN t ELSE channel[x][y]
    BY DEF StepTypes, Channels
  <2>2. CASE x = d /\ y = p
    BY <1>1, <1>2, <2>1, <2>2, OneFollows DEF ConnectedTo, EndsIt, LostBy
  <2>3. CASE ~(x = d /\ y = p)
    <3>1. ~ConnectedTo(e, x, y) /\ ~EndsIt(e, x, y)
      BY <1>2, <2>3 DEF ConnectedTo, EndsIt, LostBy
    <3>2. channel'[x][y] = channel[x][y]
      BY <2>1, <2>3
    <3>3. QED
      BY <1>1, <3>1, <3>2, OneFollows
  <2>4. QED
    BY <2>2, <2>3
<1>4. events' = events \o <<e>> /\ <<e>> \in Seq(Told)
  BY <1>1, AppendIsConcat, Single DEF StepTypes, e
<1>5. QED
  BY <1>3, <1>4 DEF Says, e

(* The notices of channels that are closed.                                 *)
LEMMA NoticesSay ==
  ASSUME NEW d \in Devices, NEW ps \in SUBSET PSMs
  PROVE  /\ Notices(d, ps) \in Seq(Told)
         /\ \A i \in 1 .. Len(Notices(d, ps)) :
              /\ Notices(d, ps)[i].kind = "disconnected" /\ Notices(d, ps)[i].dev = d
              /\ Notices(d, ps)[i].psm \in ps
         /\ \A p \in ps : channel[d][p] = "open" =>
              \E i \in 1 .. Len(Notices(d, ps)) : Notices(d, ps)[i].psm = p
<1> DEFINE Of(p) == IF p \in ps /\ channel[d][p] = "open"
                    THEN <<ChannelEvent("disconnected", d, p)>> ELSE <<>>
           a == Of("interrupt")
           b == Of("control")
           all == Notices(d, ps)
<1>1. \A p \in PSMs : /\ ChannelEvent("disconnected", d, p) \in Told
                      /\ ChannelEvent("disconnected", d, p).kind = "disconnected"
                      /\ ChannelEvent("disconnected", d, p).dev = d
                      /\ ChannelEvent("disconnected", d, p).psm = p
  BY EventType DEF ChannelEvent, Event, EventKinds, Address
<1>2. /\ a \in Seq(Told) /\ Len(a) \in {0, 1}
      /\ Len(a) = 1 => a[1].kind = "disconnected" /\ a[1].dev = d /\ a[1].psm = "interrupt"
                       /\ "interrupt" \in ps
      /\ "interrupt" \in ps /\ channel[d]["interrupt"] = "open" => Len(a) = 1
  BY <1>1 DEF PSMs
<1>3. /\ b \in Seq(Told) /\ Len(b) \in {0, 1}
      /\ Len(b) = 1 => b[1].kind = "disconnected" /\ b[1].dev = d /\ b[1].psm = "control"
                       /\ "control" \in ps
      /\ "control" \in ps /\ channel[d]["control"] = "open" => Len(b) = 1
  BY <1>1 DEF PSMs
<1>4. all = a \o b
  BY DEF Notices
<1> HIDE DEF a, b, all
<1>5. /\ all \in Seq(Told) /\ Len(all) = Len(a) + Len(b)
      /\ \A i \in 1 .. Len(a) + Len(b) : all[i] = IF i <= Len(a) THEN a[i] ELSE b[i - Len(a)]
  BY <1>2, <1>3, <1>4, ConcatProperties
<1>6. /\ Len(a) = 1 => 1 \in 1 .. Len(all) /\ all[1] = a[1]
      /\ Len(b) = 1 => Len(a) + 1 \in 1 .. Len(all) /\ all[Len(a) + 1] = b[1]
  BY <1>2, <1>3, <1>5
<1>7. ASSUME NEW i \in 1 .. Len(all)
      PROVE  all[i].kind = "disconnected" /\ all[i].dev = d /\ all[i].psm \in ps
  <2>1. (Len(a) = 1 /\ all[i] = a[1]) \/ (Len(b) = 1 /\ all[i] = b[1])
    <3>1. CASE i <= Len(a)
      <4>1. i = 1 /\ Len(a) = 1
        BY <1>2, <1>5, <3>1
      <4>2. QED
        BY <1>5, <3>1, <4>1
    <3>2. CASE i > Len(a)
      <4>1. i - Len(a) = 1 /\ Len(b) = 1
        BY <1>2, <1>3, <1>5, <3>2
      <4>2. QED
        BY <1>2, <1>5, <3>2, <4>1
    <3>3. QED
      BY <1>2, <3>1, <3>2
  <2>2. QED
    BY <1>2, <1>3, <2>1
<1>8. ASSUME NEW p \in ps, channel[d][p] = "open"
      PROVE  \E i \in 1 .. Len(all) : all[i].psm = p
  <2>1. p \in {"control", "interrupt"}
    BY DEF PSMs
  <2>2. QED
    BY <1>2, <1>3, <1>6, <1>8, <2>1
<1>9. QED
  BY <1>5, <1>7, <1>8 DEF all

(* A request to close channels (bt_l2cap_profile_disconn_req) ends those    *)
(* that are open, and says so.                                              *)
LEMMA DisconnSays ==
  ASSUME channel \in Channels, NEW queue \in Seq(Told), NEW d \in Address, NEW ps \in SUBSET PSMs,
         DisconnReq(d, ps, queue)
  PROVE  /\ \E r : Says(queue, r)
         /\ \A x \in Devices, p \in PSMs :
              channel'[x][p] = IF x = d /\ p \in ps /\ channel[x][p] = "open" THEN "closed"
                               ELSE channel[x][p]
<1>1. CASE d = NoDevice
  <2>1. \A x \in Devices, p \in PSMs : x # d /\ channel'[x][p] = channel[x][p]
    BY <1>1, Ds5LinkAssumption DEF DisconnReq
  <2>2. \A x \in Devices, p \in PSMs : Follows(<<>>, channel[x][p], channel'[x][p], x, p)
    BY <2>1, NothingFollows
  <2>3. events' = queue \o <<>> /\ <<>> \in Seq(Told)
    BY <1>1, ConcatEmptySeq DEF DisconnReq
  <2>4. QED
    BY <2>1, <2>2, <2>3 DEF Says
<1>2. CASE d # NoDevice
  <2> DEFINE r == Notices(d, ps)
  <2>1. d \in Devices /\ events' = queue \o r /\ channel' = Closed(d, ps)
    BY <1>2 DEF DisconnReq, Address
  <2>2. \A x \in Devices, p \in PSMs :
          channel'[x][p] = IF x = d /\ p \in ps /\ channel[x][p] = "open" THEN "closed"
                           ELSE channel[x][p]
    BY <2>1 DEF Closed, Channels
  <2>3. /\ r \in Seq(Told)
        /\ \A i \in 1 .. Len(r) : r[i].kind = "disconnected" /\ r[i].dev = d /\ r[i].psm \in ps
        /\ \A p \in ps : channel[d][p] = "open" => \E i \in 1 .. Len(r) : r[i].psm = p
    BY <2>1, NoticesSay
  <2> HIDE DEF r
  <2>4. ASSUME NEW x \in Devices, NEW p \in PSMs
        PROVE  Follows(r, channel[x][p], channel'[x][p], x, p)
    <3>1. CASE channel'[x][p] = "open"
      <4>1. channel[x][p] = "open" /\ ~(x = d /\ p \in ps)
        BY <2>2, <3>1
      <4>2. \A k \in 0 + 1 .. Len(r) : ~EndsIt(r[k], x, p)
        BY <2>3, <4>1 DEF EndsIt, LostBy
      <4>3. 0 \in 0 .. Len(r)
        BY <2>3, LenProperties
      <4>4. QED
        BY <3>1, <4>1, <4>2, <4>3 DEF Follows
    <3>2. CASE channel'[x][p] # "open"
      <4>1. \A i \in 1 .. Len(r) : ~ConnectedTo(r[i], x, p)
        BY <2>3 DEF ConnectedTo
      <4>2. channel[x][p] = "open" => \E i \in 1 .. Len(r) : LostBy(r[i], x, p)
        BY <2>2, <2>3, <3>2 DEF LostBy
      <4>3. QED
        BY <3>2, <4>1, <4>2 DEF Follows
    <3>3. QED
      BY <3>1, <3>2
  <2>5. QED
    BY <2>1, <2>2, <2>3, <2>4 DEF Says
<1>3. QED
  BY <1>1, <1>2

(* Events told one after another are a sequence, however they are grouped.  *)
LEMMA ToldInARow ==
  ASSUME NEW q \in Seq(Told), NEW r \in Seq(Told), NEW t \in Seq(Told)
  PROVE  (q \o r) \o t = q \o (r \o t)
BY ConcatAssociative

(* The loss of a device ends its channels, and says so of those that were.  *)
LEMMA LossSays ==
  ASSUME StepTypes, NEW d \in Devices, LosesDevice(d)
  PROVE  \E r : Says(events, r)
<1> DEFINE Of(p) == CASE channel[d][p] = "open" -> <<ChannelEvent("disconnected", d, p)>>
                      [] channel[d][p] = "opening" -> <<ChannelEvent("failed", d, p)>>
                      [] OTHER -> <<>>
           a == Of("interrupt")
           b == Of("control")
           gone == <<DeviceEvent("aclGone", d, TRUE)>>
           r == (a \o b) \o gone
<1>1. \A p \in PSMs, kind \in {"disconnected", "failed"} :
        /\ ChannelEvent(kind, d, p) \in Told /\ ChannelEvent(kind, d, p).kind = kind
        /\ ChannelEvent(kind, d, p).dev = d /\ ChannelEvent(kind, d, p).psm = p
  BY EventType DEF ChannelEvent, Event, EventKinds, Address
<1>2. /\ gone \in Seq(Told) /\ Len(gone) = 1
      /\ gone[1].kind = "aclGone" /\ gone[1].dev = d
  <2> DEFINE e == DeviceEvent("aclGone", d, TRUE)
  <2>1. e.kind = "aclGone" /\ e.dev = d /\ e \in EventRecord
    BY DEF DeviceEvent, Event, EventRecord, EventKinds, Address, PSMs
  <2>2. e \in Told /\ gone = <<e>>
    BY <2>1 DEF Told, NamesDevice
  <2> HIDE DEF e, gone
  <2>3. QED
    BY <2>1, <2>2
<1>3. /\ a \in Seq(Told) /\ Len(a) \in {0, 1}
      /\ Len(a) = 1 => a[1].kind \in {"disconnected", "failed"} /\ a[1].dev = d
      /\ channel[d]["interrupt"] = "open" => Len(a) = 1 /\ LostBy(a[1], d, "interrupt")
  BY <1>1 DEF PSMs, LostBy
<1>4. /\ b \in Seq(Told) /\ Len(b) \in {0, 1}
      /\ Len(b) = 1 => b[1].kind \in {"disconnected", "failed"} /\ b[1].dev = d
      /\ channel[d]["control"] = "open" => Len(b) = 1 /\ LostBy(b[1], d, "control")
  BY <1>1 DEF PSMs, LostBy
<1>5. /\ events' = events \o (a \o b) \o gone
      /\ channel' = [channel EXCEPT ![d] = [p \in PSMs |-> "closed"]]
  BY DEF LosesDevice
<1> HIDE DEF a, b, gone
<1> DEFINE ab == a \o b
<1>6. /\ ab \in Seq(Told) /\ Len(ab) = Len(a) + Len(b)
      /\ \A i \in 1 .. Len(a) + Len(b) : ab[i] = IF i <= Len(a) THEN a[i] ELSE b[i - Len(a)]
  BY <1>3, <1>4, ConcatProperties
<1>7. (events \o ab) \o gone = events \o (ab \o gone)
  <2>1. events \in Seq(Told) /\ ab \in Seq(Told) /\ gone \in Seq(Told)
    BY <1>2, <1>6 DEF StepTypes
  <2>2. QED
    BY <2>1, ToldInARow
<1> HIDE DEF ab
<1>8. /\ ab \o gone \in Seq(Told) /\ Len(ab \o gone) = Len(ab) + Len(gone)
      /\ \A i \in 1 .. Len(ab) + Len(gone) :
           (ab \o gone)[i] = IF i <= Len(ab) THEN ab[i] ELSE gone[i - Len(ab)]
  <2> HIDE DEF r
  <2>1. ab \in Seq(Told) /\ gone \in Seq(Told)
    BY <1>2, <1>6
  <2>2. QED
    BY <2>1, ConcatProperties
<1>9. r \in Seq(Told) /\ events' = events \o r
  <2>1. r = ab \o gone
    BY DEF ab
  <2>2. events' = (events \o ab) \o gone
    BY <1>5 DEF ab
  <2> HIDE DEF r
  <2>3. QED
    BY <1>7, <1>8, <2>1, <2>2
<1>10. /\ Len(r) = (Len(a) + Len(b)) + 1
       /\ \A i \in 1 .. Len(r) : \/ Len(a) = 1 /\ i = 1 /\ r[i] = a[1]
                                 \/ Len(b) = 1 /\ i = Len(a) + 1 /\ r[i] = b[1]
                                 \/ r[i] = gone[1]
       /\ Len(a) = 1 => 1 \in 1 .. Len(r) /\ r[1] = a[1]
       /\ Len(b) = 1 => Len(a) + 1 \in 1 .. Len(r) /\ r[Len(a) + 1] = b[1]
  <2>1. r = ab \o gone
    BY DEF ab
  <2> HIDE DEF r
  <2>2. Len(r) = (Len(a) + Len(b)) + 1
    BY <1>2, <1>6, <1>8, <2>1
  <2>3. \A i \in 1 .. Len(r) : r[i] = IF i <= Len(a) THEN a[i]
                                      ELSE IF i <= Len(a) + Len(b) THEN b[i - Len(a)] ELSE gone[1]
    BY <1>2, <1>3, <1>4, <1>6, <1>8, <2>1, <2>2
  <2>4. QED
    BY <1>3, <1>4, <2>2, <2>3
<1> HIDE DEF r
<1>11. \A i \in 1 .. Len(r) : r[i].kind \in {"disconnected", "failed", "aclGone"} /\ r[i].dev = d
  BY <1>2, <1>3, <1>4, <1>10
<1>12. ASSUME NEW x \in Devices, NEW p \in PSMs
       PROVE  Follows(r, channel[x][p], channel'[x][p], x, p)
  <2>1. \A i \in 1 .. Len(r) : ~ConnectedTo(r[i], x, p)
    BY <1>11 DEF ConnectedTo
  <2>2. CASE x = d
    <3>1. channel'[x][p] = "closed"
      BY <1>5, <2>2 DEF StepTypes, Channels
    <3>2. channel[x][p] = "open" => \E i \in 1 .. Len(r) : LostBy(r[i], x, p)
      BY <1>3, <1>4, <1>10, <2>2 DEF PSMs
    <3>3. QED
      BY <2>1, <3>1, <3>2 DEF Follows
  <2>3. CASE x # d
    <3>1. channel'[x][p] = channel[x][p]
      BY <1>5, <2>3 DEF StepTypes, Channels
    <3>2. \A k \in 0 + 1 .. Len(r) : ~EndsIt(r[k], x, p)
      BY <1>11, <2>3 DEF EndsIt, LostBy
    <3>3. 0 \in 0 .. Len(r)
      BY <1>9, LenProperties
    <3>4. QED
      BY <2>1, <3>1, <3>2, <3>3 DEF Follows
  <2>4. QED
    BY <2>2, <2>3
<1>13. QED
  BY <1>9, <1>12 DEF Says

-----------------------------------------------------------------------------
(* What the application knows of each channel agrees with what it is; but  *)
(* the loss of another device makes it forget channels that are open.       *)
Known(d, p) ==
  \/ "foreignLoss" \in mixups /\ channel[d][p] = "open"
  \/ Agrees(events, app.cid[p], channel[d][p], d, p)
ChannelsKnown == \A d \in Devices, p \in PSMs : Known(d, p)

(* Outside the handler: the code learns nothing, and the stack says what it *)
(* does.                                                                    *)
LEMMA SaidIsKnown ==
  ASSUME StepTypes, ChannelsKnown, mixups \subseteq mixups', app'.cid = app.cid,
         \E r : Says(events, r)
  PROVE  ChannelsKnown'
<1>1. PICK r : Says(events, r)
  OBVIOUS
<1>2. ASSUME NEW d \in Devices, NEW p \in PSMs PROVE Known(d, p)'
  <2>1. /\ events \in Seq(Told) /\ r \in Seq(Told) /\ events' = events \o r
        /\ Follows(r, channel[d][p], channel'[d][p], d, p)
    BY <1>1 DEF StepTypes, Says
  <2>2. CASE Agrees(events, app.cid[p], channel[d][p], d, p)
    <3>1. Agrees(events \o r, app.cid[p], channel'[d][p], d, p)
      BY <2>1, <2>2, AddedAgrees
    <3>2. QED
      BY <2>1, <3>1 DEF Known
  <2>3. CASE "foreignLoss" \in mixups /\ channel[d][p] = "open" /\ channel'[d][p] # "open"
    <3>1. Follows(r, "open", channel'[d][p], d, p)
      BY <2>1, <2>3
    <3>2. Agrees(events \o r, app'.cid[p], channel'[d][p], d, p)
      BY <2>1, <2>3, <3>1, ClosedAgrees
    <3>3. QED
      BY <2>1, <3>2 DEF Known
  <2>4. CASE "foreignLoss" \in mixups /\ channel'[d][p] = "open"
    BY <2>4 DEF Known
  <2>5. QED
    BY <2>2, <2>3, <2>4 DEF ChannelsKnown, Known
<1>3. QED
  BY <1>2 DEF ChannelsKnown

(* In the handler: what is learnt of each channel is what the event says,   *)
(* or the handler closes it.                                                *)
LEMMA HandledIsKnown ==
  ASSUME StepTypes, ChannelsKnown, mixups \subseteq mixups', events # <<>>, \E r : Says(Rest, r),
         \A d \in Devices, p \in PSMs :
           \/ channel[d][p] = "open" /\ channel'[d][p] # "open"
           \/ channel'[d][p] = "open" /\ "foreignLoss" \in mixups'
           \/ Learns(Head(events), app.cid[p], app'.cid[p], channel[d][p], d, p)
  PROVE  ChannelsKnown'
<1>1. PICK r : Says(Rest, r)
  OBVIOUS
<1>2. ASSUME NEW d \in Devices, NEW p \in PSMs PROVE Known(d, p)'
  <2>1. Known(d, p)
    BY DEF ChannelsKnown
  <2>2. /\ events \in Seq(Told) /\ r \in Seq(Told) /\ events' = Rest \o r
        /\ Follows(r, channel[d][p], channel'[d][p], d, p)
    BY <1>1 DEF StepTypes, Says
  <2>3. Rest \in Seq(Told) /\ Rest = Tail(events)
    BY <2>2, Taken DEF Rest
  <2>4. CASE channel[d][p] = "open" /\ channel'[d][p] # "open"
    <3>1. Follows(r, "open", channel'[d][p], d, p)
      BY <2>2, <2>4
    <3>2. Agrees(Rest \o r, app'.cid[p], channel'[d][p], d, p)
      BY <2>2, <2>3, <2>4, <3>1, ClosedAgrees
    <3>3. QED
      BY <2>2, <3>2 DEF Known
  <2>5. CASE channel'[d][p] = "open" /\ "foreignLoss" \in mixups'
    BY <2>5 DEF Known
  <2>6. CASE /\ Learns(Head(events), app.cid[p], app'.cid[p], channel[d][p], d, p)
             /\ ~(channel[d][p] = "open" /\ channel'[d][p] # "open")
             /\ ~(channel'[d][p] = "open" /\ "foreignLoss" \in mixups')
    <3>1. Agrees(events, app.cid[p], channel[d][p], d, p)
      BY <2>1, <2>6 DEF Known
    <3>2. Agrees(Rest, app'.cid[p], channel[d][p], d, p)
      BY <2>2, <2>3, <2>6, <3>1, TakenAgrees
    <3>3. Agrees(Rest \o r, app'.cid[p], channel'[d][p], d, p)
      BY <2>2, <2>3, <3>2, AddedAgrees
    <3>4. QED
      BY <2>2, <3>3 DEF Known
  <2>7. QED
    BY <2>4, <2>5, <2>6
<1>3. QED
  BY <1>2 DEF ChannelsKnown

(* What keeps the channels that the application has.                        *)
LEMMA SameChannels ==
  ASSUME NEW a \in AppState, NEW d \in Address, NEW ok \in BOOLEAN
  PROVE  /\ ScheduleReconnect(a).cid = a.cid /\ ScheduleConnect(a, d).cid = a.cid
         /\ LoadSaved(a).cid = a.cid /\ ForgetSaved(a).cid = a.cid /\ Stop(a).cid = a.cid
         /\ AfterRead(a).cid = a.cid /\ PairComplete(a, d, ok).cid = a.cid
<1>1. /\ ScheduleReconnect(a).cid = a.cid /\ ScheduleConnect(a, d).cid = a.cid
      /\ LoadSaved(a).cid = a.cid /\ ForgetSaved(a).cid = a.cid /\ Stop(a).cid = a.cid
  BY DEF ScheduleReconnect, ScheduleConnect, LoadSaved, ForgetSaved, Stop, AppState
<1>2. AfterRead(a).cid = a.cid
  BY DEF AfterRead, ScheduleReconnect, ScheduleConnect, AppState
<1>3. PairComplete(a, d, ok).cid = a.cid
  BY DEF PairComplete, ScheduleReconnect, ScheduleConnect, AppState
<1>4. QED
  BY <1>1, <1>2, <1>3

(* A link torn down knows no channel.                                       *)
LEMMA GivenUp ==
  ASSUME NEW a \in AppState, NEW unexpected, NEW p \in PSMs
  PROVE  Teardown(a, unexpected).cid[p] = NoDevice
BY DEF Teardown, ClearLink, ScheduleReconnect, AppState

-----------------------------------------------------------------------------
(* Every step that mixes nothing up keeps that agreement.                   *)

(* The stack says what it does.                                             *)
LEMMA StackSays ==
  ASSUME StepTypes, StackStep
  PROVE  app'.cid = app.cid /\ \E r : Says(events, r)
<1>1. app \in AppState /\ events \in Seq(Told) /\ bond \in Address /\ app.candidate \in Address
  BY DEF StepTypes, OthersOK, AppState
<1>2. app'.cid = app.cid
  <2>1. \/ app' = app \/ app' = [app EXCEPT !.registered = TRUE, !.readWanted = TRUE]
        \/ \E d \in Devices :
             app' = [app EXCEPT !.active = d, !.connecting = TRUE, !.reconnectPending = FALSE]
    BY DEF StackStep, Registered, ConnInd, ReadsBonds, EndsInquiry, Opens, FailsToOpen,
           LosesChannel, LosesDevice, LosesKey, Finds, Bonds, Answers
  <2>2. QED
    BY <1>1, <2>1, ZenonT(40) DEF AppState
<1> SUFFICES \E r : Says(events, r)
  BY <1>2
<1>3. ASSUME NEW kind \in {"records", "discoveryDone", "keyMissing", "found", "paired", "aclOpen",
                           "auth", "encrypted"},
             NEW d \in Address, NEW ok \in BOOLEAN,
             events' = Append(events, DeviceEvent(kind, d, ok)), channel' = channel
      PROVE  \E r : Says(events, r)
  <2> DEFINE e == DeviceEvent(kind, d, ok)
  <2>1. kind \in EventKinds /\ kind # "connected" /\ "control" \in PSMs
    BY DEF EventKinds, PSMs
  <2>2. e \in Told
    BY <2>1, EventType DEF DeviceEvent
  <2>3. e.kind = kind
    BY DEF DeviceEvent, Event
  <2> HIDE DEF e
  <2>4. events' = events \o <<e>>
    BY <1>1, <1>3, <2>2, AppendIsConcat DEF e
  <2>5. QED
    BY <1>1, <1>3, <2>2, <2>3, <2>4, OtherSays
<1>4. CASE Registered
  BY <1>1, <1>4, SameSays DEF Registered
<1>5. ASSUME NEW d \in Devices, NEW p \in PSMs, ConnInd(d, p) PROVE \E r : Says(events, r)
  <2>1. channel[d][p] = "closed" /\ channel' = [channel EXCEPT ![d][p] = "opening"] /\ events' = events
    BY <1>5 DEF ConnInd
  <2>2. channel[d][p] # "open"
    BY <2>1
  <2>3. QED
    BY <2>1, <2>2, QuietSays
<1>6. ASSUME NEW d \in Devices, NEW p \in PSMs, Opens(d, p) \/ FailsToOpen(d, p) \/ LosesChannel(d, p)
      PROVE  \E r : Says(events, r)
  <2>1. PICK kind, t : /\ events' = Append(events, ChannelEvent(kind, d, p))
                       /\ channel' = [channel EXCEPT ![d][p] = t]
                       /\ \/ kind = "connected" /\ t = "open"
                          \/ kind = "failed" /\ t = "closed" /\ channel[d][p] # "open"
                          \/ kind = "disconnected" /\ t = "closed"
    BY <1>6 DEF Opens, FailsToOpen, LosesChannel, Tell
  <2>2. QED
    BY <2>1, ChannelSays
<1>7. ASSUME NEW d \in Devices, LosesDevice(d) PROVE \E r : Says(events, r)
  BY <1>7, LossSays
<1>8. CASE ReadsBonds
  BY <1>1, <1>3, <1>8 DEF ReadsBonds, Tell
<1>9. CASE EndsInquiry
  BY <1>1, <1>3, <1>9 DEF EndsInquiry, Tell, Address
<1>10. ASSUME NEW d \in Devices, LosesKey(d) \/ Finds(d) PROVE \E r : Says(events, r)
  BY <1>3, <1>10 DEF LosesKey, Finds, Tell, Address
<1>11. ASSUME NEW d \in Devices, NEW ok \in BOOLEAN, Bonds(d, ok) PROVE \E r : Says(events, r)
  BY <1>3, <1>11 DEF Bonds, Tell, Address
<1>12. ASSUME NEW step, NEW kind \in {"aclOpen", "auth", "encrypted"}, NEW ok \in BOOLEAN,
              Answers(step, kind, ok)
       PROVE  \E r : Says(events, r)
  BY <1>1, <1>3, <1>12 DEF Answers, Tell
<1>13. QED
  BY <1>4, <1>5, <1>6, <1>7, <1>8, <1>9, <1>10, <1>11, <1>12 DEF StackStep

(* A step of the handler that keeps the channels known, and none are closed.*)
LEMMA OtherHandledKnown ==
  ASSUME StepTypes, ChannelsKnown, mixups \subseteq mixups',
         events # <<>>, events' = Rest, channel' = channel, app'.cid = app.cid,
         Head(events).kind # "connected",
         \A p \in PSMs : ~(Head(events).kind = "disconnected" /\ Head(events).psm = p
                           /\ Head(events).dev = app.cid[p])
  PROVE  ChannelsKnown'
<1>1. Rest \in Seq(Told)
  BY Taken DEF StepTypes
<1>2. \E r : Says(Rest, r)
  BY <1>1, SameSays
<1>3. \A d \in Devices, p \in PSMs :
        Learns(Head(events), app.cid[p], app'.cid[p], channel[d][p], d, p)
  BY DEF Learns, ConnectedTo, LostBy
<1>4. QED
  BY <1>2, <1>3, HandledIsKnown

(* The handlers, one by one.                                                *)
LEMMA ConnectedKnown ==
  ASSUME StepTypes, ChannelsKnown, Linked(app), mixups \subseteq mixups', HandleConnected
  PROVE  ChannelsKnown'
<1> DEFINE e == Head(events)  d == Head(events).dev  q == Head(events).psm
<1>1. /\ events # <<>> /\ e.kind = "connected" /\ d \in Devices /\ q \in PSMs /\ Rest \in Seq(Told)
      /\ app \in AppState /\ channel \in Channels /\ d \in Address
  BY Taken DEF HandleConnected, Handle, StepTypes, Address
<1>2. \A x \in Devices, p \in PSMs :
        ConnectedTo(e, x, p) <=> x = d /\ p = q
  BY <1>1 DEF ConnectedTo
<1>3. \A x \in Devices, p \in PSMs : ~LostBy(e, x, p) /\ ~EndsIt(e, x, p)
  BY <1>1 DEF LostBy, EndsIt
<1>4. CASE ~AddressAllowed(app, d)
  <2>1. app' = app /\ DisconnReq(d, {q}, Rest)
    BY <1>4 DEF HandleConnected
  <2> HIDE DEF e, d, q
  <2>2. /\ \E r : Says(Rest, r)
        /\ \A x \in Devices, p \in PSMs :
             channel'[x][p] = IF x = d /\ p \in {q} /\ channel[x][p] = "open" THEN "closed"
                              ELSE channel[x][p]
    <3>1. {q} \in SUBSET PSMs
      BY <1>1
    <3>2. QED
      BY <1>1, <2>1, <3>1, DisconnSays
  <2>3. \A x \in Devices, p \in PSMs :
           \/ channel[x][p] = "open" /\ channel'[x][p] # "open"
           \/ Learns(e, app.cid[p], app'.cid[p], channel[x][p], x, p)
    BY <1>2, <1>3, <2>1, <2>2 DEF Learns
  <2>4. QED
    BY <1>1, <2>2, <2>3, HandledIsKnown DEF e
<1>5. CASE AddressAllowed(app, d)
  <2>1. app.cid[q] \in {NoDevice, d}
    BY <1>1, <1>5 DEF AddressAllowed, Linked
  <2>2. app' = WithChannel(app, d, q) /\ channel' = channel /\ events' = Rest
    BY <1>5, <2>1 DEF HandleConnected
  <2> HIDE DEF e, d, q
  <2>3. app'.cid = [app.cid EXCEPT ![q] = d]
    BY <1>1, <2>2 DEF WithChannel, AppState
  <2>4. \E r : Says(Rest, r)
    BY <1>1, <2>2, SameSays
  <2>5. app.cid \in [PSMs -> Address]
    BY <1>1 DEF AppState
  <2>6. ASSUME NEW x \in Devices, NEW p \in PSMs
        PROVE  Learns(e, app.cid[p], app'.cid[p], channel[x][p], x, p)
    <3>1. app'.cid[p] = IF p = q THEN d ELSE app.cid[p]
      BY <2>3, <2>5
    <3>2. x # NoDevice
      BY Ds5LinkAssumption
    <3>3. QED
      BY <1>2, <1>3, <2>1, <3>1, <3>2 DEF Learns
  <2>7. QED
    BY <1>1, <2>4, <2>6, HandledIsKnown DEF e
<1>6. QED
  BY <1>4, <1>5

LEMMA LostKnown ==
  ASSUME StepTypes, ChannelsKnown, Linked(app), mixups \subseteq mixups',
         HandleDisconnected \/ HandleFailed
  PROVE  ChannelsKnown'
<1> DEFINE e == Head(events)
<1>1. /\ events # <<>> /\ e.kind \in {"disconnected", "failed"} /\ e.psm \in PSMs
      /\ Rest \in Seq(Told) /\ app \in AppState /\ channel \in Channels /\ app.active \in Address
  BY Taken DEF HandleDisconnected, HandleFailed, Handle, StepTypes, AppState
<1>2. CASE MatchesActive(app, e)
  <2>1. PICK unexpected : app' = Teardown(app, unexpected) /\ DisconnReq(app.active, PSMs, Rest)
    BY <1>2 DEF HandleDisconnected, HandleFailed
  <2>2. /\ \E r : Says(Rest, r)
        /\ \A x \in Devices, p \in PSMs :
             channel'[x][p] = IF x = app.active /\ p \in PSMs /\ channel[x][p] = "open" THEN "closed"
                              ELSE channel[x][p]
    <3>1. PSMs \in SUBSET PSMs
      OBVIOUS
    <3>2. QED
      BY <1>1, <2>1, <3>1, DisconnSays
  <2>3. ASSUME NEW x \in Devices, NEW p \in PSMs
        PROVE  \/ channel[x][p] = "open" /\ channel'[x][p] # "open"
               \/ Learns(e, app.cid[p], app'.cid[p], channel[x][p], x, p)
    <3>1. app'.cid[p] = NoDevice /\ x # NoDevice
      BY <1>1, <2>1, GivenUp, Ds5LinkAssumption
    <3>2. ~ConnectedTo(e, x, p)
      BY <1>1 DEF ConnectedTo
    <3>3. app.cid[p] = x => x = app.active
      BY <3>1 DEF Linked
    <3>4. QED
      BY <2>2, <3>1, <3>2, <3>3 DEF Learns
  <2>4. QED
    BY <1>1, <2>2, <2>3, HandledIsKnown
<1>3. CASE ~MatchesActive(app, e)
  <2>1. app' = app /\ channel' = channel /\ events' = Rest
    BY <1>3 DEF HandleDisconnected, HandleFailed
  <2>2. \A p \in PSMs : ~(e.psm = p /\ e.dev = app.cid[p])
    BY <1>3 DEF MatchesActive
  <2>3. QED
    BY <1>1, <2>1, <2>2, OtherHandledKnown
<1>4. QED
  BY <1>2, <1>3

LEMMA GoneKnown ==
  ASSUME StepTypes, ChannelsKnown, Linked(app), Remember, HandleAclGone
  PROVE  ChannelsKnown'
<1> DEFINE e == Head(events)
<1>1. /\ events # <<>> /\ e.kind = "aclGone" /\ app \in AppState /\ Rest \in Seq(Told)
      /\ events' = Rest /\ channel' = channel
  BY Taken DEF HandleAclGone, Handle, StepTypes, OnlyApp
<1>2. \/ app' = PairComplete(app, app.candidate, FALSE)
      \/ app' = Teardown(app, ~app.disconnecting)
      \/ app' = app
  BY DEF HandleAclGone, OnlyApp
<1>3. CASE app'.cid = app.cid
  BY <1>1, <1>3, OtherHandledKnown DEF Remember
<1>4. CASE app' = Teardown(app, ~app.disconnecting) /\ app'.cid # app.cid
  <2>1. e.dev = app.active \/ "foreignLoss" \in mixups'
    <3>1. Handles({"aclGone"}) /\ app' # app
      BY <1>1, <1>4 DEF Handles, Rest
    <3>2. e.dev # app.active => Happens("foreignLoss")
      BY <3>1 DEF Happens
    <3>3. QED
      BY <3>2 DEF Remember, Mixups
  <2>2. ASSUME NEW x \in Devices, NEW p \in PSMs
        PROVE  \/ channel'[x][p] = "open" /\ "foreignLoss" \in mixups'
               \/ Learns(e, app.cid[p], app'.cid[p], channel[x][p], x, p)
    <3>1. app'.cid[p] = NoDevice /\ x # NoDevice
      BY <1>1, <1>4, GivenUp, Ds5LinkAssumption
    <3>2. ~ConnectedTo(e, x, p)
      BY <1>1 DEF ConnectedTo
    <3>3. app.cid[p] = x => EndsIt(e, x, p) \/ "foreignLoss" \in mixups'
      BY <1>1, <2>1, <3>1 DEF Linked, EndsIt
    <3>4. QED
      BY <1>1, <3>1, <3>2, <3>3 DEF Learns
  <2>3. \E r : Says(Rest, r)
    BY <1>1, SameSays
  <2>4. QED
    BY <1>1, <2>2, <2>3, HandledIsKnown DEF Remember
<1>5. app' = PairComplete(app, app.candidate, FALSE) => app'.cid = app.cid
  <2>1. app.candidate \in Address
    BY <1>1 DEF AppState
  <2>2. QED
    BY <1>1, <2>1, SameChannels
<1>6. QED
  BY <1>2, <1>3, <1>4, <1>5

LEMMA OtherHandlerKnown ==
  ASSUME StepTypes, ChannelsKnown, mixups \subseteq mixups',
         \/ HandleFound \/ HandleDiscoveryDone
         \/ HandleAnswer("aclOpen", "auth") \/ HandleAnswer("auth", "encrypt")
         \/ HandleAnswer("encrypted", "none")
         \/ HandlePaired \/ HandleRecords \/ HandleKeyMissing \/ HandleUnpaired
  PROVE  ChannelsKnown'
<1>1. app \in AppState /\ NoDevice \in Address
  BY DEF StepTypes, Address
<1>2. /\ events # <<>> /\ events' = Rest /\ channel' = channel
      /\ Head(events).kind \notin {"connected", "disconnected"}
  BY DEF HandleFound, HandleDiscoveryDone, HandleAnswer, HandlePaired, HandleRecords,
         HandleKeyMissing, HandleUnpaired, Handle, OnlyApp
<1>0. Head(events).dev \in Address /\ Head(events).ok \in BOOLEAN
  BY <1>2, Taken DEF StepTypes
<1>11. PairComplete(app, Head(events).dev, Head(events).ok).cid = app.cid
  <2> DEFINE d == Head(events).dev  ok == Head(events).ok
  <2>1. d \in Address /\ ok \in BOOLEAN
    BY <1>0
  <2> HIDE DEF d, ok
  <2>2. PairComplete(app, d, ok).cid = app.cid
    BY <1>1, <2>1, SameChannels
  <2>3. QED
    BY <2>2 DEF d, ok
<1> SUFFICES app'.cid = app.cid
  BY <1>2, OtherHandledKnown
<1>3. CASE HandleFound \/ HandleDiscoveryDone
  BY <1>1, <1>3 DEF HandleFound, HandleDiscoveryDone, OnlyApp, AppState
<1>4. ASSUME NEW kind, NEW next, HandleAnswer(kind, next) PROVE app'.cid = app.cid
  <2>1. app' \in {app, [app EXCEPT !.todo = @ \cup {next}],
                  PairComplete(app, Head(events).dev, Head(events).ok)}
    BY <1>4 DEF HandleAnswer, OnlyApp
  <2>2. [app EXCEPT !.todo = @ \cup {next}].cid = app.cid
    BY <1>1 DEF AppState
  <2>3. QED
    BY <1>11, <2>1, <2>2
<1>5. CASE HandlePaired
  <2>1. app' \in {[app EXCEPT !.saved = Head(events).dev],
                  PairComplete(app, Head(events).dev, Head(events).ok)}
    BY <1>5 DEF HandlePaired
  <2>2. [app EXCEPT !.saved = Head(events).dev].cid = app.cid
    BY <1>1 DEF AppState
  <2>3. QED
    BY <1>11, <2>1, <2>2
<1>6. CASE HandleRecords
  <2> DEFINE a == [app EXCEPT !.reading = FALSE,
                              !.saved = IF @ = NoDevice THEN Head(events).dev ELSE @]
  <2>1. a \in AppState /\ a.cid = app.cid
    BY <1>0, <1>1 DEF AppState
  <2>2. app' = AfterRead(a)
    BY <1>6 DEF HandleRecords, OnlyApp
  <2> HIDE DEF a
  <2>3. QED
    BY <1>0, <2>1, <2>2, SameChannels
<1>7. CASE HandleKeyMissing \/ HandleUnpaired
  BY <1>1, <1>7, SameChannels DEF HandleKeyMissing, HandleUnpaired, OnlyApp
<1>8. QED
  BY <1>3, <1>4, <1>5, <1>6, <1>7

(* News that a silent event precedes is news all the same.                  *)
LEMMA SaysAfter ==
  ASSUME NEW queue \in Seq(Told), NEW e \in Told, NEW r, Says(queue \o <<e>>, r),
         e.kind \notin {"connected", "disconnected", "aclGone"}
  PROVE  \E s : Says(queue, s)
<1> DEFINE all == <<e>> \o r
<1>1. r \in Seq(Told) /\ <<e>> \in Seq(Told) /\ Len(<<e>>) = 1 /\ <<e>>[1] = e
  BY DEF Says
<1>2. all \in Seq(Told) /\ events' = queue \o all
  BY <1>1, ConcatProperties, ConcatAssociative DEF Says
<1>3. /\ Len(r) \in Nat /\ Len(all) = 1 + Len(r) /\ all[1] = e
      /\ \A i \in 1 .. Len(r) : all[i + 1] = r[i]
      /\ \A i \in 2 .. Len(all) : i - 1 \in 1 .. Len(r) /\ all[i] = r[i - 1]
  <2>1. /\ Len(r) \in Nat /\ Len(all) = Len(<<e>>) + Len(r)
        /\ \A i \in 1 .. Len(<<e>>) + Len(r) :
             all[i] = IF i <= Len(<<e>>) THEN <<e>>[i] ELSE r[i - Len(<<e>>)]
    BY <1>1, ConcatProperties, LenProperties
  <2> HIDE DEF all
  <2>2. /\ Len(all) = 1 + Len(r)
        /\ \A i \in 1 .. 1 + Len(r) : all[i] = IF i <= 1 THEN <<e>>[i] ELSE r[i - 1]
    BY <1>1, <2>1
  <2>3. all[1] = e
    BY <1>1, <2>1, <2>2
  <2>4. QED
    BY <2>1, <2>2, <2>3
<1> HIDE DEF all
<1>4. ASSUME NEW d \in Devices, NEW p \in PSMs
      PROVE  Follows(all, channel[d][p], channel'[d][p], d, p)
  <2>1. Follows(r, channel[d][p], channel'[d][p], d, p)
    BY DEF Says
  <2>2. ~ConnectedTo(e, d, p) /\ ~EndsIt(e, d, p)
    BY DEF ConnectedTo, EndsIt, LostBy
  <2>3. CASE channel'[d][p] = "open"
    <3>1. PICK j \in 0 .. Len(r) :
             /\ IF j = 0 THEN channel[d][p] = "open" ELSE ConnectedTo(r[j], d, p)
             /\ \A k \in j + 1 .. Len(r) : ~EndsIt(r[k], d, p)
      BY <2>1, <2>3 DEF Follows
    <3>2. CASE j = 0
      <4>1. \A k \in 0 + 1 .. Len(all) : ~EndsIt(all[k], d, p)
        <5>1. SUFFICES ASSUME NEW k \in 0 + 1 .. Len(all) PROVE ~EndsIt(all[k], d, p)
          OBVIOUS
        <5>2. CASE k = 1
          BY <1>3, <2>2, <5>2
        <5>3. CASE k # 1
          BY <1>3, <3>1, <3>2, <5>3
        <5>4. QED
          BY <5>2, <5>3
      <4>2. 0 \in 0 .. Len(all)
        BY <1>3
      <4>3. QED
        BY <2>3, <3>1, <3>2, <4>1, <4>2 DEF Follows
    <3>3. CASE j # 0
      <4>1. j + 1 \in 0 .. Len(all) /\ j + 1 # 0 /\ all[j + 1] = r[j]
        BY <1>3, <3>3
      <4>2. \A k \in (j + 1) + 1 .. Len(all) : ~EndsIt(all[k], d, p)
        BY <1>3, <3>1
      <4>3. QED
        BY <2>3, <3>1, <3>3, <4>1, <4>2 DEF Follows
    <3>4. QED
      BY <3>2, <3>3
  <2>4. CASE channel'[d][p] # "open"
    <3>1. /\ \A i \in 1 .. Len(r) : ~ConnectedTo(r[i], d, p)
          /\ channel[d][p] = "open" => \E i \in 1 .. Len(r) : LostBy(r[i], d, p)
      BY <2>1, <2>4 DEF Follows
    <3>2. \A i \in 1 .. Len(all) : ~ConnectedTo(all[i], d, p)
      <4>1. SUFFICES ASSUME NEW i \in 1 .. Len(all) PROVE ~ConnectedTo(all[i], d, p)
        OBVIOUS
      <4>2. CASE i = 1
        BY <1>3, <2>2, <4>2
      <4>3. CASE i # 1
        <5>1. i - 1 \in 1 .. Len(r) /\ all[i] = r[i - 1]
          BY <1>3, <4>3
        <5>2. QED
          BY <3>1, <5>1
      <4>4. QED
        BY <4>2, <4>3
    <3>3. \A i \in 1 .. Len(r) : i + 1 \in 1 .. Len(all) /\ all[i + 1] = r[i]
      BY <1>3
    <3>4. channel[d][p] = "open" => \E i \in 1 .. Len(all) : LostBy(all[i], d, p)
      BY <3>1, <3>3
    <3>5. QED
      BY <2>4, <3>2, <3>4 DEF Follows
  <2>5. QED
    BY <2>3, <2>4
<1>5. QED
  BY <1>2, <1>4 DEF Says

(* The application's calls and the poll's passes know no other channels     *)
(* afterwards, and the stack says what it does for them.                    *)
LEMMA ApplicationSays ==
  ASSUME StepTypes, ApplicationStep
  PROVE  app'.cid = app.cid /\ \E r : Says(events, r)
<1>1. /\ app \in AppState /\ bond \in Address /\ app.saved \in Address /\ NoDevice \in Address
      /\ events \in Seq(Told) /\ channel \in Channels /\ app.active \in Address /\ TRUE \in BOOLEAN
  BY DEF StepTypes, OthersOK, AppState, Address
<1>2. CASE \/ \E d \in Devices : SetSavedAddress(d)
           \/ ClearSavedAddress \/ EnableReconnect \/ DisableReconnect \/ StartPairing \/ ConnectSaved
  <2>1. events' = events /\ channel' = channel
    BY <1>2 DEF SetSavedAddress, ClearSavedAddress, EnableReconnect, DisableReconnect, StartPairing,
                ConnectSaved, SilentCall
  <2>2. app'.cid = app.cid
    <3>1. ASSUME NEW d \in Devices, SetSavedAddress(d) PROVE app'.cid = app.cid
      <4> DEFINE saved == [app EXCEPT !.saved = d, !.injected = TRUE, !.waiting = FALSE]
      <4>1. saved \in AppState /\ saved.cid = app.cid
        BY <1>1 DEF AppState, Address
      <4> HIDE DEF saved
      <4>2. app' \in {saved, ScheduleReconnect(saved)}
        BY <3>1 DEF SetSavedAddress, SilentCall, Call, saved
      <4>3. QED
        BY <1>1, <4>1, <4>2, SameChannels
    <3>2. ASSUME ClearSavedAddress PROVE app'.cid = app.cid
      <4>1. app' = [ForgetSaved(app) EXCEPT !.waiting = FALSE] /\ ForgetSaved(app) \in AppState
        BY <1>1, <3>2, ForgottenType DEF ClearSavedAddress, SilentCall, Call
      <4>2. app'.cid = ForgetSaved(app).cid
        BY <4>1 DEF AppState
      <4>3. QED
        BY <1>1, <4>2, SameChannels
    <3>3. ASSUME EnableReconnect PROVE app'.cid = app.cid
      <4> DEFINE on == [app EXCEPT !.autoReconnect = TRUE, !.suppressed = FALSE]
                 known == IF on.saved = NoDevice THEN LoadSaved(on) ELSE on
      <4>1. on \in AppState /\ on.cid = app.cid
        BY <1>1 DEF AppState
      <4> HIDE DEF on
      <4>2. known \in AppState /\ known.cid = app.cid
        BY <1>1, <4>1, LoadedType, SameChannels
      <4> HIDE DEF known
      <4>3. app' \in {known, ScheduleReconnect(known), [known EXCEPT !.readWanted = TRUE]}
        BY <3>3 DEF EnableReconnect, SilentCall, Call, known, on
      <4>4. [known EXCEPT !.readWanted = TRUE].cid = known.cid
        BY <4>2 DEF AppState
      <4>5. QED
        BY <1>1, <4>2, <4>3, <4>4, SameChannels
    <3>4. ASSUME DisableReconnect \/ StartPairing PROVE app'.cid = app.cid
      BY <1>1, <3>4 DEF DisableReconnect, StartPairing, SilentCall, Call, AppState
    <3>5. ASSUME ConnectSaved PROVE app'.cid = app.cid
      <4> DEFINE resumed == [app EXCEPT !.suppressed = FALSE, !.reconnectPending = FALSE]
                 known == IF app.saved = NoDevice THEN LoadSaved(resumed) ELSE resumed
      <4>1. resumed \in AppState /\ resumed.cid = app.cid
        BY <1>1 DEF AppState
      <4> HIDE DEF resumed
      <4>2. known \in AppState /\ known.cid = app.cid
        BY <1>1, <4>1, LoadedType, SameChannels
      <4> HIDE DEF known
      <4>3. app' \in {ScheduleConnect(known, known.saved),
                      [known EXCEPT !.waiting = TRUE, !.readWanted = TRUE]}
        BY <3>5 DEF ConnectSaved, SilentCall, Call, known, resumed
      <4>4. [known EXCEPT !.waiting = TRUE, !.readWanted = TRUE].cid = known.cid
            /\ known.saved \in Address
        BY <4>2 DEF AppState
      <4>5. ScheduleConnect(known, known.saved).cid = known.cid
        BY <4>2, <4>4 DEF ScheduleConnect, AppState
      <4>6. QED
        BY <4>2, <4>3, <4>4, <4>5
    <3>6. QED
      BY <1>2, <3>1, <3>2, <3>3, <3>4, <3>5
  <2>3. QED
    BY <1>1, <2>1, <2>2, SameSays
<1>3. CASE Disconnect
  <2>1. app' = Stop(app) /\ DisconnReq(app.active, PSMs, events)
    BY <1>3 DEF Disconnect, Call
  <2>2. app'.cid = app.cid
    BY <1>1, <2>1, SameChannels
  <2>3. PSMs \in SUBSET PSMs
    OBVIOUS
  <2>4. \E r : Says(events, r)
    BY <1>1, <2>1, <2>3, DisconnSays
  <2>5. QED
    BY <2>2, <2>4
<1>4. CASE Forget
  <2> DEFINE off == [app EXCEPT !.suppressed = TRUE, !.reconnectPending = FALSE]
             known == IF app.saved = NoDevice THEN LoadSaved(off) ELSE off
             gone == IF CanDisconnect(known) THEN Stop(known) ELSE known
             told == <<DeviceEvent("unpaired", known.saved, TRUE)>>
             of == IF CanDisconnect(known) THEN known.active ELSE NoDevice
  <2>1. off \in AppState /\ off.cid = app.cid
    BY <1>1 DEF AppState
  <2> HIDE DEF off
  <2>2. known \in AppState /\ known.cid = app.cid
    BY <1>1, <2>1, LoadedType, SameChannels
  <2>3. known.saved \in Address /\ of \in Address
    BY <1>1, <2>2 DEF AppState
  <2> HIDE DEF known
  <2>4. gone \in AppState /\ gone.cid = app.cid
    BY <1>1, <2>2, StoppedType, SameChannels
  <2> HIDE DEF gone, of
  <2>5. CASE app' = known /\ events' = events /\ channel' = channel
    BY <1>1, <2>2, <2>5, SameSays
  <2>6. CASE /\ app' = [gone EXCEPT !.saved = NoDevice, !.injected = FALSE]
             /\ \E said \in {<<>>, told} : DisconnReq(of, PSMs, events \o said)
    <3>1. app'.cid = app.cid
      BY <2>4, <2>6 DEF AppState
    <3>2. PSMs \in SUBSET PSMs
      OBVIOUS
    <3>3. CASE DisconnReq(of, PSMs, events \o <<>>)
      <4>1. events \o <<>> = events
        BY <1>1, ConcatEmptySeq
      <4>2. QED
        BY <1>1, <2>3, <3>1, <3>2, <3>3, <4>1, DisconnSays
    <3>4. CASE DisconnReq(of, PSMs, events \o told)
      <4> DEFINE e == DeviceEvent("unpaired", known.saved, TRUE)
      <4>1. e \in Told
        BY <2>3, EventType DEF DeviceEvent, EventKinds, PSMs
      <4>2. e.kind \notin {"connected", "disconnected", "aclGone"}
        BY DEF DeviceEvent, Event
      <4> HIDE DEF e
      <4>3. told = <<e>>
        BY DEF e
      <4>4. events \o <<e>> \in Seq(Told) /\ DisconnReq(of, PSMs, events \o <<e>>)
        BY <1>1, <3>4, <4>1, <4>3, Single, ConcatProperties
      <4>5. PICK r : Says(events \o <<e>>, r)
        BY <1>1, <2>3, <3>2, <4>4, DisconnSays
      <4>6. QED
        BY <1>1, <3>1, <4>1, <4>2, <4>5, SaysAfter
    <3>5. QED
      BY <2>6, <3>3, <3>4
  <2>7. QED
    BY <1>4, <2>5, <2>6 DEF Forget, SilentCall, Call, known, off, gone, of
<1>5. QED
  BY <1>2, <1>3, <1>4 DEF ApplicationStep

LEMMA PollSays ==
  ASSUME StepTypes, PollStep
  PROVE  app'.cid = app.cid /\ \E r : Says(events, r)
<1>1. /\ app \in AppState /\ bond \in Address /\ app.saved \in Address /\ NoDevice \in Address
      /\ events \in Seq(Told) /\ TRUE \in BOOLEAN
  BY DEF StepTypes, OthersOK, AppState, Address
<1>2. CASE ReadSaved \/ Reconnect
  <2>1. events' = events /\ channel' = channel
    BY <1>2 DEF ReadSaved, Reconnect
  <2>2. app'.cid = app.cid
    <3>1. ASSUME ReadSaved PROVE app'.cid = app.cid
      <4> DEFINE read == [app EXCEPT !.readWanted = FALSE]
      <4>1. read \in AppState /\ read.cid = app.cid
        BY <1>1 DEF AppState
      <4> HIDE DEF read
      <4>2. LoadSaved(read) \in AppState /\ LoadSaved(read).cid = app.cid
        BY <1>1, <4>1, LoadedType, SameChannels
      <4>3. app' \in {AfterRead(LoadSaved(read)), [read EXCEPT !.reading = TRUE]}
        BY <3>1 DEF ReadSaved, Pass, read
      <4>4. [read EXCEPT !.reading = TRUE].cid = read.cid
        BY <4>1 DEF AppState
      <4>5. QED
        BY <1>1, <4>1, <4>2, <4>3, <4>4, SameChannels
    <3>2. ASSUME Reconnect PROVE app'.cid = app.cid
      <4>1. app' \in {[app EXCEPT !.reconnectPending = FALSE], ScheduleConnect(app, app.saved)}
        BY <3>2 DEF Reconnect, Pass
      <4>2. [app EXCEPT !.reconnectPending = FALSE].cid = app.cid
        BY <1>1 DEF AppState
      <4>3. ScheduleConnect(app, app.saved).cid = app.cid
        BY <1>1 DEF ScheduleConnect, AppState
      <4>4. QED
        BY <4>1, <4>2, <4>3
    <3>3. QED
      BY <1>2, <3>1, <3>2
  <2>3. QED
    BY <1>1, <2>1, <2>2, SameSays
<1>3. CASE BeginPairing \/ Secure("auth") \/ Secure("encrypt") \/ StartDiscovery \/ NoteDiscovery
  <2>1. events' = events /\ channel' = channel
    BY <1>3 DEF BeginPairing, Secure, StartDiscovery, NoteDiscovery, Pass
  <2>2. app'.cid = app.cid
    BY <1>1, <1>3 DEF BeginPairing, Secure, StartDiscovery, NoteDiscovery, Pass, Done, AppState
  <2>3. QED
    BY <1>1, <2>1, <2>2, SameSays
<1>4. CASE StopDiscovery
  <2>1. app'.cid = app.cid
    BY <1>1, <1>4 DEF StopDiscovery, Pass, Done, AppState
  <2> DEFINE e == DeviceEvent("discoveryDone", NoDevice, TRUE)
  <2>2. e \in Told
    BY <1>1, EventType DEF DeviceEvent, EventKinds, PSMs
  <2>3. e.kind \notin {"connected", "disconnected", "aclGone"}
    BY DEF DeviceEvent, Event
  <2>4. events' = Append(events, e) /\ channel' = channel
    BY <1>4 DEF StopDiscovery
  <2> HIDE DEF e
  <2>5. \E r : Says(events, r)
    BY <1>1, <2>2, <2>3, <2>4, AppendIsConcat, OtherSays
  <2>6. QED
    BY <2>1, <2>5
<1>5. ASSUME NEW q \in PSMs, OpenChannel(q)
      PROVE  app'.cid = app.cid /\ \E r : Says(events, r)
  <2>1. app'.cid = app.cid
    BY <1>1, <1>5 DEF OpenChannel, Pass, AppState
  <2> DEFINE d == app.active
  <2>2. d \in Devices
    <3>1. MayOpen(app, q)
      BY <1>5 DEF OpenChannel, Turn, HasWork, PSMs
    <3>2. QED
      BY <1>1, <3>1 DEF MayOpen, AppState, Address
  <2> HIDE DEF d
  <2>3. CASE /\ channel' = [channel EXCEPT ![d][q] = IF @ = "open" THEN @ ELSE "opening"]
             /\ events' = IF channel[d][q] = "open"
                          THEN Append(events, ChannelEvent("connected", d, q)) ELSE events
    <3>1. CASE channel[d][q] = "open"
      <4>1. events' = Append(events, ChannelEvent("connected", d, q))
        BY <2>3, <3>1
      <4>2. channel' = [channel EXCEPT ![d][q] = "open"]
        BY <2>2, <2>3, <3>1 DEF StepTypes, Channels
      <4>3. \E r : Says(events, r)
        BY <2>2, <4>1, <4>2, ChannelSays
      <4>4. QED
        BY <2>1, <4>3
    <3>2. CASE channel[d][q] # "open"
      <4>1. events' = events
        BY <2>3, <3>2
      <4>2. channel' = [channel EXCEPT ![d][q] = "opening"]
        BY <2>2, <2>3, <3>2 DEF StepTypes, Channels
      <4>3. \E r : Says(events, r)
        BY <2>2, <3>2, <4>1, <4>2, QuietSays
      <4>4. QED
        BY <2>1, <4>3
    <3>3. QED
      BY <3>1, <3>2
  <2>4. CASE events' = Append(events, ChannelEvent("failed", d, q)) /\ channel' = channel
    <3> DEFINE e == ChannelEvent("failed", d, q)
    <3>1. e \in Told
      BY <1>1, <2>2, EventType DEF ChannelEvent, EventKinds, Address
    <3>2. e.kind \notin {"connected", "disconnected", "aclGone"}
      BY DEF ChannelEvent, Event
    <3>3. events' = Append(events, e) /\ channel' = channel
      BY <2>4
    <3> HIDE DEF e
    <3>4. \E r : Says(events, r)
      BY <1>1, <3>1, <3>2, <3>3, AppendIsConcat, OtherSays
    <3>5. QED
      BY <2>1, <3>4
  <2>5. QED
    BY <1>5, <2>3, <2>4 DEF OpenChannel, d
<1>6. QED
  BY <1>2, <1>3, <1>4, <1>5 DEF PollStep, PSMs

-----------------------------------------------------------------------------
(* The invariant: the link is whole, and unless something was mixed up, the *)
(* channels are known.                                                      *)
KnownInv == WholeInv /\ (mixups \subseteq {"foreignLoss", "leftOver"} => ChannelsKnown)

LEMMA InitKnown == Init => KnownInv
<1> SUFFICES ASSUME Init PROVE ChannelsKnown
  BY InitWhole DEF KnownInv
<1>1. ASSUME NEW d \in Devices, NEW p \in PSMs PROVE Known(d, p)
  <2>1. channel[d][p] = "closed" /\ app.cid[p] = NoDevice /\ d # NoDevice
    BY Ds5LinkAssumption DEF Init
  <2>2. Len(events) = 0
    BY DEF Init
  <2>3. KnowsShut(events, app.cid[p], d, p)
    BY <2>1, <2>2 DEF KnowsShut, Opened
  <2>4. QED
    BY <2>1, <2>3 DEF Agrees, Known
<1>2. QED
  BY <1>1 DEF ChannelsKnown

LEMMA KnownKept == KnownInv /\ [Next]_vars => KnownInv'
<1> SUFFICES ASSUME KnownInv, [Next]_vars PROVE KnownInv'
  OBVIOUS
<1>1. WholeInv'
  BY WholeKept DEF KnownInv
<1>2. StepTypes /\ StepTypes'
  BY <1>1 DEF KnownInv, WholeInv, TypeInv
<1>3. CASE UNCHANGED vars
  BY <1>1, <1>3 DEF vars, KnownInv, ChannelsKnown, Known
<1>4. CASE Next
  <2>1. Remember /\ (StackStep \/ EventHandlerStep \/ ApplicationStep \/ PollStep)
    BY <1>4 DEF Next, Stack, EventHandler, Application, Poll
  <2>2. ASSUME mixups' \subseteq {"foreignLoss", "leftOver"} PROVE ChannelsKnown'
    <3>1. mixups \subseteq mixups' /\ mixups \subseteq {"foreignLoss", "leftOver"}
      BY <2>1, <2>2 DEF Remember
    <3>2. Linked(app) /\ ChannelsKnown
      BY <3>1 DEF KnownInv, WholeInv, LinkInv
    <3>3. CASE StackStep \/ ApplicationStep \/ PollStep
      BY <1>2, <3>1, <3>2, <3>3, StackSays, ApplicationSays, PollSays, SaidIsKnown
    <3>4. CASE EventHandlerStep
      BY <1>2, <2>1, <3>1, <3>2, <3>4, ConnectedKnown, LostKnown, GoneKnown, OtherHandlerKnown
         DEF EventHandlerStep
    <3>5. QED
      BY <2>1, <3>3, <3>4
  <2>3. QED
    BY <1>1, <2>2 DEF KnownInv
<1>5. QED
  BY <1>3, <1>4

(* Once every event of the stack is seen, the application and the stack     *)
(* agree: a link taken for up has both its channels, and no channel is open *)
(* that the application has forgotten (ds5_classic_handle_connection,       *)
(* ds5_classic_teardown_link, ds5_classic_disconnect).                      *)
THEOREM ChannelsAlwaysAgree == Spec => []ChannelsAgree
<1>1. KnownInv => ChannelsAgree
  <2> SUFFICES ASSUME KnownInv, events = <<>>, mixups \subseteq {"foreignLoss", "leftOver"}
               PROVE  /\ app.connected => \A p \in PSMs : channel[app.cid[p]][p] = "open"
                      /\ "foreignLoss" \notin mixups =>
                           \A d \in Devices, p \in PSMs : channel[d][p] = "open" => app.cid[p] = d
    BY DEF ChannelsAgree
  <2>1. Linked(app) /\ ChannelsKnown /\ StepTypes /\ Len(events) = 0
    BY DEF KnownInv, WholeInv, LinkInv, TypeInv
  <2>2. ASSUME NEW d \in Devices, NEW p \in PSMs
        PROVE  /\ channel[d][p] = "open" /\ "foreignLoss" \notin mixups => app.cid[p] = d
               /\ app.cid[p] = d => channel[d][p] = "open"
    <3>1. Known(d, p)
      BY <2>1 DEF ChannelsKnown
    <3>2. CASE channel[d][p] = "open"
      BY <2>1, <3>1, <3>2 DEF Known, Agrees, KnowsOpen, Opened
    <3>3. CASE channel[d][p] # "open"
      <4>1. ~Opened(events, 0, app.cid[p], d, p)
        BY <2>1, <3>1, <3>3 DEF Known, Agrees, KnowsShut
      <4>2. QED
        BY <3>3, <4>1 DEF Opened
    <3>4. QED
      BY <3>2, <3>3
  <2>3. app.connected => \A p \in PSMs : app.cid[p] \in Devices
    BY <2>1 DEF Linked, StepTypes, AppState, Address
  <2>4. QED
    BY <2>2, <2>3
<1>2. QED
  BY <1>1, InitKnown, KnownKept, PTL DEF Spec

-----------------------------------------------------------------------------
(* A stop.  What follows it depends on what was pending, and on channels    *)
(* whose loss is under way.                                                 *)

(* The application's own state resists whatever would begin a link.         *)
StopHolds == stopped => app.suppressed /\ NoPairing(app)

(* A channel is pending only of a link that is up, begun or being given up; *)
(* and one that is also known is about to be lost.                          *)
Awaits(q, c, p) == c # NoDevice => \E k \in 1 .. Len(q) : LostBy(q[k], c, p)
Doomed(p) == Awaits(events, app.cid[p], p)
PendingIsBusy == app.pending # {} => app.connected \/ app.connecting \/ app.disconnecting
PendingIsNew == \A p \in app.pending : Doomed(p)

(* So are the channels of a link that is given up before it was up.         *)
GivenUpIsLost ==
  app.disconnecting /\ ~app.connecting /\ ~app.connected => \A p \in PSMs : Doomed(p)

(* A stopped link that is not being given up is not being made either.      *)
StopEndsCalls ==
  stopped /\ app.active # NoDevice /\ ~app.connected /\ ~app.disconnecting => ~app.connecting

StopParts == StopHolds /\ PendingIsBusy /\ PendingIsNew /\ GivenUpIsLost /\ StopEndsCalls

-----------------------------------------------------------------------------
(* The ways in which a step changes the link: not at all, by a call, or by  *)
(* an end.                                                                  *)

Like(a, b) == SameLink(a, b) /\ b.pending \subseteq a.pending /\ b.requested = a.requested
Begun(a, b) ==
  /\ b.cid = a.cid /\ b.connected = a.connected /\ b.connecting = TRUE /\ b.disconnecting = FALSE
  /\ b.pending = a.pending \cup {"control"} /\ b.requested = {}
Ended(b) ==
  /\ \A p \in PSMs : b.cid[p] = NoDevice
  /\ ~b.connected /\ ~b.connecting /\ ~b.disconnecting /\ b.pending = {} /\ b.requested = {}

(* What a stop has settled stays so.                                        *)
Meek(a, b) == (a.suppressed => b.suppressed) /\ (NoPairing(a) => NoPairing(b))

(* What the operators on the application's state do, in these terms.        *)
LEMMA LikeOperators ==
  ASSUME NEW a \in AppState
  PROVE  /\ Like(a, ScheduleReconnect(a)) /\ Meek(a, ScheduleReconnect(a))
         /\ Like(a, LoadSaved(a)) /\ Meek(a, LoadSaved(a))
         /\ Like(a, ForgetSaved(a)) /\ Meek(a, ForgetSaved(a))
BY DEF ScheduleReconnect, LoadSaved, ForgetSaved, Like, Meek, SameLink, NoPairing, AppState

LEMMA BegunOperator ==
  ASSUME NEW a \in AppState, NEW d \in Address
  PROVE  Begun(a, ScheduleConnect(a, d)) /\ Meek(a, ScheduleConnect(a, d))
BY DEF ScheduleConnect, Begun, Meek, NoPairing, AppState

LEMMA EndedOperator ==
  ASSUME NEW a \in AppState, NEW unexpected
  PROVE  Ended(Teardown(a, unexpected)) /\ Meek(a, Teardown(a, unexpected))
<1>1. ClearLink(a) \in AppState /\ Ended(ClearLink(a)) /\ Meek(a, ClearLink(a))
  <2>1. ClearLink(a) \in AppState
    BY ClearedType
  <2>2. Ended(ClearLink(a))
    BY DEF ClearLink, Ended, AppState
  <2>3. Meek(a, ClearLink(a))
    BY DEF ClearLink, Meek, NoPairing, AppState
  <2>4. QED
    BY <2>1, <2>2, <2>3
<1>2. Like(ClearLink(a), ScheduleReconnect(ClearLink(a)))
      /\ Meek(ClearLink(a), ScheduleReconnect(ClearLink(a)))
  BY <1>1, LikeOperators
<1>3. QED
  BY <1>1, <1>2 DEF Teardown, Ended, Like, SameLink, Meek

LEMMA CompleteOperator ==
  ASSUME NEW a \in AppState, NEW d \in Address, NEW ok \in BOOLEAN
  PROVE  /\ Meek(a, PairComplete(a, d, ok))
         /\ \/ Like(a, PairComplete(a, d, ok))
            \/ ok /\ ~a.connected /\ ~a.connecting /\ Begun(a, PairComplete(a, d, ok))
<1> DEFINE done == [a EXCEPT !.pairing = FALSE, !.wantPairing = FALSE, !.candidateValid = FALSE,
                             !.todo = @ \ {"pair", "auth", "encrypt"}]
           kept == [done EXCEPT !.saved = d, !.injected = FALSE]
<1>1. done \in AppState /\ Like(a, done) /\ Meek(a, done)
  <2>1. done \in AppState
    BY DEF AppState
  <2>2. Like(a, done)
    BY DEF AppState, Like, SameLink
  <2>3. Meek(a, done)
    BY DEF AppState, Meek, NoPairing
  <2>4. QED
    BY <2>1, <2>2, <2>3
<1> HIDE DEF done
<1>2. kept \in AppState /\ Like(done, kept) /\ Meek(done, kept)
  BY <1>1 DEF AppState, Like, SameLink, Meek, NoPairing
<1> HIDE DEF kept
<1>3. /\ Like(done, ScheduleReconnect(done)) /\ Meek(done, ScheduleReconnect(done))
      /\ Begun(kept, ScheduleConnect(kept, d)) /\ Meek(kept, ScheduleConnect(kept, d))
  BY <1>1, <1>2, LikeOperators, BegunOperator
<1>4. Like(a, a) /\ Meek(a, a)
  BY DEF Like, SameLink, Meek
<1>5. \/ PairComplete(a, d, ok) \in {a, kept, ScheduleReconnect(done)}
      \/ ok /\ ~a.connected /\ ~a.connecting /\ PairComplete(a, d, ok) = ScheduleConnect(kept, d)
  BY DEF PairComplete, done, kept
<1>6. CASE PairComplete(a, d, ok) \in {a, kept, ScheduleReconnect(done)}
  BY <1>1, <1>2, <1>3, <1>4, <1>6 DEF Like, SameLink, Meek
<1>7. CASE ok /\ ~a.connected /\ ~a.connecting /\ PairComplete(a, d, ok) = ScheduleConnect(kept, d)
  <2>1. /\ kept.cid = a.cid /\ kept.connected = a.connected
        /\ kept.pending \subseteq a.pending
    BY <1>1, <1>2 DEF Like, SameLink
  <2>2. kept.pending = a.pending
    <3>1. done.pending = a.pending
      BY DEF done, AppState
    <3>2. kept.pending = done.pending
      BY <1>1 DEF kept, AppState
    <3>3. QED
      BY <3>1, <3>2
  <2>3. QED
    BY <1>1, <1>2, <1>3, <1>7, <2>1, <2>2 DEF Begun, Meek
<1>8. QED
  BY <1>5, <1>6, <1>7

LEMMA ReadOperator ==
  ASSUME NEW a \in AppState
  PROVE  /\ Meek(a, AfterRead(a))
         /\ \/ Like(a, AfterRead(a))
            \/ a.waiting /\ ~AfterRead(a).waiting /\ Begun(a, AfterRead(a))
<1> DEFINE b == [a EXCEPT !.waiting = FALSE]
<1>1. /\ b \in AppState /\ Like(a, b) /\ Meek(a, b) /\ b.pending = a.pending /\ b.waiting = FALSE
      /\ a.saved \in Address
  BY DEF AppState, Like, SameLink, Meek, NoPairing
<1> HIDE DEF b
<1>2. /\ Like(a, ScheduleReconnect(a)) /\ Meek(a, ScheduleReconnect(a))
      /\ Begun(b, ScheduleConnect(b, a.saved)) /\ Meek(b, ScheduleConnect(b, a.saved))
  BY <1>1, LikeOperators, BegunOperator
<1>3. ScheduleConnect(b, a.saved).waiting = FALSE
  BY <1>1 DEF ScheduleConnect, AppState
<1>4. Like(a, a) /\ Meek(a, a)
  BY DEF Like, SameLink, Meek
<1>5. \/ AfterRead(a) \in {b, ScheduleReconnect(a), a}
      \/ a.waiting /\ AfterRead(a) = ScheduleConnect(b, a.saved)
  BY DEF AfterRead, b
<1>6. CASE AfterRead(a) \in {b, ScheduleReconnect(a), a}
  BY <1>1, <1>2, <1>4, <1>6
<1>7. CASE a.waiting /\ AfterRead(a) = ScheduleConnect(b, a.saved)
  BY <1>1, <1>2, <1>3, <1>7 DEF Begun, Like, SameLink, Meek
<1>8. QED
  BY <1>5, <1>6, <1>7

LEMMA UpOperator ==
  ASSUME NEW a \in AppState, NEW d \in Devices, NEW p \in PSMs
  PROVE  LET b == WithChannel(a, d, p)
         IN /\ Meek(a, b) /\ b.active = d /\ b.cid = [a.cid EXCEPT ![p] = d]
            /\ \A q \in b.pending : q # p /\ (q \in a.pending \/ a.cid[q] = NoDevice)
            /\ b.requested \subseteq a.requested
            /\ \/ b.connected
               \/ b.connecting /\ b.connected = a.connected /\ b.disconnecting = a.disconnecting
            /\ b.connecting \/ b.connected
<1> DEFINE raised == [a EXCEPT !.active = d, !.connecting = TRUE, !.cid[p] = d,
                           !.requested = @ \ {p},
                           !.pending = IF a.cid[Other(p)] = NoDevice /\ Other(p) \notin a.requested
                                       THEN (@ \ {p}) \cup {Other(p)} ELSE @ \ {p}]
           joined == [raised EXCEPT !.connecting = FALSE, !.connected = TRUE, !.disconnecting = FALSE,
                                !.reconnectPending = FALSE]
<1>1. Other(p) \in PSMs /\ Other(p) # p /\ PSMs = {p, Other(p)}
  BY DEF Other, PSMs
<1>2. /\ raised \in AppState /\ raised.active = d /\ raised.connecting = TRUE /\ raised.connected = a.connected
      /\ raised.disconnecting = a.disconnecting /\ raised.cid = [a.cid EXCEPT ![p] = d]
      /\ raised.requested \subseteq a.requested
  BY <1>1 DEF AppState, Address
<1>3. \A q \in raised.pending : q # p /\ (q \in a.pending \/ a.cid[q] = NoDevice)
  BY <1>1 DEF AppState
<1>4. Meek(a, raised)
  BY DEF Meek, NoPairing, AppState
<1> HIDE DEF raised
<1>5. /\ joined.active = d /\ joined.connected = TRUE /\ joined.cid = raised.cid
      /\ joined.pending = raised.pending /\ joined.requested = raised.requested /\ Meek(raised, joined)
  BY <1>2 DEF AppState, Meek, NoPairing
<1>6. WithChannel(a, d, p) \in {raised, joined}
  BY DEF WithChannel, raised
<1> HIDE DEF joined
<1>7. QED
  BY <1>2, <1>3, <1>4, <1>5, <1>6 DEF Meek

-----------------------------------------------------------------------------
(* A loss under way stays so until it is handled.                           *)
Lasting == \A p \in PSMs : Awaits(events, app.cid[p], p) => Awaits(events', app.cid[p], p)

(* It lasts when events are added, and when the handler takes one that is   *)
(* not it.                                                                  *)
LEMMA GrowingLasts ==
  ASSUME StepTypes, \E r : Says(events, r)
  PROVE  Lasting
<1>1. PICK r : r \in Seq(Told) /\ events' = events \o r
  BY DEF Says
<1>2. /\ events \in Seq(Told) /\ Len(events) \in Nat /\ Len(r) \in Nat
      /\ Len(events') = Len(events) + Len(r)
      /\ \A i \in 1 .. Len(events) + Len(r) :
           events'[i] = IF i <= Len(events) THEN events[i] ELSE r[i - Len(events)]
  BY <1>1, ConcatProperties, LenProperties DEF StepTypes
<1>3. \A i \in 1 .. Len(events) : i \in 1 .. Len(events') /\ events'[i] = events[i]
  BY <1>2
<1>4. QED
  BY <1>3 DEF Lasting, Awaits

LEMMA HandlingLasts ==
  ASSUME StepTypes, events # <<>>, \E r : Says(Rest, r),
         \A p \in PSMs : app.cid[p] # NoDevice => ~LostBy(Head(events), app.cid[p], p)
  PROVE  Lasting
<1>1. PICK r : r \in Seq(Told) /\ events' = Rest \o r
  BY DEF Says
<1>2. /\ Rest \in Seq(Told) /\ Len(Rest) \in Nat /\ Len(events) = Len(Rest) + 1
      /\ events[1] = Head(events) /\ \A i \in 2 .. Len(events) : Rest[i - 1] = events[i]
  <2>1. /\ Rest \in Seq(Told) /\ Len(Rest) = Len(events) - 1 /\ Len(Rest) \in Nat
        /\ Len(events) \in Nat /\ \A i \in 1 .. Len(Rest) : Rest[i] = events[i + 1]
    BY HeadTailProperties, LenProperties DEF Rest, StepTypes
  <2>2. events[1] = Head(events)
    BY DEF StepTypes
  <2>3. QED
    BY <2>1, <2>2
<1>3. /\ Len(r) \in Nat /\ Len(events') = Len(Rest) + Len(r)
      /\ \A i \in 1 .. Len(Rest) + Len(r) :
           events'[i] = IF i <= Len(Rest) THEN Rest[i] ELSE r[i - Len(Rest)]
  BY <1>1, <1>2, ConcatProperties, LenProperties
<1>4. \A i \in 2 .. Len(events) : i - 1 \in 1 .. Len(events') /\ events'[i - 1] = events[i]
  BY <1>2, <1>3
<1>5. ASSUME NEW p \in PSMs, app.cid[p] # NoDevice,
             NEW k \in 1 .. Len(events), LostBy(events[k], app.cid[p], p)
      PROVE  \E i \in 1 .. Len(events') : LostBy(events'[i], app.cid[p], p)
  <2>1. k # 1
    BY <1>2, <1>5
  <2>2. k \in 2 .. Len(events)
    BY <1>2, <2>1
  <2>3. QED
    BY <1>4, <1>5, <2>2
<1>6. QED
  BY <1>5 DEF Lasting, Awaits

-----------------------------------------------------------------------------
(* The parts of the invariant through each kind of step.                    *)

(* A step that leaves the link alone, begins it or ends it keeps the parts. *)
LEMMA ShrinkingKept ==
  ASSUME StepTypes, StopParts, StopHolds', Lasting, SameLink(app, app'),
         app'.pending \subseteq app.pending,
         stopped' => stopped \/ app.active = NoDevice \/ ~app.connecting
  PROVE  StopParts'
<1>1. \A p \in PSMs : app'.cid[p] = app.cid[p] /\ (Doomed(p) => Doomed(p)')
  BY DEF Lasting, Doomed, SameLink
<1>2. PendingIsBusy' /\ StopEndsCalls'
  BY DEF StopParts, PendingIsBusy, StopEndsCalls, SameLink
<1>3. app.pending \subseteq PSMs
  BY DEF StepTypes, AppState
<1>4. PendingIsNew'
  BY <1>1, <1>3 DEF StopParts, PendingIsNew
<1>5. GivenUpIsLost'
  BY <1>1 DEF StopParts, GivenUpIsLost, SameLink
<1>6. QED
  BY <1>2, <1>4, <1>5 DEF StopParts

LEMMA LikeKept ==
  ASSUME StepTypes, StopParts, StopHolds', Lasting, Like(app, app'),
         stopped' => stopped \/ app.active = NoDevice \/ ~app.connecting
  PROVE  StopParts' /\ app'.requested \subseteq app.requested
BY ShrinkingKept DEF Like

LEMMA BegunKept ==
  ASSUME StepTypes, StopParts, StopHolds', Lasting, Begun(app, app'), ~stopped', Doomed("control")
  PROVE  StopParts' /\ app'.requested \subseteq app.requested
<1>1. \A p \in PSMs : app'.cid[p] = app.cid[p] /\ (Doomed(p) => Doomed(p)')
  BY DEF Lasting, Doomed, Begun
<1>2. PendingIsBusy' /\ StopEndsCalls' /\ GivenUpIsLost'
  BY DEF PendingIsBusy, StopEndsCalls, GivenUpIsLost, Begun
<1>3. app.pending \subseteq PSMs /\ "control" \in PSMs /\ app'.pending = app.pending \cup {"control"}
  BY DEF StepTypes, AppState, Begun, PSMs
<1>4. PendingIsNew'
  BY <1>1, <1>3 DEF StopParts, PendingIsNew
<1>5. QED
  BY <1>2, <1>4 DEF StopParts, Begun

LEMMA EndedKept ==
  ASSUME StopHolds', Ended(app')
  PROVE  StopParts' /\ app'.requested \subseteq app.requested
<1>1. PendingIsBusy' /\ StopEndsCalls' /\ PendingIsNew' /\ GivenUpIsLost'
  BY DEF PendingIsBusy, StopEndsCalls, PendingIsNew, GivenUpIsLost, Ended
<1>2. QED
  BY <1>1 DEF StopParts, Ended

(* What resists a beginning goes on doing so.                               *)
LEMMA MeekKept ==
  ASSUME StopHolds, Meek(app, app'), stopped' => stopped
  PROVE  StopHolds'
BY DEF StopHolds, Meek, NoPairing

(* A stop lets no device in but the active one.                             *)
LEMMA StoppedAllows ==
  ASSUME StopHolds, stopped, NEW d, AddressAllowed(app, d)
  PROVE  app.active # NoDevice /\ d = app.active
BY DEF StopHolds, NoPairing, AddressAllowed

(* A stop never lets a call in, unless it is a left-over device's.          *)
LEMMA NoLeftOver ==
  ASSUME Remember, mixups' \subseteq {"foreignLoss"}
  PROVE  /\ mixups \subseteq {"foreignLoss"} /\ Unmixed
         /\ ~Happens("leftOver") /\ ~Happens("lateRead")
BY DEF Remember, Mixups, Unmixed

(* The stack's steps and the handlers, one by one.                          *)
LEMMA StackStop ==
  ASSUME StepTypes, StopParts, Linked(app), Remember, mixups' \subseteq {"foreignLoss"}, StackStep
  PROVE  StopParts' /\ app'.requested \subseteq app.requested
<1>1. Lasting /\ app'.cid = app.cid
  BY StackSays, GrowingLasts
<1>2. CASE app' = app /\ stopped' = stopped
  <2>1. Like(app, app') /\ Meek(app, app')
    BY <1>2 DEF Like, SameLink, Meek
  <2>2. QED
    BY <1>1, <1>2, <2>1, LikeKept, MeekKept DEF StopParts
<1>3. CASE Registered
  <2>1. Like(app, app') /\ Meek(app, app') /\ stopped' = stopped
    BY <1>3 DEF Registered, Like, SameLink, Meek, NoPairing, StepTypes, AppState
  <2>2. QED
    BY <1>1, <2>1, LikeKept, MeekKept DEF StopParts
<1>4. ASSUME NEW d \in Devices, NEW p \in PSMs, ConnInd(d, p)
      PROVE  StopParts' /\ app'.requested \subseteq app.requested
  <2>1. /\ app'.active = d /\ app'.connecting = TRUE /\ app'.connected = app.connected
        /\ app'.disconnecting = app.disconnecting /\ app'.pending = app.pending
        /\ app'.requested = app.requested /\ Meek(app, app') /\ stopped' = stopped
    BY <1>4 DEF ConnInd, Meek, NoPairing, StepTypes, AppState
  <2>2. StopHolds'
    BY <2>1, MeekKept DEF StopParts
  <2>3. \A q \in PSMs : Doomed(q) => Doomed(q)'
    BY <1>1 DEF Lasting, Doomed
  <2>4. PendingIsBusy' /\ GivenUpIsLost'
    BY <2>1 DEF PendingIsBusy, GivenUpIsLost
  <2>5. PendingIsNew'
    BY <2>1, <2>3 DEF StopParts, PendingIsNew, StepTypes, AppState
  <2>6. ~(stopped /\ ~app.connected)
    <3>1. SUFFICES ASSUME stopped, ~app.connected PROVE FALSE
      OBVIOUS
    <3>2. AddressAllowed(app, d) /\ ~app.disconnecting
      BY <1>4 DEF ConnInd
    <3>3. app.active # NoDevice /\ d = app.active
      BY <3>1, <3>2, StoppedAllows DEF StopParts
    <3>4. ~app.connecting /\ app.suppressed
      BY <3>1, <3>2, <3>3 DEF StopParts, StopEndsCalls, StopHolds
    <3>5. Happens("leftOver")
      BY <2>1, <3>1, <3>2, <3>3, <3>4 DEF Happens
    <3>6. QED
      BY <3>5, NoLeftOver
  <2>7. StopEndsCalls'
    BY <2>1, <2>6, SMTT(30) DEF StopEndsCalls
  <2>8. QED
    BY <2>1, <2>2, <2>4, <2>5, <2>7 DEF StopParts
<1>5. (app' = app /\ stopped' = stopped) \/ Registered \/ \E d \in Devices, p \in PSMs : ConnInd(d, p)
  BY DEF StackStep, ReadsBonds, EndsInquiry, Opens, FailsToOpen, LosesChannel, LosesDevice,
         LosesKey, Finds, Bonds, Answers
<1>6. QED
  BY <1>2, <1>3, <1>4, <1>5

LEMMA ConnectedStop ==
  ASSUME StepTypes, StopParts, Linked(app), Remember, mixups' \subseteq {"foreignLoss"},
         HandleConnected
  PROVE  StopParts' /\ app'.requested \subseteq app.requested
<1> DEFINE e == Head(events)  d == Head(events).dev  q == Head(events).psm
<1>1. /\ events # <<>> /\ e.kind = "connected" /\ d \in Devices /\ q \in PSMs /\ Rest \in Seq(Told)
      /\ app \in AppState /\ channel \in Channels /\ d \in Address /\ stopped' = stopped
  BY Taken DEF HandleConnected, Handle, StepTypes, Address
<1>2. \A c, p : ~LostBy(e, c, p)
  BY <1>1 DEF LostBy
<1>3. CASE ~AddressAllowed(app, d)
  <2>1. app' = app /\ DisconnReq(d, {q}, Rest)
    BY <1>3 DEF HandleConnected
  <2> HIDE DEF d, q
  <2>2. \E r : Says(Rest, r)
    <3>1. {q} \in SUBSET PSMs
      BY <1>1
    <3>2. QED
      BY <1>1, <2>1, <3>1, DisconnSays
  <2>3. Lasting
    BY <1>1, <1>2, <2>2, HandlingLasts
  <2>4. Like(app, app') /\ Meek(app, app')
    BY <2>1 DEF Like, SameLink, Meek
  <2>5. QED
    BY <1>1, <2>3, <2>4, LikeKept, MeekKept DEF StopParts
<1>4. CASE AddressAllowed(app, d)
  <2>1. app.cid[q] \in {NoDevice, d}
    BY <1>1, <1>4 DEF AddressAllowed, Linked
  <2>2. app' = WithChannel(app, d, q) /\ channel' = channel /\ events' = Rest
    BY <1>4, <2>1 DEF HandleConnected
  <2> HIDE DEF d, q
  <2>3. Lasting
    <3>1. \E r : Says(Rest, r)
      BY <1>1, <2>2, SameSays
    <3>2. QED
      BY <1>1, <1>2, <3>1, HandlingLasts
  <2>4. /\ Meek(app, app') /\ app'.active = d /\ app'.cid = [app.cid EXCEPT ![q] = d]
        /\ \A p \in app'.pending : p # q /\ (p \in app.pending \/ app.cid[p] = NoDevice)
        /\ app'.requested \subseteq app.requested
        /\ \/ app'.connected
           \/ /\ app'.connecting /\ app'.connected = app.connected
              /\ app'.disconnecting = app.disconnecting
        /\ app'.connecting \/ app'.connected
    BY <1>1, <2>2, UpOperator
  <2>5. StopHolds'
    BY <1>1, <2>4, MeekKept DEF StopParts
  <2>6. PendingIsBusy' /\ GivenUpIsLost'
    BY <2>4 DEF PendingIsBusy, GivenUpIsLost
  <2>7. PendingIsNew'
    <3>1. app'.pending \subseteq PSMs
      <4>1. app' \in AppState
        BY <1>1, <2>2, UpType
      <4>2. QED
        BY <4>1 DEF AppState
    <3>2. ASSUME NEW p \in app'.pending PROVE Doomed(p)'
      <4>1. p \in PSMs /\ app'.cid[p] = app.cid[p]
        BY <1>1, <2>4, <3>1 DEF AppState
      <4>2. app.cid[p] = NoDevice \/ Doomed(p)
        BY <2>4 DEF StopParts, PendingIsNew
      <4>3. QED
        BY <2>3, <4>1, <4>2 DEF Lasting, Doomed, Awaits
    <3>3. QED
      BY <3>2 DEF PendingIsNew
  <2>8. StopEndsCalls'
    <3>1. SUFFICES ASSUME stopped, ~app'.connected, ~app'.disconnecting PROVE FALSE
      BY <1>1 DEF StopEndsCalls
    <3>2. ~app.connected /\ ~app.disconnecting /\ app'.connecting
      BY <2>4, <3>1
    <3>3. app.active # NoDevice /\ d = app.active
      BY <1>4, <3>1, StoppedAllows DEF StopParts, d
    <3>4. ~app.connecting /\ app.suppressed
      BY <3>1, <3>2, <3>3 DEF StopParts, StopEndsCalls, StopHolds
    <3>5. Happens("leftOver")
      BY <2>4, <3>2, <3>3, <3>4 DEF Happens
    <3>6. QED
      BY <3>5, NoLeftOver
  <2>9. QED
    BY <2>4, <2>5, <2>6, <2>7, <2>8 DEF StopParts
<1>5. QED
  BY <1>3, <1>4

LEMMA LostStop ==
  ASSUME StepTypes, StopParts, HandleDisconnected \/ HandleFailed
  PROVE  StopParts' /\ app'.requested \subseteq app.requested
<1> DEFINE e == Head(events)
<1>1. /\ events # <<>> /\ e.psm \in PSMs /\ Rest \in Seq(Told) /\ app \in AppState
      /\ stopped' = stopped
  BY Taken DEF HandleDisconnected, HandleFailed, Handle, StepTypes
<1>2. CASE MatchesActive(app, e)
  <2>1. PICK unexpected : app' = Teardown(app, unexpected)
    BY <1>2 DEF HandleDisconnected, HandleFailed
  <2>2. Ended(app') /\ Meek(app, app')
    BY <1>1, <2>1, EndedOperator
  <2>3. QED
    BY <1>1, <2>2, EndedKept, MeekKept DEF StopParts
<1>3. CASE ~MatchesActive(app, e)
  <2>1. app' = app /\ channel' = channel /\ events' = Rest
    BY <1>3 DEF HandleDisconnected, HandleFailed
  <2>2. \A p \in PSMs : ~LostBy(e, app.cid[p], p)
    BY <1>3 DEF MatchesActive, LostBy
  <2>3. \E r : Says(Rest, r)
    BY <1>1, <2>1, SameSays
  <2>4. Lasting
    BY <1>1, <2>2, <2>3, HandlingLasts
  <2>5. Like(app, app') /\ Meek(app, app')
    BY <2>1 DEF Like, SameLink, Meek
  <2>6. QED
    BY <1>1, <2>4, <2>5, LikeKept, MeekKept DEF StopParts
<1>4. QED
  BY <1>2, <1>3

-----------------------------------------------------------------------------

(* A call that begins where the link was given up, or had no channel.       *)
LEMMA FreeIsDoomed ==
  ASSUME StopParts, Linked(app), ~app.connected, ~app.connecting, NEW p \in PSMs
  PROVE  Doomed(p)
<1>1. CASE app.cid[p] = NoDevice
  BY <1>1 DEF Doomed, Awaits
<1>2. CASE app.cid[p] # NoDevice
  BY <1>2 DEF Linked, StopParts, GivenUpIsLost
<1>3. QED
  BY <1>1, <1>2

(* The end of a pairing, and the answer connect_saved waited for.           *)
LEMMA CompleteStop ==
  ASSUME StepTypes, StopParts, Linked(app), Lasting, NEW d \in Address, NEW ok \in BOOLEAN,
         app' = PairComplete(app, d, ok), stopped' => stopped, ok => ~stopped'
  PROVE  StopParts' /\ app'.requested \subseteq app.requested
<1>1. app \in AppState /\ "control" \in PSMs
  BY DEF StepTypes, PSMs
<1>2. /\ Meek(app, app')
      /\ Like(app, app') \/ (ok /\ ~app.connected /\ ~app.connecting /\ Begun(app, app'))
  BY <1>1, CompleteOperator
<1>3. StopHolds'
  BY <1>2, MeekKept DEF StopParts
<1>4. CASE Like(app, app')
  BY <1>3, <1>4, LikeKept
<1>5. CASE ok /\ ~app.connected /\ ~app.connecting /\ Begun(app, app')
  BY <1>1, <1>3, <1>5, FreeIsDoomed, BegunKept
<1>6. QED
  BY <1>2, <1>4, <1>5

LEMMA AfterReadStop ==
  ASSUME StepTypes, StopParts, Linked(app), Remember, mixups' \subseteq {"foreignLoss"}, Lasting,
         NEW a \in AppState, Like(app, a), Meek(app, a), a.waiting = app.waiting,
         app' = AfterRead(a), stopped' = stopped, calls' = calls
  PROVE  StopParts' /\ app'.requested \subseteq app.requested
<1>1. /\ Meek(a, app')
      /\ Like(a, app') \/ (a.waiting /\ ~app'.waiting /\ Begun(a, app'))
  BY ReadOperator
<1>2. StopHolds'
  BY <1>1, MeekKept DEF StopParts, Meek
<1>3. CASE Like(a, app')
  <2>1. Like(app, app')
    BY <1>3 DEF Like, SameLink
  <2>2. QED
    BY <1>2, <2>1, LikeKept
<1>4. CASE a.waiting /\ ~app'.waiting /\ Begun(a, app')
  <2>1. (app.active = NoDevice /\ ~stopped) \/ app' = [app EXCEPT !.waiting = FALSE]
    BY <1>4, NoLeftOver DEF Happens
  <2>2. CASE app' = [app EXCEPT !.waiting = FALSE]
    <3>1. Like(app, app')
      BY <2>2 DEF Like, SameLink, StepTypes, AppState
    <3>2. QED
      BY <1>2, <3>1, LikeKept
  <2>3. CASE app.active = NoDevice /\ ~stopped
    <3>1. "control" \in PSMs
      BY DEF PSMs
    <3>2. Doomed("control") /\ Doomed("interrupt")
      BY <2>3 DEF Linked, Doomed, Awaits, PSMs
    <3>3. /\ \A p \in PSMs : Doomed(p)
          /\ app'.cid = app.cid /\ app'.pending \subseteq PSMs /\ app'.requested = {}
          /\ app'.connecting = TRUE /\ app'.disconnecting = FALSE
      <4>1. \A p \in PSMs : Doomed(p)
        BY <3>2 DEF PSMs
      <4>2. a.pending \subseteq PSMs /\ a.cid = app.cid
        BY DEF AppState, Like, SameLink
      <4>3. QED
        BY <1>4, <3>1, <4>1, <4>2 DEF Begun
    <3>4. \A p \in PSMs : Doomed(p)'
      BY <3>3 DEF Lasting, Doomed
    <3>5. PendingIsNew' /\ PendingIsBusy' /\ GivenUpIsLost'
      BY <3>3, <3>4 DEF PendingIsNew, PendingIsBusy, GivenUpIsLost
    <3>6. StopEndsCalls'
      BY <2>3 DEF StopEndsCalls
    <3>7. QED
      BY <1>2, <3>3, <3>5, <3>6 DEF StopParts
  <2>4. QED
    BY <2>1, <2>2, <2>3
<1>5. QED
  BY <1>1, <1>3, <1>4

(* What the rest of the handlers tell.                                      *)
LEMMA HandledLasts ==
  ASSUME StepTypes, events # <<>>, Head(events).kind # "disconnected", events' = Rest,
         channel' = channel
  PROVE  Lasting
<1>1. Rest \in Seq(Told)
  BY Taken DEF StepTypes
<1>2. \E r : Says(Rest, r)
  BY <1>1, SameSays
<1>3. QED
  BY <1>2, HandlingLasts DEF LostBy

LEMMA GoneStop ==
  ASSUME StepTypes, StopParts, Linked(app), HandleAclGone
  PROVE  StopParts' /\ app'.requested \subseteq app.requested
<1>1. /\ events # <<>> /\ Head(events).kind # "disconnected" /\ events' = Rest /\ channel' = channel
      /\ stopped' = stopped /\ app \in AppState /\ app.candidate \in Address
  BY DEF HandleAclGone, Handle, OnlyApp, StepTypes, AppState
<1>2. Lasting
  BY <1>1, HandledLasts
<1>3. CASE app' = app
  <2>1. Like(app, app') /\ Meek(app, app')
    BY <1>3 DEF Like, SameLink, Meek
  <2>2. QED
    BY <1>1, <1>2, <2>1, LikeKept, MeekKept DEF StopParts
<1>4. CASE app' = PairComplete(app, app.candidate, FALSE)
  <2> DEFINE ok == FALSE
  <2>1. ok \in BOOLEAN /\ ~ok /\ app' = PairComplete(app, app.candidate, ok)
    BY <1>4
  <2> HIDE DEF ok
  <2>2. QED
    BY <1>1, <1>2, <2>1, CompleteStop
<1>5. CASE app' = Teardown(app, ~app.disconnecting)
  <2>1. Ended(app') /\ Meek(app, app')
    BY <1>1, <1>5, EndedOperator
  <2>2. QED
    BY <1>1, <2>1, EndedKept, MeekKept DEF StopParts
<1>6. QED
  BY <1>3, <1>4, <1>5 DEF HandleAclGone, OnlyApp

LEMMA SearchStop ==
  ASSUME StepTypes, StopParts, HandleFound \/ HandleDiscoveryDone
  PROVE  StopParts' /\ app'.requested \subseteq app.requested
<1>1. /\ events # <<>> /\ Head(events).kind # "disconnected" /\ events' = Rest /\ channel' = channel
      /\ stopped' = stopped /\ app \in AppState
  BY DEF HandleFound, HandleDiscoveryDone, Handle, OnlyApp, StepTypes
<1>2. Lasting
  BY <1>1, HandledLasts
<1>3. Like(app, app')
  <2>1. CASE HandleFound
    BY <1>1, <2>1 DEF HandleFound, OnlyApp, AppState, Like, SameLink
  <2>2. CASE HandleDiscoveryDone
    BY <1>1, <2>2 DEF HandleDiscoveryDone, OnlyApp, AppState, Like, SameLink
  <2>3. QED
    BY <2>1, <2>2
<1>4. Meek(app, app')
  <2>1. CASE HandleFound
    BY <1>1, <2>1 DEF HandleFound, OnlyApp, AppState, Meek, NoPairing
  <2>2. CASE HandleDiscoveryDone
    BY <1>1, <2>2 DEF HandleDiscoveryDone, OnlyApp, AppState, Meek, NoPairing
  <2>3. QED
    BY <2>1, <2>2
<1>5. QED
  BY <1>1, <1>2, <1>3, <1>4, LikeKept, MeekKept DEF StopParts

LEMMA AnswerStop ==
  ASSUME StepTypes, StopParts, Linked(app),
         \/ HandleAnswer("aclOpen", "auth") \/ HandleAnswer("auth", "encrypt")
         \/ HandleAnswer("encrypted", "none")
  PROVE  StopParts' /\ app'.requested \subseteq app.requested
<1> DEFINE d == Head(events).dev  ok == Head(events).ok
<1>1. /\ events # <<>> /\ Head(events).kind # "disconnected" /\ events' = Rest /\ channel' = channel
      /\ stopped' = stopped /\ app \in AppState
  BY DEF HandleAnswer, Handle, OnlyApp, StepTypes
<1>2. Lasting
  BY <1>1, HandledLasts
<1>3. d \in Address /\ ok \in BOOLEAN
  BY <1>1, Taken DEF StepTypes
<1>4. \/ app' = app
      \/ app' \in {[app EXCEPT !.todo = @ \cup {"auth"}], [app EXCEPT !.todo = @ \cup {"encrypt"}]}
      \/ app.pairing /\ app' = PairComplete(app, d, ok)
  BY DEF HandleAnswer, OnlyApp
<1> HIDE DEF d, ok
<1>5. CASE \/ app' = app
           \/ app' \in {[app EXCEPT !.todo = @ \cup {"auth"}], [app EXCEPT !.todo = @ \cup {"encrypt"}]}
  <2>1. Like(app, app')
    BY <1>1, <1>5 DEF AppState, Like, SameLink
  <2>2. Meek(app, app')
    BY <1>1, <1>5 DEF AppState, Meek, NoPairing
  <2>3. QED
    BY <1>1, <1>2, <2>1, <2>2, LikeKept, MeekKept DEF StopParts
<1>6. CASE app.pairing /\ app' = PairComplete(app, d, ok)
  <2>1. ~stopped'
    BY <1>1, <1>6 DEF StopParts, StopHolds, NoPairing
  <2>2. QED
    BY <1>2, <1>3, <1>6, <2>1, CompleteStop
<1>7. QED
  BY <1>4, <1>5, <1>6

LEMMA BondStop ==
  ASSUME StepTypes, StopParts, Linked(app), Remember, mixups' \subseteq {"foreignLoss"},
         HandlePaired \/ HandleRecords \/ HandleKeyMissing \/ HandleUnpaired
  PROVE  StopParts' /\ app'.requested \subseteq app.requested
<1> DEFINE d == Head(events).dev  ok == Head(events).ok
<1>1. /\ events # <<>> /\ Head(events).kind # "disconnected" /\ events' = Rest /\ channel' = channel
      /\ app \in AppState
  BY DEF HandlePaired, HandleRecords, HandleKeyMissing, HandleUnpaired, Handle, OnlyApp, StepTypes
<1>2. Lasting
  BY <1>1, HandledLasts
<1>3. d \in Address /\ ok \in BOOLEAN
  BY <1>1, Taken DEF StepTypes
<1>4. CASE HandlePaired
  <2>1. /\ app' = [app EXCEPT !.saved = d] \/ app' = PairComplete(app, d, ok)
        /\ stopped' = (stopped /\ ~ok)
    BY <1>4 DEF HandlePaired
  <2> HIDE DEF d, ok
  <2>2. CASE app' = [app EXCEPT !.saved = d]
    <3>1. Like(app, app') /\ Meek(app, app')
      BY <1>1, <2>2 DEF AppState, Like, SameLink, Meek, NoPairing
    <3>2. stopped' => stopped
      BY <2>1
    <3>3. QED
      BY <1>2, <3>1, <3>2, LikeKept, MeekKept DEF StopParts
  <2>3. CASE app' = PairComplete(app, d, ok)
    BY <1>2, <1>3, <2>1, <2>3, CompleteStop
  <2>4. QED
    BY <2>1, <2>2, <2>3
<1>5. CASE HandleRecords
  <2> DEFINE a == [app EXCEPT !.reading = FALSE, !.saved = IF @ = NoDevice THEN d ELSE @]
  <2>1. a \in AppState /\ Like(app, a) /\ a.waiting = app.waiting
    BY <1>1, <1>3 DEF AppState, Like, SameLink
  <2>2. Meek(app, a)
    BY <1>1 DEF AppState, Meek, NoPairing
  <2>3. app' = AfterRead(a) /\ stopped' = stopped /\ calls' = calls
    BY <1>5 DEF HandleRecords, OnlyApp, bounds
  <2> HIDE DEF a
  <2>4. QED
    BY <1>2, <2>1, <2>2, <2>3, AfterReadStop
<1>6. CASE HandleKeyMissing \/ HandleUnpaired
  <2>1. app' \in {app, ForgetSaved(app)} /\ stopped' = stopped
    BY <1>6 DEF HandleKeyMissing, HandleUnpaired, OnlyApp
  <2>2. Like(app, app') /\ Meek(app, app')
    <3>1. Like(app, app) /\ Meek(app, app)
      BY DEF Like, SameLink, Meek
    <3>2. QED
      BY <1>1, <2>1, <3>1, LikeOperators
  <2>3. QED
    BY <1>2, <2>1, <2>2, LikeKept, MeekKept DEF StopParts
<1>7. QED
  BY <1>4, <1>5, <1>6

LEMMA HandlerStop ==
  ASSUME StepTypes, StopParts, Linked(app), Remember, mixups' \subseteq {"foreignLoss"},
         EventHandlerStep
  PROVE  StopParts' /\ app'.requested \subseteq app.requested
BY ConnectedStop, LostStop, GoneStop, SearchStop, AnswerStop, BondStop DEF EventHandlerStep

-----------------------------------------------------------------------------
(* The application's calls.  One that gives the link up closes its channels *)
(* on the spot, and the news of that is under way.                          *)
LEMMA GivingUpStop ==
  ASSUME StepTypes, StepTypes', Linked(app), ChannelsKnown', StopHolds',
         app'.cid = app.cid, app'.disconnecting = TRUE, app'.connecting = FALSE,
         app'.requested = app.requested,
         \A p \in PSMs : app.active # NoDevice => channel'[app.active][p] # "open"
  PROVE  StopParts' /\ app'.requested \subseteq app.requested
<1>1. PendingIsBusy' /\ StopEndsCalls'
  BY DEF PendingIsBusy, StopEndsCalls
<1>2. \A p \in PSMs : Doomed(p)'
  <2>1. SUFFICES ASSUME NEW p \in PSMs, NEW d, d = app'.cid[p], d # NoDevice
                 PROVE  \E k \in 1 .. Len(events') : LostBy(events'[k], d, p)
    BY DEF Doomed, Awaits
  <2>2. d \in Devices /\ d = app.active /\ app.active # NoDevice
    BY <2>1 DEF StepTypes, AppState, Address, Linked
  <2>3. channel'[d][p] # "open"
    BY <2>2
  <2>4. Known(d, p)'
    BY <2>2 DEF ChannelsKnown
  <2>5. KnowsShut(events', d, d, p)
    BY <2>1, <2>3, <2>4 DEF Known, Agrees
  <2>6. events' \in Seq(Told)
    BY DEF StepTypes
  <2>7. Len(events') \in Nat
    BY <2>6, LenProperties
  <2>8. Opened(events', 0, d, d, p) /\ 0 \in 0 .. Len(events')
    BY <2>7 DEF Opened
  <2>9. \E k \in 0 + 1 .. Len(events') : LostBy(events'[k], d, p)
    BY <2>5, <2>8 DEF KnowsShut
  <2>10. QED
    BY <2>9
<1>3. app'.pending \subseteq PSMs
  BY DEF StepTypes, AppState
<1>4. PendingIsNew' /\ GivenUpIsLost'
  BY <1>2, <1>3 DEF PendingIsNew, GivenUpIsLost
<1>5. QED
  BY <1>1, <1>4 DEF StopParts

LEMMA SettingStop ==
  ASSUME StepTypes, StopParts, Lasting,
         \/ \E d \in Devices : SetSavedAddress(d)
         \/ ClearSavedAddress \/ EnableReconnect \/ DisableReconnect \/ StartPairing
  PROVE  StopParts' /\ app'.requested \subseteq app.requested
<1>1. app \in AppState /\ bond \in Address
  BY DEF StepTypes, OthersOK
<1>2. Like(app, app) /\ Meek(app, app)
  BY DEF Like, SameLink, Meek
<1>3. ASSUME NEW d \in Devices, SetSavedAddress(d)
      PROVE  Like(app, app') /\ Meek(app, app') /\ stopped' = stopped
  <2> DEFINE saved == [app EXCEPT !.saved = d, !.injected = TRUE, !.waiting = FALSE]
  <2>1. saved \in AppState /\ Like(app, saved) /\ Meek(app, saved)
    BY <1>1 DEF AppState, Address, Like, SameLink, Meek, NoPairing
  <2> HIDE DEF saved
  <2>2. app' \in {saved, ScheduleReconnect(saved)} /\ stopped' = stopped
    BY <1>3 DEF SetSavedAddress, SilentCall, Call, saved
  <2>3. QED
    BY <2>1, <2>2, LikeOperators DEF Like, SameLink, Meek
<1>4. ASSUME ClearSavedAddress
      PROVE  Like(app, app') /\ Meek(app, app') /\ stopped' = stopped
  <2> DEFINE a == ForgetSaved(app)
  <2>1. a \in AppState /\ Like(app, a) /\ Meek(app, a)
    BY <1>1, LikeOperators, ForgottenType
  <2>2. app' = [a EXCEPT !.waiting = FALSE] /\ stopped' = stopped
    BY <1>4 DEF ClearSavedAddress, SilentCall, Call
  <2> HIDE DEF a
  <2>3. Like(a, app') /\ Meek(a, app')
    BY <2>1, <2>2 DEF AppState, Like, SameLink, Meek, NoPairing
  <2>4. QED
    BY <2>1, <2>2, <2>3 DEF Like, SameLink, Meek
<1>5. ASSUME EnableReconnect PROVE Like(app, app') /\ ~stopped'
  <2> DEFINE on == [app EXCEPT !.autoReconnect = TRUE, !.suppressed = FALSE]
             known == IF on.saved = NoDevice THEN LoadSaved(on) ELSE on
  <2>1. on \in AppState /\ Like(app, on)
    BY <1>1 DEF AppState, Like, SameLink
  <2> HIDE DEF on
  <2>2. known \in AppState /\ Like(on, known)
    <3>1. Like(on, on)
      BY DEF Like, SameLink
    <3>2. QED
      BY <1>1, <2>1, <3>1, LoadedType, LikeOperators
  <2> HIDE DEF known
  <2>3. /\ app' \in {known, ScheduleReconnect(known), [known EXCEPT !.readWanted = TRUE]}
        /\ stopped' = FALSE
    BY <1>5 DEF EnableReconnect, SilentCall, Call, known, on
  <2>4. Like(known, [known EXCEPT !.readWanted = TRUE]) /\ Like(known, ScheduleReconnect(known))
    <3>1. Like(known, ScheduleReconnect(known))
      BY <2>2, LikeOperators
    <3>2. QED
      BY <2>2, <3>1 DEF AppState, Like, SameLink
  <2>5. QED
    BY <2>1, <2>2, <2>3, <2>4 DEF Like, SameLink
<1>6. ASSUME DisableReconnect \/ StartPairing PROVE Like(app, app') /\ ~stopped'
  BY <1>1, <1>6 DEF DisableReconnect, StartPairing, SilentCall, Call, AppState, Like, SameLink
<1>7. CASE Like(app, app') /\ Meek(app, app') /\ stopped' = stopped
  BY <1>7, LikeKept, MeekKept DEF StopParts
<1>8. CASE Like(app, app') /\ ~stopped'
  BY <1>8, LikeKept DEF StopHolds
<1>9. QED
  BY <1>3, <1>4, <1>5, <1>6, <1>7, <1>8

LEMMA ConnectSavedStop ==
  ASSUME StepTypes, StopParts, Linked(app), Lasting, ConnectSaved
  PROVE  StopParts' /\ app'.requested \subseteq app.requested
<1> DEFINE resumed == [app EXCEPT !.suppressed = FALSE, !.reconnectPending = FALSE]
           known == IF app.saved = NoDevice THEN LoadSaved(resumed) ELSE resumed
<1>1. app \in AppState /\ bond \in Address /\ "control" \in PSMs
  BY DEF StepTypes, OthersOK, PSMs
<1>2. resumed \in AppState /\ Like(app, resumed) /\ resumed.pending = app.pending
  BY <1>1 DEF AppState, Like, SameLink
<1> HIDE DEF resumed
<1>3. known \in AppState /\ Like(resumed, known) /\ known.pending = app.pending
  <2>1. Like(resumed, resumed)
    BY DEF Like, SameLink
  <2>2. LoadSaved(resumed).pending = resumed.pending
    BY <1>2 DEF LoadSaved, AppState
  <2>3. QED
    BY <1>1, <1>2, <2>1, <2>2, LoadedType, LikeOperators
<1> HIDE DEF known
<1>4. /\ app' \in {ScheduleConnect(known, known.saved),
                   [known EXCEPT !.waiting = TRUE, !.readWanted = TRUE]}
      /\ stopped' = FALSE /\ ~app.connected /\ ~app.connecting
  BY DEF ConnectSaved, SilentCall, Call, known, resumed, Idle
<1>5. StopHolds'
  BY <1>4 DEF StopHolds
<1>6. CASE app' = ScheduleConnect(known, known.saved)
  <2>1. known.saved \in Address
    BY <1>3 DEF AppState
  <2>2. Begun(known, app')
    BY <1>3, <1>6, <2>1, BegunOperator
  <2>3. Begun(app, app')
    BY <1>2, <1>3, <2>2 DEF Begun, Like, SameLink
  <2>4. QED
    BY <1>1, <1>4, <1>5, <2>3, FreeIsDoomed, BegunKept
<1>7. CASE app' = [known EXCEPT !.waiting = TRUE, !.readWanted = TRUE]
  <2>1. Like(known, app')
    BY <1>3, <1>7 DEF AppState, Like, SameLink
  <2>2. Like(app, app')
    BY <1>2, <1>3, <2>1 DEF Like, SameLink
  <2>3. QED
    BY <1>4, <1>5, <2>2, LikeKept
<1>8. QED
  BY <1>4, <1>6, <1>7

LEMMA DisconnectStop ==
  ASSUME StepTypes, StepTypes', StopParts, Linked(app), ChannelsKnown', Disconnect
  PROVE  StopParts' /\ app'.requested \subseteq app.requested
<1>1. /\ app \in AppState /\ app.active \in Address /\ channel \in Channels /\ events \in Seq(Told)
      /\ PSMs \in SUBSET PSMs
  BY DEF StepTypes, AppState
<1>2. app' = Stop(app) /\ stopped' = NoPairing(app) /\ DisconnReq(app.active, PSMs, events)
  BY DEF Disconnect, Call
<1>3. /\ app'.cid = app.cid /\ app'.disconnecting = TRUE /\ app'.connecting = FALSE
      /\ app'.requested = app.requested
  BY <1>1, <1>2 DEF Stop, AppState
<1>4. StopHolds'
  BY <1>1, <1>2 DEF Stop, AppState, StopHolds, NoPairing
<1>5. \A p \in PSMs : app.active # NoDevice => channel'[app.active][p] # "open"
  <2>1. \A x \in Devices, p \in PSMs :
          channel'[x][p] = IF x = app.active /\ p \in PSMs /\ channel[x][p] = "open" THEN "closed"
                           ELSE channel[x][p]
    BY <1>1, <1>2, DisconnSays
  <2>2. QED
    BY <1>1, <2>1 DEF Address
<1>6. QED
  BY <1>3, <1>4, <1>5, GivingUpStop

LEMMA ForgetStop ==
  ASSUME StepTypes, StepTypes', StopParts, Linked(app), ChannelsKnown', Lasting, Forget
  PROVE  StopParts' /\ app'.requested \subseteq app.requested
<1> DEFINE off == [app EXCEPT !.suppressed = TRUE, !.reconnectPending = FALSE]
           known == IF app.saved = NoDevice THEN LoadSaved(off) ELSE off
           told == <<DeviceEvent("unpaired", known.saved, TRUE)>>
<1>1. /\ app \in AppState /\ bond \in Address /\ app.active \in Address /\ channel \in Channels
      /\ events \in Seq(Told) /\ PSMs \in SUBSET PSMs /\ <<>> \in Seq(Told)
  BY DEF StepTypes, OthersOK, AppState
<1>2. /\ off \in AppState /\ Like(app, off) /\ Meek(app, off) /\ off.suppressed = TRUE
      /\ NoPairing(app) => NoPairing(off)
  BY <1>1 DEF AppState, Like, SameLink, Meek, NoPairing
<1> HIDE DEF off
<1>3. /\ known \in AppState /\ Like(off, known) /\ Meek(off, known)
  <2>1. Like(off, off) /\ Meek(off, off)
    BY DEF Like, SameLink, Meek
  <2>2. QED
    BY <1>1, <1>2, <2>1, LoadedType, LikeOperators
<1>4. told \in Seq(Told)
  <2>1. known.saved \in Address
    BY <1>3 DEF AppState
  <2>2. DeviceEvent("unpaired", known.saved, TRUE) \in Told
    BY <2>1, EventType DEF DeviceEvent, EventKinds, PSMs
  <2>3. QED
    BY <2>2, Single
<1> HIDE DEF told
<1>5. Like(app, known) /\ Meek(app, known) /\ known.suppressed
  BY <1>2, <1>3 DEF Like, SameLink, Meek
<1>6. CASE app' = known /\ stopped' = stopped
  BY <1>5, <1>6, LikeKept, MeekKept DEF StopParts
<1>7. CASE /\ ~CanDisconnect(known)
           /\ app' = [known EXCEPT !.saved = NoDevice, !.injected = FALSE]
           /\ stopped' = NoPairing(app)
  <2>1. Like(known, app') /\ Meek(known, app')
    BY <1>3, <1>7 DEF AppState, Like, SameLink, Meek, NoPairing
  <2>2. Like(app, app') /\ Meek(app, app') /\ app'.suppressed
    BY <1>5, <2>1 DEF Like, SameLink, Meek
  <2>3. StopHolds'
    BY <1>7, <2>2 DEF StopHolds, Meek
  <2>4. app.active = NoDevice \/ ~app.connecting
    BY <1>5, <1>7 DEF CanDisconnect, Like, SameLink
  <2>5. QED
    BY <2>2, <2>3, <2>4, LikeKept
<1>8. CASE /\ CanDisconnect(known)
           /\ app' = [Stop(known) EXCEPT !.saved = NoDevice, !.injected = FALSE]
           /\ stopped' = NoPairing(app)
           /\ \E said \in {<<>>, told} : DisconnReq(known.active, PSMs, events \o said)
  <2> DEFINE gone == Stop(known)
  <2>1. /\ gone \in AppState /\ gone.cid = known.cid /\ gone.disconnecting = TRUE
        /\ gone.connecting = FALSE /\ gone.requested = known.requested /\ gone.suppressed = TRUE
    <3>1. gone \in AppState
      BY <1>3, StoppedType
    <3>2. QED
      BY <1>3, <3>1 DEF Stop, AppState
  <2>2. NoPairing(known) => NoPairing(gone)
    BY <1>3 DEF Stop, NoPairing, AppState
  <2> HIDE DEF gone
  <2>3. app' = [gone EXCEPT !.saved = NoDevice, !.injected = FALSE]
    BY <1>8 DEF gone
  <2>4. /\ app'.cid = app.cid /\ app'.disconnecting = TRUE /\ app'.connecting = FALSE
        /\ app'.requested = app.requested
    BY <1>5, <2>1, <2>3 DEF Like, SameLink, AppState
  <2>5. StopHolds'
    <3>1. app'.suppressed = TRUE /\ (NoPairing(gone) => NoPairing(app'))
      BY <2>1, <2>3 DEF NoPairing, AppState
    <3>2. QED
      BY <1>5, <1>8, <2>2, <3>1 DEF StopHolds, Meek
  <2>6. \A p \in PSMs : app.active # NoDevice => channel'[app.active][p] # "open"
    <3>1. PICK said \in {<<>>, told} : DisconnReq(known.active, PSMs, events \o said)
      BY <1>8
    <3>2. events \o said \in Seq(Told) /\ known.active = app.active
      BY <1>1, <1>4, <1>5, ConcatProperties DEF Like, SameLink
    <3>3. \A x \in Devices, p \in PSMs :
            channel'[x][p] = IF x = app.active /\ p \in PSMs /\ channel[x][p] = "open" THEN "closed"
                             ELSE channel[x][p]
      BY <1>1, <3>1, <3>2, DisconnSays
    <3>4. QED
      BY <1>1, <3>3 DEF Address
  <2>7. QED
    BY <2>4, <2>5, <2>6, GivingUpStop
<1>9. QED
  BY <1>6, <1>7, <1>8 DEF Forget, SilentCall, Call, known, off, told

LEMMA ApplicationStop ==
  ASSUME StepTypes, StepTypes', StopParts, Linked(app), ChannelsKnown', ApplicationStep
  PROVE  StopParts' /\ app'.requested \subseteq app.requested
<1>1. Lasting
  BY ApplicationSays, GrowingLasts
<1>2. QED
  BY <1>1, SettingStop, ConnectSavedStop, DisconnectStop, ForgetStop DEF ApplicationStep

-----------------------------------------------------------------------------
(* The passes of the poll.                                                  *)

LEMMA ReadSavedStop ==
  ASSUME StepTypes, StopParts, Linked(app), Remember, mixups' \subseteq {"foreignLoss"}, Lasting,
         ReadSaved
  PROVE  StopParts'
<1> DEFINE read == [app EXCEPT !.readWanted = FALSE]
<1>1. app \in AppState /\ bond \in Address
  BY DEF StepTypes, OthersOK
<1>2. read \in AppState /\ Like(app, read) /\ Meek(app, read) /\ read.waiting = app.waiting
  BY <1>1 DEF AppState, Like, SameLink, Meek, NoPairing
<1> HIDE DEF read
<1>3. /\ LoadSaved(read) \in AppState /\ Like(read, LoadSaved(read)) /\ Meek(read, LoadSaved(read))
      /\ LoadSaved(read).waiting = read.waiting
  <2>1. LoadSaved(read).waiting = read.waiting
    BY <1>2 DEF LoadSaved, AppState
  <2>2. QED
    BY <1>1, <1>2, <2>1, LoadedType, LikeOperators
<1>4. /\ app' \in {AfterRead(LoadSaved(read)), [read EXCEPT !.reading = TRUE]}
      /\ stopped' = stopped /\ calls' = calls
  BY DEF ReadSaved, Pass, bounds, read
<1>5. CASE app' = AfterRead(LoadSaved(read))
  <2>1. Like(app, LoadSaved(read)) /\ Meek(app, LoadSaved(read))
    BY <1>2, <1>3 DEF Like, SameLink, Meek
  <2>2. QED
    BY <1>2, <1>3, <1>4, <1>5, <2>1, AfterReadStop
<1>6. CASE app' = [read EXCEPT !.reading = TRUE]
  <2>1. Like(read, app') /\ Meek(read, app')
    BY <1>2, <1>6 DEF AppState, Like, SameLink, Meek, NoPairing
  <2>2. Like(app, app') /\ Meek(app, app')
    BY <1>2, <2>1 DEF Like, SameLink, Meek
  <2>3. QED
    BY <1>4, <2>2, LikeKept, MeekKept DEF StopParts
<1>7. QED
  BY <1>4, <1>5, <1>6

LEMMA ReconnectStop ==
  ASSUME StepTypes, StopParts, Linked(app), Lasting, Reconnect
  PROVE  StopParts'
<1>1. app \in AppState /\ app.saved \in Address /\ "control" \in PSMs
  BY DEF StepTypes, AppState, PSMs
<1>2. stopped' = stopped
  BY DEF Reconnect, Pass
<1>3. CASE app' = [app EXCEPT !.reconnectPending = FALSE]
  <2>1. Like(app, app') /\ Meek(app, app')
    BY <1>1, <1>3 DEF AppState, Like, SameLink, Meek, NoPairing
  <2>2. QED
    BY <1>2, <2>1, LikeKept, MeekKept DEF StopParts
<1>4. CASE ReconnectAllowed(app) /\ Idle(app) /\ app' = ScheduleConnect(app, app.saved)
  <2>1. ~app.connected /\ ~app.connecting /\ ~stopped'
    BY <1>2, <1>4 DEF Idle, ReconnectAllowed, StopParts, StopHolds
  <2>2. Begun(app, app')
    BY <1>1, <1>4, BegunOperator
  <2>3. StopHolds'
    BY <2>1 DEF StopHolds
  <2>4. QED
    BY <1>1, <2>1, <2>2, <2>3, FreeIsDoomed, BegunKept
<1>5. QED
  BY <1>3, <1>4 DEF Reconnect, Pass

LEMMA PairingStop ==
  ASSUME StepTypes, StopParts, Lasting,
         \/ StopDiscovery \/ BeginPairing \/ Secure("auth") \/ Secure("encrypt")
         \/ StartDiscovery \/ NoteDiscovery
  PROVE  StopParts'
<1>1. app \in AppState /\ stopped' = stopped
  BY DEF StepTypes, StopDiscovery, BeginPairing, Secure, StartDiscovery, NoteDiscovery, Pass
<1>2. CASE BeginPairing
  <2>1. "pair" \in app.todo
    <3>1. HasWork(app, "pair")
      BY <1>2 DEF BeginPairing, Turn
    <3>2. QED
      BY <3>1 DEF HasWork, PSMs
  <2>2. ~stopped'
    BY <1>1, <2>1 DEF StopParts, StopHolds, NoPairing
  <2>3. /\ app'.cid = app.cid /\ app'.connected = app.connected /\ app'.connecting = app.connecting
        /\ app'.disconnecting = app.disconnecting /\ app'.pending = app.pending
    BY <1>1, <1>2 DEF BeginPairing, Pass, Done, AppState
  <2>4. \A p \in PSMs : Doomed(p) => Doomed(p)'
    BY <2>3 DEF Lasting, Doomed
  <2>5. PendingIsNew' /\ PendingIsBusy'
    BY <1>1, <2>3, <2>4 DEF StopParts, PendingIsNew, PendingIsBusy, AppState
  <2>6. GivenUpIsLost' /\ StopEndsCalls' /\ StopHolds'
    BY <2>2, <2>3, <2>4 DEF StopParts, GivenUpIsLost, StopEndsCalls, StopHolds
  <2>7. QED
    BY <2>5, <2>6 DEF StopParts
<1>3. CASE ~BeginPairing
  <2>1. \E w : \/ app' = Done(w) \/ app' = [Done(w) EXCEPT !.discovering = TRUE]
               \/ app' = [app EXCEPT !.todo = @ \cup {"startDiscovery"}]
    BY <1>3 DEF StopDiscovery, Secure, StartDiscovery, NoteDiscovery, Pass
  <2>2. Like(app, app')
    BY <1>1, <2>1 DEF Done, AppState, Like, SameLink
  <2>3. Meek(app, app')
    <3>1. PICK w : \/ app' = Done(w) \/ app' = [Done(w) EXCEPT !.discovering = TRUE]
                   \/ app' = [app EXCEPT !.todo = @ \cup {"startDiscovery"}]
      BY <2>1
    <3>2. /\ app'.wantPairing = app.wantPairing /\ app'.pairing = app.pairing
          /\ app'.suppressed = app.suppressed
      BY <1>1, <3>1 DEF Done, AppState
    <3>3. app'.todo \in {app.todo \ {w}, app.todo \cup {"startDiscovery"}}
      BY <1>1, <3>1 DEF Done, AppState
    <3>4. "pair" \in app'.todo => "pair" \in app.todo
      BY <3>3
    <3>5. QED
      BY <3>2, <3>4 DEF Meek, NoPairing
  <2>4. QED
    BY <1>1, <2>2, <2>3, LikeKept, MeekKept DEF StopParts
<1>4. QED
  BY <1>2, <1>3

LEMMA OpenStop ==
  ASSUME StepTypes, StopParts, Lasting, NEW q \in PSMs, OpenChannel(q)
  PROVE  StopParts'
<1>1. /\ SameLink(app, app') /\ app'.pending \subseteq app.pending /\ Meek(app, app')
      /\ stopped' = stopped
  BY DEF OpenChannel, Pass, StepTypes, AppState, SameLink, Meek, NoPairing
<1>2. QED
  BY <1>1, ShrinkingKept, MeekKept DEF StopParts

LEMMA PollStop ==
  ASSUME StepTypes, StopParts, Linked(app), Remember, mixups' \subseteq {"foreignLoss"}, PollStep
  PROVE  StopParts'
<1>1. Lasting
  BY PollSays, GrowingLasts
<1>2. QED
  BY <1>1, ReadSavedStop, ReconnectStop, PairingStop, OpenStop DEF PollStep, PSMs

-----------------------------------------------------------------------------
(* The invariant: the channels are known, and unless something was mixed    *)
(* up, a stop is kept.                                                      *)
StopInv == KnownInv /\ (mixups \subseteq {"foreignLoss"} => StopParts)

LEMMA InitStop == Init => StopInv
<1> SUFFICES ASSUME Init PROVE StopParts
  BY InitKnown DEF StopInv
<1>1. /\ stopped = FALSE /\ app.pending = {} /\ app.disconnecting = FALSE
  BY DEF Init
<1>2. QED
  BY <1>1 DEF StopParts, StopHolds, PendingIsBusy, PendingIsNew, GivenUpIsLost, StopEndsCalls

LEMMA StopKept == StopInv /\ [Next]_vars => StopInv'
<1> SUFFICES ASSUME StopInv, [Next]_vars PROVE StopInv'
  OBVIOUS
<1>1. KnownInv'
  BY KnownKept DEF StopInv
<1>2. StepTypes /\ StepTypes'
  BY <1>1 DEF StopInv, KnownInv, WholeInv, TypeInv
<1>3. CASE UNCHANGED vars
  <2>1. mixups' = mixups /\ app' = app /\ stopped' = stopped /\ events' = events
    BY <1>3 DEF vars
  <2>2. StopParts => StopParts'
    BY <2>1 DEF StopParts, StopHolds, NoPairing, PendingIsBusy, PendingIsNew, GivenUpIsLost,
                StopEndsCalls, Doomed, Awaits
  <2>3. QED
    BY <1>1, <2>1, <2>2 DEF StopInv
<1>4. CASE Next
  <2>1. Remember /\ (StackStep \/ EventHandlerStep \/ ApplicationStep \/ PollStep)
    BY <1>4 DEF Next, Stack, EventHandler, Application, Poll
  <2>2. ASSUME mixups' \subseteq {"foreignLoss"} PROVE StopParts'
    <3>1. mixups \subseteq {"foreignLoss"}
      BY <2>1, <2>2 DEF Remember
    <3>2. Linked(app) /\ StopParts /\ ChannelsKnown'
      BY <1>1, <2>2, <3>1 DEF StopInv, KnownInv, WholeInv, LinkInv
    <3>3. QED
      BY <1>2, <2>1, <2>2, <3>2, StackStop, HandlerStop, ApplicationStop, PollStop
  <2>3. QED
    BY <1>1, <2>2 DEF StopInv
<1>5. QED
  BY <1>3, <1>4

-----------------------------------------------------------------------------
(* Only a pass of the poll asks for a channel.                              *)

(* The stack, the application, and the other passes ask for none.           *)
LEMMA StackAsks ==
  ASSUME StepTypes, StackStep
  PROVE  app'.requested = app.requested
<1>1. CASE app' = app
  BY <1>1
<1>2. CASE Registered \/ \E d \in Devices, p \in PSMs : ConnInd(d, p)
  BY <1>2, ZenonT(40) DEF Registered, ConnInd, StepTypes, AppState
<1>3. app' = app \/ Registered \/ \E d \in Devices, p \in PSMs : ConnInd(d, p)
  BY DEF StackStep, ReadsBonds, EndsInquiry, Opens, FailsToOpen, LosesChannel,
         LosesDevice, LosesKey, Finds, Bonds, Answers
<1>4. QED
  BY <1>1, <1>2, <1>3

LEMMA ApplicationAsks ==
  ASSUME StepTypes, StopParts, Linked(app), ApplicationStep
  PROVE  app'.requested \subseteq app.requested
<1>1. app \in AppState /\ bond \in Address /\ Lasting
  BY ApplicationSays, GrowingLasts DEF StepTypes, OthersOK
<1>2. ASSUME NEW a \in AppState PROVE Stop(a) \in AppState /\ Stop(a).requested = a.requested
  <2>1. Stop(a).requested = a.requested
    BY DEF Stop, AppState
  <2>2. QED
    BY <2>1, StoppedType
<1>3. CASE Disconnect
  BY <1>1, <1>2, <1>3 DEF Disconnect, Call
<1>4. CASE Forget
  <2> DEFINE off == [app EXCEPT !.suppressed = TRUE, !.reconnectPending = FALSE]
             known == IF app.saved = NoDevice THEN LoadSaved(off) ELSE off
             gone == IF CanDisconnect(known) THEN Stop(known) ELSE known
  <2>1. off \in AppState /\ off.requested = app.requested
    BY <1>1 DEF AppState
  <2> HIDE DEF off
  <2>2. known \in AppState /\ known.requested = app.requested
    BY <1>1, <2>1, LoadedType, LikeOperators DEF Like
  <2> HIDE DEF known
  <2>3. gone \in AppState /\ gone.requested = app.requested
    BY <1>2, <2>2
  <2>4. app' \in {known, [gone EXCEPT !.saved = NoDevice, !.injected = FALSE]}
    BY <1>4 DEF Forget, SilentCall, Call, known, off
  <2> HIDE DEF gone
  <2>5. [gone EXCEPT !.saved = NoDevice, !.injected = FALSE].requested = gone.requested
    BY <2>3 DEF AppState
  <2>6. QED
    BY <2>2, <2>3, <2>4, <2>5
<1>5. QED
  BY <1>1, <1>3, <1>4, SettingStop, ConnectSavedStop DEF ApplicationStep

LEMMA PollAsks ==
  ASSUME StepTypes, PollStep, \A q \in PSMs : ~OpenChannel(q)
  PROVE  app'.requested \subseteq app.requested
<1>1. app \in AppState /\ bond \in Address /\ app.saved \in Address
  BY DEF StepTypes, OthersOK, AppState
<1>2. CASE ReadSaved
  <2> DEFINE read == [app EXCEPT !.readWanted = FALSE]
  <2>1. read \in AppState /\ read.requested = app.requested
    BY <1>1 DEF AppState
  <2> HIDE DEF read
  <2>2. LoadSaved(read) \in AppState /\ LoadSaved(read).requested = app.requested
    BY <1>1, <2>1, LoadedType, LikeOperators DEF Like
  <2>3. AfterRead(LoadSaved(read)).requested \subseteq app.requested
    BY <2>2, ReadOperator DEF Like, Begun
  <2>4. [read EXCEPT !.reading = TRUE].requested = app.requested
    BY <2>1 DEF AppState
  <2>5. app' \in {AfterRead(LoadSaved(read)), [read EXCEPT !.reading = TRUE]}
    BY <1>2 DEF ReadSaved, Pass, read
  <2>6. QED
    BY <2>3, <2>4, <2>5
<1>3. CASE Reconnect
  <2>1. app' \in {[app EXCEPT !.reconnectPending = FALSE], ScheduleConnect(app, app.saved)}
    BY <1>3 DEF Reconnect, Pass
  <2>2. ScheduleConnect(app, app.saved).requested = {}
    BY <1>1, BegunOperator DEF Begun
  <2>3. [app EXCEPT !.reconnectPending = FALSE].requested = app.requested
    BY <1>1 DEF AppState
  <2>4. QED
    BY <2>1, <2>2, <2>3
<1>4. CASE \/ StopDiscovery \/ BeginPairing \/ Secure("auth") \/ Secure("encrypt")
           \/ StartDiscovery \/ NoteDiscovery
  BY <1>1, <1>4 DEF StopDiscovery, BeginPairing, Secure, StartDiscovery, NoteDiscovery, Pass, Done,
                    AppState
<1>5. QED
  BY <1>2, <1>3, <1>4 DEF PollStep, PSMs

(* A stopped link has nothing to ask for, once the stack's events are seen. *)
LEMMA StoppedIsQuiet ==
  ASSUME StepTypes, StopParts, Linked(app), stopped, events = <<>>, NEW q \in PSMs
  PROVE  ~OpenChannel(q)
<1> SUFFICES ASSUME OpenChannel(q) PROVE FALSE
  OBVIOUS
<1>1. q \in app.pending /\ app.active # NoDevice /\ ~app.disconnecting
  <2>1. MayOpen(app, q)
    BY DEF OpenChannel, Turn, HasWork, PSMs
  <2>2. QED
    BY <2>1 DEF MayOpen
<1>2. app.cid[q] = NoDevice
  <2>1. Doomed(q) /\ Len(events) = 0
    BY <1>1 DEF StopParts, PendingIsNew
  <2>2. QED
    BY <2>1 DEF Doomed, Awaits
<1>3. ~app.connected
  BY <1>2 DEF Linked
<1>4. ~app.connecting
  BY <1>1, <1>3 DEF StopParts, StopEndsCalls
<1>5. QED
  BY <1>1, <1>3, <1>4 DEF StopParts, PendingIsBusy

(* An explicit disconnect or forget (ds5_classic_disconnect,                *)
(* ds5_classic_forget) is kept to: once the stack's events are seen, no     *)
(* channel is asked for until the application wants a link again.           *)
THEOREM StopsAreKept == Spec => StopHoldsUnlessLate
<1>1. StopInv /\ [Next]_vars =>
        [stopped /\ stopped' /\ mixups \subseteq {"foreignLoss"} /\ events = <<>>
           => app'.requested \subseteq app.requested]_vars
  <2> SUFFICES ASSUME StopInv, Next, stopped, mixups \subseteq {"foreignLoss"}, events = <<>>
               PROVE  app'.requested \subseteq app.requested
    BY DEF vars
  <2>1. StepTypes /\ StopParts /\ Linked(app)
    BY DEF StopInv, KnownInv, WholeInv, TypeInv, LinkInv
  <2>2. StackStep \/ EventHandlerStep \/ ApplicationStep \/ PollStep
    BY DEF Next, Stack, EventHandler, Application, Poll
  <2>3. CASE EventHandlerStep
    BY <2>3 DEF EventHandlerStep, HandleConnected, HandleDisconnected, HandleFailed, HandleAclGone,
                HandleFound, HandleDiscoveryDone, HandleAnswer, HandlePaired, HandleRecords,
                HandleKeyMissing, HandleUnpaired, Handle
  <2>4. CASE PollStep
    BY <2>1, <2>4, StoppedIsQuiet, PollAsks
  <2>5. CASE StackStep
    BY <2>1, <2>5, StackAsks
  <2>6. CASE ApplicationStep
    BY <2>1, <2>6, ApplicationAsks
  <2>7. QED
    BY <2>2, <2>3, <2>4, <2>5, <2>6
<1>2. QED
  BY <1>1, InitStop, StopKept, PTL DEF Spec, StopHoldsUnlessLate

-----------------------------------------------------------------------------
(* The output reports.  What is in the records, and that a link that is     *)
(* down has nothing in line.                                                *)
OutputShapes ==
  /\ up \in BOOLEAN /\ waiting \in [state : Nat, audio : BOOLEAN]
  /\ flying \in {Output!None, Output!Audio, Output!Primer} \cup {Output!State(n) : n \in Nat}
  /\ composed \in Nat /\ holds \in [Output!Senders -> Nat] /\ newest \in Nat /\ shown \in Nat
DownIsEmpty == ~up => flying = Output!None /\ waiting.state = 0
OutputInv == OutputShapes /\ DownIsEmpty /\ NewestIsLast

LEMMA OutputStarts == Output!Init => OutputInv
<1> SUFFICES ASSUME Output!Init PROVE OutputInv
  OBVIOUS
<1>1. OutputShapes /\ DownIsEmpty
  BY DEF Output!Init, OutputShapes, DownIsEmpty, Output!None, Output!Senders
<1>2. NewestIsLast
  BY DEF Output!Init, NewestIsLast, Output!NewestIsLast
<1>3. QED
  BY <1>1, <1>2 DEF OutputInv

(* A report is a state, audio, or a primer, and only the first is in line.  *)
LEMMA Kinds ==
  /\ Output!None.kind # "state" /\ Output!Audio.kind # "state" /\ Output!Primer.kind # "state"
  /\ Output!None # Output!Audio /\ Output!None # Output!Primer
  /\ \A n \in Nat : Output!State(n).kind = "state" /\ Output!State(n).state = n
                    /\ Output!State(n) # Output!None /\ Output!State(n) # Output!Audio
BY DEF Output!None, Output!Audio, Output!Primer, Output!State

(* A state handed over becomes the last in line.                            *)
LEMMA HandOverKeeps ==
  ASSUME OutputInv, NEW t \in Output!Senders, Output!HandOver(t)
  PROVE  OutputInv'
<1>1. /\ holds[t] \in Nat /\ holds[t] # 0 /\ up /\ up' = up /\ shown' = shown
      /\ composed' = composed /\ newest' = IF newest > holds[t] THEN newest ELSE holds[t]
      /\ waiting \in [state : Nat, audio : BOOLEAN] /\ newest \in Nat
  BY DEF OutputInv, OutputShapes, Output!HandOver, Output!Larger
<1>2. holds' \in [Output!Senders -> Nat] /\ newest' \in Nat
  BY <1>1 DEF OutputInv, OutputShapes, Output!HandOver
<1>3. slips' = {} => /\ slips = {} /\ newest' = holds[t]
                     /\ Output!Busy \/ waiting.state = 0
  BY <1>1 DEF Output!HandOver, Output!Passes
<1>4. CASE Output!Busy
  <2>1. /\ waiting' = [waiting EXCEPT !.state = holds[t]] /\ flying' = flying
    BY <1>4 DEF Output!HandOver
  <2>2. OutputShapes' /\ DownIsEmpty'
    BY <1>1, <1>2, <2>1 DEF OutputInv, OutputShapes, DownIsEmpty
  <2>3. NewestIsLast'
    BY <1>1, <1>3, <2>1 DEF NewestIsLast, Output!NewestIsLast
  <2>4. QED
    BY <2>2, <2>3 DEF OutputInv
<1>5. CASE ~Output!Busy
  <2>1. flying' = Output!State(holds[t]) /\ waiting' = waiting
    BY <1>5 DEF Output!HandOver
  <2>2. OutputShapes' /\ DownIsEmpty'
    BY <1>1, <1>2, <2>1 DEF OutputInv, OutputShapes, DownIsEmpty
  <2>3. NewestIsLast'
    BY <1>1, <1>3, <1>5, <2>1, Kinds DEF NewestIsLast, Output!NewestIsLast
  <2>4. QED
    BY <2>2, <2>3 DEF OutputInv
<1>6. QED
  BY <1>4, <1>5

(* Reports that do not wait go only where nothing is in line, or slip in.   *)
LEMMA OthersKeep ==
  ASSUME OutputInv, Output!SendAudio \/ Output!SendMic \/ Output!Prime
  PROVE  OutputInv'
<1>1. /\ up' = up /\ shown' = shown /\ composed' = composed /\ newest' = newest /\ holds' = holds
      /\ waiting' \in [state : Nat, audio : BOOLEAN] /\ waiting'.state = waiting.state
  BY DEF Output!SendAudio, Output!SendMic, Output!Prime, Output!Pass, OutputInv, OutputShapes
<1>2. slips' = {} => slips = {}
  BY DEF Output!SendAudio, Output!SendMic, Output!Prime, Output!Pass
<1>3. flying' # flying => ~Output!Busy /\ flying' \in {Output!Audio, Output!Primer} /\ up
  <2>1. CASE Output!SendAudio \/ Output!SendMic
    BY <2>1 DEF Output!SendAudio, Output!SendMic
  <2>2. CASE Output!Prime
    BY <2>2 DEF Output!Prime, Output!MayPrime
  <2>3. QED
    BY <2>1, <2>2
<1>4. OutputShapes' /\ DownIsEmpty'
  BY <1>1, <1>3 DEF OutputInv, OutputShapes, DownIsEmpty
<1>5. NewestIsLast'
  BY <1>1, <1>2, <1>3, Kinds DEF OutputInv, NewestIsLast, Output!NewestIsLast, Output!Busy
<1>6. QED
  BY <1>4, <1>5 DEF OutputInv

LEMMA TryKeeps ==
  ASSUME OutputInv, Output!TrySend,
         UNCHANGED <<up, composed, holds, newest, shown, slips>>
  PROVE  OutputInv'
<1>1. waiting \in [state : Nat, audio : BOOLEAN] /\ waiting.state \in Nat
  BY DEF OutputInv, OutputShapes
<1>2. CASE flying' = flying /\ waiting' = waiting
  BY <1>2 DEF OutputInv, OutputShapes, DownIsEmpty, NewestIsLast, Output!NewestIsLast
<1>3. CASE /\ up /\ ~Output!Busy /\ flying' = Output!Audio
           /\ waiting' = [waiting EXCEPT !.audio = FALSE]
  <2>1. OutputShapes' /\ DownIsEmpty'
    BY <1>1, <1>3 DEF OutputInv, OutputShapes, DownIsEmpty
  <2>2. NewestIsLast'
    BY <1>1, <1>3, Kinds DEF OutputInv, NewestIsLast, Output!NewestIsLast, Output!Busy
  <2>3. QED
    BY <2>1, <2>2 DEF OutputInv
<1>4. CASE /\ up /\ waiting.state # 0 /\ flying' = Output!State(waiting.state)
           /\ waiting' = [waiting EXCEPT !.state = 0]
  <2>1. OutputShapes' /\ DownIsEmpty'
    BY <1>1, <1>4 DEF OutputInv, OutputShapes, DownIsEmpty
  <2>2. NewestIsLast'
    BY <1>1, <1>4, Kinds DEF OutputInv, NewestIsLast, Output!NewestIsLast
  <2>3. QED
    BY <2>1, <2>2 DEF OutputInv
<1>5. QED
  BY <1>1, <1>2, <1>3, <1>4, Kinds DEF Output!TrySend, Output!NextReport, Output!SomethingWaits

LEMMA ConfirmKeeps ==
  ASSUME OutputInv, Output!Confirm
  PROVE  OutputInv'
<1>1. /\ up' = up /\ composed' = composed /\ newest' = newest /\ holds' = holds
      /\ waiting' = waiting /\ flying' = Output!None /\ up
  BY DEF Output!Confirm, Output!Stack
<1>2. flying.kind = "state" => flying.state \in Nat
  BY Kinds DEF OutputInv, OutputShapes
<1>3. /\ shown' = shown \/ (flying.kind = "state" /\ shown' = flying.state)
      /\ slips' = {} => slips = {} /\ (flying.kind = "state" => shown' = flying.state)
  BY DEF Output!Confirm
<1>4. OutputShapes' /\ DownIsEmpty'
  BY <1>1, <1>2, <1>3 DEF OutputInv, OutputShapes, DownIsEmpty
<1>5. NewestIsLast'
  BY <1>1, <1>3, Kinds DEF OutputInv, NewestIsLast, Output!NewestIsLast
<1>6. QED
  BY <1>4, <1>5 DEF OutputInv

LEMMA RestKeeps ==
  ASSUME OutputInv,
         \/ \E t \in Output!Senders : Output!Compose(t) \/ Output!Refuse(t)
         \/ Output!LinkDown \/ Output!LinkUp \/ Output!EndSending \/ Output!Neutral
  PROVE  OutputInv'
<1>1. CASE \/ \E t \in Output!Senders : Output!Compose(t) \/ Output!Refuse(t)
           \/ Output!EndSending \/ Output!Neutral
  <2>1. /\ up' = up /\ waiting' = waiting /\ flying' = flying /\ newest' = newest
        /\ shown' = shown /\ slips' = slips
    BY <1>1 DEF Output!Compose, Output!Refuse, Output!EndSending, Output!Neutral, Output!Pass
  <2>2. composed' \in Nat /\ holds' \in [Output!Senders -> Nat]
    BY <1>1 DEF Output!Compose, Output!Refuse, Output!EndSending, Output!Neutral, Output!Pass,
                OutputInv, OutputShapes
  <2>3. QED
    BY <2>1, <2>2 DEF OutputInv, OutputShapes, DownIsEmpty, NewestIsLast, Output!NewestIsLast
<1>2. CASE Output!LinkDown
  BY <1>2 DEF Output!LinkDown, OutputInv, OutputShapes, DownIsEmpty, NewestIsLast,
              Output!NewestIsLast
<1>3. CASE Output!LinkUp
  <2>1. /\ flying = Output!None /\ waiting.state = 0 /\ newest' = 0 /\ shown' = 0
        /\ flying' = flying /\ waiting' = waiting /\ up' = TRUE
        /\ composed' = composed /\ holds' = holds
    BY <1>3 DEF Output!LinkUp, OutputInv, DownIsEmpty
  <2>2. OutputShapes' /\ DownIsEmpty'
    BY <2>1 DEF OutputInv, OutputShapes, DownIsEmpty
  <2>3. NewestIsLast'
    BY <2>1, Kinds DEF NewestIsLast, Output!NewestIsLast
  <2>4. QED
    BY <2>2, <2>3 DEF OutputInv
<1>4. QED
  BY <1>1, <1>2, <1>3

LEMMA OutputKept == OutputInv /\ Output!Next => OutputInv'
<1> SUFFICES ASSUME OutputInv, Output!Next PROVE OutputInv'
  OBVIOUS
<1>1. CASE Output!SendWaiting \/ Output!Try
  BY <1>1, TryKeeps DEF Output!SendWaiting, Output!Try, Output!Stack, Output!Pass
<1>2. QED
  BY <1>1, HandOverKeeps, OthersKeep, ConfirmKeeps, RestKeeps DEF Output!Next, Output!Loop

-----------------------------------------------------------------------------
(* The features.                                                            *)

FeatureInv == index \in 1 .. 3 /\ PassedOverIsSettled

(* What counts when the list moves on: the feature it leaves behind.        *)
LEMMA SettledKeeps ==
  ASSUME FeatureInv, gives' = gives, cache \subseteq cache', givenUp \subseteq givenUp',
         mistaken \subseteq mistaken', index' \in {index, index + 1}, index' \in 1 .. 3,
         index' = index + 1 /\ "misread" \notin mistaken' =>
           Feature!Prefetch[index] \in cache' \cup givenUp' \cup (Feature!Features \ gives)
  PROVE  FeatureInv'
<1>1. SUFFICES ASSUME "misread" \notin mistaken', NEW i \in 1 .. index' - 1
               PROVE  Feature!Prefetch[i] \in cache' \cup givenUp' \cup (Feature!Features \ gives')
  BY DEF FeatureInv, PassedOverIsSettled, Feature!PassedOverIsSettled
<1>2. CASE i \in 1 .. index - 1
  BY <1>1, <1>2 DEF FeatureInv, PassedOverIsSettled, Feature!PassedOverIsSettled
<1>3. CASE i \notin 1 .. index - 1
  <2>1. i = index /\ index' = index + 1
    <3>1. index \in 1 .. 3 /\ (index' = index \/ index' = index + 1)
      BY DEF FeatureInv
    <3>2. index' # index
      BY <1>3
    <3>3. index' = index + 1
      BY <3>1, <3>2
    <3>4. i \in 1 .. (index + 1) - 1
      BY <3>3
    <3>5. i = index
      BY <1>3, <3>1, <3>4
    <3>6. QED
      BY <3>3, <3>5
  <2>2. Feature!Prefetch[index] \in cache' \cup givenUp' \cup (Feature!Features \ gives)
    BY <1>1, <2>1
  <2>3. QED
    BY <2>1, <2>2
<1>4. QED
  BY <1>2, <1>3

LEMMA List == Len(Feature!Prefetch) = 2 /\ DOMAIN Feature!Prefetch = 1 .. 2
              /\ Feature!Prefetch[1] \in Feature!Features /\ Feature!Prefetch[2] \in Feature!Features
BY DEF Feature!Prefetch, Feature!Features

LEMMA RecoverKeeps ==
  ASSUME FeatureInv, Feature!Recover, gives' = gives, cache' = cache, mistaken' = mistaken
  PROVE  FeatureInv'
<1>1. givenUp \subseteq givenUp'
  BY DEF Feature!Recover
<1>2. CASE index' = index
  <2>1. index' # index + 1
    BY <1>2 DEF FeatureInv
  <2>2. QED
    BY <1>1, <1>2, <2>1, SettledKeeps DEF FeatureInv
<1>3. CASE index' # index
  <2>1. /\ ~(request.retries < MaxRetries) /\ Feature!Prefetching(request.id)
        /\ index' = index + 1
    BY <1>3 DEF Feature!Recover
  <2>2. /\ index \in 1 .. 2 /\ request.id = Feature!Prefetch[index]
        /\ request.id \in {Feature!Prefetch[i] : i \in DOMAIN Feature!Prefetch}
    BY <2>1, List DEF Feature!Prefetching, FeatureInv
  <2>3. Feature!Prefetch[index] \in givenUp'
    BY <2>1, <2>2 DEF Feature!Recover
  <2>4. QED
    BY <1>1, <2>1, <2>2, <2>3, SettledKeeps
<1>4. QED
  BY <1>2, <1>3

LEMMA AnswerKeeps ==
  ASSUME FeatureInv, Feature!Answer
  PROVE  FeatureInv'
<1> DEFINE id == Head(asked).id
           refused == id \notin gives
           next == Feature!Answers(id, refused) /\ Feature!Prefetching(request.id)
<1>1. /\ gives' = gives /\ givenUp' = givenUp /\ cache' = IF refused THEN cache ELSE cache \cup {id}
      /\ index' = IF next THEN index + 1 ELSE index
      /\ mistaken \subseteq mistaken'
      /\ refused /\ Feature!Answers(id, refused) /\ id # request.id => "misread" \in mistaken'
  BY DEF Feature!Answer
<1>2. ~refused /\ Feature!Answers(id, refused) => id = request.id
  BY DEF Feature!Answers
<1> HIDE DEF id, refused
<1>3. next => index \in 1 .. 2 /\ request.id = Feature!Prefetch[index] /\ request.id \in Feature!Features
  BY List DEF Feature!Prefetching, FeatureInv
<1>4. next /\ "misread" \notin mistaken' => request.id = id
  BY <1>1, <1>2
<1>5. next /\ "misread" \notin mistaken' =>
        Feature!Prefetch[index] \in cache' \cup (Feature!Features \ gives)
  BY <1>1, <1>3, <1>4 DEF refused
<1> HIDE DEF next
<1>6. index' \in 1 .. 3 /\ index' \in {index, index + 1}
  BY <1>1, <1>3 DEF FeatureInv
<1>7. index' = index + 1 => next
  BY <1>1 DEF FeatureInv
<1>8. QED
  BY <1>1, <1>5, <1>6, <1>7, SettledKeeps

LEMMA AnswerToSetKeeps ==
  ASSUME FeatureInv, Feature!AnswerToSet
  PROVE  FeatureInv'
<1>1. /\ gives' = gives /\ cache' = cache /\ givenUp' = givenUp
      /\ \/ index' = index /\ mistaken' = mistaken
         \/ /\ mistaken' = mistaken \cup {"misread"}
            /\ index' = IF Feature!Prefetching(request.id) THEN index + 1 ELSE index
  BY DEF Feature!AnswerToSet, Feature!Stack
<1>2. index' \in {index, index + 1} /\ index' \in 1 .. 3
  BY <1>1, List DEF FeatureInv, Feature!Prefetching
<1>3. index' = index + 1 => "misread" \in mistaken'
  BY <1>1 DEF FeatureInv
<1>4. QED
  BY <1>1, <1>2, <1>3, SettledKeeps

LEMMA FeatureKept == FeatureInv /\ Feature!Next => FeatureInv'
<1> SUFFICES ASSUME FeatureInv, Feature!Next PROVE FeatureInv'
  OBVIOUS
<1>1. CASE /\ gives' = gives /\ cache' = cache /\ givenUp' = givenUp /\ index' = index
           /\ mistaken \subseteq mistaken'
  <2>1. index' # index + 1
    BY <1>1 DEF FeatureInv
  <2>2. QED
    BY <1>1, <2>1, SettledKeeps DEF FeatureInv
<1>2. CASE Feature!PollTimeout
  BY <1>2, RecoverKeeps DEF Feature!PollTimeout, Feature!Loop
<1>3. CASE Feature!ConfirmFailure
  <2>1. gives' = gives /\ cache' = cache /\ mistaken' = mistaken
    BY <1>3 DEF Feature!ConfirmFailure, Feature!Stack
  <2>2. Feature!Recover \/ (index' = index /\ givenUp' = givenUp)
    BY <1>3 DEF Feature!ConfirmFailure
  <2>3. QED
    BY <1>1, <2>1, <2>2, RecoverKeeps
<1>4. CASE \/ \E id \in Feature!Features : Feature!HostGets(id)
           \/ Feature!HostSets \/ Feature!Section \/ Feature!Confirm \/ Feature!NoAnswer
           \/ Feature!BuildRequest
  BY <1>1, <1>4 DEF Feature!HostGets, Feature!HostSets, Feature!Section, Feature!Schedule,
                    Feature!ArmRequest, Feature!Confirm, Feature!NoAnswer, Feature!BuildRequest,
                    Feature!Loop, Feature!Stack
<1>5. CASE Feature!PollUnlock
  BY <1>1, <1>5 DEF Feature!PollUnlock, Feature!UnlockFirmware, Feature!UnlockCommand,
                    Feature!UnlockWait, Feature!UnlockFetch, Feature!Unlock, Feature!Loop
<1>6. QED
  BY <1>2, <1>3, <1>4, <1>5, AnswerKeeps, AnswerToSetKeeps DEF Feature!Next

-----------------------------------------------------------------------------
(* The parts run side by side.                                              *)

LEMMA PartsKept == OutputInv /\ FeatureInv /\ [Ds5Next]_ds5Vars => OutputInv' /\ FeatureInv'
<1> SUFFICES ASSUME OutputInv, FeatureInv, [Ds5Next]_ds5Vars PROVE OutputInv' /\ FeatureInv'
  OBVIOUS
<1>1. ASSUME UNCHANGED outputVars PROVE OutputInv'
  BY <1>1 DEF outputVars, OutputInv, OutputShapes, DownIsEmpty, NewestIsLast, Output!NewestIsLast
<1>2. ASSUME UNCHANGED featureVars PROVE FeatureInv'
  BY <1>2 DEF featureVars, FeatureInv, PassedOverIsSettled, Feature!PassedOverIsSettled
<1>3. QED
  BY <1>1, <1>2, OutputKept, FeatureKept
     DEF Ds5Next, LinkNext, OutputNext, FeatureNext, ds5Vars

LEMMA PartsStart == Ds5Init => OutputInv /\ FeatureInv
<1>1. Feature!Init => FeatureInv
  BY DEF Feature!Init, FeatureInv, PassedOverIsSettled, Feature!PassedOverIsSettled
<1>2. QED
  BY <1>1, OutputStarts DEF Ds5Init

(* On any link the newest output state is the last in line, however many    *)
(* states and reports there are (ds5_classic_send_raw_output_report,        *)
(* ds5_classic_try_send_pending_output), unless one of the three slips      *)
(* happened.                                                                *)
THEOREM NewestStaysLast == Ds5Spec => []NewestIsLast
<1>1. OutputInv => NewestIsLast
  BY DEF OutputInv
<1>2. QED
  BY <1>1, PartsStart, PartsKept, PTL DEF Ds5Spec

(* The fetching leaves no feature behind that the controller could still    *)
(* give, however late, lost or mistaken the answers                         *)
(* (ds5_classic_handle_control, ds5_classic_recover_feature_request_locked),*)
(* unless a refusal was taken for that of another feature.                  *)
THEOREM PassedOverStaysSettled == Ds5Spec => []PassedOverIsSettled
<1>1. FeatureInv => PassedOverIsSettled
  BY DEF FeatureInv
<1>2. QED
  BY <1>1, PartsStart, PartsKept, PTL DEF Ds5Spec

=============================================================================
