# Verification of the SF32LB52 controller bridge

The firmware in this repository connects wireless game controllers (a DualSense over
Bluetooth Classic, an NS2 Pro over BLE) to a USB host, as one of four USB devices
("personas": Xbox 360, DualSense, DualSense Edge, NS2 Pro). This directory holds TLA+
modules of its logic, TLC configurations that check them on small instances, and proofs
for TLAPS of the properties that matter most. Paths below are relative to the repository.

## 1. The system

| Component | Source | State it keeps | Operations | Correct when |
|---|---|---|---|---|
| Bridge runtime | `src/sf32lb52_bridge_runtime.c` | configuration, dirty flag and its age, last save result, active input, held input state | set/cycle/sync role, preference, auto-connect, remember/forget/accept/release input, save, reset, poll, make report | runtime, wire and flash do not drift apart; the status is honest; one allowed controller at a time drives the output |
| Settings | `src/sf32lb52_bridge_settings.c` | one NVDS record | load, save, reset | a save takes effect or leaves the old record |
| USB device | `usb/sf32lb52_usb_device.c` | persona, pending persona, registration, endpoint flags, rings, audio | request role, role task, rollback, reconnect, reports, audio and microphone | the host sees one consistent persona; no endpoint stays busy; audio and microphone follow the host |
| CherryUSB port | `usb/cherryusb_sifli/usb_dc_musb.c` | transfers of each endpoint, registers of the controller | start a read or write, interrupt, bus reset | a transfer ends, with what it was started with |
| Main loop | `src/sf32lb52_app.c` | mailboxes, control ring, pending pairing action, previous link states | one iteration every millisecond | an action is served; one transport is kept off when asked; settings follow the controllers |
| DualSense link | `src/ds5_classic_sifli.c` | link state, HIDP channels, saved address, output and feature requests | pair, connect, disconnect, forget, poll, reports, Bluetooth events | an attempt ends; a link belongs to one address; the last output state arrives; features are fetched |
| NS2 link | `src/ble_gatt_sifli.c`, `protocol/sf32lb52_ns2_gatt.c` | scan, connection, discovery, pending GATT operation, ring of events | scan, connect, disconnect, poll, BLE events | an attempt ends; ready means set up; a loss is seen |
| NS2 profile and manager | `src/ns2_profile.c` | snapshot of the last NS2 report, rumble, tuning, reply buffers | parse input, build native report, manager commands | a reply belongs to its command and is whole |
| Mapping and its store | `protocol/sf32lb52_bridge_mapping.c`, `src/sf32lb52_bridge_mapping_store.c` | two mapping profiles, two NVDS records (old and new format) | edit, save, reset, load with migration | an old record is not resurrected |
| Codecs | `protocol/*.c` | none | parse and encode | host tests |
| Audio haptics | `protocol/sf32lb52_audio_haptics.c` | filter state | process a block | numerical |
| Platform | `src/platform_sifli.c` | clock | | outside the bridge's logic |

Contexts. The main thread runs the loop. Bluetooth callbacks run in the host stack's
threads, USB callbacks in interrupts, shell commands in the shell thread, audio in a
worker thread. Between them are four mechanisms:

* one-slot *mailboxes* guarded by a sequence number (NS2 input, DualSense input, audio
  haptics; the runtime guards its input state and mapping the same way);
* *rings* with one slot spare (USB output, feature reports, control commands, vendor
  replies, BLE events);
* *critical sections*: the scheduler locked in the DualSense driver, interrupts disabled in
  the USB device. The first does not keep interrupts out, and each covers less than an
  operation;
* shared status structures that the loop copies.

One iteration of the loop: haptics; polls of profile and links; the USB task (feature
requests, which include manager commands, then the role task); control commands; wireless
input; USB output; the runtime's poll (stale flag, deferred save); key-missing handling;
comparison of the runtime's role with the persona on the wire; the pending pairing
action; remembering and releasing links; auto-connect; one report; one millisecond of
sleep.

What is hard here: a role change is requested at once, stored at once, and visible to the
host half a second later, with a failure possible at each step and a reset between any
two; settings are saved before they are committed by some operations and lazily by
others; two controllers may send at once while preferences, links and roles change;
both stacks answer late, and their answers do not say what they answer; interrupts fall
anywhere into the loop and share a register with it; stamps are compared as unsigned
numbers. The complete list, line by line, is under "hazards" in `PROJECT.json`.

## 2. Modules

| Module | Models | Abstracts |
|---|---|---|
| `BridgeRoles` | personas, sources, `preference_accepts`, order of `cycle_role` | |
| `BridgeSettings` | the NVDS record: load, save, delete, each of which may fail | encoding, CRC, generation |
| `UsbPersona` | `request_role`, `usb_apply_pending_role`, `force_reconnect`, the grace period, as functions of a record `usb` | descriptors, endpoints |
| `BridgeRuntime` | the runtime's operations on settings and role in the loop: phases `task`, `commands`, `sync`, `links`, then sleep; extends the three above | reports, mappings, counters |
| `PersonaSwitch` | abstract specification: what a persona change promises, on three registers (intended, wire, stored) | everything else |
| `BridgeRuntimeProps` | the properties of `BridgeRuntime`, and the refinement mapping to `PersonaSwitch` | |
| `InputArbiter` | mailboxes (one sample each), `accept_input`, `release_input`, stale flag, the three ways a report is made | report contents except source and age |
| `InputControl` | what the loop does about the two links: commands, pending action, exclusion, remembering, forgetting, missing key, connecting by itself | the inside of the links |
| `SampleMailbox` | a mailbox step by step: one writer, one reader, two words | the payload |
| `BoundedFifo` | abstract specification: what a ring promises | |
| `RequestRing` | a ring step by step: one producer, one consumer | the payload |
| `UsbTransfers` | input reports and vendor replies of the Nintendo persona, with the port and its registers below | endpoint 0, packet contents |
| `AudioWorker` | audio blocks and the microphone's state, between interrupt, worker and loop | samples, volume |
| `ManagerReply` | commands and chunked replies over feature reports, between interrupt and loop, with the client | commands' effects |
| `Ds5Link` | the life of the DualSense link: API, poll, event handler; stack and controllers external | identifiers of channels, error codes, reports |
| `Ds5Output` | output, audio, primer and microphone reports of that link, two senders and the confirmations | contents |
| `Ds5Feature` | feature reports: requests, time-outs, retries, replies, cache, unlocking of an Edge | features stand for kinds |
| `NsLink` | the BLE link: scan, connection, discovery, set-up commands, subscriptions, recovery; stack and controllers external | MTU, handles' values, input reports |
| `MC*` | instances for TLC | |
| `*_proofs` | theorems | |

How state corresponds.

* `BridgeRuntime`: `config`, `dirty`, `persistOk` and `active` are `g_runtime.config`,
  `status.settings_dirty`, `status.last_persist_ok` and `status.active_input`; `usb` is the
  role part of the USB device's `usb` structure; `flash` is the NVDS record. An action is
  one whole operation of the runtime including the USB and flash calls it makes:
  `ChangeRole` is `sf32lb52_bridge_runtime_set_role` with its request, save and undo.
  Results of the environment (a save, a registration, a read at boot) are parameters chosen
  by `\E`. Times are ages with an upper bound, so that a 32-bit clock needs no model; the
  one place where the 32-bit difference itself matters (a stamp that is older than the one
  it is compared with) is modelled by what it yields, `SinceLast` in `InputArbiter`.
  All operations of the runtime are taken to run in the loop: so they do for manager
  commands sent over USB and for commands that go through the control ring.
* `InputControl`: `loop` holds the static variables of `sf32lb52_app.c`; `seen` is
  the local copies `ds5_status` and of the times, taken in one step of the pass and used in
  a later one, while the DualSense's events go on in between. `ds5` and `ns2` are what the
  loop can see of the links, and what their calls promise; `bonds` are the controllers the
  Bluetooth stack has a link key of, of which a forget deletes one.
* `InputArbiter`: `link` is what the loop knows of the connections. The if/else-if chain that
  remembers and releases (`src/sf32lb52_app.c:1443`) may pass over the release of a lost
  DualSense while it saves a new address, and never makes up for it (`ObserveLinks`).
* `Ds5Link`: `app` is `g_ds5` with its status, `cid` the two channel identifiers, `pending`
  and `requested` the four `*_connect_pending/requested` flags, `todo` the flags the poll
  works off one at a time. `pairing` stands for `status.pairing` and `acl_pairing_flow`,
  which are set and cleared together. `channel`, `bond`, `inquiry` and `security` are what
  the Bluetooth stack knows; `events` is what it has said and the handler has not yet seen.
* `Ds5Output`: `waiting` is the two pending slots, `flying` is `output_busy` with what
  `output_packet` holds, `holds` what a sender has composed and not yet handed over: the
  code does these in two critical sections. `Ds5Feature`: `request` and `control` are the
  feature request and `control_busy`; `section` is a critical section that the USB interrupt
  may fall into, since locking the scheduler does not keep it out.
* `NsLink`: `app` is `g_status` with the static variables, `queue` is `g_control_events`,
  `phase` the phases of `ble_gatt_poll`; `link` and `radio` belong to the stack.
* `UsbTransfers`: `chip` holds the registers (TXRDY, TXIE, TXIS, RXIE) and `g_musb_udc`. This
  build gives TXRDY and FIFO of each endpoint an address of their own
  (`usb/cherryusb_sifli/usb_dc_musb.c:126`), so that EPIDX, which the port saves and restores,
  selects nothing here and is left out; `dev` the flags of `sf32lb52_usb_device.c`, `caller` the loop inside
  `sf32lb52_usb_send_input_report`, stopped before each register access. `AudioWorker`: `mic`
  and `passed` are the `audio_mic_*` and `audio_*_ready/claimed` flags, `worker` and `loop`
  the two threads with their locals. `ManagerReply`: `buffers` and `current` are
  `g_feature_replies` and `g_feature_reply_index`, `awaited` is `manager_reply_pending`.

### What is assumed of the surroundings

* Bluetooth Classic stack: one channel per device and PSM, named in each event about it; a
  request to close a channel that is not open has no effect and no answer; the loss of a
  baseband link is reported after that of its channels; crossing requests for one channel
  are one channel, or the later is refused; a sent report is confirmed before its answer.
* BLE stack: it answers what it accepted, late and in any order, and a disconnect is
  reported once; two writes may be under way.
* USB controller: a bus reset empties its FIFOs; an interrupt that the mask holds back stays
  raised. The host configures the device once after a reset.
* Manager client: it polls at once and judges by the last chunk, as
  `tools/webhid_smoke.html` does.

### History variables: what the code confuses

The code takes some events for what they are not. Such confusions are hazards; a history
variable records each, the properties say which of them they hold without, and TLC explores
what follows all the same.

| Module | Variable | Recorded |
|---|---|---|
| `Ds5Link` | `mixups` | `connect_saved` answered after a link began or was given up (`lateRead`); pairing over a link a controller opened (`pairOverLink`); the loss of another device's baseband link (`foreignLoss`); a call, after an explicit stop, of the device whose pairing failed and which is active since (`leftOver`) |
| `Ds5Output` | `slips` | a state handed over after a later one (`late`), sent at once while another waits (`passed`), failed |
| `Ds5Feature` | `mistaken` | the interrupt takes the request in the middle of a section (`stolen`); a refusal taken for another feature's (`misread`); an answer that begins the unlocking anew (`belated`) |
| `NsLink` | `mishaps` | an event dropped by the full ring (`dropped`), the loss of another link among them (`purged`); the response of another write taken for that of the subscription (`borrowed`); a scan nobody knows of, after a stale `SCAN_STOPPED` or a `CONNECT_NS2` over a link (`strayScan`) |
| `InputControl` | `mixups` | another controller heard after the connected one (`overheard`), a save that failed (`unsaved`), pairing over a link a controller opened meanwhile (`pairOverLink`) |
| `UsbTransfers` | `clobbered` | endpoints whose bit the loop's late write removed from the interrupt mask |
| `AudioWorker` | `mishaps` | a microphone state sent after a later one (`overtaken`); the loop writes back a state the host has changed (`reverted`) |
| `ManagerReply` | `mixed` | a command dropped, a chunk of an earlier reply taken (`stale`), the exchange closed by an earlier reply (`closed`) |

Operators named after another one with a fault added, such as `RequestRoleReturnsEarly`, are
mutated forms. They are not part of any specification: putting one in place of the
original shows which property notices.

### How parts are put together

`BridgeRuntime` composes settings, USB persona and loop in one state. `InputControl` composes
the loop with both links, at the level of what they promise. Parts that share no state
are checked side by side in one run: `MCExchanges`, `MCDs5` and `MCWireless` are *sums*. A
variable `part` is chosen at the start and never changes; a behaviour is one of that part,
while the others stay where they began. So states add instead of multiplying, and every
property is checked on the full behaviour of its part. Fairness is stated part by part.

## 3. What is checked

| Run | Properties | What it shows |
|---|---|---|
| `bridge` | `TypeOK`, `RoleAgreement`, `DurableWhenClean`, `ActiveInputAllowed`, `PersonaSwitching`, `SwitchSettles`, `TargetLostOnlyByForget`, `DirtyIsSaved` | runtime and wire agree on the role up to the switch that is pending, and implement `PersonaSwitch`; a clean status means the flash holds the configuration; the preference is obeyed; a paired controller is lost only by a forget, a reset of the settings, a boot that cannot read NVDS or one before its save; left alone, the switch settles and dirty settings are saved |
| `commit` (violated) | `SwitchedBeforeCommit` | a comment's claim about the order of a role change does not hold |
| `reports` | `ReportsAreFresh`, `OrderedTakeoverNeedsSilence` | no report shows stale or rejected input; only an out-of-order stamp displaces a controller early |
| `skew` (violated) | `TakeoverNeedsSilence` | the out-of-order stamp does displace a controller in use |
| `input_control` | `LostKeyIsForgotten`, `PendingIsServed`, `ExcludedTransportStops`, `RemembersTheConnected` | every command against two links that open, fail and are lost: waiting actions are served, the excluded transport stops, the settings follow the controllers and keep no address whose key was lost |
| `forget` (violated) | `ForgottenStaysForgotten` | a controller forgotten while connected is remembered again one pass later |
| `exchanges` | per part: `NoTornSample`, `SamplesInOrder`, `NewestIsDelivered` (mailbox); `IsBoundedFifo` (ring); `VendorRepliesInOrder`, `TransfersEnd` (USB); `BlocksAreWhole`, `EndedStreamIsSilent`, `MicFollowsHost` (audio); `AnswersAreWhole`, `CommandIsAnswered` (manager) | what passes between the loop, threads and interrupts arrives whole, in order, and in the end |
| `ds5_link` | `LinkIsWhole`, `ChannelsAgree`, `StopHoldsUnlessLate` | two controllers: a link is up exactly with both channels of one device; with all events seen, code and stack agree on the channels; a stop asks for no channel |
| `ds5` | `LossIsRepaired` (link); `NewestIsLast`, `LastStateIsShown` (output); `PassedOverIsSettled`, `FetchingEnds` (features) | a loss leads to a link again; the newest output state is the last in line, and the last one reaches the controller; a feature passed over is settled, and fetching ends |
| `ds5_enable` (violated) | `EnablingResumes` | enabling reconnection during a disconnect is forgotten |
| `ns_link` | `ReadyIsEarned`, `LossIsSeen`, `SomethingIsDue`, `OnlyWantedConnections` | a ready link has every set-up command acknowledged and both subscriptions; a loss is seen in spite of a full ring; no link waits for nothing |
| `wireless` | `SearchesAndSettles` (NS2 link); `GoneIsNeutral`, `SenderTakesOver` (arbiter) | a wanted link is searched for, and ends up ready or given up; a lost controller stops being shown; a sending one takes over from a silent one |

The type invariant is listed in a run for `BridgeRuntime` (`TypeOK`). Those of the parts of
`exchanges` (`PartsTypeOK`), of `InputControl`, `Ds5Link` and `NsLink` are proved (section 4);
they and those of `InputArbiter`, `Ds5Output` and `Ds5Feature` hold in the runs of these
modules as well, when added to them.

### Findings

* `SwitchedBeforeCommit`: the comment in `bridge_usb_output` (`src/sf32lb52_app.c:395`)
  says USB is switched before flash persistence and the runtime's commit. The code
  requests, saves and commits at once and switches 500 ms later: every command has the role
  saved (`persist`), and the run allows no other (`PersistRequests <- Saved`). Between the two, output
  of the persona on the wire is tagged with that persona, differs from the runtime's role
  and is dropped by `bridge_process_usb_output`.
* `TakeoverNeedsSilence`: the host test fixes that a second controller is refused until
  the first is silent for longer than 1500 ms. The loop reads the two mailboxes one after
  the other. An NS2 sample stamped after the first read, and before a DualSense sample
  that the second read takes, is applied one iteration later with a stamp smaller than
  `last_input_ms`; the unsigned difference is almost 2^32 and passes as a silence.
  `OrderedTakeoverNeedsSilence` shows that nothing else breaks the rule.
* `EnablingResumes`: the header (`src/include/ds5_classic.h:137`) says that a disconnect
  suppresses reconnection until the application enables it again. An application that
  enables it before the events of the disconnect were handled gets no attempt: the call
  schedules one only when the link is idle, and the expected end of the link schedules none.
* `ForgottenStaysForgotten`: `FORGET_DS5` while connected clears the target and asks for a
  disconnect; in the same pass the link is still up, and the loop remembers its address
  again, a controller whose link key the forget has just deleted
  (`src/ds5_classic_sifli.c:1652`). `FORGET_NS2` and `PAIR_NS2` over a link are undone alike
  (`src/sf32lb52_app.c:1463`).

Other behaviour of the code that the properties had to be stated around, with no text in the
repository that says otherwise: a DualSense disconnect asked for before the first channel
request has reached the stack never ends (`src/ds5_classic_sifli.c:1615`), and an action
for the other transport waits for it (`Stranded` in `InputControl`); `PAIR_DS5` and
`CONNECT_DS5` wait as long as a DualSense is linked, and a `PAIR_DS5` search that finds
nothing begins anew for ever; a controller with the first Edge profile that refuses another
is asked for it for ever. A disconnect that finds the ring of BLE events full (15 wait)
empties it, although the comment (`src/ble_gatt_sifli.c:175`) speaks of the operations of
its own link: with two links up, a cancelled connection that was made after all and the next
one, it can discard the news that the other was lost; `LossIsSeen` excepts that. A controller that
is lost and back before the loop has drained the ring has what it answered before taken for
answers of the new link, until the loss is handled (`src/ble_gatt_sifli.c:1128`); `ReadyIsEarned`
speaks of the states without. A failed pairing leaves its device the active one, whose call is
let in even after an explicit stop (`src/ds5_classic_sifli.c:1014`). A pairing that begins over
a link another controller opened meanwhile makes its device the active one, and the loop
remembers it whether or not the pairing succeeds (`pairOverLink`).

A branch the code cannot reach: `set_role` keeps the new role when a failed save cannot be
undone (`src/sf32lb52_bridge_runtime.c:270`). Undoing asks USB for the persona it accepted a
call before, which nothing in between can make it refuse. `ChangeRole` translates the branch,
and no property depends on it.

### Bounds, and why they are enough

* `bridge`: time is counted in units of the grace period, `Grace = 1`, `Defer = 2` (four in
  the code). Ages saturate, so what matters is the order of the two deadlines and that an
  iteration can end before, at and after each. Two personas, one input, one address, two
  preferences: `target` and `lastActive` of the two inputs are never read together. Requests
  save at once or later (`PersistRequests`), so that every operation is
  checked as the API offers it; the firmware makes only requests of the first kind. `commit` has every persona, and
  requests as the firmware makes them. The proofs need none of these bounds.
* `InputArbiter` has both controllers. `reports` takes one unit as the stale limit and two
  as the takeover time, so a sample can be fresh, stale, or silent for long enough;
  `skew` and `wireless` use 0 and 1. Ages are kept up to `Cap`, one more than the takeover
  time and the oldest sample together, so that each difference the code compares is on its
  right side. `Preempted` may age no sample that is already older than `MaxSleep`: a bound
  on preemption, not on the number of preemptions.
* `InputControl`: one DualSense, two NS2 (one can be heard instead of the other), all
  commands, `MaxIncidents = 2` commands, refusals, failed saves and losses in any order. A
  time-out has passed or not, each pass anew; all or none of them at once.
* `SampleMailbox`: 6 callbacks, 2 attempts. `RequestRing`: capacity 3, 9 requests, so that
  the indexes wrap more than twice. `UsbTransfers`: 4 commands for a queue of 2, one with
  two packets, one without reply, 3 resets, suspensions or registrations. `AudioWorker`: two
  blocks, so that a second can fall into the copying of the first, 2 requests, 1 failure.
  `ManagerReply`: 3 commands with replies of up to 2 chunks over 2 buffers.
* `Ds5Link`: the stack adds an event only while fewer than `MaxEvents = 2` wait (requests of
  the code and the loss of a device may add more), so that an event can be late by a whole
  exchange. `MaxIncidents = 2` losses, refusals, incoming calls, discoveries and bondings,
  and `MaxCalls = 2` calls of the application, in any order: enough for a stop that meets a
  loss, a stale event of a former link, and two controllers. `ds5` has one device and no
  pairing in its part `link`, because repair is a matter of one link.
* `Ds5Output`: 3 states and one failed report or lost link, so that one can be in flight, one wait and one
  overtake it. `Ds5Feature`: one retry, one answer the controller still owes while the next
  request is made, one request of the host, one trouble.
* `NsLink`: a ring of two events overflows; one retry; the two closest of the fifteen set-up
  commands stand for the sequence (`AcknowledgementsDiffer` evaluates that no two have the
  same acknowledgement). One controller is around and one address that is not; the proofs have
  any number of both.
* Where a bound is used up an idle system stops, so deadlock is not checked in `exchanges`,
  `ds5`, `ds5_link` and `ds5_enable`. In the other runs it is.

### Fairness, and why the code justifies it

* `BridgeRuntime`, `WF(Loop)`: the main thread's iteration contains no blocking call but a
  1 ms sleep. `SF(SaveDue /\ Poll(TRUE))` for `DirtyIsSaved`: a flash that is asked again
  and again succeeds once. Without it nothing could be promised. `SwitchSettles` and
  `DirtyIsSaved` are stated for behaviours that are quiet from some point on: an operator
  who sends a request every 400 ms may postpone the switch for ever.
* `InputArbiter`, `SF(MakeReport)`: reports are made at 1 to 4 ms while the device is
  mounted; a loop that never reaches one has no host.
* `InputControl`: the loop goes round, and again and again with all times passed, said as
  `[]<>` of its phase; a link answers what it was asked. `SF` of the BLE answers: a scan that
  is restarted over and over hears its controller once.
* `SampleMailbox`, `RequestRing`: a callback, and a pass of the loop, run to their end.
* `UsbTransfers`: the loop finishes a report, an unmasked interrupt is served, the host takes
  what is ready. `AudioWorker`: both threads run, the retry time passes, a host resets what it
  finds attached. `ManagerReply`: the loop runs, the client polls.
* `Ds5Link`: `WF` of `EventHandler` and `Poll` (the stack's task and the main loop go on),
  of `Registered`, `ReadsBonds` and `Opens` (the stack answers). `Patient`, in the two runs of
  liveness, lets a reconnect fall due only when the stack has answered what came before:
  the delay of an attempt doubles from one failure to the next, up to 8 s. `Ds5Output`,
  `Ds5Feature`: threads run, the stack confirms; nothing of audio or of the controller's answers.
* `NsLink`: `WF` of poll and stack. `SF(Timers(TRUE, TRUE))`: a pass that comes again and
  again comes after the deadline once.
* Nothing is assumed of commands, losses, resets, failures or preemption.

## 4. What is proved

For every value of the constants that satisfies the named assumptions:

| Theorem | Module | States |
|---|---|---|
| `TypeCorrect` | `BridgeRuntime_proofs` | `Spec => []TypeOK` |
| `RolesAgree` | `BridgeRuntime_proofs` | `Spec => []RoleAgreement` |
| `StatusIsHonest` | `BridgeRuntime_proofs` | `Spec => []DurableWhenClean` |
| `ActiveInputIsAllowed` | `BridgeRuntime_proofs` | `Spec => []ActiveInputAllowed` |
| `UnsavedTargetsAreDirty`, `TargetsLostOnlyByForget` | `BridgeRuntime_proofs` | `Spec => []UnsavedIsDirty`, `Spec => TargetLostOnlyByForget` |
| `RuntimeImplementsPersonaSwitch` | `BridgeRuntime_proofs` | `Spec => PersonaSwitching` |
| `ArbiterCorrect`, `NoStuckButtons`, `TakeoverIsLate` | `InputArbiter_proofs` | arbitration's invariant, `ReportsAreFresh`, `OrderedTakeoverNeedsSilence` |
| `ControlCorrect`, `ControlTypeCorrect`, `LostKeysAreForgotten`, `ConnectedIsRemembered` | `InputControl_proofs` | the loop's invariant, `[]TypeOK`, `[]LostKeyIsForgotten`, `RemembersTheConnected` |
| `MailboxCorrect`, `MailboxTypeCorrect`, `NeverTorn`, `NeverBackwards` | `Exchanges_proofs` | the mailbox invariant, `[]TypeOK`, `[]NoTornSample`, `SamplesInOrder` |
| `ExchangesCorrect`, `PartsTypeCorrect`, `RepliesInOrder`, `SamplesBelongTogether`, `RepliesAreWhole` | `Exchanges_proofs` | of the sum `MCExchanges`: the parts' invariants, `[]PartsTypeOK`, `[]VendorRepliesInOrder`, `[]BlocksAreWhole`, `[]AnswersAreWhole` |
| `RingImplementsQueue` | `Exchanges_proofs` | the ring starts as `BoundedFifo` and every step is one of its steps or a stutter |
| `ClaimCorrect`, `BlocksStayWhole` | `AudioWorker_proofs` | the claim's invariant, `[]BlocksAreWhole` |
| `ReplyCorrect`, `AnswersStayWhole` | `ManagerReply_proofs` | the exchange's invariant, `[]AnswersAreWhole` |
| `LinkTypeCorrect`, `LinkStaysWhole`, `ChannelsAlwaysAgree`, `StopsAreKept` | `Ds5_proofs` | `[]TypeOK`, `[]LinkIsWhole`, `[]ChannelsAgree`, `StopHoldsUnlessLate` |
| `NewestStaysLast`, `PassedOverStaysSettled` | `Ds5_proofs` | of the sum `MCDs5`: `[]NewestIsLast`, `[]PassedOverIsSettled` |
| `NsCorrect`, `NsTypeCorrect`, `ReadyIsAlwaysEarned`, `LossesAreSeen`, `SomethingIsAlwaysDue`, `OnlyWantedAreConnected` | `NsLink_proofs` | the link's invariant, `[]TypeOK`, `[]ReadyIsEarned`, `[]LossIsSeen`, `[]SomethingIsDue`, `OnlyWantedConnections` |

The assumptions are about constants only: bounds are numbers, the value for "none" is no
controller (`NoAddressAssumption`, `NsLinkAssumption`, `ExchangesAssumption` and their like),
and `AcknowledgementsDiffer`, that no two set-up commands have the same acknowledgement, which
the fifteen of the firmware satisfy (`InitCommandsDiffer`, evaluated by the run `ns_link`).

The argument for the runtime. `TypeOK` is inductive. `RoleAgreement` is inductive
together with it, because it already says what makes it so: without a pending switch the
pending persona is the one on the wire, and in every phase from the role task's next
turn on it is the runtime's role. The phases in which it may differ are those between a
switch that failed and the comparison, and no operation in them reads the wire as if it
were the runtime's role. `DurableWhenClean` needs only that each operation that sets
`persistOk` and clears `dirty` writes the configuration it leaves behind; the proof has
one lemma for each way of saving. `ActiveInputAllowed` needs that the preference and the
active input change together. `TargetLostOnlyByForget` names the steps that may lose a paired
controller, so its proof goes through all others: whatever they store is the configuration in
force at their end (`StoredIsInForce`), and none takes a target out of that. What is left is a
boot from a readable record that does not hold the target; `UnsavedIsDirty`, an invariant of
its own, says that the settings are dirty as long as a target is not saved, so such a boot
came before a save that was due. The refinement maps every operation to a step of
`PersonaSwitch` or a stutter, using `RoleAgreement` for the one step that reads it: the
role task puts the pending persona on the wire, and the abstract specification asks that
it is the intended one.

The argument for arbitration. `ArbiterInv` says that only an input the preference accepts is
active and only its state is held, that what is held of it (the snapshot of its native
reports, a sample that waits in its mailbox) is not older than the stamp the runtime keeps,
and that from the poll to the report a stale input is marked. The first two parts and the
mark give `ReportsAreFresh`, since no time passes between poll and report. The order of ages
is what `OrderedTakeoverNeedsSilence` needs: when both mailboxes hold a sample, the active
controller's own one is applied first or finds its stamp still in force, so the difference
that let the other one in is no longer than the silence of the first.

The argument for the loop's control. A link that is up is to a controller with a key, or with
one that a forget has deleted since (`deleted`), and so is the address the link has saved, or
it is the one the loop handed it. The loop acts on a
status it has read before, while the link goes on; so `KeysInv` says of that status that it is
as good as the link itself unless a key has been lost since, in which case its count of key
events is behind and the next pass will see the loss (`ObservedInv`). Every address that gets
into the settings comes from such a status, and the pass that sees a key event clears it. For
`RemembersTheConnected`, the target the NS2 link has is the last controller heard, which is
the connected one until another is (`PeerIsLast`). The theorem about keys
leaves out the keys a forget has deleted, since the settings may get such an address back
(`ForgottenStaysForgotten`), saves that failed, and pairings over a link.

The argument for the mailbox. The sequence number is twice the number of samples, less
one while a sample is being written. A reader holds an even number; while it is the
current one the callback is idle, so each word copied so far is of the newest sample.
As soon as a callback begins, the number moves on and never comes back.

The argument for the ring. The requests between `tail` and `head`, counted around, are the
queue; a slot outside is not read, a producer in the middle of writing has checked that there
is one, and a consumer has copied its slot before it gives it free. Both indexes are taken
modulo `Capacity + 1`; no index is ever more than one round ahead, so each remainder is a
difference (`Wrapped`), and the slot of the i-th request that waits is said without one
(`Place`).

The argument for the USB replies. The packets of the replies that wait, laid end to end and
without those already sent, are what the host is owed (`ReplyInv`). The endpoint is busy for as
long as a packet is in its FIFO, and an arriving command only starts a reply on one that is not
busy; so a packet is begun only when the one before has gone, and it is the next one. The loop
touches no register of that endpoint but its bit in the mask, and a late write of the mask
delays an interrupt but changes no packet.

The argument for audio. A block stays in the buffers from the claim to the release: the
interrupt writes none over it (`Block` looks at both flags), and `Reset`, in whatever context,
keeps the ready flag of a claimed block. So the copies between the two are of one block.

The argument for the manager. Commands are numbered: those that wait are newer than the one
the loop is at work on, which is newer than the reply that is shown, and none is newer than
the client's (`OrderInv`). So no reply a client in step is reading can be replaced before it
has been read, and the next one is built where no poll looks (`BuildInv`).

The argument for the DualSense link. `LinkIsWhole` is inductive together with the types, among
them that an event of a channel names its device, and with two facts (`Linked`): a channel
that is known is the active device's, and as long as one is known the link is up, being made,
or being taken down. So nothing that begins a link finds a channel left over; and the event
handler compares the device of a channel event with the active one before it takes it, and
each function that gives the active device up forgets the channels with it. The attempt to prove it found two
ways out that the model-checked instance had not shown, pairing over a link of which the
events are still to come (`pairOverLink` is wider since) and `leftOver`.

`ChannelsAgree` speaks of a queue that is empty; its invariant says what the queue means
(`Agrees`). A channel that is open at the stack is known to the code or its CONNECTED event is
under way, and nothing later in the queue ends it. For one that is not open, every such
knowledge, present or under way, has its DISCONNECTED event behind it. Two lemmas carry this
over a step, one for events the stack adds (`AddedAgrees`: they must tell what became of the
channel), one for an event the handler takes (`TakenAgrees`: the code must learn what it says);
the loss of a baseband link with no DISCONNECTED events seen is the one case that forgets, and
the theorem says how much is left then.

`StopHoldsUnlessLate` rests on that. A stop leaves the set of channels still to be opened as it
is, and relies on the end of the link to clear it. `StopParts` says why that suffices: a channel
is to be opened only for a link that is up, begun, or being given up; one that is to be opened
and known at once is about to be lost (`Doomed`), and so are all channels of a link given up
before it was up, since the stack has closed them and its news is in the queue; and with the
queue empty a stopped link is neither up nor begun while it has such a channel. So the poll
finds nothing to open. The proof attempt showed the property false as first stated: three calls
(pair, disconnect, disconnect) with a pairing that begins over another device's channel end in
a stop after which a channel is asked for. The instance of `ds5_link` did not reach it; TLC
confirmed it with three calls and four incidents, and the property leaves out `pairOverLink` since.

The argument for the reports and features of the DualSense. `NewestIsLast` is inductive with
one fact (`DownIsEmpty`): without a link nothing is in line, so a new one begins with nothing
newer than what it has shown. A state handed over goes behind all others, unless another
overtook it (`late`); a report that does not wait is put in flight only when none is, and then
a state that waits is passed (`passed`); a confirmation makes what was in flight what the
controller has (or `failed`); and of the two that wait, the audio report leaves the state where
it is. `PassedOverIsSettled` is inductive by itself: the list moves on in three functions only,
each time by one, and leaves behind the feature of the request under way, which is then cached,
refused, or out of retries (`SettledKeeps`). An answer to another request moves it on only as a
refusal, the `misread` the property names.

The argument for the NS2 link. `NsInv` joins three views of a connection: what the code says,
what the far side is, and what the events in the ring between them say. An event in the ring
that no loss of its link follows is of the present link, so what it acknowledges the controller
has heard, and what it answers has been done, now. What the code waits for (`action`, `cccd`,
`waiting`) goes with its stage, so that an answer moves on the step it belongs to, and the
steps done so far have been earned on the present link or the ring holds its loss. Each
handler ends the session, begins it, or goes on with it; in the last case there is something
to wait for or the stage is "ready". Two properties were too strong as first stated, and
the proof attempt showed where: `ReadyIsEarned` fails while stale events of a former link wait,
after several quick reconnects (TLC confirmed it with a ring of more than two), and
`LossIsSeen` fails with two links when one's loss discards the other's.

Only model-checked: everything about liveness, which is outside the proof system's reach, the
fairness of `BoundedFifo` included. Every invariant and every action property that a passing run
checks is stated by a theorem.

## 5. What is not modelled

* Mapping and mapping store, codecs, audio haptics, platform, scripts: pure functions of
  bytes and samples, wrappers, or two flash operations at boot.
* A second producer of the control ring (manager commands run in the loop, shell commands
  in the shell thread), and the shell's `sf32_mgr`, which runs manager commands and runtime
  operations outside the loop. There is no text that says what should hold then.
* In the USB device: endpoint 0, `GET_REPORT` of inputs with its double buffer, OUT reports'
  contents, the microphone's sample queues, volume. In the NS2 profile: rumble and tuning.
  In the links: error codes and state enumerations, haptics and commands on a ready NS2 link.
* Counters and logging; the wrap of 32-bit clocks over 49 days and of the mailboxes'
  sequence numbers over 2^31 samples within one copy.

## 6. Plan

What remains, in order of importance.

1. `InputControl` refined by `Ds5Link` and `NsLink`: the calls' promises it assumes, stated
   as an abstract specification of a link.
2. The second producer of the control ring, and `sf32_mgr`, once it is decided what the
   firmware should do about them.
3. `MappingStore`: two records, migration, edits and saves, resets in between.
