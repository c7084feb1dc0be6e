---------------------------- MODULE InputControl -----------------------------
(***************************************************************************)
(* What the main loop (sf32lb52_app.c) does about the two controllers:     *)
(* commands to pair, connect, disconnect and forget, the action that waits *)
(* until the other transport has stopped, the preference that keeps one    *)
(* transport off, remembering a controller in the settings, forgetting one *)
(* whose link key is gone, and connecting by itself.                       *)
(*                                                                         *)
(* The two links are modelled by what their calls promise and what the     *)
(* loop reads of them; Ds5Link and NsLink model them step by step.  A pass *)
(* of the loop is four steps: the links are polled, commands are handled,  *)
(* the settings are handed to the DualSense link and the statuses read,    *)
(* and all is decided from those statuses.  The DualSense's events come    *)
(* from another thread, between any two steps; those of the BLE link are   *)
(* handled in its poll.  A time the loop waits for may have passed or not. *)
(* Bonds of the Bluetooth stack that the settings do not know, and a radio *)
(* that is not powered, are left out.                                      *)
(*                                                                         *)
(* Operators named for another one and a fault ("RememberHeard") are      *)
(* mutated forms, kept to show that the properties can fail.               *)
(***************************************************************************)
EXTENDS Naturals

CONSTANTS
  Ds5Pads, Ns2Pads,  (* the controllers around                             *)
  None,              (* no address                                         *)
  Boot,              (* the settings it may boot with                      *)
  Commands,          (* the commands of this instance                      *)
  Passed,            (* which of Times may have passed when the loop looks *)
  MaxIncidents       (* bound on commands, refusals, failed saves, losses  *)

Preference == {"auto", "dualsense", "ns2pro"}
Settings == [preference : Preference, auto : BOOLEAN, ds5 : Ds5Pads \cup {None},
             ns2 : Ns2Pads \cup {None}]
Times == {"exclusion", "pending", "ds5", "ble"}
Actions == {"pairDs5", "connectDs5", "pairNs2", "connectNs2"}
AllCommands == Actions \cup {"disconnectDs5", "forgetDs5", "disconnectNs2", "forgetNs2", "input"}

ASSUME InputControlAssumption ==
  /\ None \notin Ds5Pads \cup Ns2Pads
  /\ Boot \subseteq Settings /\ Commands \subseteq AllCommands
  /\ Passed \subseteq SUBSET Times
  /\ MaxIncidents \in Nat

VARIABLES
  config,     (* g_runtime.config                                          *)
  loop,       (* the loop's static variables                               *)
  ds5, ns2,   (* the links                                                 *)
  seen,       (* ds5_status and, of the loop's times, those that now_ms    *)
              (* has passed; between the step that reads them and the last *)
  phase,      (* where the loop is                                         *)
  forgotten,  (* history: controllers forgotten and not met again since    *)
  mixups,     (* history: which of Mixups have happened                    *)
  incidents   (* bound used up                                             *)

vars == <<config, loop, ds5, ns2, seen, phase, forgotten, mixups, incidents>>

LoopState == [pending : Actions \cup {"none"}, ds5Started : BOOLEAN, bleStarted : BOOLEAN,
              preference : Preference, auto : BOOLEAN, address : Ds5Pads \cup {None},
              applied : BOOLEAN, keyEvents : Nat, delayOver : BOOLEAN]

(* A DualSense link is scheduled before its channels are asked for; a       *)
(* search that is ending was under way when pairing was given up.  bonds    *)
(* are the controllers the stack has a link key of, deleted (history) those *)
(* whose key a forget has deleted and that were not paired since.           *)
Ds5State == [link : {"none", "scheduled", "opening", "up"}, disconnecting : BOOLEAN,
             search : {"none", "wanted", "discovering", "pairing", "ending"},
             active : Ds5Pads \cup {None}, saved : Ds5Pads \cup {None},
             suppressed : BOOLEAN, auto : BOOLEAN,
             reconnect : {"none", "later", "due"}, keyEvents : Nat,
             bonds : SUBSET Ds5Pads, deleted : SUBSET Ds5Pads]
Ns2State == [link : {"none", "connecting", "up"}, leaving : BOOLEAN, wanted : BOOLEAN,
             scanning : BOOLEAN, peer : Ns2Pads \cup {None}, target : Ns2Pads \cup {None},
             candidate : Ns2Pads \cup {None}, last : Ns2Pads \cup {None}]

(* Three ways in which the settings come to hold an address they should     *)
(* not: another NS2 controller is heard after one was chosen, the save      *)
(* fails that should have removed a controller without a key, and a new     *)
(* DualSense is paired over a link that another opened meanwhile, whose     *)
(* active address it becomes.                                               *)
Mixups == {"overheard", "unsaved", "pairOverLink"}

-----------------------------------------------------------------------------
(* ds5_classic_sifli.c.                                                     *)

Connected(d) == d.link = "up"
Connecting(d) == d.link \in {"scheduled", "opening"} /\ ~d.disconnecting
Linked(d) == Connected(d) \/ Connecting(d)
Quiet(d) == ~Linked(d) /\ ~d.disconnecting /\ d.search = "none"
Idle(d) == ~Linked(d) /\ ~d.disconnecting /\ d.search \in {"none", "wanted"}

ReconnectAllowed(d) == d.auto /\ ~d.suppressed /\ d.saved # None
ScheduleReconnect(d, when) ==
  [d EXCEPT !.reconnect = IF ReconnectAllowed(d) THEN when ELSE "none"]
ScheduleConnect(d, p) ==
  [d EXCEPT !.link = "scheduled", !.active = p, !.disconnecting = FALSE, !.reconnect = "none"]
Down(d) == [d EXCEPT !.link = "none", !.active = None, !.disconnecting = FALSE,
                     !.reconnect = "none"]

SetSavedAddress(d, p) ==
  LET saved == [d EXCEPT !.saved = p]
  IN CASE p = None -> [saved EXCEPT !.reconnect = "none"]
       [] p # None /\ Quiet(d) /\ ReconnectAllowed(saved) -> ScheduleReconnect(saved, "due")
       [] OTHER -> saved

SetAutoReconnect(d, on) ==
  LET set == [d EXCEPT !.auto = on, !.suppressed = FALSE]
  IN CASE ~on -> [set EXCEPT !.reconnect = "none"]
       [] on /\ d.saved # None /\ Quiet(d) -> ScheduleReconnect(set, "due")
       [] OTHER -> set

StartPairing(d) == [d EXCEPT !.search = "wanted", !.reconnect = "none"]

ConnectSaved(d) ==
  LET on == [d EXCEPT !.suppressed = FALSE, !.reconnect = "none"]
  IN IF d.saved = None THEN on ELSE ScheduleConnect(on, d.saved)

Ds5Disconnect(d) ==
  IF ~Linked(d) THEN d
  ELSE [d EXCEPT !.disconnecting = TRUE, !.suppressed = TRUE, !.reconnect = "none",
                 !.search = IF @ \in {"none", "wanted"} THEN "none" ELSE "ending"]

(* It fails when there is no address to forget, and still suppresses.  The  *)
(* link key goes with the address.                                          *)
Ds5Forget(d) ==
  LET off == [d EXCEPT !.suppressed = TRUE, !.reconnect = "none"]
  IN IF d.saved = None THEN off
     ELSE [Ds5Disconnect(off) EXCEPT !.saved = None, !.bonds = @ \ {d.saved},
                                     !.deleted = @ \cup {d.saved}]

(* ds5_classic_address_allowed: the active controller alone, while there is *)
(* one; any while pairing is wanted, the saved one otherwise.               *)
Allowed(d, p) ==
  \/ p = d.active
  \/ d.active = None /\ d.search \in {"wanted", "discovering", "pairing"}
  \/ /\ d.active = None /\ d.search \in {"none", "ending"}
     /\ d.reconnect = "none" /\ ~d.suppressed /\ d.saved \in {None, p}

(* ds5_classic_poll: a pending reconnect that is due, then the search, else *)
(* the channels.                                                            *)
Ds5Poll(d, due) ==
  LET called == CASE d.reconnect # "none" /\ ~ReconnectAllowed(d) -> [d EXCEPT !.reconnect = "none"]
                  [] d.reconnect = "due" /\ ReconnectAllowed(d) /\ Quiet(d) /\ due ->
                       ScheduleConnect(d, d.saved)
                  [] OTHER -> d
  IN CASE called.search = "wanted" -> [called EXCEPT !.search = "discovering"]
       [] called.search # "wanted" /\ called.link = "scheduled" /\ ~called.disconnecting ->
            [called EXCEPT !.link = "opening"]
       [] OTHER -> called

-----------------------------------------------------------------------------
(* ble_gatt_sifli.c.  ok says whether the stack takes the request.          *)

Busy(n) == n.scanning \/ n.link # "none"

StartScan(n, ok) == [n EXCEPT !.wanted = TRUE, !.scanning = @ \/ ok]

StopScan(n) ==
  [n EXCEPT !.wanted = FALSE, !.scanning = FALSE,
            !.link = IF @ = "connecting" THEN "none" ELSE @,
            !.peer = IF n.link = "connecting" THEN None ELSE @]

Disconnect(n, resume, ok) ==
  CASE n.link # "up" /\ resume -> StartScan(n, ok)
    [] n.link # "up" /\ ~resume -> StopScan(n)
    [] OTHER -> [n EXCEPT !.wanted = resume, !.leaving = @ \/ ok]

SetTarget(n, p) == [n EXCEPT !.target = p]
ClearTarget(n) == [n EXCEPT !.target = None, !.candidate = None]

(* ble_gatt_poll, when the ring is empty: a candidate is connected, or the  *)
(* scan that is wanted is started again.                                    *)
Ns2Poll(n, ok) ==
  CASE n.candidate # None /\ n.link = "none" ->
         [n EXCEPT !.candidate = None, !.scanning = FALSE,
                   !.link = IF ok THEN "connecting" ELSE "none",
                   !.peer = IF ok THEN n.candidate ELSE None]
    [] n.candidate # None /\ n.link # "none" -> [n EXCEPT !.candidate = None]
    [] n.candidate = None /\ n.link = "none" /\ n.wanted /\ ~n.scanning -> StartScan(n, ok)
    [] OTHER -> n

Ended(n) == [n EXCEPT !.link = "none", !.leaving = FALSE, !.peer = None, !.scanning = @ \/ n.wanted]

-----------------------------------------------------------------------------
(* The radio and the controllers (external).                                *)

Outside == UNCHANGED <<config, loop, seen, phase>>
Charge(n) == incidents + n <= MaxIncidents /\ incidents' = incidents + n
Ds5Event(d, cost) ==
  ds5' = d /\ Charge(cost) /\ Outside /\ UNCHANGED <<ns2, mixups>>

Ds5Opens ==
  /\ ds5.link = "opening" /\ ds5.active \in ds5.bonds
  /\ Ds5Event([ds5 EXCEPT !.link = "up", !.disconnecting = FALSE, !.reconnect = "none"], 0)
  /\ UNCHANGED forgotten

Ds5Fails ==
  /\ ds5.link = "opening"
  /\ Ds5Event(ScheduleReconnect(Down(ds5), "later"), 0)
  /\ UNCHANGED forgotten

Ds5Closes ==
  /\ ds5.link = "up" /\ ds5.disconnecting
  /\ Ds5Event(Down(ds5), 0)
  /\ UNCHANGED forgotten

Ds5Lost ==
  /\ ds5.link = "up" /\ ~ds5.disconnecting
  /\ Ds5Event(ScheduleReconnect(Down(ds5), "later"), 1)
  /\ UNCHANGED forgotten

(* bt_l2cap_profile_app_conn_ind; a link key is not needed to call.  A call *)
(* between the wish to pair and the search counts for nothing.              *)
Ds5Calls(p) ==
  /\ ds5.link = "none" /\ ~ds5.disconnecting /\ Allowed(ds5, p)
  /\ Ds5Event([ds5 EXCEPT !.link = "opening", !.active = p, !.reconnect = "none"],
              IF ds5.search = "wanted" THEN 0 ELSE 1)
  /\ UNCHANGED forgotten

(* The search has found a candidate, which becomes the active controller    *)
(* when the poll asks to pair it.                                           *)
Ds5Found(p) ==
  /\ ds5.search = "discovering"
  /\ ds5' = [ds5 EXCEPT !.search = "pairing", !.active = p]
  /\ mixups' = mixups \cup IF ds5.link # "none" /\ p # ds5.active THEN {"pairOverLink"} ELSE {}
  /\ Charge(0) /\ Outside /\ UNCHANGED <<ns2, forgotten>>

(* A search that is no longer wanted ends.                                  *)
Ds5SearchEnds ==
  /\ ds5.search = "ending"
  /\ Ds5Event([ds5 EXCEPT !.search = "none"], 0)
  /\ UNCHANGED forgotten

(* ds5_classic_pair_complete, for a pairing the application asked for.      *)
Ds5Pairs(p) ==
  /\ ds5.search \in {"pairing", "ending"} /\ ds5.active \in {None, p}
  /\ LET kept == [ds5 EXCEPT !.search = "none", !.saved = p, !.bonds = @ \cup {p},
                             !.deleted = @ \ {p}]
     IN Ds5Event(IF Linked(ds5) THEN kept ELSE ScheduleConnect(kept, p), 0)
  /\ forgotten' = forgotten \ {p}

(* A pairing that fails leaves its controller the active one.               *)
Ds5PairingFails ==
  /\ ds5.search \in {"pairing", "ending"}
  /\ Ds5Event(ScheduleReconnect([ds5 EXCEPT !.search = "none"], "later"), 1)
  /\ UNCHANGED forgotten

(* The event for a controller that has lost its key.                        *)
Ds5KeyMissing ==
  /\ ds5.link = "opening" /\ ds5.active = ds5.saved
  /\ Ds5Event([ds5 EXCEPT !.saved = None, !.reconnect = "none", !.keyEvents = @ + 1,
                          !.bonds = @ \ {ds5.saved}], 1)
  /\ UNCHANGED forgotten

Ds5Answers ==
  \/ Ds5Opens \/ Ds5Fails \/ Ds5Closes \/ Ds5SearchEnds \/ Ds5PairingFails
  \/ \E p \in Ds5Pads : Ds5Pairs(p)

(* BLE_GAP_EXT_ADV_REPORT_IND: the last candidate heard is not always the   *)
(* one that is connected.                                                   *)
Ns2Heard(p) ==
  /\ ns2.scanning
  /\ ns2' = [ns2 EXCEPT !.last = p, !.candidate = IF ns2.target \in {None, p} THEN p ELSE @]
  /\ mixups' = mixups \cup IF \/ ns2.link # "none" /\ p # ns2.peer
                              \/ ns2.candidate # None /\ ns2.target \notin {None, p}
                           THEN {"overheard"} ELSE {}
  /\ Charge(IF ns2.link # "none" THEN 1 ELSE 0)
  /\ Outside /\ UNCHANGED <<ds5, forgotten>>

(* Events of the ring, handled in ble_gatt_poll.                            *)
Ns2Event(n, cost) ==
  /\ phase = "poll" /\ ns2' = n /\ Charge(cost)
  /\ Outside /\ UNCHANGED <<ds5, mixups>>

Ns2Connects ==
  /\ ns2.link = "connecting"
  /\ Ns2Event([ns2 EXCEPT !.link = "up", !.scanning = FALSE], 0)
  /\ forgotten' = forgotten \ {ns2.peer}

Ns2Fails ==
  /\ ns2.link = "connecting" /\ Ns2Event(Ended(ns2), 0) /\ UNCHANGED forgotten

Ns2Closes ==
  /\ ns2.link = "up" /\ ns2.leaving /\ Ns2Event(Ended(ns2), 0) /\ UNCHANGED forgotten

Ns2Lost ==
  /\ ns2.link = "up" /\ ~ns2.leaving /\ Ns2Event(Ended(ns2), 1) /\ UNCHANGED forgotten

Ns2Answers == Ns2Connects \/ Ns2Fails \/ Ns2Closes

(* SF32LB52_BLE_START_DELAY_MS after boot.                                  *)
StartDelayOver ==
  /\ ~loop.delayOver /\ loop' = [loop EXCEPT !.delayOver = TRUE]
  /\ UNCHANGED <<config, ds5, ns2, seen, phase, forgotten, mixups, incidents>>

World == Ds5Answers \/ Ds5Lost \/ Ds5KeyMissing
           \/ (\E p \in Ds5Pads : Ds5Found(p) \/ Ds5Calls(p))
           \/ Ns2Answers \/ Ns2Lost \/ (\E p \in Ns2Pads : Ns2Heard(p)) \/ StartDelayOver

-----------------------------------------------------------------------------
(* The loop.  Its steps are functions of the state it works on.             *)

Now == [c |-> config, l |-> loop, d |-> ds5, n |-> ns2]
Result(w) == config' = w.c /\ loop' = w.l /\ ds5' = w.d /\ ns2' = w.n
Goes(from, to) == phase = from /\ phase' = to

(* ds5_classic_poll and ble_gatt_poll.                                      *)
Poll == \E due, ok \in BOOLEAN :
  /\ Goes("poll", "commands")
  /\ Result([Now EXCEPT !.d = Ds5Poll(@, due), !.n = Ns2Poll(@, ok)])
  /\ Charge(IF ok THEN 0 ELSE 1)
  /\ UNCHANGED <<seen, forgotten, mixups>>

(* sf32lb52_bridge_runtime_set_input_preference.                            *)
Prefer(w, p, saved) == IF saved THEN [w EXCEPT !.c.preference = p] ELSE w

Await(w, action, saved) ==
  [Prefer(w, IF action \in {"pairDs5", "connectDs5"} THEN "dualsense" ELSE "ns2pro", saved)
     EXCEPT !.l.pending = action]

ForgetDs5(w, saved) ==
  [w EXCEPT !.d = Ds5Forget(@), !.c.ds5 = IF w.d.saved # None /\ saved THEN None ELSE @]
ForgetNs2(w, saved, ok) ==
  [w EXCEPT !.n = ClearTarget(Disconnect(@, FALSE, ok)), !.c.ns2 = IF saved THEN None ELSE @]

(* What a command that was carried out has forgotten.                       *)
Forgets(w) ==
  forgotten' = forgotten \cup ({config.ds5, config.ns2} \ {w.c.ds5, w.c.ns2, None})

Command(w, saved, ok) ==
  /\ phase = "commands"
  /\ Result(w) /\ Forgets(w)
  /\ Charge(1 + (IF saved THEN 0 ELSE 1) + (IF ok THEN 0 ELSE 1))
  /\ UNCHANGED <<seen, phase, mixups>>

(* bridge_process_control_commands, for one command of the ring.            *)
ProcessCommand == \E saved, ok \in BOOLEAN :
  \/ \E action \in Commands \cap Actions : Command(Await(Now, action, saved), saved, TRUE)
  \/ "input" \in Commands /\ \E p \in Preference : Command(Prefer(Now, p, saved), saved, TRUE)
  \/ "disconnectDs5" \in Commands /\ Command([Now EXCEPT !.d = Ds5Disconnect(@)], TRUE, TRUE)
  \/ "disconnectNs2" \in Commands /\ Command([Now EXCEPT !.n = Disconnect(@, FALSE, ok)], TRUE, ok)
  \/ "forgetDs5" \in Commands /\ Command(ForgetDs5(Now, saved), saved, TRUE)
  \/ "forgetNs2" \in Commands /\ Command(ForgetNs2(Now, saved, ok), saved, ok)

(* The settings' address and the wish to reconnect are handed to the link,  *)
(* and its status is read.                                                  *)
WantsReconnect(c, l) ==
  /\ c.auto /\ c.preference # "ns2pro"
  /\ c.preference = "dualsense" \/ l.ds5Started \/ l.delayOver

Observe(due) ==
  /\ Goes("commands", "decide")
  /\ LET told == IF config.ds5 # loop.address
                 THEN [Now EXCEPT !.d = SetSavedAddress(@, config.ds5), !.l.address = config.ds5]
                 ELSE Now
         want == WantsReconnect(config, loop)
         set == IF want # loop.applied
                THEN [told EXCEPT !.d = SetAutoReconnect(@, want), !.l.applied = want] ELSE told
     IN Result(set) /\ seen' = [ds5 |-> set.d, due |-> due]
  /\ UNCHANGED <<forgotten, mixups, incidents>>

(* As ForgetLostKey, with the address left for the next event.              *)
NoteLostKey(w, s, saved) == [w EXCEPT !.l.keyEvents = s.keyEvents]

(* A key that is gone takes the address out of the settings.                *)
ForgetLostKey(w, s, saved) ==
  IF s.keyEvents = w.l.keyEvents THEN w
  ELSE [w EXCEPT !.l.keyEvents = s.keyEvents, !.c.ds5 = IF saved THEN None ELSE @]

(* ds5_started and ble_started: seen at work, or to be started again after  *)
(* a change of the preference.                                              *)
NoteStarts(w, s, n) ==
  LET changed == w.c.preference # w.l.preference \/ w.c.auto # w.l.auto
      again(other, busy) == changed /\ w.c.auto /\ w.c.preference # other /\ ~busy
  IN [w EXCEPT !.l.ds5Started = (@ \/ Linked(s)) /\ ~again("ns2pro", Linked(s)),
               !.l.bleStarted = (@ \/ Busy(n)) /\ ~again("dualsense", Busy(n)),
               !.l.preference = w.c.preference, !.l.auto = w.c.auto]

(* As Exclude, with nothing kept off.                                       *)
ExcludeNothing(w, s, n, due, ok) == w

(* The preference keeps the other transport off, and what is off counts as  *)
(* not started.                                                             *)
Exclude(w, s, n, due, ok) ==
  CASE w.l.pending = "none" /\ "exclusion" \in due /\ w.c.preference = "dualsense" /\ Busy(n) ->
         [w EXCEPT !.n = Disconnect(@, FALSE, ok)]
    [] w.l.pending = "none" /\ "exclusion" \in due /\ w.c.preference = "ns2pro" /\ Linked(s) ->
         [w EXCEPT !.d = Ds5Disconnect(@)]
    [] OTHER -> w

NoteStops(w, s, n) ==
  [w EXCEPT !.l.bleStarted = @ /\ ~(w.c.preference = "dualsense" /\ ~Busy(n)),
            !.l.ds5Started = @ /\ ~(w.c.preference = "ns2pro" /\ Quiet(s))]

Done(w) == [w EXCEPT !.l.pending = "none"]
ActDs5(w, s, n, ok) ==
  CASE Busy(n) -> [w EXCEPT !.n = Disconnect(@, FALSE, ok)]
    [] ~Busy(n) /\ w.l.pending = "pairDs5" /\ Idle(w.d) ->
         [Done(w) EXCEPT !.d = StartPairing(@), !.l.ds5Started = TRUE]
    [] ~Busy(n) /\ w.l.pending = "connectDs5" /\ Quiet(w.d) ->
         [Done(w) EXCEPT !.d = ConnectSaved(@), !.l.ds5Started = TRUE]
    [] OTHER -> w

(* As ActNs2, without giving the other link up.                             *)
ActNs2WhenFree(w, s, n, saved, ok) ==
  IF Quiet(s) THEN [Done(w) EXCEPT !.n = StartScan(@, ok)] ELSE w

ActNs2(w, s, n, saved, ok) ==
  CASE ~Quiet(s) -> IF Linked(s) THEN [w EXCEPT !.d = Ds5Disconnect(@)] ELSE w
    [] Quiet(s) /\ w.l.pending = "pairNs2" ->
         LET clear == [w EXCEPT !.n = ClearTarget(@)]
             gone == [clear EXCEPT !.c.ns2 = None, !.n = Disconnect(@, TRUE, ok)]
         IN IF ~saved THEN clear
            ELSE IF ok THEN [Done(gone) EXCEPT !.l.bleStarted = TRUE] ELSE gone
    [] Quiet(s) /\ w.l.pending = "connectNs2" ->
         LET on == [w EXCEPT !.n = StartScan(IF w.c.ns2 = None THEN @ ELSE SetTarget(@, w.c.ns2), ok)]
         IN IF ok THEN [Done(on) EXCEPT !.l.bleStarted = TRUE] ELSE on

(* bridge_process_pending_input_action.                                     *)
Act(w, s, n, due, saved, ok) ==
  CASE "pending" \notin due \/ w.l.pending = "none" -> w
    [] "pending" \in due /\ w.l.pending \in {"pairDs5", "connectDs5"} -> ActDs5(w, s, n, ok)
    [] "pending" \in due /\ w.l.pending \in {"pairNs2", "connectNs2"} -> ActNs2(w, s, n, saved, ok)

(* As Remember, for a controller heard and not connected.                   *)
RememberHeard(w, s, n, c) ==
  [w EXCEPT !.c.ds5 = IF s.saved # None THEN s.saved ELSE @,
            !.c.ns2 = IF n.last # None THEN n.last ELSE @]

(* The settings follow the links, as they were when the statuses were read; *)
(* c is the loop's copy of the settings.                                    *)
Remember(w, s, n, c) ==
  LET ds5Known == CASE s.saved # None /\ c.ds5 # s.saved -> [w EXCEPT !.c.ds5 = s.saved]
                    [] ~(s.saved # None /\ c.ds5 # s.saved) /\ Connected(s) ->
                         [w EXCEPT !.c.ds5 = s.active]
                    [] OTHER -> w
  IN IF n.link = "up" /\ n.last # None
     THEN [ds5Known EXCEPT !.c.ns2 = n.last,
                           !.n.target = IF n.target # n.last THEN n.last ELSE @]
     ELSE ds5Known

(* What is not started by command starts by itself.                         *)
AutoConnect(w, s, n, c, due, ok) ==
  LET may(other) == /\ w.l.pending = "none" /\ c.auto /\ c.preference # other
                    /\ c.preference # "auto" \/ w.l.delayOver
                    /\ Quiet(s)
      called == IF /\ ~w.l.ds5Started /\ may("ns2pro") /\ "ds5" \in due /\ ~Busy(n)
                   /\ Quiet(w.d)
                THEN [w EXCEPT !.d = ConnectSaved(@), !.l.ds5Started = TRUE] ELSE w
  IN IF ~w.l.bleStarted /\ may("dualsense") /\ "ble" \in due
     THEN [called EXCEPT !.n = StartScan(@, ok), !.l.bleStarted = ok] ELSE called

(* A reconnect's delay (500 ms and more) is longer than the wait of a       *)
(* pending action (250 ms), which so comes first.                           *)
ReconnectDue(w, s, due) ==
  IF w.d.reconnect = "later" /\ s.reconnect = "later" /\ (w.l.pending = "none" \/ "pending" \in due)
  THEN [w EXCEPT !.d.reconnect = "due"] ELSE w

Decided(w, s, due, saved, ok) ==
  LET n == w.n
      started == NoteStarts(ForgetLostKey(w, s, saved), s, n)
      acted == Act(NoteStops(Exclude(started, s, n, due, ok), s, n), s, n, due, saved, ok)
  IN ReconnectDue(AutoConnect(Remember(acted, s, n, w.c), s, n, w.c, due, ok), s, due)

Decide == \E saved, ok \in BOOLEAN :
  LET w == Decided(Now, seen.ds5, seen.due, saved, ok)
  IN /\ Goes("decide", "poll")
     /\ Result(w)
     /\ seen' = None
     /\ forgotten' = IF config.ns2 # None /\ loop.pending = "pairNs2" /\ w.l.pending = "none"
                     THEN forgotten \cup {config.ns2} ELSE forgotten
     /\ mixups' = mixups
          \cup IF seen.ds5.keyEvents # loop.keyEvents /\ ~saved THEN {"unsaved"} ELSE {}
     /\ Charge((IF saved THEN 0 ELSE 1) + (IF ok THEN 0 ELSE 1))

Loop == Poll \/ ProcessCommand \/ (\E due \in Passed : Observe(due)) \/ Decide

-----------------------------------------------------------------------------
(* The settings are read, the links initialized, and one of them started.   *)
BootedWith(c, ns2First) ==
  LET d == [link |-> "none", disconnecting |-> FALSE, search |-> "none", active |-> None,
            saved |-> c.ds5, suppressed |-> FALSE, auto |-> FALSE, reconnect |-> "none",
            keyEvents |-> 0, bonds |-> {c.ds5} \ {None}, deleted |-> {}]
      n == [link |-> "none", leaving |-> FALSE, wanted |-> FALSE, scanning |-> FALSE,
            peer |-> None, target |-> c.ns2, candidate |-> None, last |-> None]
      set == SetAutoReconnect(d, c.auto /\ ~ns2First)
  IN [c |-> c,
      l |-> [pending |-> "none", ds5Started |-> c.auto /\ ~ns2First,
             bleStarted |-> c.auto /\ ns2First, preference |-> c.preference, auto |-> c.auto,
             address |-> c.ds5, applied |-> c.auto /\ ~ns2First, keyEvents |-> 0,
             delayOver |-> FALSE],
      d |-> IF c.auto /\ ~ns2First THEN ConnectSaved(set) ELSE set,
      n |-> IF c.auto /\ ns2First THEN StartScan(n, TRUE) ELSE n]

Init ==
  /\ \E c \in Boot, ns2First \in BOOLEAN :
       /\ c.preference # "auto" => ns2First = (c.preference = "ns2pro")
       /\ LET w == BootedWith(c, ns2First)
          IN config = w.c /\ loop = w.l /\ ds5 = w.d /\ ns2 = w.n /\ seen = None
  /\ phase = "poll" /\ forgotten = {} /\ mixups = {} /\ incidents = 0

Next == World \/ Loop

Spec == Init /\ [][Next]_vars

(* The loop goes round, for nothing blocks it, and what it waits for passes *)
(* (said without ENABLED, which costs TLC much here); the links answer, and *)
(* the time after boot passes.                                              *)
FairSpec ==
  /\ Spec
  /\ []<>(phase = "poll") /\ []<>(phase = "decide" /\ seen.due = Times)
  /\ WF_vars(Ds5Answers) /\ SF_vars(Ns2Answers) /\ WF_vars(StartDelayOver)

-----------------------------------------------------------------------------
TypeOK ==
  /\ config \in Settings /\ loop \in LoopState
  /\ ds5 \in Ds5State
  /\ seen \in [ds5 : Ds5State, due : Passed] \cup {None}
  /\ ns2 \in Ns2State
  /\ phase \in {"poll", "commands", "decide"}
  /\ forgotten \subseteq Ds5Pads \cup Ns2Pads /\ mixups \subseteq Mixups
  /\ incidents \in 0 .. MaxIncidents

(* A link given up before its first channel was asked for: no event of the  *)
(* stack ever ends the disconnect.                                          *)
Stranded == ds5.link = "scheduled" /\ ds5.disconnecting

(* An action of the user is begun or refused in the end, whatever the links *)
(* were doing: one for the NS2Pro unless the DualSense searches for ever or *)
(* is stranded, one for the DualSense if that link is idle again and again, *)
(* for nothing ends it.                                                     *)
PendingIsServed ==
  /\ []<>(ds5.search = "none" /\ ~Stranded)
       => \A a \in {"pairNs2", "connectNs2"} : loop.pending = a ~> loop.pending # a
  /\ []<>Quiet(ds5)
       => \A a \in {"pairDs5", "connectDs5"} : loop.pending = a ~> loop.pending # a

(* "input_preference" keeps the other transport off: once it stays and no   *)
(* action waits, the other link goes down and stays down.                   *)
ExcludedTransportStops ==
  /\ <>[](config.preference = "ns2pro" /\ loop.pending = "none") => <>[]~Linked(ds5)
  /\ <>[](config.preference = "dualsense" /\ loop.pending = "none") => <>[]~Busy(ns2)

(* The NS2 controller the settings remember is the one that was connected,  *)
(* unless another one was heard after it was chosen.                        *)
RemembersTheConnected ==
  [][config'.ns2 \notin {None, config.ns2} /\ "overheard" \notin mixups
       => config'.ns2 = ns2.peer]_vars

(* "Remove the injected target ... so reboot cannot enter a permanent       *)
(* reconnect loop with a stale address": with the events seen, the settings *)
(* hold no DualSense address whose key was lost, even if the status that    *)
(* the loop remembers from is older than the loss.  Not spoken of: a key    *)
(* that a forget has deleted (the settings may get that address back, see   *)
(* ForgottenStaysForgotten, and keep it when the save fails), a removal     *)
(* whose save failed, and a pairing over a link.                            *)
LostKeyIsForgotten ==
  loop.keyEvents = ds5.keyEvents /\ mixups \cap {"unsaved", "pairOverLink"} = {}
    => config.ds5 \in ds5.bonds \cup ds5.deleted \cup {None}

(* A controller that was forgotten is not in the settings again before it   *)
(* was paired or connected again (test_saved_inputs_are_independent).       *)
ForgottenStaysForgotten == forgotten \cap {config.ds5, config.ns2} = {}

=============================================================================
