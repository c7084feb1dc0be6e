---------------------------- MODULE BridgeRuntime ----------------------------
(***************************************************************************)
(* The bridge runtime (sf32lb52_bridge_runtime.c) with the settings it     *)
(* persists and the USB persona it drives, as the application's main loop  *)
(* (sf32lb52_app.c) runs them.                                             *)
(*                                                                         *)
(* One iteration of the loop passes through the phases                     *)
(*   task      manager commands the host sent, then the USB role task      *)
(*   commands  shell commands from the control queue, wireless input,      *)
(*             ending in sf32lb52_bridge_runtime_poll                      *)
(*   sync      the runtime's role is compared with the persona on the wire *)
(*   links     controller addresses are remembered or forgotten            *)
(* and then sleeps, which is when time passes.  A reset of the board may   *)
(* come between any two operations.                                        *)
(*                                                                         *)
(* Times are ages: dirtyAge is the time since settings_dirty_since_ms      *)
(* (saturated at Defer, 0 when clean), pollAge the time since              *)
(* last_poll_ms.                                                           *)
(***************************************************************************)
EXTENDS BridgeSettings, UsbPersona

CONSTANTS
  Defer,         (* SETTINGS_DEFER_MS                                      *)
  MaxSleep,      (* bound on the time one loop iteration takes             *)
  RoleRequests,  (* the roles commands of this instance ask for            *)
  AutoRequests,  (* the auto-connect values they ask for                   *)
  PersistRequests, (* whether a command saves at once: the firmware always *)
                   (* asks for it, the host tests also do not              *)
  BootReads      (* whether NVDS can be read at boot: BOOLEAN, or {TRUE}   *)

ASSUME DeferAssumption == Defer \in Nat
ASSUME MaxSleepAssumption == MaxSleep \in Nat
ASSUME RoleRequestsAssumption == RoleRequests \subseteq Roles
ASSUME AutoRequestsAssumption == AutoRequests \subseteq BOOLEAN
ASSUME PersistRequestsAssumption == PersistRequests \subseteq BOOLEAN
ASSUME BootReadsAssumption == BootReads \subseteq BOOLEAN

VARIABLES
  config,     (* g_runtime.config                                          *)
  dirty,      (* status.settings_dirty                                     *)
  dirtyAge,
  pollAge,
  persistOk,  (* status.last_persist_ok                                    *)
  active,     (* status.active_input                                       *)
  phase

vars == <<flash, usb, config, dirty, dirtyAge, pollAge, persistOk, active, phase>>

Phases == {"task", "commands", "sync", "links"}

(* Where the loop body executes commands of the operator.                   *)
CommandPhase == phase \in {"task", "commands"}

Lesser(a, b) == IF a < b THEN a ELSE b

TypeOK ==
  /\ SettingsTypeOK
  /\ usb \in UsbRecord
  /\ config \in Config
  /\ dirty \in BOOLEAN
  /\ dirtyAge \in 0 .. Defer
  /\ pollAge \in 0 .. Defer
  /\ persistOk \in BOOLEAN
  /\ active \in Inputs \cup {NoInput}
  /\ phase \in Phases

(***************************************************************************)
(* Start-up.                                                               *)
(***************************************************************************)

(* sf32lb52_bridge_runtime_init on a board whose flash was never written,   *)
(* then sf32lb52_usb_device_init with the runtime's role.                   *)
Init ==
  /\ flash = NoRecord
  /\ config = Defaults
  /\ \E registerOk \in BOOLEAN : usb = DeviceInit(config.role, registerOk)
  /\ dirty = FALSE
  /\ dirtyAge = 0
  /\ pollAge = 0
  /\ persistOk = FALSE
  /\ active = NoInput
  /\ phase = "task"

(* The board resets; everything but the flash starts over.  readOk is       *)
(* whether NVDS can be read at boot, registerOk whether USB registers.      *)
Reboot(readOk, registerOk) ==
  /\ config' = LoadedConfig(readOk)
  /\ persistOk' = LoadSucceeds(readOk)
  /\ usb' = DeviceInit(config'.role, registerOk)
  /\ dirty' = FALSE
  /\ dirtyAge' = 0
  /\ pollAge' = 0
  /\ active' = NoInput
  /\ phase' = "task"
  /\ UNCHANGED flash

(***************************************************************************)
(* Pieces the operations share.                                            *)
(***************************************************************************)

(* mark_settings_dirty, and the assignments that follow a successful save.  *)
MarkDirty ==
  /\ dirty' = TRUE
  /\ dirtyAge' = IF dirty THEN dirtyAge ELSE pollAge

MarkClean ==
  /\ dirty' = FALSE
  /\ dirtyAge' = 0
  /\ persistOk' = TRUE

SaveFailed ==
  /\ persistOk' = FALSE
  /\ UNCHANGED <<dirty, dirtyAge>>

(* As SaveThenCommit, with the result of the save ignored.                  *)
SaveThenCommitBlind(next, persist, ok) ==
  /\ config' = next
  /\ IF persist THEN WriteRecord(next, ok) /\ MarkClean
     ELSE MarkDirty /\ UNCHANGED <<flash, persistOk>>

(* The body of the setters that save before they commit: a persisted change *)
(* takes effect only if the flash took it, a volatile one is left dirty.    *)
SaveThenCommit(next, persist, ok) ==
  /\ config' = IF persist /\ ~ok THEN config ELSE next
  /\ IF persist
     THEN WriteRecord(next, ok) /\ (IF ok THEN MarkClean ELSE SaveFailed)
     ELSE MarkDirty /\ UNCHANGED <<flash, persistOk>>

(* sf32lb52_bridge_runtime_save_settings.                                   *)
SaveNow(next, ok) ==
  /\ config' = next
  /\ WriteRecord(next, ok)
  /\ IF ok THEN MarkClean
     ELSE /\ persistOk' = FALSE
          /\ dirtyAge' = IF dirty THEN pollAge ELSE 0
          /\ UNCHANGED dirty

(***************************************************************************)
(* Operations on the role.                                                 *)
(***************************************************************************)

(* sf32lb52_bridge_runtime_set_role for a role other than the current one:  *)
(* ask USB for the persona, save, and ask for the old one back if the save  *)
(* fails.                                                                   *)
ChangeRole(role, persist, ok) ==
  LET next == [config EXCEPT !.role = role]
      asked == RequestRole(usb, role)
      undone == RequestRole(asked, config.role)
  IN
  /\ role # config.role
  /\ UNCHANGED <<pollAge, active, phase>>
  /\ \/ /\ ~RoleAccepted(usb)
        /\ usb' = asked
        /\ UNCHANGED <<flash, config, dirty, dirtyAge, persistOk>>
     \/ /\ RoleAccepted(usb)
        /\ persist => ok
        /\ usb' = asked
        /\ SaveThenCommit(next, persist, ok)
     \/ /\ RoleAccepted(usb)
        /\ persist /\ ~ok
        /\ usb' = undone
        /\ persistOk' = FALSE
        /\ IF RoleAccepted(asked)
           THEN UNCHANGED <<config, dirty, dirtyAge>>
           ELSE config' = next /\ MarkDirty
        /\ UNCHANGED flash

(* sf32lb52_bridge_runtime_set_role with the role already in force.         *)
KeepRole(role, persist, ok) ==
  /\ role = config.role
  /\ IF persist
     THEN SaveNow(config, ok)
     ELSE UNCHANGED <<flash, config, dirty, dirtyAge, persistOk>>
  /\ UNCHANGED <<usb, pollAge, active, phase>>

SetRole(role, persist, ok) ==
  CommandPhase /\ (ChangeRole(role, persist, ok) \/ KeepRole(role, persist, ok))

(* sf32lb52_bridge_runtime_cycle_role.                                      *)
CycleRole(persist, ok) ==
  CommandPhase /\ ChangeRole(NextRole(config.role), persist, ok)

(* sf32lb52_bridge_runtime_reset_settings.                                  *)
ResetSettings(ok) ==
  LET moved == config.role # Defaults.role
      asked == IF moved THEN RequestRole(usb, Defaults.role) ELSE usb
      undone == IF moved THEN RequestRole(asked, config.role) ELSE asked
  IN
  /\ CommandPhase
  /\ UNCHANGED <<pollAge, phase>>
  /\ \/ /\ moved /\ ~RoleAccepted(usb)
        /\ usb' = asked
        /\ UNCHANGED <<flash, config, dirty, dirtyAge, persistOk, active>>
     \/ /\ moved => RoleAccepted(usb)
        /\ ok
        /\ usb' = asked
        /\ DeleteRecord(ok)
        /\ config' = Defaults
        /\ MarkClean
        /\ active' = NoInput
     \/ /\ moved => RoleAccepted(usb)
        /\ ~ok
        /\ usb' = undone
        /\ persistOk' = FALSE
        /\ IF moved /\ ~RoleAccepted(asked)
           THEN config' = [config EXCEPT !.role = Defaults.role] /\ MarkDirty
           ELSE UNCHANGED <<config, dirty, dirtyAge>>
        /\ UNCHANGED <<flash, active>>

(***************************************************************************)
(* Operations on the other settings.                                       *)
(***************************************************************************)

(* As SetInputPreference, with the active input kept.                       *)
SetInputPreferenceKeepsInput(preference, persist, ok) ==
  /\ CommandPhase
  /\ SaveThenCommit([config EXCEPT !.preference = preference], persist, ok)
  /\ UNCHANGED <<usb, pollAge, active, phase>>

(* sf32lb52_bridge_runtime_set_input_preference: also releases an active    *)
(* input that the new preference does not accept.                           *)
SetInputPreference(preference, persist, ok) ==
  /\ CommandPhase
  /\ SaveThenCommit([config EXCEPT !.preference = preference], persist, ok)
  /\ active' = IF (persist /\ ~ok) \/ PreferenceAccepts(preference, active)
               THEN active ELSE NoInput
  /\ UNCHANGED <<usb, pollAge, phase>>

(* sf32lb52_bridge_runtime_set_auto_connect.                                *)
SetAutoConnect(enabled, persist, ok) ==
  /\ CommandPhase
  /\ SaveThenCommit([config EXCEPT !.autoConnect = enabled], persist, ok)
  /\ UNCHANGED <<usb, pollAge, active, phase>>

(* sf32lb52_bridge_runtime_forget_input, called by the forget commands and  *)
(* by the loop itself when a link key has gone missing.                     *)
ForgetInput(input, persist, ok) ==
  /\ phase \in {"task", "commands", "links"}
  /\ SaveThenCommit([config EXCEPT !.target[input] = NoAddress], persist, ok)
  /\ active' = IF (persist /\ ~ok) \/ active # input THEN active ELSE NoInput
  /\ UNCHANGED <<usb, pollAge, phase>>

(* The "settings save" manager command.                                     *)
SaveSettings(ok) ==
  /\ CommandPhase
  /\ SaveNow(config, ok)
  /\ UNCHANGED <<usb, pollAge, active, phase>>

(* The "usb reconnect" command.                                             *)
Reconnect(registerOk) ==
  /\ CommandPhase
  /\ usb' = ForceReconnect(usb, registerOk)
  /\ UNCHANGED <<flash, config, dirty, dirtyAge, pollAge, persistOk, active, phase>>

(***************************************************************************)
(* What the wireless links do to the settings.                             *)
(***************************************************************************)

(* sf32lb52_bridge_runtime_accept_input when the source becomes the active  *)
(* one.  Whether a takeover is due is a matter of time, left open here.     *)
AcceptInput(input) ==
  /\ phase = "commands"
  /\ PreferenceAccepts(config.preference, input)
  /\ active # input
  /\ active' = input
  /\ config' = [config EXCEPT !.lastActive = input]
  /\ MarkDirty
  /\ UNCHANGED <<flash, usb, pollAge, persistOk, phase>>

(* sf32lb52_bridge_runtime_release_input when a link has gone down.         *)
ReleaseInput(input) ==
  /\ phase = "links"
  /\ active = input
  /\ active' = NoInput
  /\ UNCHANGED <<flash, usb, config, dirty, dirtyAge, pollAge, persistOk, phase>>

(* sf32lb52_bridge_runtime_remember_ds5 and _ns2 for a controller that is   *)
(* connected.                                                               *)
RememberInput(input, address) ==
  /\ phase = "links"
  /\ config.target[input] # address
  /\ config' = [config EXCEPT !.target[input] = address]
  /\ MarkDirty
  /\ UNCHANGED <<flash, usb, pollAge, persistOk, active, phase>>

(* The loop remembers a freshly paired DualSense and saves at once.  The    *)
(* save inside is save_settings on a configuration just marked dirty.       *)
RememberPaired(address, ok) ==
  LET next == [config EXCEPT !.target["dualsense"] = address] IN
  /\ phase = "links"
  /\ config.target["dualsense"] # address
  /\ config' = next
  /\ WriteRecord(next, ok)
  /\ dirty' = ~ok
  /\ dirtyAge' = IF ok THEN 0 ELSE pollAge
  /\ persistOk' = ok
  /\ UNCHANGED <<usb, pollAge, active, phase>>

(***************************************************************************)
(* The loop.                                                               *)
(***************************************************************************)

(* sf32lb52_usb_device_task.                                                *)
DeviceTask(registerOk, rollbackOk) ==
  /\ phase = "task"
  /\ usb' = TaskRole(usb, registerOk, rollbackOk)
  /\ phase' = "commands"
  /\ UNCHANGED <<flash, config, dirty, dirtyAge, pollAge, persistOk, active>>

(* As SaveDue, giving up on the flash once a save has failed.               *)
SaveDueWhileHealthy == dirty /\ persistOk /\ dirtyAge >= Defer

(* sf32lb52_bridge_runtime_poll: a deferred save when one is due.           *)
SaveDue == dirty /\ dirtyAge >= Defer

Poll(ok) ==
  /\ phase = "commands"
  /\ phase' = "sync"
  /\ pollAge' = 0
  /\ IF SaveDue
     THEN /\ WriteRecord(config, ok)
          /\ dirty' = ~ok
          /\ dirtyAge' = 0
          /\ persistOk' = ok
     ELSE UNCHANGED <<flash, dirty, dirtyAge, persistOk>>
  /\ UNCHANGED <<usb, config, active>>

(* sf32lb52_bridge_runtime_sync_role, called with persist set when no       *)
(* switch is pending and the persona on the wire is another one.            *)
SyncRole(ok) ==
  LET next == [config EXCEPT !.role = usb.role] IN
  /\ phase = "sync"
  /\ phase' = "links"
  /\ IF ~usb.requested /\ usb.role # config.role
     THEN /\ config' = next
          /\ WriteRecord(next, ok)
          /\ IF ok THEN MarkClean
             ELSE MarkDirty /\ persistOk' = FALSE
     ELSE UNCHANGED <<flash, config, dirty, dirtyAge, persistOk>>
  /\ UNCHANGED <<usb, pollAge, active>>

(* platform_sleep_ms and whatever else the iteration took.                  *)
Sleep(elapsed) ==
  /\ phase = "links"
  /\ phase' = "task"
  /\ usb' = AgeSwitch(usb, elapsed)
  /\ dirtyAge' = IF dirty THEN Lesser(dirtyAge + elapsed, Defer) ELSE 0
  /\ pollAge' = Lesser(pollAge + elapsed, Defer)
  /\ UNCHANGED <<flash, config, dirty, persistOk, active>>

(***************************************************************************)
(* The specification.                                                      *)
(***************************************************************************)

Command(persist, ok) ==
  \/ \E role \in RoleRequests : SetRole(role, persist, ok)
  \/ CycleRole(persist, ok)
  \/ \E preference \in Preferences : SetInputPreference(preference, persist, ok)
  \/ \E enabled \in AutoRequests : SetAutoConnect(enabled, persist, ok)
  \/ \E input \in Inputs : ForgetInput(input, persist, ok)

Link ==
  \/ \E input \in Inputs : AcceptInput(input) \/ ReleaseInput(input)
  \/ \E input \in Inputs, address \in Addresses : RememberInput(input, address)
  \/ \E address \in Addresses, ok \in BOOLEAN :
       "dualsense" \in Inputs /\ RememberPaired(address, ok)

Disturbance ==
  \/ \E persist \in PersistRequests, ok \in BOOLEAN : Command(persist, ok)
  \/ \E ok \in BOOLEAN : SaveSettings(ok) \/ ResetSettings(ok) \/ Reconnect(ok)
  \/ Link
  \/ \E readOk \in BootReads, registerOk \in BOOLEAN : Reboot(readOk, registerOk)

Loop ==
  \/ \E registerOk, rollbackOk \in BOOLEAN : DeviceTask(registerOk, rollbackOk)
  \/ \E ok \in BOOLEAN : Poll(ok) \/ SyncRole(ok)
  \/ \E elapsed \in 1 .. MaxSleep : Sleep(elapsed)

Next == Disturbance \/ Loop

Spec == Init /\ [][Next]_vars

(* The loop never stops (its task is the only one at its priority that does *)
(* not block for ever), and a flash that is asked to save again and again   *)
(* takes one of the writes.                                                 *)
Fairness ==
  /\ WF_vars(Loop)
  /\ SF_vars(SaveDue /\ Poll(TRUE))

FairSpec == Spec /\ Fairness

=============================================================================
