------------------------- MODULE BridgeRuntimeProps -------------------------
(***************************************************************************)
(* The correctness properties of the bridge runtime.                       *)
(***************************************************************************)
EXTENDS BridgeRuntime

(* The runtime's role and the USB device's role always name the same        *)
(* persona: a pending switch is towards the role the runtime describes,     *)
(* and without one the two agree, except between a switch that failed and   *)
(* the comparison the loop makes later in the same iteration.               *)
RoleAgreement ==
  /\ usb.requested => /\ usb.initialized
                      /\ usb.pending = config.role
                      /\ usb.pending # usb.role
  /\ ~usb.requested => usb.pending = usb.role
  /\ phase \in {"task", "links"} => usb.pending = config.role

(* What the status report claims is true: with last_persist_ok set and      *)
(* nothing dirty, a reset would bring back exactly the configuration in     *)
(* force, whichever saves failed and whichever switches were undone before. *)
DurableWhenClean == persistOk /\ ~dirty => StoredConfig = config

(* An input that drives the output is one the preference accepts, and it is *)
(* the one recorded for the next boot.                                      *)
ActiveInputAllowed ==
  active # NoInput => /\ PreferenceAccepts(config.preference, active)
                      /\ config.lastActive = active

(* A paired controller is lost only when it is forgotten, when the settings *)
(* are reset, at a boot that cannot read NVDS, or at one that finds the     *)
(* controller not yet saved, whose deferred save was then still due.  No    *)
(* failed save, no undone role switch and no other step loses it, and the   *)
(* flash gives it up only together with the configuration.                  *)
TargetLostOnlyByForget ==
  [][\A input \in Inputs :
       /\ /\ config.target[input] # NoAddress
          /\ config'.target[input] = NoAddress
          => \/ \E persist \in PersistRequests, ok \in BOOLEAN : ForgetInput(input, persist, ok)
             \/ \E ok \in BOOLEAN : ResetSettings(ok)
             \/ \E readOk \in BootReads, ok \in BOOLEAN :
                  /\ Reboot(readOk, ok)
                  /\ readOk => dirty /\ StoredConfig.target[input] = NoAddress
       /\ /\ StoredConfig.target[input] # NoAddress
          /\ StoredConfig'.target[input] = NoAddress
          => config'.target[input] = NoAddress]_vars

(* The runtime implements the abstract persona switch.                      *)
Persona == INSTANCE PersonaSwitch
  WITH intended <- config.role, wire <- usb.role, stored <- StoredConfig.role

PersonaSwitching == Persona!AbstractSpec

(* Once commands, links and resets leave the bridge alone, a pending or     *)
(* failed switch comes to an end with both sides on one persona.            *)
Quiet == <>[][Loop]_vars

SwitchSettles == Quiet => <>[](config.role = usb.role /\ ~usb.requested)

(* Once left alone, whatever is dirty reaches the flash, although saves may *)
(* fail and are not retried before the deferral has passed again.           *)
DirtyIsSaved == Quiet => <>[](~dirty)

(* The comment in bridge_usb_output (sf32lb52_app.c) says that during a     *)
(* role change USB is switched before the flash is written and the runtime  *)
(* role is committed: a role enters the configuration or the flash only     *)
(* with that persona already on the wire.                                   *)
SwitchedBeforeCommit ==
  [][/\ config'.role # config.role => usb'.role = config'.role
     /\ StoredConfig'.role # StoredConfig.role
          => usb'.role = StoredConfig'.role]_vars

=============================================================================
