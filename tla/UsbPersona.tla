----------------------------- MODULE UsbPersona -----------------------------
(***************************************************************************)
(* The role half of the USB device (usb/sf32lb52_usb_device.c): the        *)
(* persona on the wire, the switch that has been requested but not yet     *)
(* made, and whether the device stack is registered at all.                *)
(*                                                                         *)
(* The operations are functions of the record usb, because the runtime     *)
(* calls them several times within one of its own operations.  age is the  *)
(* time since the pending switch was requested, saturated at Grace (the    *)
(* 500 ms the code leaves the host to fetch the manager's reply); it is 0  *)
(* when no switch is pending.                                              *)
(***************************************************************************)
EXTENDS BridgeRoles, Naturals

CONSTANT Grace

ASSUME GraceAssumption == Grace \in Nat

VARIABLE usb

UsbRecord ==
  [role : Roles, pending : Roles, requested : BOOLEAN,
   initialized : BOOLEAN, age : 0 .. Grace]

(* sf32lb52_usb_device_init; registerOk is usbd_initialize's result.        *)
DeviceInit(identity, registerOk) ==
  [role |-> identity, pending |-> identity, requested |-> FALSE,
   initialized |-> registerOk, age |-> 0]

(* sf32lb52_usb_request_role: RoleAccepted is its result and RequestRole    *)
(* its effect.  Asking for the persona on the wire cancels a pending        *)
(* switch; a device that is not registered refuses every request.           *)
RoleAccepted(u) == u.initialized

(* As RequestRole, with an early return when the persona is on the wire.    *)
RequestRoleReturnsEarly(u, role) ==
  IF u.initialized /\ role # u.role
  THEN [u EXCEPT !.pending = role, !.requested = TRUE, !.age = 0]
  ELSE u

RequestRole(u, role) ==
  IF u.initialized
  THEN [u EXCEPT !.pending = role, !.requested = role # u.role, !.age = 0]
  ELSE [u EXCEPT !.pending = u.role, !.requested = FALSE, !.age = 0]

(* As ApplyPendingRole, with the request kept for another try on failure.   *)
ApplyPendingRoleRetries(u, registerOk, rollbackOk) ==
  IF registerOk \/ u.pending = u.role
  THEN [u EXCEPT !.role = u.pending, !.requested = FALSE, !.age = 0]
  ELSE [u EXCEPT !.age = 0]

(* usb_apply_pending_role: disconnect, register the new persona, and on     *)
(* failure register the old one again.                                      *)
ApplyPendingRole(u, registerOk, rollbackOk) ==
  IF registerOk \/ u.pending = u.role
  THEN [u EXCEPT !.role = u.pending, !.requested = FALSE, !.age = 0]
  ELSE [u EXCEPT !.pending = u.role, !.requested = FALSE, !.age = 0,
                 !.initialized = rollbackOk]

(* The role part of sf32lb52_usb_device_task.                               *)
SwitchDue(u) == u.requested /\ (u.initialized => u.age >= Grace)

TaskRole(u, registerOk, rollbackOk) ==
  IF ~SwitchDue(u) THEN u
  ELSE IF u.initialized THEN ApplyPendingRole(u, registerOk, rollbackOk)
  ELSE [u EXCEPT !.pending = u.role, !.requested = FALSE, !.age = 0]

(* sf32lb52_usb_force_reconnect: registers the current persona again when   *)
(* an earlier registration failed.                                          *)
ForceReconnect(u, registerOk) ==
  [u EXCEPT !.initialized = @ \/ registerOk]

(* The passage of time, as far as the pending switch can see it.            *)
AgeSwitch(u, elapsed) ==
  IF u.requested
  THEN [u EXCEPT !.age = IF @ + elapsed > Grace THEN Grace ELSE @ + elapsed]
  ELSE u

=============================================================================
