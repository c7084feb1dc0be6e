---------------------------- MODULE PersonaSwitch ----------------------------
(***************************************************************************)
(* What changing the persona promises, without the flash transaction, the  *)
(* grace period, the rollback or the loop: three registers that hold a     *)
(* role.  The wire only ever takes the role that was intended, the         *)
(* intention is withdrawn only in favour of what is on the wire, and the   *)
(* stored role only ever becomes the intended one.                         *)
(***************************************************************************)
EXTENDS BridgeRoles

VARIABLES
  intended,  (* the role the bridge describes and encodes reports for      *)
  wire,      (* the persona presented to the host                          *)
  stored     (* the role a reset would bring back                          *)

abstractVars == <<intended, wire, stored>>

FactoryRole == "ns2pro"

AbstractInit ==
  /\ stored = FactoryRole
  /\ intended = stored
  /\ wire = stored

(* A new role is asked for, and stored with it or later.                    *)
Choose(role) ==
  /\ intended' = role
  /\ stored' \in {stored, role}
  /\ UNCHANGED wire

(* The host sees the intended persona.                                      *)
Switch ==
  /\ wire' = intended
  /\ UNCHANGED <<intended, stored>>

(* The switch failed: the bridge goes on with the persona it has.           *)
Settle ==
  /\ intended' = wire
  /\ stored' \in {stored, wire}
  /\ UNCHANGED wire

(* What was intended is stored.                                             *)
Store ==
  /\ stored' = intended
  /\ UNCHANGED <<intended, wire>>

(* A reset of the board: both sides start with the stored role, or with the *)
(* factory role when the store cannot be read.                              *)
Restart ==
  /\ intended' \in {stored, FactoryRole}
  /\ wire' = intended'
  /\ UNCHANGED stored

AbstractNext ==
  \/ \E role \in Roles : Choose(role)
  \/ Switch
  \/ Settle
  \/ Store
  \/ Restart

AbstractSpec == AbstractInit /\ [][AbstractNext]_abstractVars

=============================================================================
