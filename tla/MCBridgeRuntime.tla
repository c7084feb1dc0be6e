--------------------------- MODULE MCBridgeRuntime ---------------------------
(***************************************************************************)
(* Instances of the bridge runtime for TLC.  One time unit stands for the  *)
(* 500 ms of the persona grace period; a deferral of two units is shorter  *)
(* than the code's four but still longer than the grace, so that a         *)
(* deferred save can fall before, on and after a persona switch.           *)
(***************************************************************************)
EXTENDS BridgeRuntimeProps

AllRoles == Roles
TwoRoles == {"xbox360", "ns2pro"}
OneInput == {"dualsense"}
NoInputs == {}
AutoOnly == {"auto"}
AutoOrNs2 == {"auto", "ns2pro"}
AutoOn == {TRUE}
AnyBoot == BOOLEAN
SavedOrNot == BOOLEAN
Saved == {TRUE}

=============================================================================
