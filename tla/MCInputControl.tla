-------------------------- MODULE MCInputControl ---------------------------
(***************************************************************************)
(* Instances of the input control for TLC.                                 *)
(***************************************************************************)
EXTENDS InputControl

(* A controller of each kind is known, and starts by itself.                *)
Known == {c \in Settings : c.ds5 # None /\ c.ns2 = "n1" /\ c.preference = "auto" /\ c.auto}
SomePassed == {{}, Times}

=============================================================================
