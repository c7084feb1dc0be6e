----------------------------- MODULE BridgeRoles -----------------------------
(***************************************************************************)
(* The vocabulary the bridge's components share: the USB personas it can   *)
(* present to the host, the wireless inputs it can take reports from, and  *)
(* the two small functions of them that several components consult.        *)
(***************************************************************************)

(* sf32lb52_bridge_role_t, and its USB-side twin Sf32lb52UsbRole.           *)
Roles == {"xbox360", "dualsense", "dualsense_edge", "ns2pro"}

(* sf32lb52_bridge_input_source_t without NONE, and NONE itself.            *)
Sources == {"dualsense", "ns2pro"}
NoInput == "none"

(* sf32lb52_bridge_input_preference_t: AUTO, or one source by name.         *)
PreferenceValues == Sources \cup {"auto"}

(* preference_accepts: whether a preference lets a source drive the output. *)
PreferenceAccepts(preference, source) ==
  preference = "auto" \/ preference = source

(* As NextRole, with a cycle that runs one past the last persona.           *)
NextRolePastEnd(role) ==
  CASE role = "xbox360"        -> "dualsense"
    [] role = "dualsense"      -> "dualsense_edge"
    [] role = "dualsense_edge" -> "ns2pro"
    [] OTHER                   -> "count"

(* The order in which "role next" walks the personas.                       *)
NextRole(role) ==
  CASE role = "xbox360"        -> "dualsense"
    [] role = "dualsense"      -> "dualsense_edge"
    [] role = "dualsense_edge" -> "ns2pro"
    [] OTHER                   -> "xbox360"

=============================================================================
