--------------------------- MODULE BridgeSettings ---------------------------
(***************************************************************************)
(* The persisted configuration and the flash record that holds it          *)
(* (sf32lb52_bridge_settings.c).  The record is written whole, under one   *)
(* NVDS key; a record that is absent, unreadable or fails its checks loads *)
(* as the defaults.  The wire format, the CRC and the generation counter   *)
(* are left out: no decision of the code depends on them once a record     *)
(* decodes.                                                                *)
(***************************************************************************)
EXTENDS BridgeRoles

CONSTANTS
  Inputs,       (* the wireless sources of this instance                   *)
  Preferences,  (* the preferences of this instance                        *)
  Addresses,    (* Bluetooth addresses a controller may have               *)
  NoAddress,    (* an address whose valid flag is clear                    *)
  NoRecord      (* the flash key does not exist                            *)

ASSUME InputsAssumption == Inputs \subseteq Sources

ASSUME PreferencesAssumption ==
  Preferences \subseteq PreferenceValues /\ "auto" \in Preferences

ASSUME NoAddressAssumption == NoAddress \notin Addresses

VARIABLE flash

(* sf32lb52_bridge_persisted_config_t.                                      *)
Config ==
  [role        : Roles,
   preference  : Preferences,
   autoConnect : BOOLEAN,
   target      : [Inputs -> Addresses \cup {NoAddress}],
   lastActive  : Inputs \cup {NoInput}]

ASSUME NoRecordAssumption == NoRecord \notin Config

(* sf32lb52_bridge_settings_defaults.                                       *)
Defaults ==
  [role        |-> "ns2pro",
   preference  |-> "auto",
   autoConnect |-> TRUE,
   target      |-> [i \in Inputs |-> NoAddress],
   lastActive  |-> NoInput]

(* The configuration the flash stands for, and what a load returns.         *)
StoredConfig == IF flash = NoRecord THEN Defaults ELSE flash

LoadSucceeds(readOk) == readOk /\ flash # NoRecord

(* As LoadedConfig, with a decoder that rejects an absent last input.       *)
LoadedConfigNeedsLastActive(readOk) ==
  IF LoadSucceeds(readOk) /\ flash.lastActive # NoInput THEN flash ELSE Defaults

LoadedConfig(readOk) == IF LoadSucceeds(readOk) THEN flash ELSE Defaults

(* sf32lb52_bridge_settings_save and _reset: one flash transaction that     *)
(* takes effect or leaves the old record in place.                          *)
WriteRecord(next, ok) == flash' = IF ok THEN next ELSE flash

DeleteRecord(ok) == flash' = IF ok THEN NoRecord ELSE flash

SettingsTypeOK == flash \in Config \cup {NoRecord}

=============================================================================
