---------------------------- MODULE InputArbiter ----------------------------
(***************************************************************************)
(* Which controller drives the output, and for how long: the mailboxes the *)
(* Bluetooth callbacks fill (sf32lb52_app.c), the arbitration between the  *)
(* two sources (sf32lb52_bridge_runtime_accept_input and _release_input),  *)
(* and the reports the loop makes of the result, translated or passed      *)
(* through from a controller of the same kind.                             *)
(*                                                                         *)
(* A sample carries the time at which its callback stamped it, and the     *)
(* runtime keeps the stamp of the last sample it accepted.  Both are ages  *)
(* here, saturated at Cap.  The code subtracts such stamps as unsigned     *)
(* 32-bit numbers: a sample stamped before the last accepted one looks as  *)
(* if almost 2^32 ms had passed.  Silences of 2^32 ms (49 days) are left   *)
(* out.                                                                    *)
(*                                                                         *)
(* Operators named for another one and a fault ("MayDriveAnySilence") are    *)
(* mutated forms, kept to show that the properties can fail.               *)
(***************************************************************************)
EXTENDS BridgeRoles, Naturals

CONSTANTS
  Stale,       (* SF32LB52_BRIDGE_INPUT_STALE_MS                           *)
  Takeover,    (* SF32LB52_BRIDGE_INPUT_TAKEOVER_MS                        *)
  MaxSleep,    (* bound on the time one loop iteration takes               *)
  OutputRoles, (* the personas of this instance                            *)
  Preferences, (* the preferences commands of this instance ask for        *)
  Skewed       (* whether time and a callback can come between the reads   *)
               (* of the two mailboxes                                     *)

ASSUME TimesAssumption == Stale \in Nat /\ Takeover \in Nat /\ MaxSleep \in Nat
ASSUME OutputRolesAssumption == OutputRoles \subseteq Roles
ASSUME PreferencesAssumption == Preferences \subseteq PreferenceValues
ASSUME SkewedAssumption == Skewed \in BOOLEAN

VARIABLES
  preference,  (* config.input_preference                                  *)
  role,        (* config.output_role                                       *)
  arb,         (* what arbitration knows, see Arbitration                  *)
  link,        (* link[s]: the controller is connected                     *)
  seen,        (* ds5_was_connected, ns2_was_connected                     *)
  mail,        (* mail[s]: age of the sample not taken yet                 *)
  taken,       (* age of the NS2 sample taken in this iteration            *)
  snapshot,    (* age of the last NS2 sample ns2_profile was given         *)
  shown,       (* the last report made for the host                        *)
  phase

vars == <<preference, role, arb, link, seen, mail, taken, snapshot, shown, phase>>

(* A sample is taken before it is older than this, and a silence is told    *)
(* from a shorter one up to Cap.                                            *)
OldestSample == IF Skewed THEN 2 * MaxSleep + 1 ELSE MaxSleep
Cap == Takeover + OldestSample + 1
NoSample == Cap + 1
Ages == 0 .. Cap
Phases == {"commands", "ds5", "poll", "links", "report", "sleep"}

(* active_input, input_valid, input_stale, the age of last_input_ms, the    *)
(* source of the state held in g_runtime.input, last_active_input and the   *)
(* age of latest_ds5_passthrough.                                           *)
Arbitration ==
  [active : Sources \cup {NoInput}, valid : BOOLEAN, stale : BOOLEAN, age : Ages,
   input : Sources \cup {NoInput}, lastActive : Sources \cup {NoInput},
   passthrough : Ages \cup {NoSample}]

TypeOK ==
  /\ preference \in PreferenceValues
  /\ role \in OutputRoles
  /\ arb \in Arbitration
  /\ link \in [Sources -> BOOLEAN]
  /\ seen \in [Sources -> BOOLEAN]
  /\ mail \in [Sources -> Ages \cup {NoSample}]
  /\ taken \in Ages \cup {NoSample}
  /\ snapshot \in Ages \cup {NoSample}
  /\ shown \in [source : Sources \cup {NoInput}, age : Ages]
  /\ phase \in Phases

Neutral == [source |-> NoInput, age |-> 0]

Init ==
  /\ preference = "auto"
  /\ role \in OutputRoles
  /\ arb = [active |-> NoInput, valid |-> FALSE, stale |-> FALSE, age |-> 0,
            input |-> NoInput, lastActive |-> NoInput, passthrough |-> NoSample]
  /\ link = [s \in Sources |-> FALSE]
  /\ seen = [s \in Sources |-> FALSE]
  /\ mail = [s \in Sources |-> NoSample]
  /\ taken = NoSample
  /\ snapshot = NoSample
  /\ shown = Neutral
  /\ phase = "commands"

(***************************************************************************)
(* Arbitration.                                                            *)
(***************************************************************************)

(* now_ms - last_input_ms in 32 bits, for a sample of this age.             *)
SinceLast(r, age) == IF age > r.age THEN Cap ELSE r.age - age

MayDriveAnySilence(r, source, age) == PreferenceAccepts(preference, source)

MayDriveWithoutTakeover(r, source, age) ==
  PreferenceAccepts(preference, source) /\ r.active \in {NoInput, source}

(* Whether a source may drive the output with a sample of this age.         *)
MayDrive(r, source, age) ==
  /\ PreferenceAccepts(preference, source)
  /\ r.active \in {NoInput, source} \/ SinceLast(r, age) > Takeover


(* sf32lb52_bridge_runtime_accept_input, with the passthrough copy that     *)
(* bridge_apply_ds5_input keeps of an accepted DualSense sample.            *)
Accept(r, source, age) ==
  IF ~MayDrive(r, source, age) THEN r
  ELSE [r EXCEPT !.active = source, !.lastActive = source, !.input = source,
                 !.valid = TRUE, !.stale = FALSE, !.age = age,
                 !.passthrough = IF source = "dualsense" THEN age ELSE @]

(* sf32lb52_bridge_runtime_release_input for the source that is active.     *)
(* last_input_ms is not read again before the next accepted sample.         *)
Released(r) ==
  [r EXCEPT !.active = NoInput, !.valid = FALSE, !.stale = TRUE, !.age = 0,
            !.input = NoInput]

(***************************************************************************)
(* The Bluetooth side.                                                     *)
(***************************************************************************)

(* Callbacks come at any time.  These are the last phases before a sample,  *)
(* or the state of a link, is read or gets older, which is all that shows.  *)
BeforeRead == phase \in {"commands", "sleep"} \/ (Skewed /\ phase = "ds5")
BeforeObserved == phase \in {"links", "sleep"}

(* bridge_on_ds5_input, bridge_on_ns2_input: the newest sample wins.        *)
Publish(source) ==
  /\ BeforeRead
  /\ link[source]
  /\ mail' = [mail EXCEPT ![source] = 0]
  /\ UNCHANGED <<preference, role, arb, link, seen, taken, snapshot, shown, phase>>

(* A controller connects or its link is lost.                               *)
ChangeLink(source) ==
  /\ BeforeObserved
  /\ link' = [link EXCEPT ![source] = ~@]
  /\ UNCHANGED <<preference, role, arb, seen, mail, taken, snapshot, shown, phase>>

(***************************************************************************)
(* The loop.                                                               *)
(***************************************************************************)

SetPreferenceKeepsInput(value) ==
  /\ phase = "commands"
  /\ preference' = value
  /\ UNCHANGED <<role, arb, link, seen, mail, taken, snapshot, shown, phase>>

(* sf32lb52_bridge_runtime_set_input_preference as the commands use it.     *)
SetPreference(value) ==
  /\ phase = "commands"
  /\ preference' = value
  /\ arb' = IF arb.active = NoInput \/ PreferenceAccepts(value, arb.active)
            THEN arb ELSE Released(arb)
  /\ UNCHANGED <<role, link, seen, mail, taken, snapshot, shown, phase>>

(* sf32lb52_bridge_runtime_forget_input and _reset_settings, as far as they *)
(* concern the active input.                                                *)
Forget ==
  /\ phase \in {"commands", "links"}
  /\ arb.active # NoInput
  /\ arb' = Released(arb)
  /\ UNCHANGED <<preference, role, link, seen, mail, taken, snapshot, shown, phase>>

(* sf32lb52_bridge_runtime_set_role, and _sync_role when it corrects the    *)
(* role: the latter also empties the held input state.                      *)
ChangeRole(value, synced) ==
  /\ phase = IF synced THEN "links" ELSE "commands"
  /\ role # value
  /\ role' = value
  /\ arb' = IF synced THEN [arb EXCEPT !.input = NoInput] ELSE arb
  /\ UNCHANGED <<preference, link, seen, mail, taken, snapshot, shown, phase>>

(* bridge_take_ns2_input, the first of the two mailboxes to be read.        *)
TakeNs2 ==
  /\ phase = "commands"
  /\ phase' = "ds5"
  /\ taken' = mail["ns2pro"]
  /\ mail' = [mail EXCEPT !["ns2pro"] = NoSample]
  /\ UNCHANGED <<preference, role, arb, link, seen, snapshot, shown>>

(* bridge_take_ds5_input and the rest of bridge_process_wireless_inputs:    *)
(* two samples are applied in the order of their stamps.                    *)
TakeDs5AndApply ==
  LET ds5 == mail["dualsense"]
      ns2 == taken
      ds5First == ds5 > ns2 \/ (ds5 = ns2 /\ arb.lastActive = "dualsense")
  IN
  /\ phase = "ds5"
  /\ phase' = "poll"
  /\ mail' = [mail EXCEPT !["dualsense"] = NoSample]
  /\ taken' = NoSample
  /\ snapshot' = IF ns2 = NoSample THEN snapshot ELSE ns2
  /\ arb' = CASE ds5 = NoSample /\ ns2 = NoSample -> arb
              [] ds5 = NoSample /\ ns2 # NoSample -> Accept(arb, "ns2pro", ns2)
              [] ds5 # NoSample /\ ns2 = NoSample -> Accept(arb, "dualsense", ds5)
              [] OTHER ->
                   IF ds5First
                   THEN Accept(Accept(arb, "dualsense", ds5), "ns2pro", ns2)
                   ELSE Accept(Accept(arb, "ns2pro", ns2), "dualsense", ds5)
  /\ UNCHANGED <<preference, role, link, seen, shown>>

PollForgetsStale ==
  /\ phase = "poll"
  /\ phase' = "links"
  /\ UNCHANGED <<preference, role, arb, link, seen, mail, taken, snapshot, shown>>

(* The part of sf32lb52_bridge_runtime_poll that concerns the input.        *)
PollStale ==
  /\ phase = "poll"
  /\ phase' = "links"
  /\ arb' = [arb EXCEPT !.stale = @ \/ (arb.valid /\ arb.age > Stale)]
  /\ UNCHANGED <<preference, role, link, seen, mail, taken, snapshot, shown>>

(* The loop releases an input whose link it saw up before and down now.  In *)
(* a pass that remembers the address of a DualSense just paired it does not *)
(* come to that, and never makes up for it.                                 *)
ObserveLinks ==
  LET lost == arb.active # NoInput /\ seen[arb.active] /\ ~link[arb.active]
  IN
  /\ phase = "links"
  /\ phase' = "report"
  /\ seen' = link
  /\ \/ arb' = IF lost THEN Released(arb) ELSE arb
     \/ lost /\ arb.active = "dualsense" /\ UNCHANGED arb
  /\ UNCHANGED <<preference, role, link, mail, taken, snapshot, shown>>

(* sf32lb52_bridge_runtime_patch_native_input_report: an identity mapping   *)
(* leaves the native report as it is, another one needs a fresh input.      *)
Patched(identity) == identity \/ (arb.valid /\ arb.age <= Stale)

(* bridge_make_input_report: the two passthrough paths, then               *)
(* sf32lb52_bridge_runtime_make_input_report.                               *)
NativeNs2(identity) ==
  /\ role = "ns2pro" /\ arb.active = "ns2pro"
  /\ arb.valid /\ ~arb.stale
  /\ Patched(identity)

NativeDs5(identity) ==
  /\ role \in {"dualsense", "dualsense_edge"} /\ arb.active = "dualsense"
  /\ arb.valid /\ ~arb.stale
  /\ arb.passthrough <= Stale
  /\ Patched(identity)

MakeReport(identity) ==
  /\ phase = "report"
  /\ phase' = "sleep"
  /\ \/ /\ NativeNs2(identity)
        /\ shown' = [source |-> "ns2pro", age |-> snapshot]
        /\ UNCHANGED arb
     \/ /\ NativeDs5(identity)
        /\ shown' = [source |-> "dualsense", age |-> arb.passthrough]
        /\ UNCHANGED arb
     \/ /\ ~NativeNs2(identity) /\ ~NativeDs5(identity)
        /\ arb.valid /\ arb.age <= Stale
        /\ shown' = IF arb.input = NoInput THEN Neutral
                    ELSE [source |-> arb.input, age |-> arb.age]
        /\ UNCHANGED arb
     \/ /\ ~NativeNs2(identity) /\ ~NativeDs5(identity)
        /\ ~(arb.valid /\ arb.age <= Stale)
        /\ shown' = Neutral
        /\ arb' = [arb EXCEPT !.stale = TRUE]
  /\ UNCHANGED <<preference, role, link, seen, mail, taken, snapshot>>

(* The report interval has not passed yet.                                  *)
SkipReport ==
  /\ phase = "report"
  /\ phase' = "sleep"
  /\ UNCHANGED <<preference, role, arb, link, seen, mail, taken, snapshot, shown>>

Older(age, elapsed) ==
  IF age = NoSample THEN NoSample
  ELSE IF age + elapsed > Cap THEN Cap ELSE age + elapsed

(* Time passes: everything that carries a stamp gets older.                 *)
Age(elapsed) ==
  /\ arb' = [arb EXCEPT !.age = Older(@, elapsed), !.passthrough = Older(@, elapsed)]
  /\ mail' = [s \in Sources |-> Older(mail[s], elapsed)]
  /\ taken' = Older(taken, elapsed)
  /\ snapshot' = Older(snapshot, elapsed)
  /\ UNCHANGED <<preference, role, link, seen, shown>>

Sleep(elapsed) ==
  /\ phase = "sleep"
  /\ phase' = "commands"
  /\ Age(elapsed)

(* The loop is preempted for a while between the two mailboxes.             *)
Preempted ==
  /\ Skewed
  /\ phase = "ds5"
  /\ \A age \in {taken, mail["ns2pro"], mail["dualsense"]} :
       age \in 0 .. MaxSleep \cup {NoSample}
  /\ Age(1)
  /\ UNCHANGED phase

(***************************************************************************)
(* The specification.                                                      *)
(***************************************************************************)

Command ==
  \/ \E value \in Preferences : SetPreference(value)
  \/ Forget
  \/ \E value \in OutputRoles, synced \in BOOLEAN : ChangeRole(value, synced)

Bluetooth == \E s \in Sources : Publish(s) \/ ChangeLink(s)

Loop ==
  \/ TakeNs2
  \/ TakeDs5AndApply
  \/ PollStale
  \/ ObserveLinks
  \/ \E identity \in BOOLEAN : MakeReport(identity)
  \/ SkipReport
  \/ \E elapsed \in 1 .. MaxSleep : Sleep(elapsed)

Next == Command \/ Bluetooth \/ Loop \/ Preempted

Spec == Init /\ [][Next]_vars

(* The loop keeps running, and the host keeps asking for reports.           *)
FairSpec ==
  /\ Spec
  /\ WF_vars(Loop)
  /\ SF_vars(\E identity \in BOOLEAN : MakeReport(identity))

(***************************************************************************)
(* Properties.                                                             *)
(***************************************************************************)

(* No stuck buttons: a report that carries a controller's state carries the *)
(* one of the active controller, one the preference accepts, and is made    *)
(* from a sample no older than the stale limit.                             *)
ReportsAreFresh ==
  [][shown' # shown /\ shown'.source # NoInput =>
       /\ shown'.age <= Stale
       /\ shown'.source = arb.active
       /\ PreferenceAccepts(preference, shown'.source)]_vars

(* A controller in use is not displaced: the active input passes from one   *)
(* controller to the other only after the takeover time without a sample of *)
(* the first (test_single_active_and_stale_neutral: refused at 1500 ms,     *)
(* accepted at 1501 ms).  False when the loop is preempted between the two  *)
(* mailboxes: the sample it missed is stamped before the one it accepted.   *)
TakeoverNeedsSilence ==
  [][arb.active # NoInput /\ arb'.active \notin {NoInput, arb.active}
       => arb.age > Takeover]_vars

(* The same for samples that are taken in the order of their stamps, the    *)
(* only way a controller in use can be displaced earlier.                   *)
OrderedTakeoverNeedsSilence ==
  [][/\ arb.active # NoInput /\ arb'.active \notin {NoInput, arb.active}
     /\ arb'.age <= arb.age
     => arb.age > Takeover]_vars

(* A controller whose link stays down does not haunt the host: from some    *)
(* point on no report shows it, although a sample of it may be taken after  *)
(* the release.                                                             *)
GoneIsNeutral ==
  \A s \in Sources : <>[](~link[s]) => <>[](shown.source # s)

(* The output is not lost to a silent controller: a controller that keeps   *)
(* sending, while the other is silent and the preference accepts it, drives *)
(* the output again and again.                                              *)
SenderTakesOver ==
  \A s \in Sources :
    /\ <>[][\A t \in Sources \ {s} : ~Publish(t)]_vars
    /\ []<><<Publish(s)>>_vars
    /\ <>[]PreferenceAccepts(preference, s)
    => []<>(arb.active = s)

=============================================================================
