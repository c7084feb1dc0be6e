------------------------ MODULE BridgeRuntime_proofs ------------------------
(***************************************************************************)
(* Proofs about the bridge runtime, for every set of inputs, preferences,  *)
(* addresses and requests and every value of the time constants: it is     *)
(* type correct; from that, the two sides of a persona switch agree, the   *)
(* status report is honest and the active input is allowed; and every step *)
(* of its operations is one step of the abstract persona switch, or        *)
(* changes none of the three roles.                                        *)
(***************************************************************************)
EXTENDS BridgeRuntimeProps, TLAPS

(***************************************************************************)
(* What the USB role operations return.                                    *)
(***************************************************************************)

(* A request yields a USB record again, and it never touches the persona on *)
(* the wire or the registration.                                            *)
LEMMA RequestRoleType ==
  ASSUME NEW u \in UsbRecord, NEW role \in Roles
  PROVE  /\ RequestRole(u, role) \in UsbRecord
         /\ RequestRole(u, role).role = u.role
         /\ RequestRole(u, role).initialized = u.initialized
<1> DEFINE switching == role # u.role
<1>1. switching \in BOOLEAN
  OBVIOUS
<1>2. 0 \in 0 .. Grace
  BY GraceAssumption
<1>3. CASE u.initialized
  <2>1. RequestRole(u, role) = [u EXCEPT !.pending = role, !.requested = switching, !.age = 0]
    BY <1>3 DEF RequestRole
  <2> HIDE DEF switching
  <2>2. QED
    BY <2>1, <1>1, <1>2 DEF UsbRecord
<1>4. CASE ~u.initialized
  BY <1>4, <1>2 DEF RequestRole, UsbRecord
<1>5. QED
  BY <1>3, <1>4

(* So what was accepted once is accepted again: the rollback inside a role  *)
(* change can never be refused.                                             *)
LEMMA RollbackAccepted ==
  ASSUME NEW u \in UsbRecord, NEW role \in Roles, RoleAccepted(u)
  PROVE  RoleAccepted(RequestRole(u, role))
  BY RequestRoleType DEF RoleAccepted

(* The role task keeps the record well formed, whatever the registrations   *)
(* return.                                                                  *)
LEMMA TaskRoleType ==
  ASSUME NEW u \in UsbRecord, NEW registerOk \in BOOLEAN, NEW rollbackOk \in BOOLEAN
  PROVE  TaskRole(u, registerOk, rollbackOk) \in UsbRecord
<1>1. 0 \in 0 .. Grace
  BY GraceAssumption
<1>2. ApplyPendingRole(u, registerOk, rollbackOk) \in UsbRecord
  BY <1>1 DEF ApplyPendingRole, UsbRecord
<1>3. [u EXCEPT !.pending = u.role, !.requested = FALSE, !.age = 0] \in UsbRecord
  BY <1>1 DEF UsbRecord
<1>4. QED
  BY <1>2, <1>3 DEF TaskRole

(* The other USB operations keep it well formed too.                        *)
LEMMA DeviceInitType ==
  ASSUME NEW role \in Roles, NEW ok \in BOOLEAN
  PROVE  DeviceInit(role, ok) \in UsbRecord
  BY GraceAssumption DEF DeviceInit, UsbRecord

(* A reconnect yields a USB record.                                         *)
LEMMA ForceReconnectType ==
  ASSUME NEW u \in UsbRecord, NEW ok \in BOOLEAN
  PROVE  ForceReconnect(u, ok) \in UsbRecord
  BY DEF ForceReconnect, UsbRecord

(* The passage of time yields a USB record.                                 *)
LEMMA AgeSwitchType ==
  ASSUME NEW u \in UsbRecord, NEW elapsed \in Nat
  PROVE  AgeSwitch(u, elapsed) \in UsbRecord
  BY GraceAssumption DEF AgeSwitch, UsbRecord

(***************************************************************************)
(* Type correctness.                                                       *)
(***************************************************************************)

(* The factory configuration is a configuration.                            *)
LEMMA DefaultsType == Defaults \in Config
  BY PreferencesAssumption DEF Defaults, Config, Roles, NoInput

(* The next role of the cycle is a role.                                    *)
LEMMA NextRoleType == \A role \in Roles : NextRole(role) \in Roles
  BY DEF NextRole, Roles

(* The part of the type invariant that is about settings and their flash.   *)
PersistTypeOK ==
  /\ flash \in Config \cup {NoRecord}
  /\ config \in Config
  /\ dirty \in BOOLEAN
  /\ dirtyAge \in 0 .. Defer
  /\ persistOk \in BOOLEAN

(* The type invariant of the next state, part by part.                      *)
LEMMA TypeOKNext ==
  ASSUME PersistTypeOK', usb' \in UsbRecord, pollAge' \in 0 .. Defer,
         active' \in Inputs \cup {NoInput}, phase' \in Phases
  PROVE  TypeOK'
  BY DEF TypeOK, SettingsTypeOK, PersistTypeOK

(* An operation that leaves the settings alone keeps their part of it.      *)
LEMMA PersistUnchanged ==
  ASSUME TypeOK, UNCHANGED <<flash, config, dirty, dirtyAge, persistOk>>
  PROVE  PersistTypeOK'
  BY DEF TypeOK, SettingsTypeOK, PersistTypeOK

(* Marking dirty, with a well-formed configuration and the flash untouched. *)
LEMMA MarkDirtyType ==
  ASSUME TypeOK, config' \in Config, flash' = flash, persistOk' \in BOOLEAN, MarkDirty
  PROVE  PersistTypeOK'
  BY DEF TypeOK, SettingsTypeOK, PersistTypeOK, MarkDirty

(* The shared pieces keep the types of what they write.                     *)
LEMMA SaveThenCommitType ==
  ASSUME TypeOK, NEW next \in Config, NEW persist \in BOOLEAN, NEW ok \in BOOLEAN,
         SaveThenCommit(next, persist, ok)
  PROVE  PersistTypeOK'
<1>1. CASE persist /\ ok
  <2>1. flash' = next /\ config' = next /\ dirty' = FALSE /\ dirtyAge' = 0 /\ persistOk' = TRUE
    BY <1>1, Zenon DEF SaveThenCommit, WriteRecord, MarkClean
  <2>2. 0 \in 0 .. Defer
    BY DeferAssumption
  <2>3. QED
    BY <2>1, <2>2, Zenon DEF PersistTypeOK
<1>2. CASE persist /\ ~ok
  BY <1>2 DEF TypeOK, SettingsTypeOK, PersistTypeOK, SaveThenCommit, WriteRecord, SaveFailed
<1>3. CASE ~persist
  BY <1>3 DEF TypeOK, SettingsTypeOK, PersistTypeOK, SaveThenCommit, MarkDirty
<1>4. QED
  BY <1>1, <1>2, <1>3

(* save_settings keeps the types.                                           *)
LEMMA SaveNowType ==
  ASSUME TypeOK, NEW next \in Config, NEW ok \in BOOLEAN, SaveNow(next, ok)
  PROVE  PersistTypeOK'
<1>1. 0 \in 0 .. Defer
  BY DeferAssumption
<1>2. CASE ok
  <2>1. flash' = next /\ config' = next /\ dirty' = FALSE /\ dirtyAge' = 0 /\ persistOk' = TRUE
    BY <1>2, Zenon DEF SaveNow, WriteRecord, MarkClean
  <2>2. QED
    BY <2>1, <1>1, Zenon DEF PersistTypeOK
<1>3. CASE ~ok
  <2>1. /\ flash' = flash /\ config' = next /\ dirty' = dirty /\ persistOk' = FALSE
        /\ dirtyAge' \in {pollAge, 0}
    BY <1>3, Zenon DEF SaveNow, WriteRecord
  <2>2. QED
    BY <2>1, <1>1, Zenon DEF TypeOK, SettingsTypeOK, PersistTypeOK
<1>4. QED
  BY <1>2, <1>3

(* Type correctness is inductive.                                           *)
LEMMA ChangeRoleType ==
  ASSUME TypeOK, NEW role \in Roles, NEW persist \in BOOLEAN, NEW ok \in BOOLEAN,
         ChangeRole(role, persist, ok)
  PROVE  TypeOK'
<1> DEFINE next == [config EXCEPT !.role = role]
           asked == RequestRole(usb, role)
           undone == RequestRole(asked, config.role)
<1>1. /\ usb \in UsbRecord /\ config \in Config /\ config.role \in Roles
  BY DEF TypeOK, Config
<1>2. next \in Config
  BY <1>1 DEF Config
<1>3. asked \in UsbRecord /\ undone \in UsbRecord
  BY <1>1, RequestRoleType
<1>4. usb' = asked \/ usb' = undone
  BY DEF ChangeRole
<1>5. PersistTypeOK'
  <2>1. CASE UNCHANGED <<flash, config, dirty, dirtyAge, persistOk>>
    BY <2>1, PersistUnchanged
  <2>2. CASE SaveThenCommit(next, persist, ok)
    BY <2>2, <1>2, SaveThenCommitType
  <2>3. CASE /\ UNCHANGED flash /\ persistOk' = FALSE
             /\ \/ UNCHANGED <<config, dirty, dirtyAge>>
                \/ config' = next /\ MarkDirty
    BY <2>3, <1>2 DEF TypeOK, SettingsTypeOK, PersistTypeOK, MarkDirty
  <2>4. QED
    BY <2>1, <2>2, <2>3 DEF ChangeRole
<1>6. UNCHANGED <<pollAge, active, phase>>
  BY DEF ChangeRole
<1>7. QED
  BY <1>3, <1>4, <1>5, <1>6, TypeOKNext DEF TypeOK

(* So does set_role with the role in force,                                 *)
LEMMA KeepRoleType ==
  ASSUME TypeOK, NEW role \in Roles, NEW persist \in BOOLEAN, NEW ok \in BOOLEAN,
         KeepRole(role, persist, ok)
  PROVE  TypeOK'
<1>1. PersistTypeOK'
  <2>1. CASE persist
    BY <2>1, SaveNowType DEF KeepRole, TypeOK
  <2>2. CASE ~persist
    BY <2>2, PersistUnchanged DEF KeepRole
  <2>3. QED
    BY <2>1, <2>2
<1>2. QED
  BY <1>1, TypeOKNext DEF TypeOK, KeepRole

(* reset_settings,                                                          *)
LEMMA ResetSettingsType ==
  ASSUME TypeOK, NEW ok \in BOOLEAN, ResetSettings(ok)
  PROVE  TypeOK'
<1> DEFINE moved == config.role # Defaults.role
           asked == IF moved THEN RequestRole(usb, Defaults.role) ELSE usb
           undone == IF moved THEN RequestRole(asked, config.role) ELSE asked
<1>1. /\ usb \in UsbRecord /\ config \in Config /\ config.role \in Roles
      /\ Defaults \in Config /\ Defaults.role \in Roles
  BY DefaultsType DEF TypeOK, Config
<1>2. asked \in UsbRecord /\ undone \in UsbRecord
  BY <1>1, RequestRoleType
<1>3. usb' = asked \/ usb' = undone
  BY DEF ResetSettings
<1>4. active' \in {active, NoInput} /\ UNCHANGED <<pollAge, phase>>
  BY DEF ResetSettings
<1>5. PersistTypeOK'
  <2>1. CASE UNCHANGED <<flash, config, dirty, dirtyAge, persistOk>>
    BY <2>1, PersistUnchanged
  <2>2. CASE ok /\ DeleteRecord(ok) /\ config' = Defaults /\ MarkClean
    <3>1. /\ flash' = NoRecord /\ config' = Defaults /\ dirty' = FALSE
          /\ dirtyAge' = 0 /\ persistOk' = TRUE
      BY <2>2, Zenon DEF DeleteRecord, MarkClean
    <3>2. 0 \in 0 .. Defer
      BY DeferAssumption
    <3>3. QED
      BY <3>1, <3>2, <1>1, Zenon DEF PersistTypeOK
  <2>3. CASE /\ UNCHANGED flash /\ persistOk' = FALSE
             /\ \/ UNCHANGED <<config, dirty, dirtyAge>>
                \/ config' = [config EXCEPT !.role = Defaults.role] /\ MarkDirty
    <3>1. [config EXCEPT !.role = Defaults.role] \in Config
      BY <1>1 DEF Config
    <3>2. QED
      BY <2>3, <3>1 DEF TypeOK, SettingsTypeOK, PersistTypeOK, MarkDirty
  <2>4. QED
    BY <2>1, <2>2, <2>3 DEF ResetSettings
<1>6. QED
  BY <1>2, <1>3, <1>4, <1>5, TypeOKNext DEF TypeOK

(* the other setters,                                                       *)
LEMMA SetterTypes ==
  ASSUME TypeOK, NEW persist \in BOOLEAN, NEW ok \in BOOLEAN
  PROVE  /\ \A p \in Preferences : SetInputPreference(p, persist, ok) => TypeOK'
         /\ \A e \in AutoRequests : SetAutoConnect(e, persist, ok) => TypeOK'
         /\ \A i \in Inputs : ForgetInput(i, persist, ok) => TypeOK'
<1>1. config \in Config
  BY DEF TypeOK
<1>2. ASSUME NEW p \in Preferences, SetInputPreference(p, persist, ok)
      PROVE  TypeOK'
  <2>1. [config EXCEPT !.preference = p] \in Config
    BY <1>1 DEF Config
  <2>2. PersistTypeOK'
    BY <1>2, <2>1, SaveThenCommitType DEF SetInputPreference
  <2>3. QED
    BY <1>2, <2>2, TypeOKNext DEF TypeOK, SetInputPreference
<1>3. ASSUME NEW e \in AutoRequests, SetAutoConnect(e, persist, ok)
      PROVE  TypeOK'
  <2>1. [config EXCEPT !.autoConnect = e] \in Config
    BY <1>1, AutoRequestsAssumption DEF Config
  <2>2. PersistTypeOK'
    BY <1>3, <2>1, SaveThenCommitType DEF SetAutoConnect
  <2>3. QED
    BY <1>3, <2>2, TypeOKNext DEF TypeOK, SetAutoConnect
<1>4. ASSUME NEW i \in Inputs, ForgetInput(i, persist, ok)
      PROVE  TypeOK'
  <2>1. [config EXCEPT !.target[i] = NoAddress] \in Config
    BY <1>1 DEF Config
  <2>2. PersistTypeOK'
    BY <1>4, <2>1, SaveThenCommitType DEF ForgetInput
  <2>3. QED
    BY <1>4, <2>2, TypeOKNext DEF TypeOK, ForgetInput
<1>5. QED
  BY <1>2, <1>3, <1>4

(* the links,                                                               *)
LEMMA LinkType ==
  ASSUME TypeOK, Link
  PROVE  TypeOK'
<1>1. config \in Config
  BY DEF TypeOK
<1>2. ASSUME NEW i \in Inputs, AcceptInput(i)
      PROVE  TypeOK'
  <2>1. [config EXCEPT !.lastActive = i] \in Config
    BY <1>1 DEF Config
  <2>2. PersistTypeOK'
    BY <1>2, <2>1, MarkDirtyType DEF AcceptInput, TypeOK
  <2>3. QED
    BY <1>2, <2>2, TypeOKNext DEF TypeOK, AcceptInput
<1>3. ASSUME NEW i \in Inputs, ReleaseInput(i)
      PROVE  TypeOK'
  BY <1>3, PersistUnchanged, TypeOKNext DEF TypeOK, ReleaseInput
<1>4. ASSUME NEW i \in Inputs, NEW a \in Addresses, RememberInput(i, a)
      PROVE  TypeOK'
  <2>1. [config EXCEPT !.target[i] = a] \in Config
    BY <1>1 DEF Config
  <2>2. PersistTypeOK'
    BY <1>4, <2>1, MarkDirtyType DEF RememberInput, TypeOK
  <2>3. QED
    BY <1>4, <2>2, TypeOKNext DEF TypeOK, RememberInput
<1>5. ASSUME NEW a \in Addresses, NEW ok \in BOOLEAN, "dualsense" \in Inputs, RememberPaired(a, ok)
      PROVE  TypeOK'
  <2> DEFINE next == [config EXCEPT !.target["dualsense"] = a]
  <2>1. next \in Config
    BY <1>1, <1>5 DEF Config
  <2>2. /\ config' = next /\ flash' \in {next, flash} /\ dirty' = ~ok /\ persistOk' = ok
        /\ dirtyAge' \in {0, pollAge}
    BY <1>5 DEF RememberPaired, WriteRecord
  <2>3. 0 \in 0 .. Defer
    BY DeferAssumption
  <2>4. PersistTypeOK'
    <3> HIDE DEF next
    <3> QED
      BY <2>1, <2>2, <2>3, Zenon DEF TypeOK, SettingsTypeOK, PersistTypeOK
  <2>5. QED
    BY <1>5, <2>4, TypeOKNext DEF TypeOK, RememberPaired
<1>6. QED
  BY <1>2, <1>3, <1>4, <1>5 DEF Link

(* the loop,                                                                *)
LEMMA LoopType ==
  ASSUME TypeOK, Loop
  PROVE  TypeOK'
<1>1. /\ usb \in UsbRecord /\ config \in Config /\ usb.role \in Roles
      /\ dirtyAge \in Nat /\ pollAge \in Nat /\ 0 \in 0 .. Defer
  BY DeferAssumption DEF TypeOK, UsbRecord
<1>2. ASSUME NEW registerOk \in BOOLEAN, NEW rollbackOk \in BOOLEAN,
             DeviceTask(registerOk, rollbackOk)
      PROVE  TypeOK'
  BY <1>1, <1>2, TaskRoleType, PersistUnchanged, TypeOKNext DEF DeviceTask, TypeOK, Phases
<1>3. ASSUME NEW ok \in BOOLEAN, Poll(ok)
      PROVE  TypeOK'
  <2>1. PersistTypeOK'
    <3>1. CASE SaveDue
      <4>1. /\ config' = config /\ flash' \in {config, flash} /\ dirty' = ~ok
            /\ dirtyAge' = 0 /\ persistOk' = ok
        BY <1>3, <3>1 DEF Poll, WriteRecord
      <4>2. QED
        BY <4>1, <1>1, Zenon DEF TypeOK, SettingsTypeOK, PersistTypeOK
    <3>2. CASE ~SaveDue
      BY <1>3, <3>2, PersistUnchanged DEF Poll
    <3>3. QED
      BY <3>1, <3>2
  <2>2. QED
    BY <1>1, <1>3, <2>1, TypeOKNext DEF TypeOK, Poll, Phases
<1>4. ASSUME NEW ok \in BOOLEAN, SyncRole(ok)
      PROVE  TypeOK'
  <2> DEFINE next == [config EXCEPT !.role = usb.role]
  <2>1. next \in Config
    BY <1>1 DEF Config
  <2>2. PersistTypeOK'
    <3>1. CASE UNCHANGED <<flash, config, dirty, dirtyAge, persistOk>>
      BY <3>1, PersistUnchanged
    <3>2. CASE /\ config' = next /\ WriteRecord(next, ok)
               /\ IF ok THEN MarkClean ELSE MarkDirty /\ persistOk' = FALSE
      <4> HIDE DEF next
      <4>1. CASE ok
        <5>1. flash' = next /\ config' = next /\ dirty' = FALSE /\ dirtyAge' = 0 /\ persistOk' = TRUE
          BY <3>2, <4>1, Zenon DEF WriteRecord, MarkClean
        <5>2. QED
          BY <5>1, <2>1, <1>1, Zenon DEF PersistTypeOK
      <4>2. CASE ~ok
        BY <3>2, <4>2, <2>1, MarkDirtyType DEF WriteRecord
      <4>3. QED
        BY <4>1, <4>2
    <3>3. QED
      BY <1>4, <3>1, <3>2 DEF SyncRole
  <2>3. QED
    BY <1>4, <2>2, TypeOKNext DEF TypeOK, SyncRole, Phases
<1>5. ASSUME NEW elapsed \in 1 .. MaxSleep, Sleep(elapsed)
      PROVE  TypeOK'
  <2>1. elapsed \in Nat
    BY MaxSleepAssumption
  <2>2. AgeSwitch(usb, elapsed) \in UsbRecord
    BY <1>1, <2>1, AgeSwitchType
  <2>3. /\ Lesser(dirtyAge + elapsed, Defer) \in 0 .. Defer
        /\ Lesser(pollAge + elapsed, Defer) \in 0 .. Defer
    BY <1>1, <2>1, DeferAssumption DEF Lesser
  <2>4. PersistTypeOK'
    BY <1>1, <1>5, <2>3 DEF TypeOK, SettingsTypeOK, PersistTypeOK, Sleep
  <2>5. QED
    BY <1>5, <2>2, <2>3, <2>4, TypeOKNext DEF TypeOK, Sleep, Phases
<1>6. QED
  BY <1>2, <1>3, <1>4, <1>5 DEF Loop

(* and a reset of the board.                                                *)
LEMMA RebootType ==
  ASSUME TypeOK, NEW readOk \in BOOLEAN, NEW registerOk \in BOOLEAN,
         Reboot(readOk, registerOk)
  PROVE  TypeOK'
<1>1. config' \in Config
  BY DefaultsType DEF Reboot, LoadedConfig, LoadSucceeds, TypeOK, SettingsTypeOK
<1>2. config'.role \in Roles
  BY <1>1 DEF Config
<1>3. usb' \in UsbRecord
  BY <1>2, DeviceInitType DEF Reboot
<1>4. 0 \in 0 .. Defer
  BY DeferAssumption
<1>5. persistOk' \in BOOLEAN
  BY DEF Reboot, LoadSucceeds
<1>6. PersistTypeOK'
  BY <1>1, <1>4, <1>5, Zenon DEF Reboot, TypeOK, SettingsTypeOK, PersistTypeOK
<1>7. QED
  BY <1>3, <1>4, <1>6, TypeOKNext DEF Reboot, Phases

(* Every step keeps the types: the induction step of TypeCorrect.           *)
LEMMA NextType ==
  ASSUME TypeOK, [Next]_vars
  PROVE  TypeOK'
<1>1. CASE UNCHANGED vars
  BY <1>1 DEF vars, TypeOK, SettingsTypeOK
<1>2. ASSUME NEW persist \in BOOLEAN, NEW ok \in BOOLEAN, Command(persist, ok)
      PROVE  TypeOK'
  <2>1. ASSUME NEW role \in RoleRequests, SetRole(role, persist, ok)
        PROVE  TypeOK'
    BY <2>1, RoleRequestsAssumption, ChangeRoleType, KeepRoleType DEF SetRole
  <2>2. ASSUME CycleRole(persist, ok)
        PROVE  TypeOK'
    <3>1. NextRole(config.role) \in Roles
      BY NextRoleType DEF TypeOK, Config
    <3>2. QED
      BY <2>2, <3>1, ChangeRoleType DEF CycleRole
  <2>3. QED
    BY <1>2, <2>1, <2>2, SetterTypes DEF Command
<1>3. ASSUME NEW ok \in BOOLEAN, SaveSettings(ok)
      PROVE  TypeOK'
  <2>1. PersistTypeOK'
    BY <1>3, SaveNowType DEF SaveSettings, TypeOK
  <2>2. QED
    BY <1>3, <2>1, TypeOKNext DEF SaveSettings, TypeOK
<1>4. ASSUME NEW ok \in BOOLEAN, Reconnect(ok)
      PROVE  TypeOK'
  <2>1. usb' \in UsbRecord
    BY <1>4, ForceReconnectType DEF Reconnect, TypeOK
  <2>2. QED
    BY <1>4, <2>1, PersistUnchanged, TypeOKNext DEF Reconnect, TypeOK
<1>5. QED
  BY <1>1, <1>2, <1>3, <1>4, ResetSettingsType, LinkType, LoopType, RebootType, BootReadsAssumption, PersistRequestsAssumption
  DEF Next, Disturbance

(* The bridge starts well formed.                                           *)
LEMMA InitType == Init => TypeOK
<1> SUFFICES ASSUME Init PROVE TypeOK
  OBVIOUS
<1>1. config \in Config /\ config.role \in Roles
  BY DefaultsType DEF Init, Config
<1>2. usb \in UsbRecord
  BY <1>1, DeviceInitType DEF Init
<1>3. 0 \in 0 .. Defer
  BY DeferAssumption
<1>4. QED
  BY <1>1, <1>2, <1>3 DEF Init, TypeOK, SettingsTypeOK, Phases

(* The runtime, the USB device and the flash hold well-formed values in     *)
(* every reachable state, whatever fails and whenever the board resets.     *)
THEOREM TypeCorrect == Spec => []TypeOK
  BY InitType, NextType, PTL DEF Spec

-----------------------------------------------------------------------------
(***************************************************************************)
(* The roles of the runtime and of the USB device.                         *)
(***************************************************************************)

(* The part of RoleAgreement that does not depend on the phase.             *)
PendingAgreement(u, role) ==
  /\ u.requested => u.initialized /\ u.pending = role /\ u.pending # u.role
  /\ ~u.requested => u.pending = u.role

(* RoleAgreement, with the phase apart.                                     *)
LEMMA RoleAgreementParts ==
  RoleAgreement <=> /\ PendingAgreement(usb, config.role)
                    /\ phase \in {"task", "links"} => usb.pending = config.role
  BY DEF RoleAgreement, PendingAgreement

(* A request the device accepts leaves both sides on the requested role.    *)
LEMMA RequestAgrees ==
  ASSUME NEW u \in UsbRecord, NEW role \in Roles, RoleAccepted(u)
  PROVE  /\ PendingAgreement(RequestRole(u, role), role)
         /\ RequestRole(u, role).pending = role
         /\ RoleAccepted(RequestRole(u, role))
<1> DEFINE switching == role # u.role
<1>1. RequestRole(u, role) = [u EXCEPT !.pending = role, !.requested = switching, !.age = 0]
  BY DEF RequestRole, RoleAccepted
<1>2. switching \in BOOLEAN
  OBVIOUS
<1>3. /\ RequestRole(u, role).pending = role
      /\ RequestRole(u, role).role = u.role
      /\ RequestRole(u, role).requested = switching
      /\ RequestRole(u, role).initialized = u.initialized
  BY <1>1, Zenon DEF UsbRecord
<1>4. QED
  BY <1>3, Zenon DEF PendingAgreement, RoleAccepted

(* A request it refuses changes nothing the two sides have to agree on.     *)
LEMMA RefusalAgrees ==
  ASSUME NEW u \in UsbRecord, NEW role, NEW current \in Roles, ~RoleAccepted(u),
         PendingAgreement(u, current)
  PROVE  /\ PendingAgreement(RequestRole(u, role), current)
         /\ RequestRole(u, role).pending = u.pending
  BY DEF PendingAgreement, RequestRole, RoleAccepted, UsbRecord

(* The role task either leaves the record alone, puts the pending role on   *)
(* the wire, or falls back to the role that was there.                      *)
LEMMA TaskRoleAgrees ==
  ASSUME NEW u \in UsbRecord, NEW role \in Roles,
         NEW registerOk \in BOOLEAN, NEW rollbackOk \in BOOLEAN,
         PendingAgreement(u, role), u.pending = role
  PROVE  /\ PendingAgreement(TaskRole(u, registerOk, rollbackOk), role)
         /\ TaskRole(u, registerOk, rollbackOk).role \in {u.role, role}
<1>1. CASE ~SwitchDue(u)
  BY <1>1 DEF TaskRole
<1>2. CASE SwitchDue(u)
  <2>1. TaskRole(u, registerOk, rollbackOk) = ApplyPendingRole(u, registerOk, rollbackOk)
    BY <1>2 DEF TaskRole, SwitchDue, PendingAgreement
  <2>2. QED
    BY <2>1 DEF ApplyPendingRole, PendingAgreement, UsbRecord
<1>3. QED
  BY <1>1, <1>2

(* Time and a renewed registration concern neither side.                    *)
LEMMA AgeingAgrees ==
  ASSUME NEW u \in UsbRecord, NEW role, NEW elapsed \in Nat
  PROVE  /\ PendingAgreement(AgeSwitch(u, elapsed), role) <=> PendingAgreement(u, role)
         /\ AgeSwitch(u, elapsed).pending = u.pending
         /\ AgeSwitch(u, elapsed).role = u.role
  BY DEF PendingAgreement, AgeSwitch, UsbRecord

(* A reconnect changes no role.                                             *)
LEMMA ReconnectAgrees ==
  ASSUME NEW u \in UsbRecord, NEW role, NEW ok \in BOOLEAN, PendingAgreement(u, role)
  PROVE  /\ PendingAgreement(ForceReconnect(u, ok), role)
         /\ ForceReconnect(u, ok).pending = u.pending
         /\ ForceReconnect(u, ok).role = u.role
  BY DEF PendingAgreement, ForceReconnect, UsbRecord

(* An operation that changes neither the role in the configuration nor the  *)
(* USB record keeps the agreement, unless it enters a phase that asks more. *)
LEMMA RoleUntouched ==
  ASSUME RoleAgreement, usb' = usb, config'.role = config.role,
         phase' = phase \/ phase' \notin {"task", "links"}
  PROVE  RoleAgreement'
  BY DEF RoleAgreement

(* A role change leaves a pending switch towards the new role, or none.     *)
LEMMA ChangeRoleAgrees ==
  ASSUME TypeOK, RoleAgreement, NEW role \in Roles, NEW persist \in BOOLEAN,
         NEW ok \in BOOLEAN, ChangeRole(role, persist, ok)
  PROVE  RoleAgreement'
<1> DEFINE next == [config EXCEPT !.role = role]
           asked == RequestRole(usb, role)
           undone == RequestRole(asked, config.role)
<1>1. /\ usb \in UsbRecord /\ config \in Config /\ config.role \in Roles
      /\ asked \in UsbRecord /\ next.role = role
  BY RequestRoleType DEF TypeOK, Config
<1>2. /\ PendingAgreement(usb, config.role)
      /\ phase \in {"task", "links"} => usb.pending = config.role
      /\ phase' = phase
  BY RoleAgreementParts DEF ChangeRole
<1>3. CASE ~RoleAccepted(usb)
  <2>1. usb' = asked /\ config' = config
    BY <1>3 DEF ChangeRole
  <2>2. PendingAgreement(asked, config.role) /\ asked.pending = usb.pending
    BY <1>1, <1>2, <1>3, RefusalAgrees
  <2>3. QED
    BY <1>2, <2>1, <2>2, RoleAgreementParts, RoleAgreementParts' DEF RoleAgreement, PendingAgreement
<1>4. CASE RoleAccepted(usb) /\ (persist => ok)
  <2>1. usb' = asked /\ config' = next
    BY <1>4 DEF ChangeRole, SaveThenCommit
  <2>2. PendingAgreement(asked, role) /\ asked.pending = role
    BY <1>1, <1>4, RequestAgrees
  <2>3. QED
    BY <1>1, <2>1, <2>2 DEF RoleAgreement, PendingAgreement
<1>5. CASE RoleAccepted(usb) /\ persist /\ ~ok
  <2>1. RoleAccepted(asked)
    BY <1>1, <1>5, RequestAgrees
  <2>2. usb' = undone /\ config' = config
    BY <1>5, <2>1 DEF ChangeRole
  <2>3. PendingAgreement(undone, config.role) /\ undone.pending = config.role
    BY <1>1, <2>1, RequestAgrees
  <2>4. QED
    BY <2>2, <2>3 DEF RoleAgreement, PendingAgreement
<1>6. QED
  BY <1>3, <1>4, <1>5

(* So does a reset of the settings, towards the default role.               *)
LEMMA ResetSettingsAgrees ==
  ASSUME TypeOK, RoleAgreement, NEW ok \in BOOLEAN, ResetSettings(ok)
  PROVE  RoleAgreement'
<1> DEFINE moved == config.role # Defaults.role
           asked == RequestRole(usb, Defaults.role)
           undone == RequestRole(asked, config.role)
<1>1. /\ usb \in UsbRecord /\ config \in Config /\ config.role \in Roles
      /\ Defaults.role \in Roles /\ asked \in UsbRecord
  BY DefaultsType, RequestRoleType DEF TypeOK, Config
<1>2. /\ PendingAgreement(usb, config.role)
      /\ phase \in {"task", "links"} => usb.pending = config.role
      /\ phase' = phase
  BY RoleAgreementParts DEF ResetSettings
<1>3. CASE ~moved
  <2>1. usb' = usb /\ config'.role = config.role
    BY <1>3 DEF ResetSettings
  <2>2. QED
    BY <1>2, <2>1, RoleUntouched
<1>4. CASE moved /\ ~RoleAccepted(usb)
  <2>1. usb' = asked /\ config' = config
    BY <1>4 DEF ResetSettings
  <2>2. PendingAgreement(asked, config.role) /\ asked.pending = usb.pending
    BY <1>1, <1>2, <1>4, RefusalAgrees
  <2>3. QED
    BY <1>2, <2>1, <2>2 DEF RoleAgreement, PendingAgreement
<1>5. CASE moved /\ RoleAccepted(usb) /\ ok
  <2>1. usb' = asked /\ config' = Defaults
    BY <1>5 DEF ResetSettings
  <2>2. PendingAgreement(asked, Defaults.role) /\ asked.pending = Defaults.role
    BY <1>1, <1>5, RequestAgrees
  <2>3. QED
    BY <2>1, <2>2 DEF RoleAgreement, PendingAgreement
<1>6. CASE moved /\ RoleAccepted(usb) /\ ~ok
  <2>1. RoleAccepted(asked)
    BY <1>1, <1>6, RequestAgrees
  <2>2. usb' = undone /\ config' = config
    BY <1>6, <2>1 DEF ResetSettings
  <2>3. PendingAgreement(undone, config.role) /\ undone.pending = config.role
    BY <1>1, <2>1, RequestAgrees
  <2>4. QED
    BY <2>2, <2>3 DEF RoleAgreement, PendingAgreement
<1>7. QED
  BY <1>3, <1>4, <1>5, <1>6

(* The steps of the loop.                                                   *)
LEMMA LoopAgrees ==
  ASSUME TypeOK, RoleAgreement, Loop
  PROVE  RoleAgreement'
<1>1. /\ usb \in UsbRecord /\ config \in Config /\ config.role \in Roles
      /\ PendingAgreement(usb, config.role)
      /\ phase \in {"task", "links"} => usb.pending = config.role
  BY RoleAgreementParts DEF TypeOK, Config
<1>2. ASSUME NEW registerOk \in BOOLEAN, NEW rollbackOk \in BOOLEAN,
             DeviceTask(registerOk, rollbackOk)
      PROVE  RoleAgreement'
  <2>1. PendingAgreement(TaskRole(usb, registerOk, rollbackOk), config.role)
    BY <1>1, <1>2, TaskRoleAgrees DEF DeviceTask
  <2>2. QED
    BY <1>2, <2>1 DEF DeviceTask, RoleAgreement, PendingAgreement
<1>3. ASSUME NEW ok \in BOOLEAN, Poll(ok)
      PROVE  RoleAgreement'
  BY <1>3, RoleUntouched DEF Poll
<1>4. ASSUME NEW ok \in BOOLEAN, SyncRole(ok)
      PROVE  RoleAgreement'
  BY <1>1, <1>4 DEF SyncRole, RoleAgreement, Config
<1>5. ASSUME NEW elapsed \in 1 .. MaxSleep, Sleep(elapsed)
      PROVE  RoleAgreement'
  <2>1. elapsed \in Nat
    BY MaxSleepAssumption
  <2>2. QED
    BY <1>1, <1>5, <2>1, AgeingAgrees DEF Sleep, RoleAgreement, PendingAgreement
<1>6. QED
  BY <1>2, <1>3, <1>4, <1>5 DEF Loop

(* The remaining operations change neither role.                            *)
LEMMA OtherAgrees ==
  ASSUME TypeOK, RoleAgreement, NEW persist \in BOOLEAN, NEW ok \in BOOLEAN
  PROVE  /\ \A role \in Roles : KeepRole(role, persist, ok) => RoleAgreement'
         /\ \A p \in Preferences : SetInputPreference(p, persist, ok) => RoleAgreement'
         /\ \A e \in AutoRequests : SetAutoConnect(e, persist, ok) => RoleAgreement'
         /\ \A i \in Inputs : ForgetInput(i, persist, ok) => RoleAgreement'
         /\ SaveSettings(ok) => RoleAgreement'
         /\ Reconnect(ok) => RoleAgreement'
         /\ Link => RoleAgreement'
<1>1. config \in Config /\ usb \in UsbRecord
  BY DEF TypeOK
<1>2. \A role \in Roles : KeepRole(role, persist, ok) => RoleAgreement'
  BY RoleUntouched DEF KeepRole, SaveNow
<1>3. \A p \in Preferences : SetInputPreference(p, persist, ok) => RoleAgreement'
  BY <1>1, RoleUntouched DEF SetInputPreference, SaveThenCommit, Config
<1>4. \A e \in AutoRequests : SetAutoConnect(e, persist, ok) => RoleAgreement'
  BY <1>1, RoleUntouched DEF SetAutoConnect, SaveThenCommit, Config
<1>5. \A i \in Inputs : ForgetInput(i, persist, ok) => RoleAgreement'
  BY <1>1, RoleUntouched DEF ForgetInput, SaveThenCommit, Config
<1>6. SaveSettings(ok) => RoleAgreement'
  BY RoleUntouched DEF SaveSettings, SaveNow
<1>7. Reconnect(ok) => RoleAgreement'
  BY <1>1, RoleAgreementParts, ReconnectAgrees DEF Reconnect, RoleAgreement, PendingAgreement
<1>8. Link => RoleAgreement'
  <2>1. \A i \in Inputs : AcceptInput(i) \/ ReleaseInput(i) => RoleAgreement'
    BY <1>1, RoleUntouched DEF AcceptInput, ReleaseInput, Config
  <2>2. \A i \in Inputs, a \in Addresses : RememberInput(i, a) => RoleAgreement'
    BY <1>1, RoleUntouched DEF RememberInput, Config
  <2>3. \A a \in Addresses, done \in BOOLEAN :
          "dualsense" \in Inputs /\ RememberPaired(a, done) => RoleAgreement'
    BY <1>1, RoleUntouched DEF RememberPaired, Config
  <2>4. QED
    BY <2>1, <2>2, <2>3 DEF Link
<1>9. QED
  BY <1>2, <1>3, <1>4, <1>5, <1>6, <1>7, <1>8

(* A reset of the board starts both sides with one role.                    *)
LEMMA RebootAgrees ==
  ASSUME NEW readOk \in BOOLEAN, NEW registerOk \in BOOLEAN, Reboot(readOk, registerOk)
  PROVE  RoleAgreement'
  BY DEF Reboot, DeviceInit, RoleAgreement

(* RoleAgreement is preserved by every step, given the types.               *)
LEMMA NextAgrees ==
  ASSUME TypeOK, RoleAgreement, [Next]_vars
  PROVE  RoleAgreement'
<1>1. CASE UNCHANGED vars
  BY <1>1 DEF vars, RoleAgreement
<1>2. ASSUME NEW persist \in BOOLEAN, NEW ok \in BOOLEAN, Command(persist, ok)
      PROVE  RoleAgreement'
  <2>1. NextRole(config.role) \in Roles
    BY NextRoleType DEF TypeOK, Config
  <2>2. \A role \in RoleRequests : SetRole(role, persist, ok) => RoleAgreement'
    BY RoleRequestsAssumption, ChangeRoleAgrees, OtherAgrees DEF SetRole
  <2>3. CycleRole(persist, ok) => RoleAgreement'
    BY <2>1, ChangeRoleAgrees DEF CycleRole
  <2>4. QED
    BY <1>2, <2>2, <2>3, OtherAgrees DEF Command
<1>3. QED
  BY <1>1, <1>2, ResetSettingsAgrees, OtherAgrees, LoopAgrees, RebootAgrees, BootReadsAssumption, PersistRequestsAssumption
  DEF Next, Disturbance

(* So does the first start.                                                 *)
LEMMA InitAgrees == Init => RoleAgreement
  BY DEF Init, DeviceInit, RoleAgreement

(* A pending switch is always towards the role the runtime describes, and   *)
(* without one the runtime and the wire agree.                              *)
THEOREM RolesAgree == Spec => []RoleAgreement
  BY InitAgrees, NextAgrees, TypeCorrect, PTL DEF Spec

(***************************************************************************)
(* The status report is honest.                                            *)
(***************************************************************************)

(* A record once written is there, so what it stands for is what it says.   *)
LEMMA WrittenIsStored ==
  ASSUME NEW next \in Config, flash' = next
  PROVE  StoredConfig' = next
  BY NoRecordAssumption DEF StoredConfig

(* Each of the ways the operations change the settings keeps the promise.   *)
LEMMA SaveThenCommitHonest ==
  ASSUME DurableWhenClean, NEW next \in Config, NEW persist \in BOOLEAN, NEW ok \in BOOLEAN,
         SaveThenCommit(next, persist, ok)
  PROVE  DurableWhenClean'
<1>1. CASE persist /\ ok
  BY <1>1, WrittenIsStored DEF SaveThenCommit, WriteRecord, DurableWhenClean
<1>2. CASE persist /\ ~ok
  BY <1>2 DEF SaveThenCommit, SaveFailed, DurableWhenClean
<1>3. CASE ~persist
  BY <1>3 DEF SaveThenCommit, MarkDirty, DurableWhenClean
<1>4. QED
  BY <1>1, <1>2, <1>3

(* save_settings reports what the flash did.                                *)
LEMMA SaveNowHonest ==
  ASSUME NEW next \in Config, NEW ok \in BOOLEAN, SaveNow(next, ok)
  PROVE  DurableWhenClean'
  BY WrittenIsStored DEF SaveNow, WriteRecord, DurableWhenClean

(* A dirty configuration claims nothing.                                    *)
LEMMA MarkDirtyHonest ==
  ASSUME MarkDirty
  PROVE  DurableWhenClean'
  BY DEF MarkDirty, DurableWhenClean

(* Neither does a failed save.                                              *)
LEMMA FailedHonest ==
  ASSUME persistOk' = FALSE
  PROVE  DurableWhenClean'
  BY DEF DurableWhenClean

(* What is not touched stays true.                                          *)
LEMMA UntouchedHonest ==
  ASSUME DurableWhenClean, UNCHANGED <<flash, config, dirty, persistOk>>
  PROVE  DurableWhenClean'
  BY DEF DurableWhenClean, StoredConfig

(* The links mark what they change dirty, or save it.                       *)
LEMMA LinkHonest ==
  ASSUME TypeOK, DurableWhenClean, Link
  PROVE  DurableWhenClean'
<1>1. \A i \in Inputs : AcceptInput(i) => DurableWhenClean'
  BY MarkDirtyHonest DEF AcceptInput
<1>2. \A i \in Inputs : ReleaseInput(i) => DurableWhenClean'
  BY UntouchedHonest DEF ReleaseInput
<1>3. \A i \in Inputs, a \in Addresses : RememberInput(i, a) => DurableWhenClean'
  BY MarkDirtyHonest DEF RememberInput
<1>4. ASSUME NEW a \in Addresses, NEW ok \in BOOLEAN, "dualsense" \in Inputs, RememberPaired(a, ok)
      PROVE  DurableWhenClean'
  <2> DEFINE next == [config EXCEPT !.target["dualsense"] = a]
  <2>1. next \in Config
    BY <1>4 DEF TypeOK, Config
  <2>2. CASE ok
    BY <1>4, <2>1, <2>2, WrittenIsStored DEF RememberPaired, WriteRecord, DurableWhenClean
  <2>3. CASE ~ok
    BY <1>4, <2>3, FailedHonest DEF RememberPaired
  <2>4. QED
    BY <2>2, <2>3
<1>5. QED
  BY <1>1, <1>2, <1>3, <1>4 DEF Link

(* The loop's saves report what the flash did.                              *)
LEMMA LoopHonest ==
  ASSUME TypeOK, DurableWhenClean, Loop
  PROVE  DurableWhenClean'
<1>1. config \in Config /\ usb.role \in Roles
  BY DEF TypeOK, UsbRecord
<1>2. \A r, b \in BOOLEAN : DeviceTask(r, b) => DurableWhenClean'
  BY UntouchedHonest DEF DeviceTask
<1>3. \A ok \in BOOLEAN : Poll(ok) => DurableWhenClean'
  BY <1>1, WrittenIsStored, UntouchedHonest DEF Poll, WriteRecord, DurableWhenClean
<1>4. ASSUME NEW ok \in BOOLEAN, SyncRole(ok)
      PROVE  DurableWhenClean'
  <2> DEFINE next == [config EXCEPT !.role = usb.role]
  <2>1. next \in Config
    BY <1>1 DEF Config
  <2>2. CASE ~(~usb.requested /\ usb.role # config.role)
    BY <1>4, <2>2, UntouchedHonest DEF SyncRole
  <2>3. CASE ~usb.requested /\ usb.role # config.role /\ ok
    BY <1>4, <2>1, <2>3, WrittenIsStored DEF SyncRole, WriteRecord, DurableWhenClean
  <2>4. CASE ~usb.requested /\ usb.role # config.role /\ ~ok
    BY <1>4, <2>4, FailedHonest DEF SyncRole
  <2>5. QED
    BY <2>2, <2>3, <2>4
<1>5. \A t \in 1 .. MaxSleep : Sleep(t) => DurableWhenClean'
  BY UntouchedHonest DEF Sleep
<1>6. QED
  BY <1>2, <1>3, <1>4, <1>5 DEF Loop

(* So do the commands.                                                      *)
LEMMA CommandHonest ==
  ASSUME TypeOK, DurableWhenClean, NEW persist \in BOOLEAN, NEW ok \in BOOLEAN,
         Command(persist, ok)
  PROVE  DurableWhenClean'
<1>1. config \in Config /\ usb \in UsbRecord
  BY DEF TypeOK
<1>2. ASSUME NEW role \in Roles, ChangeRole(role, persist, ok)
      PROVE  DurableWhenClean'
  <2>1. [config EXCEPT !.role = role] \in Config
    BY <1>1 DEF Config
  <2>2. QED
    BY <1>2, <2>1, SaveThenCommitHonest, FailedHonest, UntouchedHonest DEF ChangeRole
<1>3. \A role \in Roles : KeepRole(role, persist, ok) => DurableWhenClean'
  BY <1>1, SaveNowHonest, UntouchedHonest DEF KeepRole
<1>4. \A p \in Preferences : SetInputPreference(p, persist, ok) => DurableWhenClean'
  <2>1. \A p \in Preferences : [config EXCEPT !.preference = p] \in Config
    BY <1>1 DEF Config
  <2>2. QED
    BY <2>1, SaveThenCommitHonest DEF SetInputPreference
<1>5. \A e \in AutoRequests : SetAutoConnect(e, persist, ok) => DurableWhenClean'
  <2>1. \A e \in AutoRequests : [config EXCEPT !.autoConnect = e] \in Config
    BY <1>1, AutoRequestsAssumption DEF Config
  <2>2. QED
    BY <2>1, SaveThenCommitHonest DEF SetAutoConnect
<1>6. \A i \in Inputs : ForgetInput(i, persist, ok) => DurableWhenClean'
  <2>1. \A i \in Inputs : [config EXCEPT !.target[i] = NoAddress] \in Config
    BY <1>1 DEF Config
  <2>2. QED
    BY <2>1, SaveThenCommitHonest DEF ForgetInput
<1>7. NextRole(config.role) \in Roles
  BY <1>1, NextRoleType DEF Config
<1>8. QED
  BY <1>2, <1>3, <1>4, <1>5, <1>6, <1>7, RoleRequestsAssumption DEF Command, SetRole, CycleRole

(* Every step keeps the status honest.                                      *)
LEMMA NextHonest ==
  ASSUME TypeOK, DurableWhenClean, [Next]_vars
  PROVE  DurableWhenClean'
<1>1. CASE UNCHANGED vars
  BY <1>1, UntouchedHonest DEF vars
<1>2. \A ok \in BOOLEAN : SaveSettings(ok) => DurableWhenClean'
  BY SaveNowHonest DEF SaveSettings, TypeOK
<1>3. ASSUME NEW ok \in BOOLEAN, ResetSettings(ok)
      PROVE  DurableWhenClean'
  <2>1. CASE UNCHANGED <<flash, config, dirty, persistOk>>
    BY <2>1, UntouchedHonest
  <2>2. CASE ok /\ DeleteRecord(ok) /\ config' = Defaults
    BY <2>2 DEF DeleteRecord, DurableWhenClean, StoredConfig
  <2>3. CASE persistOk' = FALSE
    BY <2>3, FailedHonest
  <2>4. QED
    BY <1>3, <2>1, <2>2, <2>3 DEF ResetSettings
<1>4. \A ok \in BOOLEAN : Reconnect(ok) => DurableWhenClean'
  BY UntouchedHonest DEF Reconnect
<1>5. \A readOk, registerOk \in BOOLEAN : Reboot(readOk, registerOk) => DurableWhenClean'
  BY DEF Reboot, LoadedConfig, LoadSucceeds, DurableWhenClean, StoredConfig
<1>6. QED
  BY <1>1, <1>2, <1>3, <1>4, <1>5, CommandHonest, LinkHonest, LoopHonest, BootReadsAssumption, PersistRequestsAssumption
  DEF Next, Disturbance

(* With last_persist_ok set and nothing dirty, the flash holds exactly the  *)
(* configuration in force.                                                  *)
THEOREM StatusIsHonest == Spec => []DurableWhenClean
<1>1. Init => DurableWhenClean
  BY DEF Init, DurableWhenClean
<1>2. QED
  BY <1>1, NextHonest, TypeCorrect, PTL DEF Spec

(***************************************************************************)
(* The active input.                                                       *)
(***************************************************************************)

(* An operation that leaves the input, the preference and the last active   *)
(* input alone, or has no input left, keeps the property.                   *)
LEMMA InputKept ==
  ASSUME ActiveInputAllowed,
         \/ active' = NoInput
         \/ /\ active' = active
            /\ config'.preference = config.preference
            /\ config'.lastActive = config.lastActive
  PROVE  ActiveInputAllowed'
  BY DEF ActiveInputAllowed

(* A preference that rejects the active input releases it.                  *)
LEMMA CommandAllows ==
  ASSUME TypeOK, ActiveInputAllowed, NEW persist \in BOOLEAN, NEW ok \in BOOLEAN,
         Command(persist, ok)
  PROVE  ActiveInputAllowed'
<1>1. config \in Config
  BY DEF TypeOK
<1>2. \A role \in Roles : ChangeRole(role, persist, ok) => ActiveInputAllowed'
  BY <1>1, InputKept DEF ChangeRole, SaveThenCommit, Config
<1>3. \A role \in Roles : KeepRole(role, persist, ok) => ActiveInputAllowed'
  BY InputKept DEF KeepRole, SaveNow
<1>4. ASSUME NEW p \in Preferences, SetInputPreference(p, persist, ok)
      PROVE  ActiveInputAllowed'
  BY <1>1, <1>4 DEF SetInputPreference, SaveThenCommit, ActiveInputAllowed, Config
<1>5. \A e \in AutoRequests : SetAutoConnect(e, persist, ok) => ActiveInputAllowed'
  BY <1>1, InputKept DEF SetAutoConnect, SaveThenCommit, Config
<1>6. \A i \in Inputs : ForgetInput(i, persist, ok) => ActiveInputAllowed'
  BY <1>1, InputKept DEF ForgetInput, SaveThenCommit, Config
<1>7. NextRole(config.role) \in Roles
  BY <1>1, NextRoleType DEF Config
<1>8. QED
  BY <1>2, <1>3, <1>4, <1>5, <1>6, <1>7, RoleRequestsAssumption DEF Command, SetRole, CycleRole

(* Every step keeps the active input allowed.                               *)
LEMMA NextAllows ==
  ASSUME TypeOK, ActiveInputAllowed, [Next]_vars
  PROVE  ActiveInputAllowed'
<1>1. config \in Config
  BY DEF TypeOK
<1>2. CASE UNCHANGED vars
  BY <1>2, InputKept DEF vars
<1>3. \A ok \in BOOLEAN : SaveSettings(ok) \/ Reconnect(ok) => ActiveInputAllowed'
  BY InputKept DEF SaveSettings, SaveNow, Reconnect
<1>4. \A ok \in BOOLEAN : ResetSettings(ok) => ActiveInputAllowed'
  BY <1>1, InputKept DEF ResetSettings, Config
<1>5. \A readOk, registerOk \in BOOLEAN : Reboot(readOk, registerOk) => ActiveInputAllowed'
  BY InputKept DEF Reboot
<1>6. ASSUME Link
      PROVE  ActiveInputAllowed'
  <2>1. \A i \in Inputs : AcceptInput(i) => ActiveInputAllowed'
    BY <1>1 DEF AcceptInput, ActiveInputAllowed, Config
  <2>2. \A i \in Inputs : ReleaseInput(i) => ActiveInputAllowed'
    BY InputKept DEF ReleaseInput
  <2>3. \A i \in Inputs, a \in Addresses : RememberInput(i, a) => ActiveInputAllowed'
    BY <1>1, InputKept DEF RememberInput, Config
  <2>4. \A a \in Addresses, ok \in BOOLEAN :
          "dualsense" \in Inputs /\ RememberPaired(a, ok) => ActiveInputAllowed'
    BY <1>1, InputKept DEF RememberPaired, Config
  <2>5. QED
    BY <1>6, <2>1, <2>2, <2>3, <2>4 DEF Link
<1>7. ASSUME Loop
      PROVE  ActiveInputAllowed'
  <2>1. \A r, b \in BOOLEAN : DeviceTask(r, b) => ActiveInputAllowed'
    BY InputKept DEF DeviceTask
  <2>2. \A ok \in BOOLEAN : Poll(ok) \/ SyncRole(ok) => ActiveInputAllowed'
    BY <1>1, InputKept DEF Poll, SyncRole, Config
  <2>3. \A t \in 1 .. MaxSleep : Sleep(t) => ActiveInputAllowed'
    BY InputKept DEF Sleep
  <2>4. QED
    BY <1>7, <2>1, <2>2, <2>3 DEF Loop
<1>8. QED
  BY <1>2, <1>3, <1>4, <1>5, <1>6, <1>7, CommandAllows, BootReadsAssumption, PersistRequestsAssumption
  DEF Next, Disturbance

(* No input the preference rejects ever drives the output, whichever        *)
(* changes of the preference are refused by the flash.                      *)
THEOREM ActiveInputIsAllowed == Spec => []ActiveInputAllowed
<1>1. Init => ActiveInputAllowed
  BY DEF Init, ActiveInputAllowed
<1>2. QED
  BY <1>1, NextAllows, TypeCorrect, PTL DEF Spec

-----------------------------------------------------------------------------
(* One step of the abstract specification, or none.                         *)
AbstractStep == [Persona!AbstractNext]_<<config.role, usb.role, StoredConfig.role>>

(* The factory roles of the two specifications are the same.                *)
LEMMA FactoryRoles == Persona!FactoryRole = Defaults.role
  BY DEF Persona!FactoryRole, Defaults

(* A step that keeps both live roles, and stores the one in force or none.  *)
LEMMA StoreStep ==
  ASSUME config'.role = config.role, usb'.role = usb.role,
         StoredConfig'.role \in {StoredConfig.role, config.role}
  PROVE  AbstractStep
<1>1. CASE StoredConfig'.role = StoredConfig.role
  BY <1>1 DEF AbstractStep
<1>2. CASE StoredConfig'.role = config.role
  BY <1>2 DEF AbstractStep, Persona!AbstractNext, Persona!Store
<1>3. QED
  BY <1>1, <1>2

(* A new role for the runtime, stored or not, is Choose.                    *)
LEMMA ChooseStep ==
  ASSUME config'.role \in Roles, usb'.role = usb.role,
         StoredConfig'.role \in {StoredConfig.role, config'.role}
  PROVE  AbstractStep
<1>1. config'.role \in Persona!Roles
  BY DEF Persona!Roles, Roles
<1>2. Persona!Choose(config'.role)
  BY DEF Persona!Choose
<1>3. QED
  BY <1>1, <1>2 DEF AbstractStep, Persona!AbstractNext

(* Taking over the role on the wire is Settle.                              *)
LEMMA SettleStep ==
  ASSUME config'.role = usb.role, usb'.role = usb.role,
         StoredConfig'.role \in {StoredConfig.role, usb.role}
  PROVE  AbstractStep
  BY DEF AbstractStep, Persona!AbstractNext, Persona!Settle

(* What the flash operations do to the stored role.                         *)
LEMMA StoredAfterWrite ==
  ASSUME NEW next \in Config, NEW ok \in BOOLEAN, WriteRecord(next, ok)
  PROVE  StoredConfig' \in {StoredConfig, next}
  BY NoRecordAssumption DEF WriteRecord, StoredConfig

(* The stored role depends on the flash alone.                              *)
LEMMA StoredUnchanged ==
  ASSUME UNCHANGED flash
  PROVE  StoredConfig' = StoredConfig
  BY DEF StoredConfig

(* A save leaves the stored role or sets it to the saved one.               *)
LEMMA StoredAfterSave ==
  ASSUME NEW next \in Config, NEW persist \in BOOLEAN, NEW ok \in BOOLEAN,
         SaveThenCommit(next, persist, ok), next.role = config.role
  PROVE  /\ config'.role = config.role
         /\ StoredConfig'.role \in {StoredConfig.role, config.role}
  BY StoredAfterWrite, StoredUnchanged DEF SaveThenCommit

(* Every outcome of a role change is Choose, or changes nothing.            *)
LEMMA ChangeRoleSteps ==
  ASSUME TypeOK, NEW role \in Roles, NEW persist \in BOOLEAN, NEW ok \in BOOLEAN,
         ChangeRole(role, persist, ok)
  PROVE  AbstractStep
<1> DEFINE next == [config EXCEPT !.role = role]
           asked == RequestRole(usb, role)
           undone == RequestRole(asked, config.role)
<1>1. /\ usb \in UsbRecord /\ config \in Config /\ config.role \in Roles
      /\ asked \in UsbRecord /\ next \in Config /\ next.role = role
  BY RequestRoleType DEF TypeOK, Config
<1>2. usb'.role = usb.role
  <2>1. asked.role = usb.role /\ undone.role = asked.role
    BY <1>1, RequestRoleType
  <2>2. usb' = asked \/ usb' = undone
    BY DEF ChangeRole
  <2>3. QED
    BY <2>1, <2>2
<1>3. CASE SaveThenCommit(next, persist, ok)
  <2>1. config' \in {config, next}
    BY <1>3 DEF SaveThenCommit
  <2>2. \/ config' = next /\ StoredConfig' \in {StoredConfig, next}
        \/ StoredConfig' = StoredConfig
    BY <1>1, <1>3, StoredAfterWrite, StoredUnchanged DEF SaveThenCommit, WriteRecord
  <2>3. QED
    BY <1>1, <1>2, <2>1, <2>2, ChooseStep
<1>4. CASE UNCHANGED flash /\ config' \in {config, next}
  BY <1>1, <1>2, <1>4, StoredUnchanged, ChooseStep
<1>5. QED
  BY <1>3, <1>4 DEF ChangeRole

(* So is every outcome of a reset of the settings.                          *)
LEMMA ResetSettingsSteps ==
  ASSUME TypeOK, NEW ok \in BOOLEAN, ResetSettings(ok)
  PROVE  AbstractStep
<1> DEFINE moved == config.role # Defaults.role
           asked == IF moved THEN RequestRole(usb, Defaults.role) ELSE usb
           undone == IF moved THEN RequestRole(asked, config.role) ELSE asked
<1>1. /\ usb \in UsbRecord /\ config \in Config /\ config.role \in Roles
      /\ Defaults \in Config /\ Defaults.role \in Roles /\ asked \in UsbRecord
  BY DefaultsType, RequestRoleType DEF TypeOK, Config
<1>2. usb'.role = usb.role
  <2>1. asked.role = usb.role /\ undone.role = asked.role
    BY <1>1, RequestRoleType
  <2>2. usb' = asked \/ usb' = undone
    BY DEF ResetSettings
  <2>3. QED
    BY <2>1, <2>2
<1>3. CASE config' = Defaults /\ flash' = NoRecord
  BY <1>1, <1>2, <1>3, ChooseStep DEF StoredConfig
<1>4. CASE /\ UNCHANGED flash
           /\ config' \in {config, [config EXCEPT !.role = Defaults.role]}
  <2>1. config'.role \in Roles
    BY <1>1, <1>4 DEF Config
  <2>2. QED
    BY <1>2, <1>4, <2>1, StoredUnchanged, ChooseStep
<1>5. QED
  BY <1>3, <1>4 DEF ResetSettings, DeleteRecord

(* A reconnect keeps the persona on the wire.                               *)
LEMMA ReconnectRole ==
  ASSUME NEW u \in UsbRecord, NEW ok \in BOOLEAN
  PROVE  ForceReconnect(u, ok).role = u.role
  BY DEF ForceReconnect, UsbRecord

(* The operations on other settings at most store the intended role.        *)
LEMMA SetterSteps ==
  ASSUME TypeOK, NEW persist \in BOOLEAN, NEW ok \in BOOLEAN
  PROVE  /\ \A role \in Roles : KeepRole(role, persist, ok) => AbstractStep
         /\ \A p \in Preferences : SetInputPreference(p, persist, ok) => AbstractStep
         /\ \A e \in AutoRequests : SetAutoConnect(e, persist, ok) => AbstractStep
         /\ \A i \in Inputs : ForgetInput(i, persist, ok) => AbstractStep
         /\ SaveSettings(ok) => AbstractStep
         /\ Reconnect(ok) => AbstractStep
<1>1. config \in Config /\ usb \in UsbRecord
  BY DEF TypeOK
<1>2. \A role \in Roles : KeepRole(role, persist, ok) => AbstractStep
  BY <1>1, StoredAfterWrite, StoredUnchanged, StoreStep DEF KeepRole, SaveNow
<1>3. ASSUME NEW p \in Preferences, SetInputPreference(p, persist, ok)
      PROVE  AbstractStep
  <2> DEFINE next == [config EXCEPT !.preference = p]
  <2>1. next \in Config /\ next.role = config.role
    BY <1>1 DEF Config
  <2>2. QED
    BY <1>3, <2>1, StoredAfterSave, StoreStep DEF SetInputPreference
<1>4. ASSUME NEW e \in AutoRequests, SetAutoConnect(e, persist, ok)
      PROVE  AbstractStep
  <2> DEFINE next == [config EXCEPT !.autoConnect = e]
  <2>1. next \in Config /\ next.role = config.role
    BY <1>1, AutoRequestsAssumption DEF Config
  <2>2. QED
    BY <1>4, <2>1, StoredAfterSave, StoreStep DEF SetAutoConnect
<1>5. ASSUME NEW i \in Inputs, ForgetInput(i, persist, ok)
      PROVE  AbstractStep
  <2> DEFINE next == [config EXCEPT !.target[i] = NoAddress]
  <2>1. next \in Config /\ next.role = config.role
    BY <1>1 DEF Config
  <2>2. QED
    BY <1>5, <2>1, StoredAfterSave, StoreStep DEF ForgetInput
<1>6. SaveSettings(ok) => AbstractStep
  BY <1>1, StoredAfterWrite, StoreStep DEF SaveSettings, SaveNow
<1>7. Reconnect(ok) => AbstractStep
  <2>1. ForceReconnect(usb, ok).role = usb.role
    BY <1>1, ReconnectRole
  <2>2. QED
    BY <2>1, StoredUnchanged, StoreStep DEF Reconnect
<1>8. QED
  BY <1>2, <1>3, <1>4, <1>5, <1>6, <1>7

(* So do the links.                                                         *)
LEMMA LinkSteps ==
  ASSUME TypeOK, Link
  PROVE  AbstractStep
<1>1. config \in Config
  BY DEF TypeOK
<1>2. \A i \in Inputs : AcceptInput(i) \/ ReleaseInput(i) => AbstractStep
  BY <1>1, StoredUnchanged, StoreStep DEF AcceptInput, ReleaseInput, Config
<1>3. \A i \in Inputs, a \in Addresses : RememberInput(i, a) => AbstractStep
  BY <1>1, StoredUnchanged, StoreStep DEF RememberInput, Config
<1>4. ASSUME NEW a \in Addresses, NEW ok \in BOOLEAN, "dualsense" \in Inputs, RememberPaired(a, ok)
      PROVE  AbstractStep
  <2> DEFINE next == [config EXCEPT !.target["dualsense"] = a]
  <2>1. next \in Config /\ next.role = config.role
    BY <1>1, <1>4 DEF Config
  <2>2. QED
    BY <1>4, <2>1, StoredAfterWrite, StoreStep DEF RememberPaired
<1>5. QED
  BY <1>2, <1>3, <1>4 DEF Link

(* The role task switches, the poll stores, the comparison settles.         *)
LEMMA LoopSteps ==
  ASSUME TypeOK, RoleAgreement, Loop
  PROVE  AbstractStep
<1>1. /\ usb \in UsbRecord /\ config \in Config /\ config.role \in Roles
      /\ usb.role \in Roles /\ PendingAgreement(usb, config.role)
  BY RoleAgreementParts DEF TypeOK, Config, UsbRecord
<1>2. ASSUME NEW registerOk \in BOOLEAN, NEW rollbackOk \in BOOLEAN,
             DeviceTask(registerOk, rollbackOk)
      PROVE  AbstractStep
  <2>1. usb.pending = config.role
    BY <1>2 DEF DeviceTask, RoleAgreement
  <2>2. usb'.role \in {usb.role, config.role}
    BY <1>1, <1>2, <2>1, TaskRoleAgrees DEF DeviceTask
  <2>3. config' = config /\ StoredConfig' = StoredConfig
    BY <1>2, StoredUnchanged DEF DeviceTask
  <2>4. QED
    BY <2>2, <2>3 DEF AbstractStep, Persona!AbstractNext, Persona!Switch
<1>3. \A ok \in BOOLEAN : Poll(ok) => AbstractStep
  BY <1>1, StoredAfterWrite, StoredUnchanged, StoreStep DEF Poll
<1>4. ASSUME NEW ok \in BOOLEAN, SyncRole(ok)
      PROVE  AbstractStep
  <2> DEFINE next == [config EXCEPT !.role = usb.role]
  <2>1. next \in Config /\ next.role = usb.role
    BY <1>1 DEF Config
  <2>2. CASE ~usb.requested /\ usb.role # config.role
    BY <1>4, <2>1, <2>2, StoredAfterWrite, SettleStep DEF SyncRole
  <2>3. CASE ~(~usb.requested /\ usb.role # config.role)
    BY <1>4, <2>3, StoredUnchanged, StoreStep DEF SyncRole
  <2>4. QED
    BY <2>2, <2>3
<1>5. ASSUME NEW elapsed \in 1 .. MaxSleep, Sleep(elapsed)
      PROVE  AbstractStep
  <2>1. elapsed \in Nat
    BY MaxSleepAssumption
  <2>2. QED
    BY <1>1, <1>5, <2>1, AgeingAgrees, StoredUnchanged, StoreStep DEF Sleep
<1>6. QED
  BY <1>2, <1>3, <1>4, <1>5 DEF Loop

(* A reset of the board is Restart.                                         *)
LEMMA RebootSteps ==
  ASSUME TypeOK, NEW readOk \in BOOLEAN, NEW registerOk \in BOOLEAN,
         Reboot(readOk, registerOk)
  PROVE  AbstractStep
<1>1. config' \in {StoredConfig, Defaults}
  BY DEF Reboot, LoadedConfig, LoadSucceeds, StoredConfig
<1>2. usb'.role = config'.role
  BY DEF Reboot, DeviceInit
<1>3. StoredConfig' = StoredConfig
  BY StoredUnchanged DEF Reboot
<1>4. QED
  BY <1>1, <1>2, <1>3, FactoryRoles DEF AbstractStep, Persona!AbstractNext, Persona!Restart

(* Every step of the runtime is a step of the abstract persona switch.      *)
LEMMA NextSteps ==
  ASSUME TypeOK, RoleAgreement, [Next]_vars
  PROVE  AbstractStep
<1>1. CASE UNCHANGED vars
  BY <1>1, StoredUnchanged, StoreStep DEF vars
<1>2. ASSUME NEW persist \in BOOLEAN, NEW ok \in BOOLEAN, Command(persist, ok)
      PROVE  AbstractStep
  <2>1. NextRole(config.role) \in Roles
    BY NextRoleType DEF TypeOK, Config
  <2>2. QED
    BY <1>2, <2>1, ChangeRoleSteps, SetterSteps, RoleRequestsAssumption
    DEF Command, SetRole, CycleRole
<1>3. QED
  BY <1>1, <1>2, ResetSettingsSteps, SetterSteps, LinkSteps, LoopSteps, RebootSteps,
     BootReadsAssumption, PersistRequestsAssumption
  DEF Next, Disturbance

(* The two initial states agree.                                            *)
LEMMA InitRefines == Init => Persona!AbstractInit
  BY FactoryRoles DEF Init, DeviceInit, StoredConfig, Persona!AbstractInit

(* The runtime with its flash transaction, its grace period, its rollback   *)
(* and its loop implements the abstract persona switch.                     *)
THEOREM RuntimeImplementsPersonaSwitch == Spec => PersonaSwitching
<1>1. TypeOK /\ RoleAgreement /\ [Next]_vars => [Persona!AbstractNext]_(Persona!abstractVars)
  BY NextSteps DEF AbstractStep, Persona!abstractVars
<1>2. QED
  BY <1>1, InitRefines, TypeCorrect, RolesAgree, PTL
  DEF Spec, PersonaSwitching, Persona!AbstractSpec

-----------------------------------------------------------------------------
(* The target addresses are lost only where the code gives them up.         *)

(* A save stores the configuration it puts into force, or nothing.          *)
LEMMA SaveThenCommitStores ==
  ASSUME NEW next \in Config, NEW persist \in BOOLEAN, NEW ok \in BOOLEAN,
         SaveThenCommit(next, persist, ok)
  PROVE  StoredConfig' \in {StoredConfig, config'} /\ config' \in {config, next}
<1>1. CASE persist /\ ok
  BY <1>1, StoredAfterWrite DEF SaveThenCommit
<1>2. CASE ~(persist /\ ok)
  <2>1. UNCHANGED flash
    BY <1>2 DEF SaveThenCommit, WriteRecord
  <2>2. QED
    BY <2>1, StoredUnchanged DEF SaveThenCommit
<1>3. QED
  BY <1>1, <1>2

(* Whatever a step stores is the configuration in force after it.           *)
LEMMA StoredIsInForce ==
  ASSUME TypeOK, [Next]_vars
  PROVE  StoredConfig' \in {StoredConfig, config'}
<1> DEFINE Stores == StoredConfig' \in {StoredConfig, config'}
<1>1. /\ config \in Config /\ config.role \in Roles /\ usb.role \in Roles
  BY DEF TypeOK, Config, UsbRecord
<1>2. UNCHANGED flash => Stores
  BY StoredUnchanged
<1>3. ASSUME NEW role \in Roles, NEW persist \in BOOLEAN, NEW ok \in BOOLEAN
      PROVE  /\ ChangeRole(role, persist, ok) => Stores
             /\ KeepRole(role, persist, ok) => Stores
  <2>1. [config EXCEPT !.role = role] \in Config
    BY <1>1 DEF Config
  <2>2. QED
    BY <1>1, <1>2, <2>1, SaveThenCommitStores, StoredAfterWrite
    DEF ChangeRole, KeepRole, SaveNow
<1>4. ASSUME NEW persist \in BOOLEAN, NEW ok \in BOOLEAN
      PROVE  /\ \A p \in Preferences : SetInputPreference(p, persist, ok) => Stores
             /\ \A e \in AutoRequests : SetAutoConnect(e, persist, ok) => Stores
             /\ \A i \in Inputs : ForgetInput(i, persist, ok) => Stores
  <2>1. /\ \A p \in Preferences : [config EXCEPT !.preference = p] \in Config
        /\ \A e \in AutoRequests : [config EXCEPT !.autoConnect = e] \in Config
        /\ \A i \in Inputs : [config EXCEPT !.target[i] = NoAddress] \in Config
    BY <1>1, AutoRequestsAssumption DEF Config
  <2>2. QED
    BY <2>1, SaveThenCommitStores DEF SetInputPreference, SetAutoConnect, ForgetInput
<1>5. \A ok \in BOOLEAN : SaveSettings(ok) \/ Reconnect(ok) => Stores
  BY <1>1, <1>2, StoredAfterWrite DEF SaveSettings, SaveNow, Reconnect
<1>6. \A ok \in BOOLEAN : ResetSettings(ok) => Stores
  BY <1>2 DEF ResetSettings, DeleteRecord, StoredConfig
<1>7. Link => Stores
  <2>1. \A a \in Addresses, ok \in BOOLEAN :
          "dualsense" \in Inputs /\ RememberPaired(a, ok) => Stores
    <3>1. \A a \in Addresses : "dualsense" \in Inputs =>
            [config EXCEPT !.target["dualsense"] = a] \in Config
      BY <1>1 DEF Config
    <3>2. QED
      BY <3>1, StoredAfterWrite DEF RememberPaired
  <2>2. QED
    BY <1>2, <2>1 DEF Link, AcceptInput, ReleaseInput, RememberInput
<1>8. Loop => Stores
  <2>1. [config EXCEPT !.role = usb.role] \in Config
    BY <1>1 DEF Config
  <2>2. \A ok \in BOOLEAN : Poll(ok) => Stores
    BY <1>1, <1>2, StoredAfterWrite DEF Poll
  <2>3. \A ok \in BOOLEAN : SyncRole(ok) => Stores
    BY <1>2, <2>1, StoredAfterWrite DEF SyncRole
  <2>4. QED
    BY <1>2, <2>2, <2>3 DEF Loop, DeviceTask, Sleep
<1>9. \A readOk, registerOk \in BOOLEAN : Reboot(readOk, registerOk) => Stores
  BY <1>2 DEF Reboot
<1>10. NextRole(config.role) \in Roles
  BY <1>1, NextRoleType
<1>11. CASE UNCHANGED vars
  BY <1>2, <1>11 DEF vars
<1>12. ASSUME NEW persist \in BOOLEAN, NEW ok \in BOOLEAN, Command(persist, ok)
      PROVE  Stores
  <2> HIDE DEF Stores
  <2> QED
    BY <1>3, <1>4, <1>10, <1>12, RoleRequestsAssumption DEF Command, SetRole, CycleRole
<1>13. CASE Disturbance
  BY <1>5, <1>6, <1>7, <1>9, <1>12, <1>13, BootReadsAssumption, PersistRequestsAssumption, Zenon DEF Disturbance
<1>14. QED
  BY <1>8, <1>11, <1>13, Zenon DEF Next

(* What a step does about a target that is not saved: it leaves the         *)
(* settings dirty, or in the flash, or adds no target to clean ones.        *)
Accounted ==
  \/ dirty'
  \/ StoredConfig' = config'
  \/ \A i \in Inputs :
       config'.target[i] # NoAddress => ~dirty /\ config'.target[i] = config.target[i]

(* Nothing is lost track of by a step that adds no target and leaves the    *)
(* dirty flag alone.                                                        *)
LEMMA AddsNoTarget ==
  ASSUME dirty' = dirty, dirty \in BOOLEAN,
         \A i \in Inputs : config'.target[i] \in {config.target[i], NoAddress}
  PROVE  Accounted
  BY DEF Accounted

(* Nor by an attempt to save before the change is made.                     *)
LEMMA SaveThenCommitAccounts ==
  ASSUME TypeOK, NEW next \in Config, NEW persist \in BOOLEAN, NEW ok \in BOOLEAN,
         SaveThenCommit(next, persist, ok)
  PROVE  Accounted
<1>1. CASE persist /\ ok
  BY <1>1, WrittenIsStored DEF SaveThenCommit, WriteRecord, Accounted
<1>2. CASE persist /\ ~ok
  BY <1>2, AddsNoTarget DEF SaveThenCommit, SaveFailed, TypeOK
<1>3. CASE ~persist
  BY <1>3 DEF SaveThenCommit, MarkDirty, Accounted
<1>4. QED
  BY <1>1, <1>2, <1>3

(* Every step accounts for the targets.                                     *)
LEMMA TargetsAccounted ==
  ASSUME TypeOK, [Next]_vars
  PROVE  Accounted
<1>1. /\ config \in Config /\ config.role \in Roles /\ usb.role \in Roles /\ dirty \in BOOLEAN
  BY DEF TypeOK, Config, UsbRecord
<1>2. UNCHANGED <<config, dirty>> => Accounted
  BY <1>1, AddsNoTarget
<1>3. \A role \in Roles : /\ [config EXCEPT !.role = role] \in Config
                         /\ [config EXCEPT !.role = role].target = config.target
  BY <1>1 DEF Config
<1>4. ASSUME NEW persist \in BOOLEAN, NEW ok \in BOOLEAN, Command(persist, ok)
      PROVE  Accounted
  <2>1. \A role \in Roles : ChangeRole(role, persist, ok) => Accounted
    BY <1>2, <1>3, SaveThenCommitAccounts DEF ChangeRole, MarkDirty, Accounted
  <2>2. \A role \in Roles : KeepRole(role, persist, ok) => Accounted
    BY <1>1, <1>2, WrittenIsStored DEF KeepRole, SaveNow, WriteRecord, Accounted
  <2>3. /\ \A p \in Preferences : [config EXCEPT !.preference = p] \in Config
        /\ \A e \in AutoRequests : [config EXCEPT !.autoConnect = e] \in Config
        /\ \A i \in Inputs : [config EXCEPT !.target[i] = NoAddress] \in Config
    BY <1>1, AutoRequestsAssumption DEF Config
  <2>4. /\ \A p \in Preferences : SetInputPreference(p, persist, ok) => Accounted
        /\ \A e \in AutoRequests : SetAutoConnect(e, persist, ok) => Accounted
        /\ \A i \in Inputs : ForgetInput(i, persist, ok) => Accounted
    BY <2>3, SaveThenCommitAccounts DEF SetInputPreference, SetAutoConnect, ForgetInput
  <2>5. NextRole(config.role) \in Roles
    BY <1>1, NextRoleType
  <2>6. QED
    BY <1>4, <2>1, <2>2, <2>4, <2>5, RoleRequestsAssumption DEF Command, SetRole, CycleRole
<1>5. \A ok \in BOOLEAN : SaveSettings(ok) \/ Reconnect(ok) => Accounted
  BY <1>1, <1>2, WrittenIsStored DEF SaveSettings, SaveNow, Reconnect, WriteRecord, Accounted
<1>6. ASSUME NEW ok \in BOOLEAN, ResetSettings(ok)
      PROVE  Accounted
  <2>1. CASE UNCHANGED <<config, dirty>>
    BY <1>2, <2>1
  <2>2. CASE ok /\ DeleteRecord(ok) /\ config' = Defaults
    BY <2>2 DEF DeleteRecord, Accounted, StoredConfig
  <2>3. CASE MarkDirty
    BY <2>3 DEF MarkDirty, Accounted
  <2>4. QED
    BY <1>6, <2>1, <2>2, <2>3 DEF ResetSettings
<1>7. Link => Accounted
  <2>1. ASSUME NEW a \in Addresses, NEW ok \in BOOLEAN, "dualsense" \in Inputs, RememberPaired(a, ok)
        PROVE  Accounted
    <3>1. [config EXCEPT !.target["dualsense"] = a] \in Config
      BY <1>1, <2>1 DEF Config
    <3>2. CASE ok
      BY <2>1, <3>1, <3>2, WrittenIsStored DEF RememberPaired, WriteRecord, Accounted
    <3>3. CASE ~ok
      BY <2>1, <3>3 DEF RememberPaired, Accounted
    <3>4. QED
      BY <3>2, <3>3
  <2>2. \A i \in Inputs : AcceptInput(i) \/ ReleaseInput(i) => Accounted
    BY <1>2 DEF AcceptInput, ReleaseInput, MarkDirty, Accounted
  <2>3. \A i \in Inputs, a \in Addresses : RememberInput(i, a) => Accounted
    BY DEF RememberInput, MarkDirty, Accounted
  <2>4. QED
    BY <2>1, <2>2, <2>3 DEF Link
<1>8. Loop => Accounted
  <2>1. \A ok \in BOOLEAN : Poll(ok) => Accounted
    BY <1>1, <1>2, WrittenIsStored DEF Poll, WriteRecord, Accounted
  <2>2. ASSUME NEW ok \in BOOLEAN, SyncRole(ok)
        PROVE  Accounted
    <3>1. [config EXCEPT !.role = usb.role] \in Config
      BY <1>1, <1>3
    <3>2. CASE UNCHANGED <<config, dirty>>
      BY <1>2, <3>2
    <3>3. CASE ok /\ flash' = config' /\ config' \in Config
      BY <3>3, WrittenIsStored DEF Accounted
    <3>4. CASE MarkDirty
      BY <3>4 DEF MarkDirty, Accounted
    <3>5. QED
      BY <2>2, <3>1, <3>2, <3>3, <3>4 DEF SyncRole, WriteRecord
  <2>3. QED
    BY <1>2, <2>1, <2>2 DEF Loop, DeviceTask, Sleep
<1>9. \A readOk, registerOk \in BOOLEAN : Reboot(readOk, registerOk) => Accounted
  BY DEF Reboot, LoadedConfig, LoadSucceeds, StoredConfig, Defaults, Accounted
<1>10. UNCHANGED vars => Accounted
  BY <1>2 DEF vars
<1> HIDE DEF Accounted
<1>11. CASE Disturbance
  BY <1>4, <1>5, <1>6, <1>7, <1>9, <1>11, BootReadsAssumption, PersistRequestsAssumption, Zenon
  DEF Disturbance
<1>12. QED
  BY <1>8, <1>10, <1>11, Zenon DEF Next

(* A target in force that the flash does not know waits for a save.         *)
UnsavedIsDirty ==
  \A i \in Inputs :
    config.target[i] # NoAddress /\ StoredConfig.target[i] = NoAddress => dirty

(* Every step keeps it so.                                                  *)
LEMMA NextUnsaved ==
  ASSUME TypeOK, UnsavedIsDirty, [Next]_vars
  PROVE  UnsavedIsDirty'
<1> SUFFICES ASSUME NEW i \in Inputs,
                    config'.target[i] # NoAddress, StoredConfig'.target[i] = NoAddress
             PROVE  dirty'
  BY DEF UnsavedIsDirty
<1>1. StoredConfig' \in {StoredConfig, config'} /\ Accounted
  BY StoredIsInForce, TargetsAccounted
<1>2. StoredConfig' = StoredConfig
  BY <1>1
<1>3. QED
  BY <1>1, <1>2 DEF UnsavedIsDirty, Accounted

(* The settings are dirty as long as a target is not saved.                 *)
THEOREM UnsavedTargetsAreDirty == Spec => []UnsavedIsDirty
<1>1. Init => UnsavedIsDirty
  BY DEF Init, UnsavedIsDirty, Defaults
<1>2. QED
  BY <1>1, NextUnsaved, TypeCorrect, PTL DEF Spec

(* The steps that may take a target away from the configuration in force.   *)
GivesUp(input) ==
  \/ \E persist \in PersistRequests, ok \in BOOLEAN : ForgetInput(input, persist, ok)
  \/ \E ok \in BOOLEAN : ResetSettings(ok)
  \/ \E readOk \in BootReads, ok \in BOOLEAN :
       /\ Reboot(readOk, ok)
       /\ readOk => dirty /\ StoredConfig.target[input] = NoAddress

(* No other step does.                                                      *)
LEMMA TargetsHeld ==
  ASSUME TypeOK, UnsavedIsDirty, [Next]_vars, NEW input \in Inputs,
         config.target[input] # NoAddress, config'.target[input] = NoAddress
  PROVE  GivesUp(input)
<1> DEFINE Held == config'.target[input] = config.target[input]
<1>1. /\ config \in Config /\ config.role \in Roles /\ usb.role \in Roles
      /\ NoAddress \notin Addresses
  BY NoAddressAssumption DEF TypeOK, Config, UsbRecord
<1>2. config' = config => Held
  OBVIOUS
<1>3. \A role \in Roles : [config EXCEPT !.role = role].target = config.target
  BY <1>1 DEF Config
<1>4. ASSUME NEW persist \in PersistRequests, NEW ok \in BOOLEAN, Command(persist, ok)
      PROVE  GivesUp(input)
  <2> persist \in BOOLEAN
    BY PersistRequestsAssumption
  <2>1. \A role \in Roles : ChangeRole(role, persist, ok) => Held
    BY <1>3 DEF ChangeRole, SaveThenCommit
  <2>2. \A role \in Roles : KeepRole(role, persist, ok) => Held
    BY DEF KeepRole, SaveNow
  <2>3. \A p \in Preferences : SetInputPreference(p, persist, ok) => Held
    BY <1>1 DEF SetInputPreference, SaveThenCommit, Config
  <2>4. \A e \in AutoRequests : SetAutoConnect(e, persist, ok) => Held
    BY <1>1 DEF SetAutoConnect, SaveThenCommit, Config
  <2>5. \A i \in Inputs \ {input} : ForgetInput(i, persist, ok) => Held
    BY <1>1 DEF ForgetInput, SaveThenCommit, Config
  <2>6. NextRole(config.role) \in Roles
    BY <1>1, NextRoleType
  <2>7. ~Held
    OBVIOUS
  <2> HIDE DEF Held
  <2>8. ForgetInput(input, persist, ok)
    BY <1>4, <2>1, <2>2, <2>3, <2>4, <2>5, <2>6, <2>7, RoleRequestsAssumption
    DEF Command, SetRole, CycleRole
  <2>9. QED
    BY <2>8 DEF GivesUp
<1>5. \A ok \in BOOLEAN : SaveSettings(ok) \/ Reconnect(ok) => Held
  BY DEF SaveSettings, SaveNow, Reconnect
<1>6. Link => config'.target[input] # NoAddress
  <2>1. \A i \in Inputs : AcceptInput(i) \/ ReleaseInput(i) => Held
    BY <1>1 DEF AcceptInput, ReleaseInput, Config
  <2>2. \A i \in Inputs, a \in Addresses :
          RememberInput(i, a) => config'.target[input] \in {config.target[input], a}
    BY <1>1 DEF RememberInput, Config
  <2>3. \A a \in Addresses, ok \in BOOLEAN :
          RememberPaired(a, ok) => config'.target[input] \in {config.target[input], a}
    <3>1. \A a \in Addresses :
            [config EXCEPT !.target["dualsense"] = a].target[input] \in {config.target[input], a}
      BY <1>1 DEF Config
    <3>2. QED
      BY <3>1, Zenon DEF RememberPaired
  <2>4. QED
    BY <1>1, <2>1, <2>2, <2>3 DEF Link
<1>7. Loop => Held
  BY <1>1, <1>3 DEF Loop, DeviceTask, Poll, SyncRole, Sleep
<1>8. ASSUME NEW readOk \in BootReads, NEW registerOk \in BOOLEAN, Reboot(readOk, registerOk)
      PROVE  GivesUp(input)
  <2>1. ASSUME readOk
        PROVE  dirty /\ StoredConfig.target[input] = NoAddress
    <3>1. config' = StoredConfig
      BY <1>8, <2>1 DEF Reboot, LoadedConfig, LoadSucceeds, StoredConfig
    <3>2. QED
      BY <3>1 DEF UnsavedIsDirty
  <2>2. QED
    BY <1>8, <2>1 DEF GivesUp
<1>9. \A ok \in BOOLEAN : ResetSettings(ok) => GivesUp(input)
  BY DEF GivesUp
<1>10. ~Held
  OBVIOUS
<1>11. ~UNCHANGED vars
  BY <1>2, <1>10 DEF vars
<1> HIDE DEF Held
<1>12. QED
  BY <1>4, <1>5, <1>6, <1>7, <1>8, <1>9, <1>10, <1>11 DEF Next, Disturbance

(* A paired controller is lost only where the code gives it up: by a forget *)
(* or a reset of the settings, at a boot that cannot read NVDS, or at one   *)
(* before the save that was due; and the flash loses it only together with  *)
(* the configuration in force, whichever saves fail and roles are undone.   *)
THEOREM TargetsLostOnlyByForget == Spec => TargetLostOnlyByForget
<1> DEFINE Lost ==
      \A input \in Inputs :
        /\ /\ config.target[input] # NoAddress
           /\ config'.target[input] = NoAddress
           => \/ \E persist \in PersistRequests, ok \in BOOLEAN : ForgetInput(input, persist, ok)
              \/ \E ok \in BOOLEAN : ResetSettings(ok)
              \/ \E readOk \in BootReads, ok \in BOOLEAN :
                   /\ Reboot(readOk, ok)
                   /\ readOk => dirty /\ StoredConfig.target[input] = NoAddress
        /\ /\ StoredConfig.target[input] # NoAddress
           /\ StoredConfig'.target[input] = NoAddress
           => config'.target[input] = NoAddress
<1>1. ASSUME TypeOK, UnsavedIsDirty, [Next]_vars
      PROVE  Lost
  <2>1. StoredConfig' \in {StoredConfig, config'}
    BY <1>1, StoredIsInForce
  <2>2. ASSUME NEW input \in Inputs,
               StoredConfig.target[input] # NoAddress, StoredConfig'.target[input] = NoAddress
        PROVE  config'.target[input] = NoAddress
    BY <2>1, <2>2
  <2>3. ASSUME NEW input \in Inputs,
               config.target[input] # NoAddress, config'.target[input] = NoAddress
        PROVE  GivesUp(input)
    BY <1>1, <2>3, TargetsHeld
  <2>4. QED
    BY <2>2, <2>3 DEF GivesUp
<1>2. TypeOK /\ UnsavedIsDirty /\ [Next]_vars => [Lost]_vars
  BY <1>1
<1>3. QED
  BY <1>2, TypeCorrect, UnsavedTargetsAreDirty, PTL DEF Spec, TargetLostOnlyByForget
=============================================================================
