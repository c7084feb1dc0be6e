------------------------ MODULE InputArbiter_proofs -------------------------
(***************************************************************************)
(* No report shows a stale input or one that does not drive the output,    *)
(* and samples taken in the order of their stamps do not displace a        *)
(* controller in use, for any limits and any time an iteration takes.      *)
(*                                                                         *)
(* What carries both: the stamp the runtime keeps is never newer than what *)
(* is held of the active controller, be it the snapshot its native reports *)
(* are made of or a sample of it that still waits in its mailbox.          *)
(***************************************************************************)
EXTENDS InputArbiter, TLAPS

(* The ages, NoSample being the greatest.                                   *)
AgesOK ==
  /\ arb.age \in Nat /\ arb.age <= Cap
  /\ arb.passthrough \in Nat /\ arb.passthrough <= NoSample
  /\ mail["dualsense"] \in Nat /\ mail["dualsense"] <= NoSample
  /\ mail["ns2pro"] \in Nat /\ mail["ns2pro"] <= NoSample
  /\ mail = [s \in Sources |-> mail[s]]
  /\ taken \in Nat /\ taken <= NoSample
  /\ snapshot \in Nat /\ snapshot <= NoSample

(* The arbitration is a record of its fields.                               *)
Shaped(r) ==
  r = [active |-> r.active, valid |-> r.valid, stale |-> r.stale, age |-> r.age,
       input |-> r.input, lastActive |-> r.lastActive, passthrough |-> r.passthrough]

(* Only an input the preference accepts is active, and only its state is    *)
(* held.                                                                    *)
Driven(r, p) ==
  /\ r.active \in Sources \cup {NoInput}
  /\ r.valid \in BOOLEAN /\ (r.active = NoInput => r.valid = FALSE)
  /\ r.active # NoInput => PreferenceAccepts(p, r.active)
  /\ r.input \in {NoInput, r.active}

(* What is held of the active controller is not older than its stamp.       *)
NoOlder(age, than) == age = NoSample \/ age <= than

InOrder ==
  /\ arb.active = "ns2pro" =>
       snapshot <= arb.age /\ NoOlder(taken, arb.age) /\ NoOlder(mail["ns2pro"], arb.age)
  /\ arb.active = "dualsense" => NoOlder(mail["dualsense"], arb.age)
  /\ taken # NoSample => NoOlder(mail["ns2pro"], taken)

(* From the poll to the report an input that is stale says so.              *)
StaleIsMarked ==
  phase \in {"links", "report"} => arb.valid = FALSE \/ arb.age <= Stale \/ arb.stale = TRUE

ArbiterInv == AgesOK /\ Shaped(arb) /\ Driven(arb, preference) /\ InOrder /\ StaleIsMarked

-----------------------------------------------------------------------------
LEMMA CapIsNatural == OldestSample \in Nat /\ Cap \in Nat /\ NoSample = Cap + 1 /\ Cap > Takeover
  BY TimesAssumption, SkewedAssumption DEF OldestSample, Cap, NoSample

LEMMA InitArbiter == Init => ArbiterInv
  BY CapIsNatural DEF Init, ArbiterInv, AgesOK, Shaped, Driven, InOrder, NoOlder, StaleIsMarked, Sources,
       NoInput

(* Time preserves the order of ages.                                        *)
LEMMA Aged ==
  ASSUME NEW a \in Nat, NEW e \in Nat, a <= NoSample
  PROVE  /\ Older(a, e) \in Nat /\ Older(a, e) <= NoSample
         /\ a <= Cap => Older(a, e) <= Cap
         /\ a = NoSample <=> Older(a, e) = NoSample
         /\ \A b \in Nat : a <= b /\ b <= Cap => Older(a, e) <= Older(b, e)
  BY CapIsNatural DEF Older

(* A sample that is accepted makes its source the active one.               *)
LEMMA Accepting ==
  ASSUME NEW r, Shaped(r), NEW source \in Sources, NEW age, MayDrive(r, source, age)
  PROVE  /\ Shaped(Accept(r, source, age))
         /\ Accept(r, source, age).active = source
         /\ Accept(r, source, age).input = source
         /\ Accept(r, source, age).age = age
         /\ Accept(r, source, age).passthrough \in {age, r.passthrough}
         /\ PreferenceAccepts(preference, source)
<1>1. Accept(r, source, age) =
        [active |-> source, valid |-> TRUE, stale |-> FALSE, age |-> age, input |-> source,
         lastActive |-> source,
         passthrough |-> IF source = "dualsense" THEN age ELSE r.passthrough]
  BY DEF Accept, Shaped
<1>2. QED
  BY <1>1 DEF Shaped, MayDrive

LEMMA AcceptingIsValid ==
  ASSUME NEW r, Shaped(r), NEW source, NEW age, MayDrive(r, source, age)
  PROVE  Accept(r, source, age).valid = TRUE
<1>1. Accept(r, source, age) =
        [active |-> source, valid |-> TRUE, stale |-> FALSE, age |-> age, input |-> source,
         lastActive |-> source,
         passthrough |-> IF source = "dualsense" THEN age ELSE r.passthrough]
  BY DEF Accept, Shaped
<1>2. QED
  BY <1>1

LEMMA Refusing ==
  ASSUME NEW r, NEW source, NEW age, ~MayDrive(r, source, age)
  PROVE  Accept(r, source, age) = r
  BY DEF Accept

(* Releasing the input leaves nothing that drives.                          *)
LEMMA Releasing ==
  ASSUME ArbiterInv, arb' = Released(arb), preference' \in PreferenceValues \cup {preference},
         UNCHANGED <<mail, taken, snapshot>>
  PROVE  ArbiterInv'
<1>1. arb' = [active |-> NoInput, valid |-> FALSE, stale |-> TRUE, age |-> 0, input |-> NoInput,
              lastActive |-> arb.lastActive, passthrough |-> arb.passthrough]
  BY DEF Released, ArbiterInv, Shaped
<1>2. QED
  BY <1>1, CapIsNatural DEF ArbiterInv, AgesOK, Shaped, Driven, InOrder, NoOlder, StaleIsMarked, Sources,
       NoInput

-----------------------------------------------------------------------------
LEMMA CommandSteps ==
  ASSUME ArbiterInv, Command
  PROVE  ArbiterInv'
<1>1. ASSUME NEW value \in Preferences, SetPreference(value)
      PROVE  ArbiterInv'
  <2>1. CASE arb.active = NoInput \/ PreferenceAccepts(value, arb.active)
    BY <1>1, <2>1 DEF SetPreference, ArbiterInv, AgesOK, Shaped, Driven, InOrder, NoOlder, StaleIsMarked
  <2>2. CASE ~(arb.active = NoInput \/ PreferenceAccepts(value, arb.active))
    <3>1. value \in PreferenceValues
      BY PreferencesAssumption
    <3>2. QED
      BY <1>1, <2>2, <3>1, Releasing DEF SetPreference
  <2>3. QED
    BY <2>1, <2>2
<1>2. CASE Forget
  BY <1>2, Releasing DEF Forget
<1>3. ASSUME NEW value \in OutputRoles, NEW synced \in BOOLEAN, ChangeRole(value, synced)
      PROVE  ArbiterInv'
  <2>1. CASE synced
    <3>1. arb' = [active |-> arb.active, valid |-> arb.valid, stale |-> arb.stale, age |-> arb.age,
                  input |-> NoInput, lastActive |-> arb.lastActive, passthrough |-> arb.passthrough]
      BY <1>3, <2>1 DEF ChangeRole, ArbiterInv, Shaped
    <3>2. QED
      BY <1>3, <2>1, <3>1 DEF ChangeRole, ArbiterInv, AgesOK, Shaped, Driven, InOrder, NoOlder,
           StaleIsMarked
  <2>2. CASE ~synced
    BY <1>3, <2>2 DEF ChangeRole, ArbiterInv, AgesOK, Shaped, Driven, InOrder, NoOlder, StaleIsMarked
  <2>3. QED
    BY <2>1, <2>2
<1>4. QED
  BY <1>1, <1>2, <1>3 DEF Command

LEMMA BluetoothSteps ==
  ASSUME ArbiterInv, Bluetooth
  PROVE  ArbiterInv'
<1>1. ASSUME NEW s \in Sources, Publish(s)
      PROVE  ArbiterInv'
  <2>1. /\ mail' = [t \in Sources |-> IF t = s THEN 0 ELSE mail[t]]
        /\ UNCHANGED <<preference, arb, taken, snapshot, phase>>
    BY <1>1 DEF Publish, ArbiterInv, AgesOK
  <2>2. \A t \in Sources : mail'[t] = 0 \/ mail'[t] = mail[t]
    BY <2>1
  <2>3. "dualsense" \in Sources /\ "ns2pro" \in Sources
    BY DEF Sources
  <2>4. mail' = [t \in Sources |-> mail'[t]]
    BY <2>1
  <2>5. AgesOK'
    BY <2>1, <2>2, <2>3, <2>4, CapIsNatural DEF ArbiterInv, AgesOK
  <2>6. InOrder'
    BY <2>1, <2>2, <2>3, CapIsNatural DEF ArbiterInv, AgesOK, InOrder, NoOlder
  <2>7. QED
    BY <2>1, <2>5, <2>6 DEF ArbiterInv, Shaped, Driven, StaleIsMarked
<1>2. ASSUME NEW s \in Sources, ChangeLink(s)
      PROVE  ArbiterInv'
  BY <1>2 DEF ChangeLink, ArbiterInv, AgesOK, Shaped, Driven, InOrder, NoOlder, StaleIsMarked
<1>3. QED
  BY <1>1, <1>2 DEF Bluetooth

-----------------------------------------------------------------------------
(* What a sample finds in the arbitration, and leaves there.                *)
LEMMA Arbitrating ==
  ASSUME NEW r, NEW source \in Sources, NEW age \in Nat, age <= Cap,
         Shaped(r), Driven(r, preference), r.age \in Nat, r.age <= Cap,
         r.passthrough \in Nat, r.passthrough <= NoSample
  PROVE  LET a == Accept(r, source, age)
         IN /\ Shaped(a) /\ Driven(a, preference) /\ a.age \in Nat /\ a.age <= Cap
            /\ a.passthrough \in Nat /\ a.passthrough <= NoSample
            /\ a = r \/ (a.active = source /\ a.age = age)
            /\ r.active = source => a.active = source /\ a.age = age
            /\ r.active # NoInput /\ a.active # r.active /\ age <= r.age => r.age - age > Takeover
<1>1. NoSample = Cap + 1 /\ Cap \in Nat /\ Takeover \in Nat
  BY CapIsNatural, TimesAssumption
<1>2. CASE MayDrive(r, source, age)
  <2>1. /\ Shaped(Accept(r, source, age)) /\ Accept(r, source, age).active = source
        /\ Accept(r, source, age).input = source /\ Accept(r, source, age).age = age
        /\ Accept(r, source, age).passthrough \in {age, r.passthrough}
        /\ PreferenceAccepts(preference, source)
    BY <1>2, Accepting
  <2>2. source # NoInput
    BY DEF Sources, NoInput
  <2>3. Driven(Accept(r, source, age), preference)
    <3>1. Accept(r, source, age).valid = TRUE
      BY <1>2, AcceptingIsValid, Zenon
    <3>2. QED
      BY <2>1, <2>2, <3>1 DEF Driven
  <2>4. r.active # NoInput /\ source # r.active /\ age <= r.age => r.age - age > Takeover
    BY <1>2 DEF MayDrive, SinceLast
  <2>5. QED
    BY <1>1, <2>1, <2>3, <2>4
<1>3. CASE ~MayDrive(r, source, age)
  <2>1. Accept(r, source, age) = r
    BY <1>3, Refusing
  <2>2. r.active # source \/ r.active = NoInput
    BY <1>3 DEF MayDrive, Driven
  <2>3. source # NoInput
    BY DEF Sources, NoInput
  <2>4. QED
    BY <2>1, <2>2, <2>3
<1>4. QED
  BY <1>2, <1>3

(* The samples of one pass, in the order of their stamps: whatever is       *)
(* active afterwards is as before, or has the stamp of its own sample; and  *)
(* a controller in use gave way only to a long silence, or to a sample      *)
(* stamped before its own.                                                  *)
LEMMA ApplySteps ==
  ASSUME ArbiterInv, TakeDs5AndApply
  PROVE  /\ ArbiterInv'
         /\ arb.active # NoInput /\ arb'.active \notin {NoInput, arb.active} /\ arb'.age <= arb.age
              => arb.age > Takeover
<1> DEFINE ds5 == mail["dualsense"]
           ds5First == ds5 > taken \/ (ds5 = taken /\ arb.lastActive = "dualsense")
           AsBefore == arb' = arb /\ arb.active # "ns2pro"
<1>0. /\ Shaped(arb) /\ Driven(arb, preference) /\ InOrder
      /\ arb.age \in Nat /\ arb.age <= Cap /\ arb.passthrough \in Nat /\ arb.passthrough <= NoSample
      /\ ds5 \in Nat /\ ds5 <= NoSample /\ taken \in Nat /\ taken <= NoSample
      /\ mail["ns2pro"] \in Nat /\ mail["ns2pro"] <= NoSample
      /\ snapshot \in Nat /\ snapshot <= NoSample
      /\ NoSample = Cap + 1 /\ Cap \in Nat /\ Takeover \in Nat
  BY CapIsNatural, TimesAssumption DEF ArbiterInv, AgesOK
<1>1. "dualsense" \in Sources /\ "ns2pro" \in Sources /\ NoInput \notin Sources
  BY DEF Sources, NoInput
<1>2. /\ mail' = [s \in Sources |-> IF s = "dualsense" THEN NoSample ELSE mail[s]]
      /\ taken' = NoSample /\ phase' = "poll" /\ UNCHANGED preference
      /\ snapshot' = IF taken = NoSample THEN snapshot ELSE taken
  BY DEF TakeDs5AndApply, ArbiterInv, AgesOK
<1>3. /\ mail'["dualsense"] = NoSample /\ mail'["ns2pro"] = mail["ns2pro"]
      /\ mail' = [s \in Sources |-> mail'[s]]
  BY <1>1, <1>2
<1>4. /\ Shaped(arb') /\ Driven(arb', preference) /\ arb'.age \in Nat /\ arb'.age <= Cap
      /\ arb'.passthrough \in Nat /\ arb'.passthrough <= NoSample
      /\ arb'.active = "ns2pro" =>
           \/ taken = NoSample /\ arb' = arb
           \/ taken # NoSample /\ arb'.age = taken
      /\ arb.active # NoInput /\ arb'.active \notin {NoInput, arb.active} /\ arb'.age <= arb.age
           => arb.age > Takeover
  <2>1. CASE ds5 = NoSample /\ taken = NoSample
    <3>1. arb' = arb
      BY <2>1 DEF TakeDs5AndApply
    <3>2. QED
      BY <1>0, <2>1, <3>1
  <2>2. CASE ds5 = NoSample /\ taken # NoSample
    <3>1. arb' = Accept(arb, "ns2pro", taken)
      BY <2>2 DEF TakeDs5AndApply
    <3>2. taken <= Cap
      BY <1>0, <2>2
    <3> DEFINE a == Accept(arb, "ns2pro", taken)
    <3>3. /\ Shaped(a) /\ Driven(a, preference) /\ a.age \in Nat /\ a.age <= Cap
          /\ a.passthrough \in Nat /\ a.passthrough <= NoSample
          /\ a = arb \/ (a.active = "ns2pro" /\ a.age = taken)
          /\ arb.active = "ns2pro" => a.active = "ns2pro" /\ a.age = taken
          /\ arb.active # NoInput /\ a.active # arb.active /\ taken <= arb.age => arb.age - taken > Takeover
      BY <1>0, <1>1, <3>2, Arbitrating
    <3>4. arb' = a
      BY <3>1
    <3> HIDE DEF a
    <3>5. QED
      BY <1>0, <1>1, <2>2, <3>2, <3>3, <3>4 DEF Shaped, Driven
  <2>3. CASE ds5 # NoSample /\ taken = NoSample
    <3>1. arb' = Accept(arb, "dualsense", ds5)
      BY <2>3 DEF TakeDs5AndApply
    <3>2. ds5 <= Cap
      BY <1>0, <2>3
    <3> DEFINE a == Accept(arb, "dualsense", ds5)
    <3>3. /\ Shaped(a) /\ Driven(a, preference) /\ a.age \in Nat /\ a.age <= Cap
          /\ a.passthrough \in Nat /\ a.passthrough <= NoSample
          /\ a = arb \/ (a.active = "dualsense" /\ a.age = ds5)
          /\ arb.active = "dualsense" => a.active = "dualsense" /\ a.age = ds5
          /\ arb.active # NoInput /\ a.active # arb.active /\ ds5 <= arb.age => arb.age - ds5 > Takeover
      BY <1>0, <1>1, <3>2, Arbitrating
    <3>4. arb' = a
      BY <3>1
    <3> HIDE DEF a
    <3>5. QED
      BY <1>0, <1>1, <2>3, <3>2, <3>3, <3>4 DEF Shaped, Driven
  <2>4. CASE ds5 # NoSample /\ taken # NoSample
    <3>0. ds5 <= Cap /\ taken <= Cap
      BY <1>0, <2>4
    <3>1. CASE ds5First
      <4> DEFINE r == Accept(arb, "dualsense", ds5)
      <4>1. arb' = Accept(r, "ns2pro", taken)
        BY <2>4, <3>1 DEF TakeDs5AndApply
      <4>2. /\ Shaped(r) /\ Driven(r, preference) /\ r.age \in Nat /\ r.age <= Cap
            /\ r.passthrough \in Nat /\ r.passthrough <= NoSample
            /\ r = arb \/ (r.active = "dualsense" /\ r.age = ds5)
            /\ arb.active = "dualsense" => r.active = "dualsense" /\ r.age = ds5
            /\ arb.active # NoInput /\ r.active # arb.active /\ ds5 <= arb.age => arb.age - ds5 > Takeover
        BY <1>0, <1>1, <3>0, Arbitrating
      <4> HIDE DEF r
      <4> DEFINE a == Accept(r, "ns2pro", taken)
      <4>3. /\ Shaped(a) /\ Driven(a, preference) /\ a.age \in Nat /\ a.age <= Cap
            /\ a.passthrough \in Nat /\ a.passthrough <= NoSample
            /\ a = r \/ (a.active = "ns2pro" /\ a.age = taken)
            /\ r.active = "ns2pro" => a.active = "ns2pro" /\ a.age = taken
            /\ r.active # NoInput /\ a.active # r.active /\ taken <= r.age => r.age - taken > Takeover
        BY <1>0, <1>1, <3>0, <4>2, Arbitrating
      <4>8. arb' = a
        BY <4>1
      <4> HIDE DEF a
      <4>4. arb.active = "dualsense" => ds5 <= arb.age
        BY <1>0, <2>4 DEF InOrder, NoOlder
      <4>5. arb.active \in {NoInput, "dualsense", "ns2pro"}
        BY <1>0 DEF Driven, Sources
      <4>6. taken <= ds5
        BY <1>0, <3>1
      <4>7. QED
        BY <1>0, <1>1, <2>4, <3>0, <4>2, <4>3, <4>4, <4>5, <4>6, <4>8 DEF NoInput, Shaped, Driven
    <3>2. CASE ~ds5First
      <4> DEFINE r == Accept(arb, "ns2pro", taken)
      <4>1. arb' = Accept(r, "dualsense", ds5)
        BY <2>4, <3>2 DEF TakeDs5AndApply
      <4>2. /\ Shaped(r) /\ Driven(r, preference) /\ r.age \in Nat /\ r.age <= Cap
            /\ r.passthrough \in Nat /\ r.passthrough <= NoSample
            /\ r = arb \/ (r.active = "ns2pro" /\ r.age = taken)
            /\ arb.active = "ns2pro" => r.active = "ns2pro" /\ r.age = taken
            /\ arb.active # NoInput /\ r.active # arb.active /\ taken <= arb.age
                 => arb.age - taken > Takeover
        BY <1>0, <1>1, <3>0, Arbitrating
      <4> HIDE DEF r
      <4> DEFINE a == Accept(r, "dualsense", ds5)
      <4>3. /\ Shaped(a) /\ Driven(a, preference) /\ a.age \in Nat /\ a.age <= Cap
            /\ a.passthrough \in Nat /\ a.passthrough <= NoSample
            /\ a = r \/ (a.active = "dualsense" /\ a.age = ds5)
            /\ r.active = "dualsense" => a.active = "dualsense" /\ a.age = ds5
            /\ r.active # NoInput /\ a.active # r.active /\ ds5 <= r.age => r.age - ds5 > Takeover
        BY <1>0, <1>1, <3>0, <4>2, Arbitrating
      <4>8. arb' = a
        BY <4>1
      <4> HIDE DEF a
      <4>4. arb.active = "ns2pro" => taken <= arb.age
        BY <1>0, <2>4 DEF InOrder, NoOlder
      <4>5. arb.active \in {NoInput, "dualsense", "ns2pro"}
        BY <1>0 DEF Driven, Sources
      <4>6. ds5 <= taken
        BY <1>0, <3>2
      <4>7. QED
        BY <1>0, <1>1, <2>4, <3>0, <4>2, <4>3, <4>4, <4>5, <4>6, <4>8 DEF NoInput, Shaped, Driven
    <3>3. QED
      BY <3>1, <3>2
  <2>5. QED
    BY <2>1, <2>2, <2>3, <2>4
<1>5. AgesOK'
  BY <1>0, <1>2, <1>3, <1>4 DEF AgesOK
<1>6. InOrder'
  <2>1. taken = NoSample => mail["ns2pro"] = mail'["ns2pro"]
    BY <1>3
  <2>2. CASE taken = NoSample
    BY <1>0, <1>2, <1>3, <1>4, <2>2 DEF InOrder, NoOlder
  <2>3. CASE taken # NoSample
    BY <1>0, <1>2, <1>3, <1>4, <2>3 DEF InOrder, NoOlder
  <2>4. QED
    BY <2>2, <2>3
<1>7. QED
  BY <1>2, <1>4, <1>5, <1>6 DEF ArbiterInv, StaleIsMarked, Shaped, Driven

LEMMA TakeStep ==
  ASSUME ArbiterInv, TakeNs2
  PROVE  ArbiterInv'
<1>1. /\ mail' = [s \in Sources |-> IF s = "ns2pro" THEN NoSample ELSE mail[s]]
      /\ taken' = mail["ns2pro"] /\ phase' = "ds5" /\ UNCHANGED <<preference, arb, snapshot>>
  BY DEF TakeNs2, ArbiterInv, AgesOK
<1>2. /\ mail'["ns2pro"] = NoSample /\ mail'["dualsense"] = mail["dualsense"]
      /\ mail' = [s \in Sources |-> mail'[s]]
  BY <1>1 DEF Sources
<1>3. AgesOK'
  BY <1>1, <1>2, CapIsNatural DEF ArbiterInv, AgesOK
<1>4. InOrder'
  BY <1>1, <1>2, CapIsNatural DEF ArbiterInv, AgesOK, InOrder, NoOlder
<1>5. QED
  BY <1>1, <1>3, <1>4 DEF ArbiterInv, Shaped, Driven, StaleIsMarked

(* Time passes where it is not the report's.                                *)
LEMMA TimeSteps ==
  ASSUME ArbiterInv, NEW e \in Nat, Age(e), phase' \in {"commands", "ds5"}
  PROVE  ArbiterInv'
<1>0. /\ Shaped(arb) /\ InOrder /\ AgesOK /\ NoSample = Cap + 1 /\ Cap \in Nat
  BY CapIsNatural DEF ArbiterInv
<1>1. arb' = [active |-> arb.active, valid |-> arb.valid, stale |-> arb.stale,
              age |-> Older(arb.age, e), input |-> arb.input, lastActive |-> arb.lastActive,
              passthrough |-> Older(arb.passthrough, e)]
  BY <1>0 DEF Age, Shaped
<1>2. /\ mail' = [s \in Sources |-> Older(mail[s], e)]
      /\ taken' = Older(taken, e) /\ snapshot' = Older(snapshot, e) /\ UNCHANGED preference
  BY DEF Age
<1>3. /\ mail'["ns2pro"] = Older(mail["ns2pro"], e) /\ mail'["dualsense"] = Older(mail["dualsense"], e)
      /\ mail' = [s \in Sources |-> mail'[s]]
  BY <1>2 DEF Sources
<1>4. AgesOK'
  <2>1. /\ arb'.age \in Nat /\ arb'.age <= Cap /\ arb'.passthrough \in Nat /\ arb'.passthrough <= NoSample
    BY <1>0, <1>1, Aged DEF AgesOK
  <2>2. /\ mail'["ns2pro"] \in Nat /\ mail'["ns2pro"] <= NoSample
        /\ mail'["dualsense"] \in Nat /\ mail'["dualsense"] <= NoSample
        /\ taken' \in Nat /\ taken' <= NoSample /\ snapshot' \in Nat /\ snapshot' <= NoSample
    BY <1>0, <1>2, <1>3, Aged DEF AgesOK
  <2>3. QED
    BY <1>3, <2>1, <2>2 DEF AgesOK
<1>5. ASSUME NEW a \in Nat, NEW b \in Nat, a <= NoSample, b <= NoSample, NoOlder(a, b)
      PROVE  b = NoSample \/ NoOlder(Older(a, e), Older(b, e))
  BY <1>0, <1>5, Aged DEF NoOlder
<1>6. InOrder'
  <2>1. arb'.age = Older(arb.age, e) /\ arb.age # NoSample /\ arb'.active = arb.active
    BY <1>0, <1>1 DEF AgesOK
  <2>2. taken' # NoSample => taken # NoSample
    BY <1>0, <1>2, Aged DEF AgesOK
  <2>3. snapshot <= arb.age => snapshot' <= arb'.age
    BY <1>0, <1>2, <2>1, Aged DEF AgesOK
  <2>4. NoOlder(taken, arb.age) => NoOlder(taken', arb'.age)
    BY <1>0, <1>2, <1>5, <2>1 DEF AgesOK
  <2>5. /\ NoOlder(mail["ns2pro"], arb.age) => NoOlder(mail'["ns2pro"], arb'.age)
        /\ NoOlder(mail["dualsense"], arb.age) => NoOlder(mail'["dualsense"], arb'.age)
        /\ taken # NoSample /\ NoOlder(mail["ns2pro"], taken) => NoOlder(mail'["ns2pro"], taken')
    BY <1>0, <1>2, <1>3, <1>5, <2>1 DEF AgesOK
  <2>6. QED
    BY <1>0, <2>1, <2>2, <2>3, <2>4, <2>5 DEF InOrder
<1>7. QED
  BY <1>1, <1>2, <1>4, <1>6 DEF ArbiterInv, Shaped, Driven, StaleIsMarked

LEMMA SleepSteps ==
  ASSUME ArbiterInv, Preempted \/ (\E elapsed \in 1 .. MaxSleep : Sleep(elapsed))
  PROVE  ArbiterInv'
<1>1. CASE Preempted
  BY <1>1, TimeSteps DEF Preempted
<1>2. ASSUME NEW elapsed \in 1 .. MaxSleep, Sleep(elapsed)
      PROVE  ArbiterInv'
  <2>1. elapsed \in Nat
    BY TimesAssumption
  <2>2. QED
    BY <1>2, <2>1, TimeSteps DEF Sleep
<1>3. QED
  BY <1>1, <1>2

LEMMA PollStep ==
  ASSUME ArbiterInv, PollStale
  PROVE  ArbiterInv'
<1>1. arb' = [active |-> arb.active, valid |-> arb.valid,
              stale |-> arb.stale \/ (arb.valid /\ arb.age > Stale), age |-> arb.age,
              input |-> arb.input, lastActive |-> arb.lastActive, passthrough |-> arb.passthrough]
  BY DEF PollStale, ArbiterInv, Shaped
<1>2. UNCHANGED <<preference, mail, taken, snapshot>> /\ phase' = "links"
  BY DEF PollStale
<1>3. AgesOK' /\ Shaped(arb') /\ Driven(arb', preference') /\ InOrder'
  BY <1>1, <1>2 DEF ArbiterInv, AgesOK, Shaped, Driven, InOrder, NoOlder
<1>4. /\ arb.age <= Stale \/ arb.age > Stale
      /\ arb.valid = FALSE \/ arb.valid = TRUE
  BY TimesAssumption DEF ArbiterInv, AgesOK, Driven
<1>5. StaleIsMarked'
  <2>1. CASE arb.valid = FALSE \/ arb.age <= Stale
    <3>1. arb'.valid = arb.valid /\ arb'.age = arb.age
      BY <1>1
    <3>2. QED
      BY <2>1, <3>1 DEF StaleIsMarked
  <2>2. CASE arb.valid = TRUE /\ arb.age > Stale
    <3>1. arb'.stale = TRUE
      BY <1>1, <2>2
    <3>2. QED
      BY <3>1 DEF StaleIsMarked
  <2>3. QED
    BY <1>4, <2>1, <2>2, Zenon
<1>6. QED
  BY <1>3, <1>5 DEF ArbiterInv

LEMMA ObserveStep ==
  ASSUME ArbiterInv, ObserveLinks
  PROVE  ArbiterInv'
<1>1. CASE arb' = Released(arb)
  BY <1>1, Releasing DEF ObserveLinks
<1>2. CASE arb' = arb
  BY <1>2 DEF ObserveLinks, ArbiterInv, AgesOK, Shaped, Driven, InOrder, NoOlder, StaleIsMarked
<1>3. QED
  BY <1>1, <1>2 DEF ObserveLinks

(* A report shows what is held of the active controller, if that is fresh.  *)
LEMMA ReportSteps ==
  ASSUME ArbiterInv, SkipReport \/ (\E identity \in BOOLEAN : MakeReport(identity))
  PROVE  /\ ArbiterInv' /\ arb'.active = arb.active
         /\ shown' # shown /\ shown'.source # NoInput =>
              /\ shown'.age <= Stale /\ shown'.source = arb.active
              /\ PreferenceAccepts(preference, shown'.source)
<1>0. /\ AgesOK /\ Shaped(arb) /\ Driven(arb, preference) /\ InOrder /\ StaleIsMarked
      /\ Stale \in Nat /\ NoInput \notin Sources
  BY TimesAssumption DEF ArbiterInv, Sources, NoInput
<1>1. /\ arb' = arb \/ arb' = [arb EXCEPT !.stale = TRUE]
      /\ UNCHANGED <<preference, mail, taken, snapshot>> /\ phase' = "sleep" /\ phase = "report"
  BY DEF MakeReport, SkipReport
<1>2. ArbiterInv' /\ arb'.active = arb.active
  <2>1. arb' = [active |-> arb.active, valid |-> arb.valid, stale |-> arb'.stale, age |-> arb.age,
                input |-> arb.input, lastActive |-> arb.lastActive, passthrough |-> arb.passthrough]
    BY <1>0, <1>1 DEF Shaped
  <2>2. QED
    BY <1>0, <1>1, <2>1 DEF ArbiterInv, AgesOK, Shaped, Driven, InOrder, NoOlder, StaleIsMarked
<1>3. ASSUME shown' # shown, shown'.source # NoInput
      PROVE  /\ shown'.age <= Stale /\ shown'.source = arb.active /\ arb.active # NoInput
  <2>1. PICK identity \in BOOLEAN : MakeReport(identity)
    BY <1>3 DEF SkipReport
  <2>2. CASE NativeNs2(identity)
    <3>1. NativeDs5(identity) = FALSE
      BY <2>2 DEF NativeNs2, NativeDs5
    <3>2. shown' = [source |-> "ns2pro", age |-> snapshot]
      BY <2>1, <2>2, <3>1 DEF MakeReport
    <3>3. arb.active = "ns2pro" /\ snapshot <= arb.age /\ arb.age <= Stale
      BY <1>0, <1>1, <2>2 DEF NativeNs2, InOrder, StaleIsMarked
    <3>4. QED
      BY <1>0, <3>2, <3>3 DEF AgesOK, Sources
  <2>3. CASE NativeDs5(identity)
    <3>1. NativeNs2(identity) = FALSE
      BY <2>3 DEF NativeNs2, NativeDs5
    <3>2. shown' = [source |-> "dualsense", age |-> arb.passthrough]
      BY <2>1, <2>3, <3>1 DEF MakeReport
    <3>3. QED
      BY <1>0, <2>3, <3>2 DEF NativeDs5, Sources
  <2>4. CASE ~NativeNs2(identity) /\ ~NativeDs5(identity)
    <3>1. CASE arb.valid /\ arb.age <= Stale
      <4>1. shown' = IF arb.input = NoInput THEN Neutral ELSE [source |-> arb.input, age |-> arb.age]
        BY <2>1, <2>4, <3>1 DEF MakeReport
      <4>2. arb.input # NoInput
        BY <1>3, <4>1 DEF Neutral
      <4>3. shown'.source = arb.input /\ shown'.age = arb.age
        BY <4>1, <4>2
      <4>4. QED
        BY <1>0, <3>1, <4>2, <4>3 DEF Driven
    <3>2. CASE ~(arb.valid /\ arb.age <= Stale)
      <4>1. shown' = Neutral
        BY <2>1, <2>4, <3>2 DEF MakeReport
      <4>2. QED
        BY <1>3, <4>1 DEF Neutral
    <3>3. QED
      BY <3>1, <3>2
  <2>5. QED
    BY <2>2, <2>3, <2>4
<1>4. QED
  BY <1>0, <1>2, <1>3 DEF Driven

-----------------------------------------------------------------------------
LEMMA ArbiterSteps ==
  ASSUME ArbiterInv, [Next]_vars
  PROVE  ArbiterInv'
<1>1. CASE UNCHANGED vars
  BY <1>1 DEF vars, ArbiterInv, AgesOK, Shaped, Driven, InOrder, NoOlder, StaleIsMarked
<1>2. CASE Loop
  BY <1>2, TakeStep, ApplySteps, PollStep, ObserveStep, ReportSteps, SleepSteps DEF Loop
<1>3. QED
  BY <1>1, <1>2, CommandSteps, BluetoothSteps, SleepSteps DEF Next

(* The invariant holds in every reachable state.                            *)
THEOREM ArbiterCorrect == Spec => []ArbiterInv
<1>1. ArbiterInv /\ [Next]_vars => ArbiterInv'
  BY ArbiterSteps
<1>2. QED
  BY <1>1, InitArbiter, PTL DEF Spec

(* No stuck buttons: whatever controllers, commands and delays do, a report *)
(* that shows an input is of the active controller, which the preference    *)
(* accepts, and its sample is no older than the stale limit.                *)
THEOREM NoStuckButtons == Spec => ReportsAreFresh
<1>1. ASSUME ArbiterInv, [Next]_vars, shown' # shown, shown'.source # NoInput
      PROVE  /\ shown'.age <= Stale /\ shown'.source = arb.active
             /\ PreferenceAccepts(preference, shown'.source)
  <2>1. SkipReport \/ (\E identity \in BOOLEAN : MakeReport(identity))
    BY <1>1 DEF Next, vars, Command, Bluetooth, Loop, SetPreference, Forget, ChangeRole, Publish,
         ChangeLink, TakeNs2, TakeDs5AndApply, PollStale, ObserveLinks, Sleep, Preempted, Age
  <2>2. QED
    BY <1>1, <2>1, ReportSteps
<1>2. QED
  BY <1>1, ArbiterCorrect, PTL DEF Spec, ReportsAreFresh

(* A controller in use is displaced by a sample stamped after its own last  *)
(* one only when it has been silent for the takeover time.                  *)
THEOREM TakeoverIsLate == Spec => OrderedTakeoverNeedsSilence
<1>1. ASSUME ArbiterInv, [Next]_vars, arb.active # NoInput,
             arb'.active \notin {NoInput, arb.active}, arb'.age <= arb.age
      PROVE  arb.age > Takeover
  <2>0. Shaped(arb)
    BY <1>1 DEF ArbiterInv
  <2>1. TakeDs5AndApply \/ arb'.active \in {NoInput, arb.active}
    <3>1. arb' = arb => arb'.active = arb.active
      OBVIOUS
    <3>2. arb' = Released(arb) => arb'.active = NoInput
      BY <2>0 DEF Released, Shaped
    <3>3. \A e : Age(e) => arb'.active = arb.active
      BY <2>0 DEF Age, Shaped
    <3>4. CASE Command
      BY <2>0, <3>1, <3>2, <3>4 DEF Command, SetPreference, Forget, ChangeRole, Shaped
    <3>5. CASE Bluetooth
      BY <3>5 DEF Bluetooth, Publish, ChangeLink
    <3>6. CASE Preempted \/ \E elapsed \in 1 .. MaxSleep : Sleep(elapsed)
      BY <3>3, <3>6 DEF Preempted, Sleep
    <3>7. CASE PollStale
      BY <2>0, <3>7 DEF PollStale, Shaped
    <3>8. CASE ObserveLinks
      BY <3>1, <3>2, <3>8 DEF ObserveLinks
    <3>9. CASE SkipReport \/ \E identity \in BOOLEAN : MakeReport(identity)
      BY <1>1, <3>9, ReportSteps
    <3>10. CASE TakeNs2 \/ UNCHANGED vars
      BY <3>10 DEF TakeNs2, vars
    <3>11. QED
      BY <1>1, <3>4, <3>5, <3>6, <3>7, <3>8, <3>9, <3>10 DEF Next, Loop
  <2>2. QED
    BY <1>1, <2>1, ApplySteps
<1>2. QED
  BY <1>1, ArbiterCorrect, PTL DEF Spec, OrderedTakeoverNeedsSilence
=============================================================================
