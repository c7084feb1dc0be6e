------------------------- MODULE InputControl_proofs -------------------------
(***************************************************************************)
(* Theorems about the input control, for any controllers, settings to boot *)
(* with, commands and waits.                                               *)
(*                                                                         *)
(* The loop decides from a status read before, while the DualSense's       *)
(* events go on.  What makes this safe is the count of key events: a       *)
(* status with the link's count is as good as the link, and one with an    *)
(* older count leaves the loop behind, so that it will look again.  The    *)
(* link's saved address may lack a key only while it is the one the loop   *)
(* handed over, which the loop does not take back from it, or one whose    *)
(* key a forget has deleted.                                               *)
(***************************************************************************)
EXTENDS InputControl, TLAPS

(* What a step of the loop works on, and what it has seen.                  *)
Works == [c : Settings, l : LoopState, d : Ds5State, n : Ns2State]
Statuses == [ds5 : Ds5State, due : Passed]

(* The controllers whose key is there, or was deleted by a forget.          *)
Known(d) == d.bonds \cup d.deleted

(* The link after a step of the loop: no key is lost unless a forget        *)
(* deletes it, and no link comes up.                                        *)
KeepsKeys(d, e) ==
  /\ e \in Ds5State /\ Known(d) \subseteq Known(e) /\ e.keyEvents = d.keyEvents
  /\ e.link = "up" => d.link = "up" /\ e.active = d.active

(* What was heard last is what is called and what is connected.             *)
PeerIsLast(n) ==
  /\ n.candidate # None => n.candidate = n.last
  /\ n.link # "none" => n.peer = n.last

(* What the functions of ds5_classic_sifli.c keep.                          *)
LEMMA ScheduleKeeps ==
  ASSUME NEW d \in Ds5State, NEW when \in {"none", "later", "due"}
  PROVE  KeepsKeys(d, ScheduleReconnect(d, when)) /\ ScheduleReconnect(d, when).saved = d.saved
  BY DEF ScheduleReconnect, KeepsKeys, Known, Ds5State

(* A call to a controller begins: the link is scheduled.                    *)
LEMMA ConnectKeeps ==
  ASSUME NEW d \in Ds5State, NEW p \in Ds5Pads \cup {None}
  PROVE  KeepsKeys(d, ScheduleConnect(d, p)) /\ ScheduleConnect(d, p).saved = d.saved
  BY DEF ScheduleConnect, KeepsKeys, Known, Ds5State

(* A link that has ended.                                                   *)
LEMMA DownKeeps ==
  ASSUME NEW d \in Ds5State
  PROVE  KeepsKeys(d, Down(d)) /\ Down(d).saved = d.saved
  BY DEF Down, KeepsKeys, Known, Ds5State

(* The address the settings hand over becomes the saved one.                *)
LEMMA SetSavedKeeps ==
  ASSUME NEW d \in Ds5State, NEW p \in Ds5Pads \cup {None}
  PROVE  KeepsKeys(d, SetSavedAddress(d, p)) /\ SetSavedAddress(d, p).saved = p
  BY DEF SetSavedAddress, ScheduleReconnect, KeepsKeys, Known, Ds5State

(* The wish to reconnect.                                                   *)
LEMMA SetAutoKeeps ==
  ASSUME NEW d \in Ds5State, NEW on \in BOOLEAN
  PROVE  KeepsKeys(d, SetAutoReconnect(d, on)) /\ SetAutoReconnect(d, on).saved = d.saved
  BY DEF SetAutoReconnect, ScheduleReconnect, KeepsKeys, Known, Ds5State

(* A search begins.                                                         *)
LEMMA StartPairingKeeps ==
  ASSUME NEW d \in Ds5State
  PROVE  KeepsKeys(d, StartPairing(d)) /\ StartPairing(d).saved = d.saved
  BY DEF StartPairing, KeepsKeys, Known, Ds5State

(* The saved controller is called.                                          *)
LEMMA ConnectSavedKeeps ==
  ASSUME NEW d \in Ds5State
  PROVE  KeepsKeys(d, ConnectSaved(d)) /\ ConnectSaved(d).saved = d.saved
  BY DEF ConnectSaved, ScheduleConnect, KeepsKeys, Known, Ds5State

(* The link is given up.                                                    *)
LEMMA DisconnectKeeps ==
  ASSUME NEW d \in Ds5State
  PROVE  /\ KeepsKeys(d, Ds5Disconnect(d)) /\ Ds5Disconnect(d).saved = d.saved
         /\ Ds5Disconnect(d).bonds = d.bonds /\ Ds5Disconnect(d).deleted = d.deleted
<1>1. CASE ~Linked(d)
  BY <1>1 DEF Ds5Disconnect, KeepsKeys
<1>2. CASE Linked(d)
  <2> DEFINE search == IF d.search \in {"none", "wanted"} THEN "none" ELSE "ending"
             e == [d EXCEPT !.disconnecting = TRUE, !.suppressed = TRUE, !.reconnect = "none",
                            !.search = search]
  <2>1. search \in {"none", "ending"}
    OBVIOUS
  <2>2. Ds5Disconnect(d) = e
    BY <1>2 DEF Ds5Disconnect
  <2> HIDE DEF search
  <2>3. e \in Ds5State
    BY <2>1 DEF Ds5State
  <2>4. /\ e.bonds = d.bonds /\ e.deleted = d.deleted /\ e.keyEvents = d.keyEvents
        /\ e.saved = d.saved /\ e.link = d.link /\ e.active = d.active
    BY DEF Ds5State
  <2> HIDE DEF e
  <2>5. QED
    BY <2>2, <2>3, <2>4 DEF KeepsKeys, Known
<1>3. QED
  BY <1>1, <1>2

(* The saved address goes, and its key with it.                             *)
LEMMA ForgetKeeps ==
  ASSUME NEW d \in Ds5State
  PROVE  KeepsKeys(d, Ds5Forget(d)) /\ Ds5Forget(d).saved \in {d.saved, None}
<1> DEFINE off == [d EXCEPT !.suppressed = TRUE, !.reconnect = "none"]
           left == Ds5Disconnect(off)
           bonds == left.bonds \ {d.saved}
           deleted == left.deleted \cup {d.saved}
           gone == [left EXCEPT !.saved = None, !.bonds = bonds, !.deleted = deleted]
<1>1. off \in Ds5State
  BY DEF Ds5State
<1>2. /\ off.saved = d.saved /\ off.bonds = d.bonds /\ off.keyEvents = d.keyEvents
      /\ off.link = d.link /\ off.active = d.active /\ off.deleted = d.deleted
  BY DEF Ds5State
<1>3. KeepsKeys(d, off)
  BY <1>1, <1>2 DEF KeepsKeys, Known
<1>4. Ds5Forget(d) = IF d.saved = None THEN off ELSE gone
  BY DEF Ds5Forget
<1> HIDE DEF off
<1>5. KeepsKeys(off, left)
  BY <1>1, DisconnectKeeps
<1>6. KeepsKeys(d, left)
  BY <1>3, <1>5 DEF KeepsKeys
<1> HIDE DEF left
<1>7. ASSUME d.saved # None
      PROVE  gone.saved = None /\ KeepsKeys(d, gone)
  <2>1. left \in Ds5State /\ d.saved \in Ds5Pads
    BY <1>6, <1>7 DEF KeepsKeys, Ds5State
  <2>2. bonds \in SUBSET Ds5Pads /\ deleted \in SUBSET Ds5Pads
    BY <2>1 DEF Ds5State
  <2>3. Known(left) \subseteq bonds \cup deleted
    BY DEF Known
  <2> HIDE DEF bonds, deleted
  <2>4. gone \in Ds5State
    BY <2>1, <2>2 DEF Ds5State
  <2>5. /\ gone.saved = None /\ gone.bonds = bonds /\ gone.deleted = deleted
        /\ gone.keyEvents = left.keyEvents /\ gone.link = left.link /\ gone.active = left.active
    BY <2>1 DEF Ds5State
  <2> HIDE DEF gone
  <2>6. QED
    BY <1>6, <2>3, <2>4, <2>5 DEF KeepsKeys, Known
<1> HIDE DEF gone
<1>8. QED
  BY <1>2, <1>3, <1>4, <1>7

(* A pass of the poll.                                                      *)
LEMMA PollKeeps ==
  ASSUME NEW d \in Ds5State, NEW due \in BOOLEAN
  PROVE  KeepsKeys(d, Ds5Poll(d, due)) /\ Ds5Poll(d, due).saved = d.saved
<1> DEFINE called == CASE d.reconnect # "none" /\ ~ReconnectAllowed(d) -> [d EXCEPT !.reconnect = "none"]
                  [] d.reconnect = "due" /\ ReconnectAllowed(d) /\ Quiet(d) /\ due ->
                       ScheduleConnect(d, d.saved)
                  [] OTHER -> d
<1>1. KeepsKeys(d, called) /\ called.saved = d.saved
  BY DEF ScheduleConnect, KeepsKeys, Known, Ds5State
<1>2. Ds5Poll(d, due) = CASE called.search = "wanted" -> [called EXCEPT !.search = "discovering"]
       [] called.search # "wanted" /\ called.link = "scheduled" /\ ~called.disconnecting ->
            [called EXCEPT !.link = "opening"]
       [] OTHER -> called
  BY DEF Ds5Poll
<1> HIDE DEF called
<1>3. QED
  BY <1>1, <1>2 DEF KeepsKeys, Known, Ds5State

(* What the functions of ble_gatt_sifli.c keep.                             *)
LEMMA StartScanKeeps ==
  ASSUME NEW n \in Ns2State, NEW ok \in BOOLEAN
  PROVE  /\ StartScan(n, ok) \in Ns2State
         /\ PeerIsLast(n) => PeerIsLast(StartScan(n, ok))
  BY DEF StartScan, PeerIsLast, Ns2State

(* A connection that is being made is given up with the scan.               *)
LEMMA StopScanKeeps ==
  ASSUME NEW n \in Ns2State
  PROVE  /\ StopScan(n) \in Ns2State
         /\ PeerIsLast(n) => PeerIsLast(StopScan(n))
  BY DEF StopScan, PeerIsLast, Ns2State

(* Giving the link up, or starting or stopping the scan instead.            *)
LEMMA Ns2DisconnectKeeps ==
  ASSUME NEW n \in Ns2State, NEW resume \in BOOLEAN, NEW ok \in BOOLEAN
  PROVE  /\ Disconnect(n, resume, ok) \in Ns2State
         /\ PeerIsLast(n) => PeerIsLast(Disconnect(n, resume, ok))
<1>1. CASE n.link # "up"
  BY <1>1, StartScanKeeps, StopScanKeeps DEF Disconnect
<1>2. CASE n.link = "up"
  BY <1>2 DEF Disconnect, PeerIsLast, Ns2State
<1>3. QED
  BY <1>1, <1>2

(* Choosing a target, and clearing it with its candidate.                   *)
LEMMA TargetKeeps ==
  ASSUME NEW n \in Ns2State, NEW p \in Ns2Pads \cup {None}
  PROVE  /\ SetTarget(n, p) \in Ns2State /\ ClearTarget(n) \in Ns2State
         /\ PeerIsLast(n) => PeerIsLast(SetTarget(n, p)) /\ PeerIsLast(ClearTarget(n))
  BY DEF SetTarget, ClearTarget, PeerIsLast, Ns2State

(* The candidate is called, which was heard last.                           *)
LEMMA Ns2PollKeeps ==
  ASSUME NEW n \in Ns2State, NEW ok \in BOOLEAN
  PROVE  /\ Ns2Poll(n, ok) \in Ns2State
         /\ PeerIsLast(n) => PeerIsLast(Ns2Poll(n, ok))
  BY StartScanKeeps, ZenonT(40) DEF Ns2Poll, PeerIsLast, Ns2State

(* The end of a link.                                                       *)
LEMMA EndedKeeps ==
  ASSUME NEW n \in Ns2State
  PROVE  /\ Ended(n) \in Ns2State
         /\ PeerIsLast(n) => PeerIsLast(Ended(n))
  BY DEF Ended, PeerIsLast, Ns2State

-----------------------------------------------------------------------------
(* A part of the last step of a pass, on all it works on: what only the     *)
(* first and the last but one of its parts do is left alone.                *)
KeepsWork(v, w) ==
  /\ w \in Works
  /\ KeepsKeys(v.d, w.d) /\ w.d.saved = v.d.saved
  /\ PeerIsLast(v.n) => PeerIsLast(w.n)
  /\ w.l.address = v.l.address /\ w.l.keyEvents = v.l.keyEvents
  /\ w.c.ds5 = v.c.ds5 /\ w.c.ns2 \in {v.c.ns2, None}

(* One part after another keeps what each keeps.                            *)
LEMMA KeepsTransitive ==
  ASSUME NEW u, NEW v, NEW w, KeepsWork(u, v), KeepsWork(v, w)
  PROVE  KeepsWork(u, w)
  BY DEF KeepsWork, KeepsKeys

(* Doing nothing does.                                                      *)
LEMMA KeepsItself ==
  ASSUME NEW w \in Works
  PROVE  KeepsWork(w, w)
  BY DEF KeepsWork, KeepsKeys, Works

(* A part that changes the DualSense link alone.                            *)
LEMMA KeepsWithDs5 ==
  ASSUME NEW w \in Works, NEW d, KeepsKeys(w.d, d), d.saved = w.d.saved
  PROVE  /\ [w EXCEPT !.d = d] \in Works
         /\ KeepsWork(w, [w EXCEPT !.d = d])
  BY DEF KeepsWork, KeepsKeys, Works

(* A part that changes the NS2Pro link alone.                               *)
LEMMA KeepsWithNs2 ==
  ASSUME NEW w \in Works, NEW n \in Ns2State, PeerIsLast(w.n) => PeerIsLast(n)
  PROVE  /\ [w EXCEPT !.n = n] \in Works
         /\ KeepsWork(w, [w EXCEPT !.n = n])
  BY DEF KeepsWork, KeepsKeys, Works

(* A part that changes the variables of the loop alone.                     *)
LEMMA KeepsWithLoop ==
  ASSUME NEW w \in Works, NEW l \in LoopState, l.address = w.l.address,
         l.keyEvents = w.l.keyEvents
  PROVE  /\ [w EXCEPT !.l = l] \in Works
         /\ KeepsWork(w, [w EXCEPT !.l = l])
  BY DEF KeepsWork, KeepsKeys, Works

(* What the preference starts again.                                        *)
LEMMA StartsKeep ==
  ASSUME NEW w \in Works, NEW s \in Ds5State, NEW n \in Ns2State
  PROVE  KeepsWork(w, NoteStarts(w, s, n))
<1> DEFINE changed == w.c.preference # w.l.preference \/ w.c.auto # w.l.auto
           again(other, busy) == changed /\ w.c.auto /\ w.c.preference # other /\ ~busy
           ds5Started == (w.l.ds5Started \/ Linked(s)) /\ ~again("ns2pro", Linked(s))
           bleStarted == (w.l.bleStarted \/ Busy(n)) /\ ~again("dualsense", Busy(n))
           l == [w.l EXCEPT !.ds5Started = ds5Started, !.bleStarted = bleStarted,
                            !.preference = w.c.preference, !.auto = w.c.auto]
<1>1. ds5Started \in BOOLEAN /\ bleStarted \in BOOLEAN
  BY DEF Linked, Busy
<1>2. w.l \in LoopState /\ w.c.preference \in Preference /\ w.c.auto \in BOOLEAN
  BY DEF Works, Settings
<1>3. NoteStarts(w, s, n) = [w EXCEPT !.l = l]
  BY DEF NoteStarts, Works
<1> HIDE DEF ds5Started, bleStarted
<1>4. l \in LoopState
  BY <1>1, <1>2 DEF LoopState
<1>5. l.address = w.l.address /\ l.keyEvents = w.l.keyEvents
  BY <1>2 DEF LoopState
<1>6. QED
  BY <1>3, <1>4, <1>5, KeepsWithLoop

(* The transport that the preference keeps off is given up.                 *)
LEMMA ExcludeKeeps ==
  ASSUME NEW w \in Works, NEW s, NEW n, NEW due, NEW ok \in BOOLEAN
  PROVE  KeepsWork(w, Exclude(w, s, n, due, ok))
<1>1. w.d \in Ds5State /\ w.n \in Ns2State
  BY DEF Works
<1>2. KeepsWork(w, [w EXCEPT !.n = Disconnect(@, FALSE, ok)])
  BY <1>1, Ns2DisconnectKeeps, KeepsWithNs2
<1>3. KeepsWork(w, [w EXCEPT !.d = Ds5Disconnect(@)])
  BY <1>1, DisconnectKeeps, KeepsWithDs5
<1>4. QED
  BY <1>2, <1>3, KeepsItself DEF Exclude

(* What is off counts as not started.                                       *)
LEMMA StopsKeep ==
  ASSUME NEW w \in Works, NEW s \in Ds5State, NEW n \in Ns2State
  PROVE  KeepsWork(w, NoteStops(w, s, n))
<1> DEFINE ble == w.l.bleStarted /\ ~(w.c.preference = "dualsense" /\ ~Busy(n))
           ds == w.l.ds5Started /\ ~(w.c.preference = "ns2pro" /\ Quiet(s))
           l == [w.l EXCEPT !.bleStarted = ble, !.ds5Started = ds]
<1>1. ble \in BOOLEAN /\ ds \in BOOLEAN
  BY DEF Quiet, Busy, Works, LoopState
<1>2. w.l \in LoopState
  BY DEF Works
<1>3. NoteStops(w, s, n) = [w EXCEPT !.l = l]
  BY DEF NoteStops, Works
<1> HIDE DEF ble, ds
<1>4. l \in LoopState
  BY <1>1, <1>2 DEF LoopState
<1>5. l.address = w.l.address /\ l.keyEvents = w.l.keyEvents
  BY <1>2 DEF LoopState
<1>6. QED
  BY <1>3, <1>4, <1>5, KeepsWithLoop

(* The flags of the loop.                                                   *)
LEMMA FlagsKeep ==
  ASSUME NEW w \in Works, NEW b \in BOOLEAN
  PROVE  /\ KeepsWork(w, Done(w))
         /\ KeepsWork(w, [w EXCEPT !.l.bleStarted = b])
         /\ KeepsWork(w, [w EXCEPT !.l.ds5Started = b])
<1>1. w.l \in LoopState
  BY DEF Works
<1> DEFINE done == [w.l EXCEPT !.pending = "none"]
           ble == [w.l EXCEPT !.bleStarted = b]
           ds == [w.l EXCEPT !.ds5Started = b]
<1>2. /\ done \in LoopState /\ done.address = w.l.address /\ done.keyEvents = w.l.keyEvents
      /\ ble \in LoopState /\ ble.address = w.l.address /\ ble.keyEvents = w.l.keyEvents
      /\ ds \in LoopState /\ ds.address = w.l.address /\ ds.keyEvents = w.l.keyEvents
  BY <1>1 DEF LoopState
<1>3. /\ Done(w) = [w EXCEPT !.l = done]
      /\ [w EXCEPT !.l.bleStarted = b] = [w EXCEPT !.l = ble]
      /\ [w EXCEPT !.l.ds5Started = b] = [w EXCEPT !.l = ds]
  BY DEF Done, Works
<1>4. QED
  BY <1>2, <1>3, KeepsWithLoop

(* The scan is started.                                                     *)
LEMMA ScanKeeps ==
  ASSUME NEW w \in Works, NEW ok \in BOOLEAN
  PROVE  KeepsWork(w, [w EXCEPT !.n = StartScan(@, ok)])
<1>1. w.n \in Ns2State
  BY DEF Works
<1>2. QED
  BY <1>1, StartScanKeeps, KeepsWithNs2

(* One link or the other is given up.                                       *)
LEMMA GivesUpKeeps ==
  ASSUME NEW w \in Works, NEW resume \in BOOLEAN, NEW ok \in BOOLEAN
  PROVE  /\ KeepsWork(w, [w EXCEPT !.n = Disconnect(@, resume, ok)])
         /\ KeepsWork(w, [w EXCEPT !.d = Ds5Disconnect(@)])
<1>1. w.n \in Ns2State /\ w.d \in Ds5State
  BY DEF Works
<1>2. QED
  BY <1>1, Ns2DisconnectKeeps, DisconnectKeeps, KeepsWithNs2, KeepsWithDs5

(* The pending action, for the DualSense.                                   *)
LEMMA ActDs5Keeps ==
  ASSUME NEW w \in Works, NEW s, NEW n, NEW ok \in BOOLEAN
  PROVE  KeepsWork(w, ActDs5(w, s, n, ok))
<1> DEFINE done == Done(w)
           pairs == [done EXCEPT !.d = StartPairing(@)]
           calls == [done EXCEPT !.d = ConnectSaved(@)]
           paired == [pairs EXCEPT !.l.ds5Started = TRUE]
           called == [calls EXCEPT !.l.ds5Started = TRUE]
<1>1. KeepsWork(w, done) /\ done \in Works /\ done.d \in Ds5State
  BY FlagsKeep DEF KeepsWork, Works
<1> HIDE DEF done
<1>2. KeepsWork(done, pairs) /\ KeepsWork(done, calls) /\ pairs \in Works /\ calls \in Works
  BY <1>1, StartPairingKeeps, ConnectSavedKeeps, KeepsWithDs5
<1>3. /\ paired = [done EXCEPT !.d = StartPairing(@), !.l.ds5Started = TRUE]
      /\ called = [done EXCEPT !.d = ConnectSaved(@), !.l.ds5Started = TRUE]
  BY <1>1 DEF Works
<1> HIDE DEF pairs, calls
<1>4. KeepsWork(pairs, paired) /\ KeepsWork(calls, called)
  BY <1>2, FlagsKeep
<1>5. KeepsWork(w, paired) /\ KeepsWork(w, called)
  BY <1>1, <1>2, <1>4, KeepsTransitive
<1>6. QED
  BY <1>3, <1>5, GivesUpKeeps, KeepsItself DEF ActDs5, done

(* The pending action, for the NS2Pro: pairing takes the address out of the *)
(* settings.                                                                *)
LEMMA ActNs2Keeps ==
  ASSUME NEW w \in Works, NEW s, NEW n, NEW saved \in BOOLEAN, NEW ok \in BOOLEAN,
         w.l.pending \in {"pairNs2", "connectNs2"}
  PROVE  KeepsWork(w, ActNs2(w, s, n, saved, ok))
<1>0. w.n \in Ns2State /\ w.c \in Settings
  BY DEF Works
<1>1. CASE ~Quiet(s)
  BY <1>1, GivesUpKeeps, KeepsItself DEF ActNs2
<1>2. CASE Quiet(s) /\ w.l.pending = "pairNs2"
  <2> DEFINE clear == [w EXCEPT !.n = ClearTarget(@)]
             unset == [clear EXCEPT !.c.ns2 = None]
             gone == [unset EXCEPT !.n = Disconnect(@, TRUE, ok)]
             done == Done(gone)
             begun == [done EXCEPT !.l.bleStarted = TRUE]
  <2>1. KeepsWork(w, clear) /\ clear \in Works
    BY <1>0, TargetKeeps, KeepsWithNs2
  <2>2. ActNs2(w, s, n, saved, ok) = IF ~saved THEN clear ELSE IF ok THEN begun ELSE gone
    BY <1>2, <2>1 DEF ActNs2, Works
  <2> HIDE DEF clear
  <2>3. KeepsWork(clear, unset) /\ unset \in Works
    BY <2>1 DEF KeepsWork, KeepsKeys, Works, Settings
  <2> HIDE DEF unset
  <2>4. KeepsWork(unset, gone) /\ gone \in Works
    BY <2>3, GivesUpKeeps, ZenonT(40) DEF KeepsWork
  <2> HIDE DEF gone
  <2>5. KeepsWork(gone, done) /\ done \in Works
    BY <2>4, FlagsKeep DEF KeepsWork
  <2> HIDE DEF done
  <2>6. KeepsWork(done, begun)
    BY <2>5, FlagsKeep
  <2>7. KeepsWork(w, gone) /\ KeepsWork(w, begun)
    BY <2>1, <2>3, <2>4, <2>5, <2>6, KeepsTransitive
  <2>8. QED
    BY <2>1, <2>2, <2>7
<1>3. CASE Quiet(s) /\ w.l.pending = "connectNs2"
  <2> DEFINE set == [w EXCEPT !.n = IF w.c.ns2 = None THEN @ ELSE SetTarget(@, w.c.ns2)]
             on == [set EXCEPT !.n = StartScan(@, ok)]
             done == Done(on)
             begun == [done EXCEPT !.l.bleStarted = TRUE]
  <2>1. KeepsWork(w, set) /\ set \in Works
    <3>1. w.c.ns2 \in Ns2Pads \cup {None}
      BY <1>0 DEF Settings
    <3>2. QED
      BY <1>0, <3>1, TargetKeeps, KeepsWithNs2
  <2>2. ActNs2(w, s, n, saved, ok) = IF ok THEN begun ELSE on
    BY <1>3, <2>1 DEF ActNs2, Works
  <2> HIDE DEF set
  <2>3. KeepsWork(set, on) /\ on \in Works
    BY <2>1, ScanKeeps DEF KeepsWork
  <2> HIDE DEF on
  <2>4. KeepsWork(on, done) /\ done \in Works
    BY <2>3, FlagsKeep DEF KeepsWork
  <2> HIDE DEF done
  <2>5. KeepsWork(done, begun)
    BY <2>4, FlagsKeep
  <2>6. KeepsWork(w, on) /\ KeepsWork(w, begun)
    BY <2>1, <2>3, <2>4, <2>5, KeepsTransitive
  <2>7. QED
    BY <2>2, <2>6
<1>4. QED
  BY <1>1, <1>2, <1>3 DEF ActNs2

(* The pending action, or none.                                             *)
LEMMA ActKeeps ==
  ASSUME NEW w \in Works, NEW s, NEW n, NEW due, NEW saved \in BOOLEAN, NEW ok \in BOOLEAN
  PROVE  KeepsWork(w, Act(w, s, n, due, saved, ok))
<1>1. w.l.pending \in Actions \cup {"none"}
  BY DEF Works, LoopState
<1>2. QED
  BY <1>1, ActDs5Keeps, ActNs2Keeps, KeepsItself DEF Act, Actions

(* What starts by itself.                                                   *)
LEMMA AutoConnectKeeps ==
  ASSUME NEW w \in Works, NEW s, NEW n, NEW c, NEW due, NEW ok \in BOOLEAN
  PROVE  KeepsWork(w, AutoConnect(w, s, n, c, due, ok))
<1> DEFINE may(other) == /\ w.l.pending = "none" /\ c.auto /\ c.preference # other
                         /\ c.preference # "auto" \/ w.l.delayOver
                         /\ Quiet(s)
           connected == [w EXCEPT !.d = ConnectSaved(@)]
           started == [connected EXCEPT !.l.ds5Started = TRUE]
           called == IF /\ ~w.l.ds5Started /\ may("ns2pro") /\ "ds5" \in due /\ ~Busy(n)
                        /\ Quiet(w.d)
                     THEN started ELSE w
           scans == [called EXCEPT !.n = StartScan(@, ok)]
           begun == [scans EXCEPT !.l.bleStarted = ok]
           asks == ~w.l.bleStarted /\ may("dualsense") /\ "ble" \in due
<1>1. KeepsWork(w, connected) /\ connected \in Works
  <2>1. w.d \in Ds5State
    BY DEF Works
  <2>2. QED
    BY <2>1, ConnectSavedKeeps, KeepsWithDs5
<1>2. started = [w EXCEPT !.d = ConnectSaved(@), !.l.ds5Started = TRUE]
  BY DEF Works
<1> HIDE DEF connected
<1>3. KeepsWork(connected, started)
  BY <1>1, FlagsKeep
<1>4. KeepsWork(w, started)
  BY <1>1, <1>3, KeepsTransitive
<1>5. KeepsWork(w, called) /\ called \in Works
  BY <1>4, KeepsItself DEF KeepsWork
<1>6. AutoConnect(w, s, n, c, due, ok) = IF asks THEN begun ELSE called
  <2> HIDE DEF started
  <2>1. AutoConnect(w, s, n, c, due, ok)
          = IF asks THEN [called EXCEPT !.n = StartScan(@, ok), !.l.bleStarted = ok] ELSE called
    BY <1>2 DEF AutoConnect
  <2> HIDE DEF called
  <2>2. [called EXCEPT !.n = StartScan(@, ok), !.l.bleStarted = ok] = begun
    BY <1>5 DEF Works
  <2>3. QED
    BY <2>1, <2>2
<1> HIDE DEF called
<1>7. KeepsWork(called, scans) /\ scans \in Works
  BY <1>5, ScanKeeps DEF KeepsWork
<1> HIDE DEF scans
<1>8. KeepsWork(scans, begun)
  BY <1>7, FlagsKeep
<1>9. KeepsWork(w, begun)
  BY <1>5, <1>7, <1>8, KeepsTransitive
<1>10. QED
  BY <1>5, <1>6, <1>9

(* The wait for a reconnect passes.                                         *)
LEMMA ReconnectKeeps ==
  ASSUME NEW w \in Works, NEW s, NEW due
  PROVE  KeepsWork(w, ReconnectDue(w, s, due))
<1> DEFINE d == [w.d EXCEPT !.reconnect = "due"]
<1>1. w.d \in Ds5State
  BY DEF Works
<1>2. KeepsKeys(w.d, d) /\ d.saved = w.d.saved
  BY <1>1 DEF KeepsKeys, Known, Ds5State
<1>3. KeepsWork(w, [w EXCEPT !.d = d])
  BY <1>2, KeepsWithDs5
<1>4. [w EXCEPT !.d.reconnect = "due"] = [w EXCEPT !.d = d]
  BY DEF Works
<1>5. QED
  BY <1>3, <1>4, KeepsItself DEF ReconnectDue

(* A new key event takes the address out of the settings, if it is saved.   *)
LEMMA ForgetLostKeyFacts ==
  ASSUME NEW w \in Works, NEW s \in Ds5State, NEW saved \in BOOLEAN
  PROVE  LET r == ForgetLostKey(w, s, saved)
         IN /\ r \in Works /\ r.d = w.d /\ r.n = w.n
            /\ r.l.address = w.l.address /\ r.l.keyEvents = s.keyEvents
            /\ r.c.ns2 = w.c.ns2
            /\ r.c.ds5 = IF s.keyEvents # w.l.keyEvents /\ saved THEN None ELSE w.c.ds5
<1> DEFINE ds == IF saved THEN None ELSE w.c.ds5
           l == [w.l EXCEPT !.keyEvents = s.keyEvents]
           c == [w.c EXCEPT !.ds5 = ds]
           r == [w EXCEPT !.l = l, !.c = c]
<1>1. w.l \in LoopState /\ w.c \in Settings /\ s.keyEvents \in Nat
  BY DEF Works, Ds5State
<1>2. ds \in Ds5Pads \cup {None}
  BY <1>1 DEF Settings
<1>3. ForgetLostKey(w, s, saved) = IF s.keyEvents = w.l.keyEvents THEN w ELSE r
  BY DEF ForgetLostKey, Works
<1> HIDE DEF ds
<1>4. /\ l \in LoopState /\ l.address = w.l.address /\ l.keyEvents = s.keyEvents
      /\ c \in Settings /\ c.ns2 = w.c.ns2 /\ c.ds5 = ds
  BY <1>1, <1>2 DEF LoopState, Settings
<1> HIDE DEF l, c
<1>5. r \in Works /\ r.d = w.d /\ r.n = w.n /\ r.l = l /\ r.c = c
  BY <1>4 DEF Works
<1> HIDE DEF r
<1>6. CASE s.keyEvents = w.l.keyEvents
  BY <1>3, <1>6
<1>7. CASE s.keyEvents # w.l.keyEvents
  BY <1>3, <1>4, <1>5, <1>7 DEF ds
<1>8. QED
  BY <1>6, <1>7

(* The settings follow the links.                                           *)
LEMMA RememberFacts ==
  ASSUME NEW w \in Works, NEW s \in Ds5State, NEW n \in Ns2State, NEW c \in Settings
  PROVE  LET r == Remember(w, s, n, c)
         IN /\ r \in Works /\ r.d = w.d /\ r.l = w.l
            /\ PeerIsLast(w.n) => PeerIsLast(r.n)
            /\ r.c.ns2 = IF n.link = "up" /\ n.last # None THEN n.last ELSE w.c.ns2
            /\ r.c.ds5 = CASE s.saved # None /\ c.ds5 # s.saved -> s.saved
                           [] ~(s.saved # None /\ c.ds5 # s.saved) /\ Connected(s) -> s.active
                           [] OTHER -> w.c.ds5
<1> DEFINE ds == CASE s.saved # None /\ c.ds5 # s.saved -> s.saved
                   [] ~(s.saved # None /\ c.ds5 # s.saved) /\ Connected(s) -> s.active
                   [] OTHER -> w.c.ds5
           known == [w EXCEPT !.c.ds5 = ds]
           up == n.link = "up" /\ n.last # None
           target == IF n.target # n.last THEN n.last ELSE known.n.target
           followed == [known EXCEPT !.c.ns2 = n.last, !.n.target = target]
           set == [known.n EXCEPT !.target = target]
<1>1. w.c \in Settings /\ w.n \in Ns2State /\ w.l \in LoopState /\ w.d \in Ds5State
  BY DEF Works
<1>2. ds \in Ds5Pads \cup {None}
  BY <1>1 DEF Settings, Ds5State
<1>3. Remember(w, s, n, c) = IF up THEN followed ELSE known
  <2>1. [w EXCEPT !.c.ds5 = w.c.ds5] = w
    BY DEF Works, Settings
  <2>2. known = CASE s.saved # None /\ c.ds5 # s.saved -> [w EXCEPT !.c.ds5 = s.saved]
                  [] ~(s.saved # None /\ c.ds5 # s.saved) /\ Connected(s) ->
                       [w EXCEPT !.c.ds5 = s.active]
                  [] OTHER -> w
    BY <2>1
  <2> HIDE DEF known
  <2>3. QED
    BY <2>2 DEF Remember
<1> HIDE DEF ds
<1>4. /\ known \in Works /\ known.d = w.d /\ known.l = w.l /\ known.n = w.n
      /\ known.c.ns2 = w.c.ns2 /\ known.c.ds5 = ds
  BY <1>1, <1>2 DEF Works, Settings
<1> HIDE DEF known
<1>5. target \in Ns2Pads \cup {None} /\ n.last \in Ns2Pads \cup {None}
  BY <1>1, <1>4 DEF Ns2State
<1> HIDE DEF target
<1>6. set \in Ns2State /\ (PeerIsLast(w.n) => PeerIsLast(set))
  BY <1>1, <1>4, <1>5 DEF PeerIsLast, Ns2State
<1>7. /\ followed.d = w.d /\ followed.l = w.l /\ followed.n = set
      /\ followed.c = [known.c EXCEPT !.ns2 = n.last]
  BY <1>4 DEF Works
<1>8. /\ [known.c EXCEPT !.ns2 = n.last] \in Settings
      /\ [known.c EXCEPT !.ns2 = n.last].ns2 = n.last
      /\ [known.c EXCEPT !.ns2 = n.last].ds5 = ds
  BY <1>4, <1>5 DEF Works, Settings
<1>9. followed \in Works
  BY <1>4, <1>6, <1>8 DEF Works
<1> HIDE DEF followed, set
<1>10. CASE up
  BY <1>3, <1>6, <1>7, <1>8, <1>9, <1>10 DEF ds
<1>11. CASE ~up
  BY <1>3, <1>4, <1>11 DEF ds
<1>12. QED
  BY <1>10, <1>11

(* All of the last step: what the settings may hold after it.               *)
LEMMA DecidedFacts ==
  ASSUME NEW w \in Works, NEW s \in Ds5State, NEW due, NEW saved \in BOOLEAN,
         NEW ok \in BOOLEAN
  PROVE  LET r == Decided(w, s, due, saved, ok)
         IN /\ r \in Works /\ KeepsKeys(w.d, r.d) /\ r.d.saved = w.d.saved
            /\ PeerIsLast(w.n) => PeerIsLast(r.n)
            /\ r.l.address = w.l.address /\ r.l.keyEvents = s.keyEvents
            /\ PeerIsLast(w.n) => r.c.ns2 \in {None, w.c.ns2, w.n.peer}
            /\ \/ s.saved # None /\ w.c.ds5 # s.saved /\ r.c.ds5 = s.saved
               \/ Connected(s) /\ r.c.ds5 = s.active
               \/ r.c.ds5 = IF s.keyEvents # w.l.keyEvents /\ saved THEN None ELSE w.c.ds5
<1> DEFINE n == w.n
           cleared == ForgetLostKey(w, s, saved)
           started == NoteStarts(cleared, s, n)
           excluded == Exclude(started, s, n, due, ok)
           stopped == NoteStops(excluded, s, n)
           acted == Act(stopped, s, n, due, saved, ok)
           known == Remember(acted, s, n, w.c)
           called == AutoConnect(known, s, n, w.c, due, ok)
           r == ReconnectDue(called, s, due)
<1>1. Decided(w, s, due, saved, ok) = r
  BY DEF Decided
<1>2. n \in Ns2State /\ w.c \in Settings /\ w.d \in Ds5State
  BY DEF Works
<1>3. /\ cleared \in Works /\ cleared.d = w.d /\ cleared.n = w.n
      /\ cleared.l.address = w.l.address /\ cleared.l.keyEvents = s.keyEvents
      /\ cleared.c.ns2 = w.c.ns2
      /\ cleared.c.ds5 = IF s.keyEvents # w.l.keyEvents /\ saved THEN None ELSE w.c.ds5
  BY ForgetLostKeyFacts
<1> HIDE DEF cleared
<1>4. KeepsWork(cleared, started) /\ started \in Works
  BY <1>2, <1>3, StartsKeep DEF KeepsWork
<1> HIDE DEF started
<1>5. KeepsWork(started, excluded) /\ excluded \in Works
  BY <1>4, ExcludeKeeps DEF KeepsWork
<1> HIDE DEF excluded
<1>6. KeepsWork(excluded, stopped) /\ stopped \in Works
  BY <1>2, <1>5, StopsKeep DEF KeepsWork
<1> HIDE DEF stopped
<1>7. KeepsWork(stopped, acted)
  BY <1>6, ActKeeps
<1> HIDE DEF acted
<1>8. KeepsWork(cleared, acted) /\ acted \in Works
  BY <1>4, <1>5, <1>6, <1>7, KeepsTransitive DEF KeepsWork
<1>9. /\ known \in Works /\ known.d = acted.d /\ known.l = acted.l
      /\ PeerIsLast(acted.n) => PeerIsLast(known.n)
      /\ known.c.ns2 = IF n.link = "up" /\ n.last # None THEN n.last ELSE acted.c.ns2
      /\ known.c.ds5 = CASE s.saved # None /\ w.c.ds5 # s.saved -> s.saved
                         [] ~(s.saved # None /\ w.c.ds5 # s.saved) /\ Connected(s) -> s.active
                         [] OTHER -> acted.c.ds5
  BY <1>2, <1>8, RememberFacts
<1> HIDE DEF known
<1>10. KeepsWork(known, called) /\ called \in Works
  BY <1>9, AutoConnectKeeps DEF KeepsWork
<1> HIDE DEF called
<1>11. KeepsWork(called, r)
  BY <1>10, ReconnectKeeps
<1> HIDE DEF r
<1>12. KeepsWork(known, r)
  BY <1>10, <1>11, KeepsTransitive
<1>13. /\ r \in Works /\ r.d.saved = w.d.saved /\ KeepsKeys(w.d, r.d)
       /\ r.l.address = w.l.address /\ r.l.keyEvents = s.keyEvents
  BY <1>3, <1>8, <1>9, <1>12 DEF KeepsWork, KeepsKeys
<1>14. PeerIsLast(w.n) => PeerIsLast(r.n)
  BY <1>3, <1>8, <1>9, <1>12 DEF KeepsWork
<1>15. PeerIsLast(n) /\ n.link = "up" => n.last = n.peer
  BY DEF PeerIsLast
<1>16. PeerIsLast(w.n) => r.c.ns2 \in {None, w.c.ns2, w.n.peer}
  BY <1>3, <1>8, <1>9, <1>12, <1>15 DEF KeepsWork
<1>17. r.c.ds5 = known.c.ds5 /\ acted.c.ds5 = cleared.c.ds5
  BY <1>8, <1>12 DEF KeepsWork
<1>18. \/ s.saved # None /\ w.c.ds5 # s.saved /\ r.c.ds5 = s.saved
       \/ Connected(s) /\ r.c.ds5 = s.active
       \/ r.c.ds5 = IF s.keyEvents # w.l.keyEvents /\ saved THEN None ELSE w.c.ds5
  BY <1>3, <1>9, <1>17
<1>19. QED
  BY <1>1, <1>13, <1>14, <1>16, <1>18

-----------------------------------------------------------------------------
(* A link that is up is to a controller that has or had a key, but for a    *)
(* pairing over it.                                                         *)
UpHasKey == "pairOverLink" \notin mixups /\ ds5.link = "up" => ds5.active \in Known(ds5)

(* The link's saved address has a key, or it is the one the loop handed.    *)
SavedIsKnown == ds5.saved \in Known(ds5) \cup {None, loop.address}

(* What the loop has seen and has not yet acted on: a status that no key    *)
(* was lost after is as good as the link itself.                            *)
ObservedInv ==
  phase = "decide" =>
    /\ seen \in Statuses
    /\ loop.address = config.ds5
    /\ loop.keyEvents <= seen.ds5.keyEvents /\ seen.ds5.keyEvents <= ds5.keyEvents
    /\ seen.ds5.keyEvents = ds5.keyEvents =>
         /\ seen.ds5.saved \in Known(ds5) \cup {None, config.ds5}
         /\ "pairOverLink" \notin mixups /\ seen.ds5.link = "up"
              => seen.ds5.active \in Known(ds5)

(* The inductive invariant.                                                 *)
KeysInv ==
  /\ TypeOK
  /\ UpHasKey /\ SavedIsKnown /\ ObservedInv /\ LostKeyIsForgotten
  /\ loop.keyEvents <= ds5.keyEvents
  /\ "overheard" \notin mixups => PeerIsLast(ns2)

(* The address the settings boot with has its key.                          *)
LEMMA InitKeys == Init => KeysInv
<1> SUFFICES ASSUME Init PROVE KeysInv
  OBVIOUS
<1>1. PICK c \in Boot, ns2First \in BOOLEAN :
        LET w == BootedWith(c, ns2First)
        IN config = w.c /\ loop = w.l /\ ds5 = w.d /\ ns2 = w.n /\ seen = None
  BY DEF Init
<1>2. c \in Settings /\ None \notin Ds5Pads
  BY InputControlAssumption
<1> DEFINE starts == c.auto /\ ~ns2First
           d == [link |-> "none", disconnecting |-> FALSE, search |-> "none", active |-> None,
                 saved |-> c.ds5, suppressed |-> FALSE, auto |-> FALSE, reconnect |-> "none",
                 keyEvents |-> 0, bonds |-> {c.ds5} \ {None}, deleted |-> {}]
           n == [link |-> "none", leaving |-> FALSE, wanted |-> FALSE, scanning |-> FALSE,
                 peer |-> None, target |-> c.ns2, candidate |-> None, last |-> None]
           set == SetAutoReconnect(d, starts)
           l == [pending |-> "none", ds5Started |-> c.auto /\ ~ns2First,
                 bleStarted |-> c.auto /\ ns2First, preference |-> c.preference, auto |-> c.auto,
                 address |-> c.ds5, applied |-> c.auto /\ ~ns2First, keyEvents |-> 0,
                 delayOver |-> FALSE]
<1>3. /\ config = c /\ loop = l /\ seen = None
      /\ ds5 = IF starts THEN ConnectSaved(set) ELSE set
      /\ ns2 = IF c.auto /\ ns2First THEN StartScan(n, TRUE) ELSE n
  BY <1>1 DEF BootedWith
<1>4. d \in Ds5State /\ n \in Ns2State /\ l \in LoopState /\ starts \in BOOLEAN
  BY <1>2 DEF Ds5State, Ns2State, LoopState, Settings
<1>5. KeepsKeys(d, set) /\ set.saved = d.saved
  BY <1>4, SetAutoKeeps
<1>6. KeepsKeys(d, ds5) /\ ds5.saved = d.saved
  <2> HIDE DEF set, d
  <2>1. KeepsKeys(set, ConnectSaved(set)) /\ ConnectSaved(set).saved = set.saved
    BY <1>5, ConnectSavedKeeps DEF KeepsKeys
  <2>2. QED
    BY <1>3, <1>5, <2>1 DEF KeepsKeys
<1>7. /\ ds5 \in Ds5State /\ ds5.keyEvents = 0 /\ {c.ds5} \ {None} \subseteq Known(ds5)
      /\ ds5.saved = c.ds5 /\ ds5.link # "up"
  <2>1. {c.ds5} \ {None} \subseteq Known(d)
    BY DEF Known
  <2>2. QED
    BY <1>6, <2>1 DEF KeepsKeys
<1>8. ns2 \in Ns2State /\ PeerIsLast(ns2)
  <2>1. PeerIsLast(n)
    BY DEF PeerIsLast
  <2> HIDE DEF n
  <2>2. QED
    BY <1>3, <1>4, <2>1, StartScanKeeps
<1>9. loop.keyEvents = 0 /\ loop.address = c.ds5 /\ loop \in LoopState
  BY <1>3, <1>4
<1>10. phase = "poll" /\ forgotten = {} /\ mixups = {} /\ incidents = 0
  BY DEF Init
<1> HIDE DEF d, l, n, set, starts
<1>11. incidents \in 0 .. MaxIncidents /\ config \in Settings /\ config.ds5 = c.ds5
  BY <1>2, <1>3, <1>10, InputControlAssumption
<1>12. c.ds5 \in Ds5Pads \cup {None}
  BY <1>2 DEF Settings
<1>13. TypeOK
  BY <1>3, <1>7, <1>8, <1>9, <1>10, <1>11 DEF TypeOK
<1>14. QED
  BY <1>7, <1>8, <1>9, <1>10, <1>11, <1>12, <1>13
  DEF KeysInv, UpHasKey, SavedIsKnown, ObservedInv, LostKeyIsForgotten, Known

-----------------------------------------------------------------------------
(* Events of the DualSense link that take no key away.                      *)
LEMMA EventKeeps ==
  ASSUME KeysInv, NEW d \in Ds5State, NEW cost \in Nat, Ds5Event(d, cost),
         forgotten' \subseteq forgotten,
         d.keyEvents = ds5.keyEvents, Known(ds5) \subseteq Known(d),
         d.saved = ds5.saved \/ d.saved \in Known(d),
         "pairOverLink" \notin mixups /\ d.link = "up" => d.active \in Known(d)
  PROVE  KeysInv'
<1> USE DEF KeysInv
<1>1. /\ ds5' = d /\ UNCHANGED <<config, loop, ns2, seen, phase, mixups>>
      /\ incidents' = incidents + cost /\ incidents' <= MaxIncidents
  BY DEF Ds5Event, Outside, Charge
<1>2. TypeOK'
  BY <1>1, InputControlAssumption DEF TypeOK
<1>3. UpHasKey' /\ SavedIsKnown'
  BY <1>1 DEF UpHasKey, SavedIsKnown
<1>4. ObservedInv'
  BY <1>1 DEF ObservedInv
<1>5. LostKeyIsForgotten'
  BY <1>1 DEF LostKeyIsForgotten, Known
<1>6. (loop.keyEvents <= ds5.keyEvents)' /\ ("overheard" \notin mixups => PeerIsLast(ns2))'
  BY <1>1
<1>7. QED
  BY <1>2, <1>3, <1>4, <1>5, <1>6

(* Events that leave keys and saved address alone.                          *)
LEMMA KeepsEvent ==
  ASSUME KeysInv, NEW d, KeepsKeys(ds5, d), d.saved = ds5.saved, NEW cost \in Nat,
         Ds5Event(d, cost), forgotten' \subseteq forgotten
  PROVE  KeysInv'
<1>1. /\ d \in Ds5State /\ d.keyEvents = ds5.keyEvents /\ Known(ds5) \subseteq Known(d)
      /\ "pairOverLink" \notin mixups /\ d.link = "up" => d.active \in Known(d)
  BY DEF KeepsKeys, KeysInv, UpHasKey
<1>2. QED
  BY <1>1, EventKeeps

(* All events of the DualSense link but the one for a lost key.             *)
LEMMA Ds5EventSteps ==
  ASSUME KeysInv,
         Ds5Answers \/ Ds5Lost \/ (\E p \in Ds5Pads : Ds5Found(p) \/ Ds5Calls(p))
  PROVE  KeysInv'
<1>0. ds5 \in Ds5State /\ UpHasKey
  BY DEF KeysInv, TypeOK
<1>1. CASE Ds5Opens
  <2> DEFINE d == [ds5 EXCEPT !.link = "up", !.disconnecting = FALSE, !.reconnect = "none"]
  <2>1. /\ d \in Ds5State /\ d.keyEvents = ds5.keyEvents /\ Known(d) = Known(ds5)
        /\ d.saved = ds5.saved /\ d.active = ds5.active
    BY <1>0 DEF Ds5State, Known
  <2>2. Ds5Event(d, 0) /\ forgotten' = forgotten /\ ds5.active \in Known(ds5)
    BY <1>1 DEF Ds5Opens, Known
  <2> HIDE DEF d
  <2>3. QED
    BY <2>1, <2>2, EventKeeps
<1>2. CASE Ds5Fails \/ Ds5Closes \/ Ds5Lost
  <2> DEFINE down == Down(ds5)
             d == ScheduleReconnect(down, "later")
  <2>1. KeepsKeys(ds5, down) /\ down.saved = ds5.saved /\ down \in Ds5State
    BY <1>0, DownKeeps DEF KeepsKeys
  <2>2. \E cost \in Nat : (Ds5Event(d, cost) \/ Ds5Event(down, cost)) /\ forgotten' = forgotten
    BY <1>2 DEF Ds5Fails, Ds5Closes, Ds5Lost
  <2> HIDE DEF down
  <2>3. KeepsKeys(down, d) /\ d.saved = down.saved
    BY <2>1, ScheduleKeeps
  <2>4. KeepsKeys(ds5, d) /\ d.saved = ds5.saved
    BY <2>1, <2>3 DEF KeepsKeys
  <2> HIDE DEF d
  <2>5. QED
    BY <2>1, <2>2, <2>4, KeepsEvent
<1>3. CASE Ds5PairingFails \/ Ds5SearchEnds
  <2> DEFINE off == [ds5 EXCEPT !.search = "none"]
             d == ScheduleReconnect(off, "later")
  <2>1. KeepsKeys(ds5, off) /\ off.saved = ds5.saved /\ off \in Ds5State
    BY <1>0 DEF KeepsKeys, Known, Ds5State
  <2>2. (Ds5Event(d, 1) \/ Ds5Event(off, 0)) /\ forgotten' = forgotten
    BY <1>3 DEF Ds5PairingFails, Ds5SearchEnds
  <2> HIDE DEF off
  <2>3. KeepsKeys(off, d) /\ d.saved = off.saved
    BY <2>1, ScheduleKeeps
  <2>4. KeepsKeys(ds5, d) /\ d.saved = ds5.saved
    BY <2>1, <2>3 DEF KeepsKeys
  <2> HIDE DEF d
  <2>5. QED
    BY <2>1, <2>2, <2>4, KeepsEvent
<1>4. ASSUME NEW p \in Ds5Pads, Ds5Found(p)
      PROVE  KeysInv'
  <2> USE DEF KeysInv
  <2> DEFINE d == [ds5 EXCEPT !.search = "pairing", !.active = p]
             over == ds5.link # "none" /\ p # ds5.active
  <2>1. /\ d \in Ds5State /\ Known(d) = Known(ds5) /\ d.keyEvents = ds5.keyEvents
        /\ d.saved = ds5.saved /\ d.link = ds5.link /\ d.active = p
    BY <1>0 DEF Ds5State, Known
  <2>2. /\ ds5' = d /\ UNCHANGED <<config, loop, ns2, seen, phase, forgotten>>
        /\ mixups' = mixups \cup (IF over THEN {"pairOverLink"} ELSE {})
        /\ incidents' = incidents + 0 /\ incidents' <= MaxIncidents
    BY <1>4 DEF Ds5Found, Outside, Charge
  <2>3. "pairOverLink" \notin mixups' => "pairOverLink" \notin mixups /\ ~over
    BY <2>2
  <2>4. mixups' \subseteq Mixups /\ mixups \subseteq mixups' /\ incidents' \in 0 .. MaxIncidents
        /\ ("overheard" \in mixups' => "overheard" \in mixups)
    BY <2>2, InputControlAssumption DEF TypeOK, Mixups
  <2> HIDE DEF d
  <2>5. "pairOverLink" \notin mixups' /\ d.link = "up" => d.active \in Known(d)
    BY <1>0, <2>1, <2>3 DEF UpHasKey
  <2> HIDE DEF over
  <2>6. TypeOK'
    BY <2>1, <2>2, <2>4 DEF TypeOK
  <2>7. UpHasKey' /\ SavedIsKnown'
    BY <2>1, <2>2, <2>5 DEF UpHasKey, SavedIsKnown
  <2>8. ObservedInv'
    BY <2>1, <2>2, <2>3 DEF ObservedInv
  <2>9. LostKeyIsForgotten'
    BY <2>1, <2>2, <2>4 DEF LostKeyIsForgotten, Known
  <2>10. (loop.keyEvents <= ds5.keyEvents)' /\ ("overheard" \notin mixups => PeerIsLast(ns2))'
    BY <2>1, <2>2, <2>4
  <2>11. QED
    BY <2>6, <2>7, <2>8, <2>9, <2>10
<1>5. ASSUME NEW p \in Ds5Pads, Ds5Calls(p)
      PROVE  KeysInv'
  <2> DEFINE d == [ds5 EXCEPT !.link = "opening", !.active = p, !.reconnect = "none"]
  <2>1. KeepsKeys(ds5, d) /\ d.saved = ds5.saved
    BY <1>0 DEF KeepsKeys, Known, Ds5State
  <2>2. (\E cost \in Nat : Ds5Event(d, cost)) /\ forgotten' = forgotten
    BY <1>5 DEF Ds5Calls
  <2> HIDE DEF d
  <2>3. QED
    BY <2>1, <2>2, KeepsEvent
<1>6. ASSUME NEW p \in Ds5Pads, Ds5Pairs(p)
      PROVE  KeysInv'
  <2> DEFINE bonds == ds5.bonds \cup {p}
             deleted == ds5.deleted \ {p}
             kept == [ds5 EXCEPT !.search = "none", !.saved = p, !.bonds = bonds,
                                 !.deleted = deleted]
             called == ScheduleConnect(kept, p)
             d == IF Linked(ds5) THEN kept ELSE called
  <2>1. bonds \in SUBSET Ds5Pads /\ deleted \in SUBSET Ds5Pads
    BY <1>0 DEF Ds5State
  <2>2. Known(ds5) \subseteq bonds \cup deleted /\ p \in bonds \cup deleted
    BY DEF Known
  <2>3. Ds5Event(d, 0) /\ forgotten' \subseteq forgotten
    BY <1>6 DEF Ds5Pairs
  <2> HIDE DEF bonds, deleted
  <2>4. /\ kept \in Ds5State /\ kept.keyEvents = ds5.keyEvents /\ kept.saved = p
        /\ kept.bonds = bonds /\ kept.deleted = deleted
        /\ kept.link = ds5.link /\ kept.active = ds5.active
    BY <1>0, <2>1 DEF Ds5State
  <2> HIDE DEF kept
  <2>5. Known(ds5) \subseteq Known(kept) /\ p \in Known(kept)
    BY <2>2, <2>4 DEF Known
  <2>6. KeepsKeys(kept, called) /\ called.saved = kept.saved
    BY <2>4, ConnectKeeps
  <2>7. KeepsKeys(kept, d) /\ d.saved = kept.saved
    BY <2>4, <2>6 DEF KeepsKeys
  <2> HIDE DEF d
  <2>8. /\ d \in Ds5State /\ d.keyEvents = ds5.keyEvents /\ Known(ds5) \subseteq Known(d)
        /\ d.saved \in Known(d)
        /\ "pairOverLink" \notin mixups /\ d.link = "up" => d.active \in Known(d)
    BY <1>0, <2>4, <2>5, <2>7 DEF KeepsKeys, UpHasKey
  <2>9. QED
    BY <2>3, <2>8, EventKeeps
<1>7. QED
  BY <1>1, <1>2, <1>3, <1>4, <1>5, <1>6 DEF Ds5Answers

(* The event for a lost key: what was seen before it is not trusted.        *)
LEMMA KeyMissingStep ==
  ASSUME KeysInv, Ds5KeyMissing
  PROVE  KeysInv'
<1> USE DEF KeysInv
<1> DEFINE d == [ds5 EXCEPT !.saved = None, !.reconnect = "none", !.keyEvents = @ + 1,
                            !.bonds = @ \ {ds5.saved}]
<1>1. /\ ds5' = d /\ UNCHANGED <<config, loop, ns2, seen, phase, mixups, forgotten>>
      /\ incidents' = incidents + 1 /\ incidents' <= MaxIncidents /\ ds5.link = "opening"
  BY DEF Ds5KeyMissing, Ds5Event, Outside, Charge
<1>2. /\ d \in Ds5State /\ d.keyEvents = ds5.keyEvents + 1 /\ d.saved = None
      /\ d.link = ds5.link /\ ds5.keyEvents \in Nat
  <2> DEFINE keyEvents == ds5.keyEvents + 1
             bonds == ds5.bonds \ {ds5.saved}
  <2>1. ds5 \in Ds5State
    BY DEF TypeOK
  <2>2. keyEvents \in Nat /\ bonds \in SUBSET Ds5Pads /\ ds5.keyEvents \in Nat
    BY <2>1 DEF Ds5State
  <2>3. d = [ds5 EXCEPT !.saved = None, !.reconnect = "none", !.keyEvents = keyEvents,
                        !.bonds = bonds]
    OBVIOUS
  <2> HIDE DEF keyEvents, bonds, d
  <2>4. d \in Ds5State
    BY <2>1, <2>2, <2>3 DEF Ds5State
  <2>5. d.keyEvents = keyEvents /\ d.saved = None /\ d.link = ds5.link
    BY <2>1, <2>3 DEF Ds5State
  <2>6. QED
    BY <2>2, <2>4, <2>5 DEF keyEvents
<1>3. loop.keyEvents \in Nat /\ (phase = "decide" => seen.ds5.keyEvents \in Nat)
  BY DEF TypeOK, LoopState, ObservedInv, Statuses, Ds5State
<1> HIDE DEF d
<1>4. TypeOK'
  BY <1>1, <1>2, InputControlAssumption DEF TypeOK
<1>5. UpHasKey' /\ SavedIsKnown'
  BY <1>1, <1>2 DEF UpHasKey, SavedIsKnown
<1>6. ObservedInv'
  BY <1>1, <1>2, <1>3 DEF ObservedInv
<1>7. LostKeyIsForgotten'
  BY <1>1, <1>2, <1>3 DEF LostKeyIsForgotten
<1>8. (loop.keyEvents <= ds5.keyEvents)' /\ ("overheard" \notin mixups => PeerIsLast(ns2))'
  BY <1>1, <1>2, <1>3
<1>9. QED
  BY <1>4, <1>5, <1>6, <1>7, <1>8

(* Events of the BLE link, and the time after boot.                         *)
LEMMA Ns2Steps ==
  ASSUME KeysInv,
         Ns2Answers \/ Ns2Lost \/ (\E p \in Ns2Pads : Ns2Heard(p)) \/ StartDelayOver
  PROVE  KeysInv'
<1> USE DEF KeysInv
<1>0. ns2 \in Ns2State /\ loop \in LoopState
  BY DEF TypeOK
<1>1. ASSUME NEW n \in Ns2State, PeerIsLast(ns2) => PeerIsLast(n), NEW cost \in Nat,
             Ns2Event(n, cost), forgotten' \subseteq forgotten
      PROVE  KeysInv'
  <2>1. /\ ns2' = n /\ UNCHANGED <<config, loop, ds5, seen, phase, mixups>>
        /\ incidents' = incidents + cost /\ incidents' <= MaxIncidents
    BY <1>1 DEF Ns2Event, Outside, Charge
  <2>2. TypeOK'
    BY <1>1, <2>1, InputControlAssumption DEF TypeOK
  <2>3. UpHasKey' /\ SavedIsKnown' /\ ObservedInv' /\ LostKeyIsForgotten'
    BY <2>1 DEF UpHasKey, SavedIsKnown, ObservedInv, LostKeyIsForgotten
  <2>4. QED
    BY <1>1, <2>1, <2>2, <2>3
<1>2. CASE Ns2Connects
  <2> DEFINE n == [ns2 EXCEPT !.link = "up", !.scanning = FALSE]
  <2>1. ns2.link = "connecting" /\ Ns2Event(n, 0) /\ forgotten' \subseteq forgotten
    BY <1>2 DEF Ns2Connects
  <2>2. n \in Ns2State /\ (PeerIsLast(ns2) => PeerIsLast(n))
    BY <1>0, <2>1 DEF PeerIsLast, Ns2State
  <2> HIDE DEF n
  <2>3. QED
    BY <1>1, <2>1, <2>2
<1>3. CASE Ns2Fails \/ Ns2Closes \/ Ns2Lost
  <2>1. \E cost \in Nat : Ns2Event(Ended(ns2), cost) /\ forgotten' = forgotten
    BY <1>3 DEF Ns2Fails, Ns2Closes, Ns2Lost
  <2>2. QED
    BY <1>0, <1>1, <2>1, EndedKeeps
<1>4. ASSUME NEW p \in Ns2Pads, Ns2Heard(p)
      PROVE  KeysInv'
  <2> DEFINE candidate == IF ns2.target \in {None, p} THEN p ELSE ns2.candidate
             n == [ns2 EXCEPT !.last = p, !.candidate = candidate]
             over == \/ ns2.link # "none" /\ p # ns2.peer
                     \/ ns2.candidate # None /\ ns2.target \notin {None, p}
  <2>1. /\ ns2' = n /\ UNCHANGED <<config, loop, ds5, seen, phase, forgotten>>
        /\ mixups' = mixups \cup (IF over THEN {"overheard"} ELSE {})
        /\ \E cost \in Nat : incidents' = incidents + cost /\ incidents' <= MaxIncidents
    BY <1>4 DEF Ns2Heard, Outside, Charge
  <2>2. candidate \in Ns2Pads \cup {None}
    BY <1>0 DEF Ns2State
  <2>3. /\ n \in Ns2State /\ n.last = p /\ n.candidate = candidate
        /\ n.link = ns2.link /\ n.peer = ns2.peer
    BY <1>0, <2>2 DEF Ns2State
  <2>4. TypeOK'
    <3> HIDE DEF n, over
    <3>1. mixups' \subseteq Mixups
      BY <2>1 DEF TypeOK, Mixups
    <3>2. incidents' \in 0 .. MaxIncidents
      BY <2>1, InputControlAssumption DEF TypeOK
    <3>3. QED
      BY <2>1, <2>3, <3>1, <3>2 DEF TypeOK
  <2>5. UpHasKey' /\ SavedIsKnown' /\ ObservedInv' /\ LostKeyIsForgotten'
    BY <2>1 DEF UpHasKey, SavedIsKnown, ObservedInv, LostKeyIsForgotten
  <2>6. ("overheard" \notin mixups => PeerIsLast(ns2))'
    <3>1. SUFFICES ASSUME "overheard" \notin mixups' PROVE PeerIsLast(n)
      BY <2>1
    <3>2. ~over /\ PeerIsLast(ns2)
      BY <2>1, <3>1
    <3> HIDE DEF n
    <3>3. QED
      BY <2>3, <3>2 DEF PeerIsLast
  <2>7. QED
    BY <2>1, <2>4, <2>5, <2>6
<1>5. CASE StartDelayOver
  <2> DEFINE l == [loop EXCEPT !.delayOver = TRUE]
  <2>1. loop' = l /\ UNCHANGED <<config, ds5, ns2, seen, phase, forgotten, mixups, incidents>>
    BY <1>5 DEF StartDelayOver
  <2>2. l \in LoopState /\ l.address = loop.address /\ l.keyEvents = loop.keyEvents
    BY <1>0 DEF LoopState
  <2> HIDE DEF l
  <2>3. TypeOK'
    BY <2>1, <2>2 DEF TypeOK
  <2>4. UpHasKey' /\ SavedIsKnown' /\ ObservedInv' /\ LostKeyIsForgotten'
    BY <2>1, <2>2 DEF UpHasKey, SavedIsKnown, ObservedInv, LostKeyIsForgotten
  <2>5. QED
    BY <2>1, <2>2, <2>3, <2>4
<1>6. QED
  BY <1>2, <1>3, <1>4, <1>5 DEF Ns2Answers

-----------------------------------------------------------------------------
(* Steps of the loop: what they work on, from what is there.                *)
LEMMA NowWorks ==
  ASSUME TypeOK
  PROVE  /\ Now \in Works
         /\ Now.c = config /\ Now.l = loop /\ Now.d = ds5 /\ Now.n = ns2
  BY DEF TypeOK, Now, Works

(* The links are polled.                                                    *)
LEMMA PollStep ==
  ASSUME KeysInv, Poll
  PROVE  KeysInv'
<1> USE DEF KeysInv
<1>1. PICK due \in BOOLEAN, ok \in BOOLEAN :
        /\ Goes("poll", "commands")
        /\ Result([Now EXCEPT !.d = Ds5Poll(@, due), !.n = Ns2Poll(@, ok)])
        /\ Charge(IF ok THEN 0 ELSE 1)
        /\ UNCHANGED <<seen, forgotten, mixups>>
  BY DEF Poll
<1>2. /\ config' = config /\ loop' = loop /\ ds5' = Ds5Poll(ds5, due)
      /\ ns2' = Ns2Poll(ns2, ok)
      /\ phase' = "commands" /\ UNCHANGED <<seen, forgotten, mixups>>
      /\ incidents' \in 0 .. MaxIncidents
  BY <1>1, NowWorks, InputControlAssumption DEF Result, Works, Goes, Charge, TypeOK, Now
<1>3. /\ KeepsKeys(ds5, ds5') /\ ds5'.saved = ds5.saved
      /\ ns2' \in Ns2State /\ (PeerIsLast(ns2) => PeerIsLast(ns2'))
  <2>1. ds5 \in Ds5State /\ ns2 \in Ns2State
    BY DEF TypeOK
  <2>2. QED
    BY <1>2, <2>1, PollKeeps, Ns2PollKeeps
<1>4. TypeOK'
  BY <1>2, <1>3 DEF TypeOK, KeepsKeys
<1>5. UpHasKey' /\ SavedIsKnown'
  BY <1>2, <1>3 DEF UpHasKey, SavedIsKnown, KeepsKeys
<1>6. ObservedInv'
  BY <1>2 DEF ObservedInv
<1>7. LostKeyIsForgotten'
  BY <1>2, <1>3 DEF LostKeyIsForgotten, KeepsKeys, Known
<1>8. (loop.keyEvents <= ds5.keyEvents)' /\ ("overheard" \notin mixups => PeerIsLast(ns2))'
  BY <1>2, <1>3 DEF KeepsKeys
<1>9. QED
  BY <1>4, <1>5, <1>6, <1>7, <1>8

(* A command takes an address out of the settings at most.                  *)
Commanded(w) ==
  /\ w \in Works /\ KeepsKeys(ds5, w.d) /\ w.d.saved \in {ds5.saved, None}
  /\ PeerIsLast(ns2) => PeerIsLast(w.n)
  /\ w.l.address = loop.address /\ w.l.keyEvents = loop.keyEvents
  /\ w.c.ds5 \in {config.ds5, None} /\ w.c.ns2 \in {config.ns2, None}

(* Such a command keeps the invariant.                                      *)
LEMMA CommandSteps ==
  ASSUME KeysInv, NEW w, Commanded(w), NEW saved, NEW ok, Command(w, saved, ok)
  PROVE  KeysInv'
<1> USE DEF KeysInv, Commanded
<1>1. /\ config' = w.c /\ loop' = w.l /\ ds5' = w.d /\ ns2' = w.n
      /\ phase = "commands" /\ UNCHANGED <<seen, phase, mixups>>
      /\ forgotten' \subseteq forgotten \cup ({config.ds5, config.ns2} \ {None})
  BY DEF Command, Result, Forgets
<1>2. incidents' \in 0 .. MaxIncidents
  BY InputControlAssumption DEF Command, Charge, TypeOK
<1>3. TypeOK'
  BY <1>1, <1>2 DEF TypeOK, Works, Settings
<1>4. UpHasKey' /\ SavedIsKnown'
  BY <1>1 DEF UpHasKey, SavedIsKnown, KeepsKeys
<1>5. ObservedInv'
  BY <1>1 DEF ObservedInv
<1>6. LostKeyIsForgotten'
  BY <1>1 DEF LostKeyIsForgotten, KeepsKeys, Known
<1>7. (loop.keyEvents <= ds5.keyEvents)' /\ ("overheard" \notin mixups => PeerIsLast(ns2))'
  BY <1>1 DEF KeepsKeys
<1>8. QED
  BY <1>3, <1>4, <1>5, <1>6, <1>7

(* Commands that only ask for something are such commands.                  *)
LEMMA KeepsCommanded ==
  ASSUME TypeOK, NEW w, KeepsWork(Now, w)
  PROVE  Commanded(w)
  BY NowWorks DEF KeepsWork, Commanded

(* A preference is chosen.                                                  *)
LEMMA PreferKeeps ==
  ASSUME NEW w \in Works, NEW p \in Preference, NEW saved
  PROVE  KeepsWork(w, Prefer(w, p, saved))
<1>1. KeepsWork(w, [w EXCEPT !.c.preference = p])
  BY DEF KeepsWork, KeepsKeys, Works, Settings
<1>2. QED
  BY <1>1, KeepsItself DEF Prefer

(* An action waits, with the preference it implies.                         *)
LEMMA AwaitKeeps ==
  ASSUME NEW w \in Works, NEW action \in Actions, NEW saved
  PROVE  KeepsWork(w, Await(w, action, saved))
<1> DEFINE p == IF action \in {"pairDs5", "connectDs5"} THEN "dualsense" ELSE "ns2pro"
           v == Prefer(w, p, saved)
           l == [v.l EXCEPT !.pending = action]
<1>1. KeepsWork(w, v) /\ v \in Works
  BY PreferKeeps DEF Preference, KeepsWork
<1>2. Await(w, action, saved) = [v EXCEPT !.l.pending = action]
  BY DEF Await
<1> HIDE DEF v
<1>3. l \in LoopState /\ l.address = v.l.address /\ l.keyEvents = v.l.keyEvents
  BY <1>1 DEF Works, LoopState
<1>4. [v EXCEPT !.l.pending = action] = [v EXCEPT !.l = l]
  BY <1>1 DEF Works
<1> HIDE DEF l
<1>5. KeepsWork(v, [v EXCEPT !.l = l])
  BY <1>1, <1>3, KeepsWithLoop
<1>6. QED
  BY <1>1, <1>2, <1>4, <1>5, KeepsTransitive

(* The DualSense is forgotten.                                              *)
LEMMA ForgetDs5Commanded ==
  ASSUME TypeOK, NEW saved \in BOOLEAN
  PROVE  Commanded(ForgetDs5(Now, saved))
<1> DEFINE d == Ds5Forget(ds5)
           address == IF ds5.saved # None /\ saved THEN None ELSE config.ds5
           c == [config EXCEPT !.ds5 = address]
           w == [Now EXCEPT !.d = d, !.c = c]
<1>1. ds5 \in Ds5State /\ config \in Settings
  BY DEF TypeOK
<1>2. KeepsKeys(ds5, d) /\ d.saved \in {ds5.saved, None} /\ d \in Ds5State
  BY <1>1, ForgetKeeps DEF KeepsKeys
<1>3. ForgetDs5(Now, saved) = w
  BY NowWorks DEF ForgetDs5, Works
<1> HIDE DEF d
<1>4. address \in Ds5Pads \cup {None} /\ address \in {config.ds5, None}
  BY <1>1 DEF Settings
<1> HIDE DEF address
<1>5. c \in Settings /\ c.ds5 = address /\ c.ns2 = config.ns2
  BY <1>1, <1>4 DEF Settings
<1> HIDE DEF c
<1>6. w \in Works /\ w.c = c /\ w.d = d /\ w.l = loop /\ w.n = ns2
  BY <1>2, <1>5, NowWorks DEF Works
<1> HIDE DEF w
<1>7. QED
  BY <1>2, <1>3, <1>4, <1>5, <1>6 DEF Commanded

(* The NS2Pro is forgotten.                                                 *)
LEMMA ForgetNs2Commanded ==
  ASSUME TypeOK, NEW saved \in BOOLEAN, NEW ok \in BOOLEAN
  PROVE  Commanded(ForgetNs2(Now, saved, ok))
<1> DEFINE left == Disconnect(ns2, FALSE, ok)
           n == ClearTarget(left)
           address == IF saved THEN None ELSE config.ns2
           c == [config EXCEPT !.ns2 = address]
           w == [Now EXCEPT !.n = n, !.c = c]
<1>1. ns2 \in Ns2State /\ config \in Settings /\ ds5 \in Ds5State
  BY DEF TypeOK
<1>2. n \in Ns2State /\ (PeerIsLast(ns2) => PeerIsLast(n))
  <2>1. left \in Ns2State /\ (PeerIsLast(ns2) => PeerIsLast(left))
    BY <1>1, Ns2DisconnectKeeps
  <2> HIDE DEF left
  <2>2. QED
    BY <2>1, TargetKeeps
<1>3. ForgetNs2(Now, saved, ok) = w
  BY NowWorks DEF ForgetNs2, Works
<1> HIDE DEF n
<1>4. address \in Ns2Pads \cup {None} /\ address \in {config.ns2, None}
  BY <1>1 DEF Settings
<1> HIDE DEF address
<1>5. c \in Settings /\ c.ns2 = address /\ c.ds5 = config.ds5
  BY <1>1, <1>4 DEF Settings
<1> HIDE DEF c
<1>6. w \in Works /\ w.c = c /\ w.d = ds5 /\ w.l = loop /\ w.n = n
  BY <1>2, <1>5, NowWorks DEF Works
<1> HIDE DEF w
<1>7. KeepsKeys(ds5, ds5)
  BY <1>1 DEF KeepsKeys
<1>8. QED
  BY <1>2, <1>3, <1>4, <1>5, <1>6, <1>7 DEF Commanded

(* Whatever the command, it is carried out on such a state.                 *)
LEMMA CommandsAre ==
  ASSUME TypeOK, ProcessCommand
  PROVE  \E w, saved, ok : Commanded(w) /\ Command(w, saved, ok)
<1>1. Now \in Works /\ Now.d = ds5 /\ Now.n = ns2
  BY NowWorks
<1>2. PICK saved \in BOOLEAN, ok \in BOOLEAN :
        \/ \E action \in Commands \cap Actions : Command(Await(Now, action, saved), saved, TRUE)
        \/ \E p \in Preference : Command(Prefer(Now, p, saved), saved, TRUE)
        \/ Command([Now EXCEPT !.d = Ds5Disconnect(@)], TRUE, TRUE)
        \/ Command([Now EXCEPT !.n = Disconnect(@, FALSE, ok)], TRUE, ok)
        \/ Command(ForgetDs5(Now, saved), saved, TRUE)
        \/ Command(ForgetNs2(Now, saved, ok), saved, ok)
  BY DEF ProcessCommand
<1>3. \A action \in Actions : Commanded(Await(Now, action, saved))
  BY <1>1, AwaitKeeps, KeepsCommanded
<1>4. \A p \in Preference : Commanded(Prefer(Now, p, saved))
  BY <1>1, PreferKeeps, KeepsCommanded
<1>5. /\ Commanded([Now EXCEPT !.d = Ds5Disconnect(@)])
      /\ Commanded([Now EXCEPT !.n = Disconnect(@, FALSE, ok)])
  BY <1>1, GivesUpKeeps, KeepsCommanded
<1>6. Commanded(ForgetDs5(Now, saved)) /\ Commanded(ForgetNs2(Now, saved, ok))
  BY ForgetDs5Commanded, ForgetNs2Commanded
<1>7. QED
  BY <1>2, <1>3, <1>4, <1>5, <1>6

(* The address is handed over and the status is read.                       *)
LEMMA ObserveStep ==
  ASSUME KeysInv, NEW due \in Passed, Observe(due)
  PROVE  KeysInv'
<1> USE DEF KeysInv
<1> DEFINE told == IF config.ds5 # loop.address
                   THEN [Now EXCEPT !.d = SetSavedAddress(@, config.ds5), !.l.address = config.ds5]
                   ELSE Now
           want == WantsReconnect(config, loop)
           set == IF want # loop.applied
                  THEN [told EXCEPT !.d = SetAutoReconnect(@, want), !.l.applied = want] ELSE told
           handed == IF config.ds5 # loop.address THEN SetSavedAddress(ds5, config.ds5) ELSE ds5
           address == [loop EXCEPT !.address = config.ds5]
           d == IF want # loop.applied THEN SetAutoReconnect(handed, want) ELSE handed
           l == IF want # loop.applied THEN [address EXCEPT !.applied = want] ELSE address
<1>1. /\ Result(set) /\ seen' = [ds5 |-> set.d, due |-> due]
      /\ phase = "commands" /\ phase' = "decide" /\ UNCHANGED <<forgotten, mixups, incidents>>
  BY DEF Observe, Goes
<1>2. /\ config \in Settings /\ loop \in LoopState /\ ds5 \in Ds5State /\ ns2 \in Ns2State
      /\ want \in BOOLEAN
  BY DEF TypeOK, WantsReconnect, Settings, LoopState
<1>3. address \in LoopState /\ address.address = config.ds5
      /\ address.keyEvents = loop.keyEvents
  BY <1>2 DEF LoopState, Settings
<1>4. told = [c |-> config, l |-> address, d |-> handed, n |-> ns2]
  <2>1. loop = [loop EXCEPT !.address = loop.address]
    BY <1>2 DEF LoopState
  <2>2. QED
    BY <2>1 DEF Now
<1>5. set = [c |-> config, l |-> l, d |-> d, n |-> ns2]
  <2> HIDE DEF told, handed, address, want
  <2>1. QED
    BY <1>4
<1>6. /\ KeepsKeys(ds5, handed) /\ handed \in Ds5State
      /\ handed.saved = IF config.ds5 # loop.address THEN config.ds5 ELSE ds5.saved
  BY <1>2, SetSavedKeeps DEF KeepsKeys, Settings
<1> HIDE DEF handed, want, told
<1>7. KeepsKeys(ds5, d) /\ d.saved = handed.saved
  BY <1>2, <1>6, SetAutoKeeps DEF KeepsKeys
<1>8. l \in LoopState /\ l.address = config.ds5 /\ l.keyEvents = loop.keyEvents
  <2> HIDE DEF address
  <2>1. QED
    BY <1>2, <1>3 DEF LoopState
<1> HIDE DEF d, l, set
<1>9. /\ config' = config /\ loop' = l /\ ds5' = d /\ ns2' = ns2
      /\ seen' = [ds5 |-> d, due |-> due]
  BY <1>1, <1>5 DEF Result
<1>10. TypeOK'
  BY <1>1, <1>7, <1>8, <1>9 DEF TypeOK, KeepsKeys
<1>11. UpHasKey'
  BY <1>1, <1>7, <1>9 DEF UpHasKey, KeepsKeys
<1>12. d.saved \in Known(ds5) \cup {None, config.ds5}
  BY <1>6, <1>7 DEF SavedIsKnown
<1>13. SavedIsKnown'
  BY <1>7, <1>8, <1>9, <1>12 DEF SavedIsKnown, KeepsKeys
<1>14. ObservedInv'
  <2>1. /\ seen' \in Statuses /\ loop'.address = config'.ds5
        /\ seen'.ds5 = d /\ d \in Ds5State
    BY <1>7, <1>8, <1>9 DEF Statuses, KeepsKeys
  <2>2. /\ loop'.keyEvents <= d.keyEvents /\ d.keyEvents <= ds5'.keyEvents
    <3>1. d.keyEvents = ds5.keyEvents /\ ds5.keyEvents \in Nat
      BY <1>2, <1>7 DEF KeepsKeys, Ds5State
    <3>2. QED
      BY <1>8, <1>9, <3>1
  <2>3. /\ d.saved \in Known(ds5') \cup {None, config'.ds5}
        /\ "pairOverLink" \notin mixups' /\ d.link = "up" => d.active \in Known(ds5')
    BY <1>7, <1>9, <1>12, <1>11 DEF KeepsKeys, UpHasKey
  <2>4. QED
    BY <2>1, <2>2, <2>3 DEF ObservedInv
<1>15. LostKeyIsForgotten'
  BY <1>1, <1>7, <1>8, <1>9 DEF LostKeyIsForgotten, KeepsKeys, Known
<1>16. (loop.keyEvents <= ds5.keyEvents)' /\ ("overheard" \notin mixups => PeerIsLast(ns2))'
  BY <1>1, <1>7, <1>8, <1>9 DEF KeepsKeys
<1>17. QED
  BY <1>10, <1>11, <1>13, <1>14, <1>15, <1>16

(* All is decided, from the status of before.                               *)
LEMMA DecideStep ==
  ASSUME KeysInv, Decide
  PROVE  /\ KeysInv'
         /\ "overheard" \notin mixups => config'.ns2 \in {None, config.ns2, ns2.peer}
<1> USE DEF KeysInv
<1>1. PICK saved \in BOOLEAN, ok \in BOOLEAN :
        LET w == Decided(Now, seen.ds5, seen.due, saved, ok)
        IN /\ Goes("decide", "poll")
           /\ Result(w)
           /\ seen' = None
           /\ forgotten' = IF config.ns2 # None /\ loop.pending = "pairNs2"
                                /\ w.l.pending = "none"
                           THEN forgotten \cup {config.ns2} ELSE forgotten
           /\ mixups' = mixups
                \cup IF seen.ds5.keyEvents # loop.keyEvents /\ ~saved THEN {"unsaved"} ELSE {}
           /\ Charge((IF saved THEN 0 ELSE 1) + (IF ok THEN 0 ELSE 1))
  BY DEF Decide
<1> DEFINE s == seen.ds5
           r == Decided(Now, s, seen.due, saved, ok)
<1>2. /\ config' = r.c /\ loop' = r.l /\ ds5' = r.d /\ ns2' = r.n /\ seen' = None
      /\ phase = "decide" /\ phase' = "poll"
      /\ forgotten' \subseteq forgotten \cup ({config.ns2} \ {None})
      /\ mixups' = mixups \cup IF s.keyEvents # loop.keyEvents /\ ~saved THEN {"unsaved"} ELSE {}
  BY <1>1 DEF Goes, Result
<1>3. incidents' \in 0 .. MaxIncidents
  BY <1>1, InputControlAssumption DEF Charge, TypeOK
<1>4. s \in Ds5State /\ s.keyEvents \in Nat
  BY <1>2 DEF ObservedInv, Statuses, Ds5State
<1>5. /\ r \in Works /\ KeepsKeys(ds5, r.d) /\ r.d.saved = ds5.saved
      /\ PeerIsLast(ns2) => PeerIsLast(r.n)
      /\ r.l.address = loop.address /\ r.l.keyEvents = s.keyEvents
      /\ PeerIsLast(ns2) => r.c.ns2 \in {None, config.ns2, ns2.peer}
      /\ \/ s.saved # None /\ config.ds5 # s.saved /\ r.c.ds5 = s.saved
         \/ Connected(s) /\ r.c.ds5 = s.active
         \/ r.c.ds5 = IF s.keyEvents # loop.keyEvents /\ saved THEN None ELSE config.ds5
  BY <1>4, NowWorks, DecidedFacts
<1> HIDE DEF r
<1>6. TypeOK'
  <2>1. mixups' \subseteq Mixups
    BY <1>2 DEF TypeOK, Mixups
  <2>2. forgotten' \subseteq Ds5Pads \cup Ns2Pads
    BY <1>2 DEF TypeOK, Settings
  <2>3. QED
    BY <1>2, <1>3, <1>5, <2>1, <2>2 DEF TypeOK, Works
<1>7. UpHasKey' /\ SavedIsKnown'
  BY <1>2, <1>5 DEF UpHasKey, SavedIsKnown, KeepsKeys
<1>8. ObservedInv'
  BY <1>2 DEF ObservedInv
<1>9. LostKeyIsForgotten'
  <2>1. SUFFICES ASSUME s.keyEvents = ds5.keyEvents,
                        "unsaved" \notin mixups', "pairOverLink" \notin mixups'
                 PROVE  r.c.ds5 \in Known(ds5) \cup {None}
    BY <1>2, <1>5 DEF LostKeyIsForgotten, KeepsKeys, Known
  <2>2. /\ "unsaved" \notin mixups /\ "pairOverLink" \notin mixups
        /\ s.keyEvents # loop.keyEvents => saved
    BY <1>2, <2>1
  <2>3. /\ s.saved \in Known(ds5) \cup {None, config.ds5}
        /\ s.link = "up" => s.active \in Known(ds5)
    BY <1>2, <2>1, <2>2 DEF ObservedInv
  <2>4. s.keyEvents = loop.keyEvents => config.ds5 \in Known(ds5) \cup {None}
    BY <2>1, <2>2 DEF LostKeyIsForgotten, Known
  <2>5. QED
    BY <1>5, <2>2, <2>3, <2>4 DEF Connected
<1>10. (loop.keyEvents <= ds5.keyEvents)'
  BY <1>2, <1>5 DEF ObservedInv, KeepsKeys
<1>11. ("overheard" \notin mixups => PeerIsLast(ns2))'
  BY <1>2, <1>5
<1>12. "overheard" \notin mixups => config'.ns2 \in {None, config.ns2, ns2.peer}
  BY <1>2, <1>5
<1>13. QED
  BY <1>6, <1>7, <1>8, <1>9, <1>10, <1>11, <1>12

(* Every step keeps the invariant.                                          *)
LEMMA KeysSteps == KeysInv /\ [Next]_vars => KeysInv'
<1> SUFFICES ASSUME KeysInv, Next \/ UNCHANGED vars PROVE KeysInv'
  OBVIOUS
<1>1. CASE UNCHANGED vars
  BY <1>1
  DEF vars, KeysInv, TypeOK, UpHasKey, SavedIsKnown, ObservedInv, LostKeyIsForgotten
<1>2. CASE World
  BY <1>2, Ds5EventSteps, KeyMissingStep, Ns2Steps DEF World
<1>3. CASE ProcessCommand
  <2>1. TypeOK
    BY DEF KeysInv
  <2>2. QED
    BY <1>3, <2>1, CommandsAre, CommandSteps
<1>4. CASE Poll \/ (\E due \in Passed : Observe(due)) \/ Decide
  BY <1>4, PollStep, ObserveStep, DecideStep
<1>5. QED
  BY <1>1, <1>2, <1>3, <1>4 DEF Next, Loop

(* The invariant holds in every reachable state.                            *)
THEOREM ControlCorrect == Spec => []KeysInv
  BY InitKeys, KeysSteps, PTL DEF Spec

(* The variables have their types.                                          *)
THEOREM ControlTypeCorrect == Spec => []TypeOK
<1>1. KeysInv => TypeOK
  BY DEF KeysInv
<1>2. QED
  BY <1>1, ControlCorrect, PTL

(* With the key events seen, the settings hold no DualSense address whose   *)
(* link key was lost (main: "Remove the injected target"), a removal whose  *)
(* save failed and a pairing over a link excepted.                          *)
THEOREM LostKeysAreForgotten == Spec => []LostKeyIsForgotten
<1>1. KeysInv => LostKeyIsForgotten
  BY DEF KeysInv
<1>2. QED
  BY <1>1, ControlCorrect, PTL

(* Every step leaves the NS2 address, clears it or sets it to the peer's.   *)
LEMMA StepsRemember ==
  ASSUME KeysInv, Next, "overheard" \notin mixups
  PROVE  config'.ns2 \in {None, config.ns2, ns2.peer}
<1>0. TypeOK
  BY DEF KeysInv
<1>1. CASE World
  <2>1. config' = config
    BY <1>1 DEF World, Ds5Answers, Ds5Lost, Ds5Found, Ds5SearchEnds, Ds5KeyMissing, Ds5Calls, Ds5Opens,
       Ds5Fails, Ds5Closes, Ds5PairingFails, Ds5Pairs, Ds5Event, Ns2Answers, Ns2Connects,
       Ns2Fails, Ns2Closes, Ns2Lost, Ns2Event, Ns2Heard, StartDelayOver, Outside
  <2>2. QED
    BY <2>1
<1>2. CASE Poll
  <2>1. config' = config
    BY <1>2, <1>0, NowWorks DEF Poll, Result, Works, Now
  <2>2. QED
    BY <2>1
<1>3. CASE ProcessCommand
  <2>1. PICK w, saved, ok : Commanded(w) /\ Command(w, saved, ok)
    BY <1>0, <1>3, CommandsAre
  <2>2. QED
    BY <2>1 DEF Command, Result, Commanded
<1>4. ASSUME NEW due \in Passed, Observe(due)
      PROVE  config' = config
  BY <1>4 DEF Observe, Result, Now
<1>5. CASE Decide
  BY <1>5, DecideStep
<1>6. QED
  BY <1>1, <1>2, <1>3, <1>4, <1>5 DEF Next, Loop

(* The NS2 controller that comes into the settings is the one connected     *)
(* then, if no other was heard after it was chosen.                         *)
THEOREM ConnectedIsRemembered == Spec => RemembersTheConnected
<1>1. KeysInv /\ [Next]_vars
        => [config'.ns2 \notin {None, config.ns2} /\ "overheard" \notin mixups
              => config'.ns2 = ns2.peer]_vars
  BY StepsRemember
<1>2. QED
  BY <1>1, ControlCorrect, PTL DEF Spec, RemembersTheConnected

=============================================================================
