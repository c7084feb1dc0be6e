---------------------------- MODULE NsLink_proofs ----------------------------
(***************************************************************************)
(* What holds of the NS2Pro link (NsLink) whatever controllers, commands   *)
(* and bounds there are.  The handlers are taken apart first: what each    *)
(* helper of ble_gatt_sifli.c leaves of the session, of the scan and of    *)
(* the links.  The invariant then joins three views of a connection: what  *)
(* the code says, what the far side is, and what the events in the ring    *)
(* between them say.  An event that no loss of its link follows speaks of  *)
(* the present link; a session's steps are earned on that link unless the  *)
(* ring holds its loss; what is waited for goes with the stage.            *)
(***************************************************************************)
EXTENDS NsLink, SequenceTheorems, TLAPS

(* What the stack does besides the links, and what the code works on.       *)
Radios == [on : BOOLEAN, scan : BOOLEAN, stopped : BOOLEAN,
           creating : Pads \cup {None}, cancelled : BOOLEAN]
Worlds == [g : AppState, l : [Pads -> LinkState], r : Radios]

(* What no step of the set-up or of its recovery changes.                   *)
SameLink(g, h) ==
  /\ h.powered = g.powered /\ h.wanted = g.wanted
  /\ h.scanning = g.scanning /\ h.scanRetry = g.scanRetry
  /\ h.connecting = g.connecting /\ h.connected = g.connected
  /\ h.conn = g.conn /\ h.target = g.target

(* What the code waits for goes with the stage it is in.                    *)
Staged(g) ==
  /\ g.cccd = "ackCccd" => g.stage = "subscribeAck"
  /\ g.cccd = "inputCccd" => g.stage = "subscribeInput"
  /\ g.action = "ackCccd" => g.stage = "subscribeAck"
  /\ g.action = "inputCccd" => g.stage = "subscribeInput"
  /\ g.action = "init" => g.stage = "initializing"
  /\ g.waiting => g.stage = "initializing"
  /\ g.stage \in {"subscribeInput", "ready"} => g.index = Len(Commands)
  /\ g.deadline => g.action # "none"

(* A deadline or the time of an acknowledgement runs.                       *)
Timed(g) == g.deadline \/ g.waiting

(* The bounds are numbers.                                                  *)
LEMMA CommandsFinite ==
  Len(Commands) \in Nat /\ MaxRetries \in Nat /\ 0 \in 0 .. MaxRetries /\ 0 \in 0 .. Len(Commands)
<1>1. Len(Commands) \in Nat /\ MaxRetries \in Nat
  BY NsLinkAssumption
<1>2. QED
  BY <1>1

(* ble_gatt_recovery_clear leaves nothing to wait for.                      *)
LEMMA ClearFacts ==
  ASSUME NEW g \in AppState
  PROVE  LET h == RecoveryClear(g)
         IN /\ h \in AppState /\ SameLink(g, h)
            /\ h.stage = g.stage /\ h.index = g.index /\ h.registered = g.registered
            /\ h.cccd = "none" /\ h.action = "none" /\ h.waiting = FALSE
            /\ h.deadline = FALSE /\ h.registering = FALSE
<1> DEFINE h == [g EXCEPT !.action = "none", !.retries = 0, !.deadline = FALSE,
                          !.waiting = FALSE, !.registering = FALSE, !.cccd = "none"]
<1>1. RecoveryClear(g) = h
  BY DEF RecoveryClear
<1>2. h \in AppState
  <2>1. 0 \in 0 .. MaxRetries /\ "none" \in RecoveryActions
    BY CommandsFinite DEF RecoveryActions
  <2>2. QED
    BY <2>1 DEF AppState
<1>3. /\ h.powered = g.powered /\ h.wanted = g.wanted
      /\ h.scanning = g.scanning /\ h.scanRetry = g.scanRetry
      /\ h.connecting = g.connecting /\ h.connected = g.connected
      /\ h.conn = g.conn /\ h.target = g.target
  BY DEF AppState
<1>4. /\ h.stage = g.stage /\ h.index = g.index /\ h.registered = g.registered
      /\ h.cccd = "none" /\ h.action = "none" /\ h.waiting = FALSE
      /\ h.deadline = FALSE /\ h.registering = FALSE
  BY DEF AppState
<1>5. QED
  BY <1>1, <1>2, <1>3, <1>4 DEF SameLink

(* ble_gatt_recovery_prepare names the step; another step starts again from *)
(* no retries.                                                              *)
LEMMA PrepareFacts ==
  ASSUME NEW g \in AppState, NEW a \in RecoveryActions
  PROVE  LET h == RecoveryPrepare(g, a)
         IN /\ h \in AppState /\ SameLink(g, h)
            /\ h.stage = g.stage /\ h.index = g.index /\ h.registered = g.registered
            /\ h.registering = g.registering
            /\ h.cccd = g.cccd /\ h.action = a /\ h.waiting = g.waiting
<1> DEFINE h == [g EXCEPT !.action = a, !.retries = 0, !.deadline = FALSE]
<1>1. h \in AppState
  <2>1. 0 \in 0 .. MaxRetries
    BY CommandsFinite
  <2>2. QED
    BY <2>1 DEF AppState
<1>2. /\ h.powered = g.powered /\ h.wanted = g.wanted
      /\ h.scanning = g.scanning /\ h.scanRetry = g.scanRetry
      /\ h.connecting = g.connecting /\ h.connected = g.connected
      /\ h.conn = g.conn /\ h.target = g.target
  BY DEF AppState
<1>3. /\ h.stage = g.stage /\ h.index = g.index /\ h.registered = g.registered
      /\ h.registering = g.registering
      /\ h.cccd = g.cccd /\ h.action = a /\ h.waiting = g.waiting
  BY DEF AppState
<1> HIDE DEF h
<1>4. RecoveryPrepare(g, a) = IF g.action = a THEN g ELSE h
  BY DEF RecoveryPrepare, h
<1>5. CASE g.action = a
  BY <1>4, <1>5 DEF SameLink
<1>6. CASE g.action # a
  BY <1>1, <1>2, <1>3, <1>4, <1>6 DEF SameLink
<1>7. QED
  BY <1>5, <1>6

(* ble_gatt_recovery_fail leaves a deadline, for the step or the            *)
(* disconnect.                                                              *)
LEMMA FailFacts ==
  ASSUME NEW g \in AppState, NEW a \in RecoveryActions
  PROVE  LET h == RecoveryFail(g, a)
         IN /\ h \in AppState /\ SameLink(g, h)
            /\ h.stage = g.stage /\ h.index = g.index /\ h.registered = g.registered
            /\ h.registering = g.registering
            /\ h.cccd = g.cccd /\ h.action \in {a, "disconnect"}
            /\ h.waiting = FALSE /\ h.deadline = TRUE
<1> DEFINE ready == RecoveryPrepare(g, a)
           failed == [ready EXCEPT !.waiting = FALSE, !.deadline = TRUE]
           over == [failed EXCEPT !.action = "disconnect"]
           again == [failed EXCEPT !.retries = @ + 1]
<1>1. /\ ready \in AppState /\ SameLink(g, ready)
      /\ ready.stage = g.stage /\ ready.index = g.index /\ ready.registered = g.registered
      /\ ready.registering = g.registering
      /\ ready.cccd = g.cccd /\ ready.action = a
  BY PrepareFacts
<1>2. RecoveryFail(g, a) = IF failed.retries >= MaxRetries THEN over ELSE again
  BY DEF RecoveryFail
<1> HIDE DEF ready
<1>3. /\ failed \in AppState /\ SameLink(g, failed)
      /\ failed.stage = g.stage /\ failed.index = g.index
      /\ failed.registered = g.registered /\ failed.registering = g.registering
      /\ failed.cccd = g.cccd /\ failed.action = a
  BY <1>1, ZenonT(40) DEF AppState, SameLink
<1>4. failed.waiting = FALSE /\ failed.deadline = TRUE
  BY <1>1 DEF AppState
<1> HIDE DEF failed
<1>5. over \in AppState /\ over.action = "disconnect"
  BY <1>3 DEF AppState, RecoveryActions
<1>6. ~(failed.retries >= MaxRetries) => failed.retries + 1 \in 0 .. MaxRetries
  BY <1>3, CommandsFinite DEF AppState
<1> DEFINE more == failed.retries + 1
<1>7. again = [failed EXCEPT !.retries = more]
  OBVIOUS
<1> HIDE DEF more, again
<1>8. ~(failed.retries >= MaxRetries) => again \in AppState
  <2>1. more \in 0 .. MaxRetries => again \in AppState
    BY <1>3, <1>7 DEF AppState
  <2>2. QED
    BY <1>6, <2>1 DEF more
<1>9. /\ SameLink(failed, over) /\ SameLink(failed, again)
      /\ over.stage = failed.stage /\ again.stage = failed.stage
      /\ over.index = failed.index /\ again.index = failed.index
      /\ over.registered = failed.registered /\ again.registered = failed.registered
      /\ over.registering = failed.registering /\ again.registering = failed.registering
      /\ over.cccd = failed.cccd /\ again.cccd = failed.cccd
      /\ again.action = failed.action
      /\ over.waiting = failed.waiting /\ again.waiting = failed.waiting
      /\ over.deadline = failed.deadline /\ again.deadline = failed.deadline
  BY <1>3, <1>7 DEF AppState, SameLink
<1>10. SameLink(g, over) /\ SameLink(g, again)
  BY <1>3, <1>9 DEF SameLink
<1> HIDE DEF over
<1>11. CASE failed.retries >= MaxRetries
  BY <1>2, <1>3, <1>4, <1>5, <1>9, <1>10, <1>11
<1>12. CASE ~(failed.retries >= MaxRetries)
  BY <1>2, <1>3, <1>4, <1>8, <1>9, <1>10, <1>12
<1>13. QED
  BY <1>11, <1>12

-----------------------------------------------------------------------------
(* A link that is connected is one to a controller.                         *)
Led(g) == g.connected => g.conn \in Pads

(* A command that waits to be sent is one of the set-up.                    *)
Indexed(s) == \A i \in DOMAIN s : s[i].kind = "command" => s[i].index \in Index

(* What the main loop may do to the far side of a link: ask for more.       *)
LinkGrows(a, b) ==
  /\ b \in LinkState
  /\ ~a.up => b = a
  /\ b.up = a.up /\ b.on = a.on /\ b.heard = a.heard /\ b.owed = a.owed
  /\ a.searching => b.searching
  /\ a.leaving => b.leaving
  /\ Indexed(a.writes) => Indexed(b.writes)
(* The same of all links, one of which is asked for more.                   *)
LinksGrow(l, m) == m \in [Pads -> LinkState] /\ \A p \in Pads : LinkGrows(l[p], m[p])

(* A step of the set-up or of its recovery.                                 *)
SetsUp(w, v) ==
  v \in Worlds /\ SameLink(w.g, v.g) /\ LinksGrow(w.l, v.l) /\ v.r = w.r

(* A step of the set-up that leaves something to wait for.                  *)
Asks(w, v, stages) ==
  SetsUp(w, v) /\ Staged(v.g) /\ Timed(v.g) /\ v.g.stage \in stages /\ v.g.index = w.g.index

(* Asking for nothing is growing.                                           *)
LEMMA GrowsItself == \A l \in [Pads -> LinkState] : LinksGrow(l, l)
  BY DEF LinksGrow, LinkGrows

(* So is asking twice.                                                      *)
LEMMA GrowsTransitive ==
  ASSUME NEW l, NEW m, NEW n, LinksGrow(l, m), LinksGrow(m, n)
  PROVE  LinksGrow(l, n)
  BY DEF LinksGrow, LinkGrows

(* So is asking one link.                                                   *)
LEMMA GrowsAt ==
  ASSUME NEW l \in [Pads -> LinkState], NEW p \in Pads, NEW b, LinkGrows(l[p], b)
  PROVE  LinksGrow(l, [l EXCEPT ![p] = b])
  BY DEF LinksGrow, LinkGrows

(* A step of the set-up after another is one.                               *)
LEMMA SetsUpTransitive ==
  ASSUME NEW u, NEW v, NEW w, SetsUp(u, v), SetsUp(v, w)
  PROVE  SetsUp(u, w)
  BY GrowsTransitive DEF SetsUp, SameLink

(* A step that changes nothing but what the code says.                      *)
LEMMA SetsUpApp ==
  ASSUME NEW w \in Worlds, NEW h \in AppState, SameLink(w.g, h)
  PROVE  /\ [w EXCEPT !.g = h] \in Worlds
         /\ SetsUp(w, [w EXCEPT !.g = h])
  BY GrowsItself DEF SetsUp, Worlds

(* A write that is queued makes its link grow.                              *)
LEMMA WriteGrows ==
  ASSUME NEW a \in LinkState, a.up, NEW x \in Writes, x.kind = "command" => x.index \in Index
  PROVE  LinkGrows(a, [a EXCEPT !.writes = Append(@, x)])
<1> DEFINE s == a.writes
           t == Append(s, x)
<1>1. s \in Seq(Writes)
  BY DEF LinkState
<1>2. /\ t \in Seq(Writes) /\ Len(t) = Len(s) + 1 /\ t[Len(s) + 1] = x
      /\ \A i \in 1 .. Len(s) : t[i] = s[i]
  BY <1>1, AppendProperties
<1>3. Indexed(s) => Indexed(t)
  <2>1. DOMAIN s = 1 .. Len(s) /\ DOMAIN t = 1 .. Len(s) + 1 /\ Len(s) \in Nat
    BY <1>1, <1>2
  <2> HIDE DEF s, t
  <2>2. QED
    BY <1>2, <2>1 DEF Indexed
<1>4. [a EXCEPT !.writes = Append(@, x)] = [a EXCEPT !.writes = t]
  OBVIOUS
<1> HIDE DEF t
<1>5. [a EXCEPT !.writes = t] \in LinkState
  BY <1>2 DEF LinkState
<1>6. [a EXCEPT !.writes = t].writes = t
  BY DEF LinkState
<1>7. QED
  BY <1>3, <1>4, <1>5, <1>6 DEF LinkGrows, LinkState

(* ble_gatt_write_remote leaves the code's variables alone.                 *)
LEMMA WriteRemoteFacts ==
  ASSUME NEW w \in Worlds, w.g.conn \in Pads, w.l[w.g.conn].up,
         NEW x \in Writes, x.kind = "command" => x.index \in Index
  PROVE  LET v == WriteRemote(w, x)
         IN v \in Worlds /\ v.g = w.g /\ SetsUp(w, v)
<1> DEFINE p == w.g.conn
           b == [w.l[p] EXCEPT !.writes = Append(@, x)]
           m == [w.l EXCEPT ![p] = b]
           v == [w EXCEPT !.l = m]
<1>1. w.l \in [Pads -> LinkState] /\ w.g \in AppState
  BY DEF Worlds
<1>2. LinkGrows(w.l[p], b)
  BY <1>1, WriteGrows
<1>3. WriteRemote(w, x) = v
  BY <1>1 DEF WriteRemote, Worlds
<1> HIDE DEF b
<1>4. LinksGrow(w.l, m)
  BY <1>1, <1>2, GrowsAt
<1> HIDE DEF m
<1>5. m \in [Pads -> LinkState]
  BY <1>4 DEF LinksGrow
<1>6. v \in Worlds /\ v.g = w.g /\ v.l = m /\ v.r = w.r
  BY <1>5 DEF Worlds
<1> HIDE DEF v
<1>7. QED
  BY <1>3, <1>4, <1>6 DEF SetsUp, SameLink

(* What the subscriptions and the commands leave in the state.              *)
LEMMA SubscribeFacts ==
  ASSUME NEW w \in Worlds, Led(w.g), NEW ok \in BOOLEAN, NEW cccd \in Subscriptions,
         NEW stage \in Stages, w.g.cccd = "none", ~w.g.waiting,
         cccd = "ackCccd" => stage = "subscribeAck",
         cccd = "inputCccd" => stage = "subscribeInput" /\ w.g.index = Len(Commands)
  PROVE  LET v == Subscribe(w, stage, cccd, ok)
         IN Asks(w, v, {stage})
<1> DEFINE staged == [w.g EXCEPT !.stage = stage]
           g == RecoveryPrepare(staged, cccd)
           asked == [g EXCEPT !.cccd = cccd, !.deadline = TRUE]
           asking == [w EXCEPT !.g = asked]
           sent == WriteRemote(asking, Write(cccd, 0))
           failed == RecoveryFail(g, cccd)
           fails == [w EXCEPT !.g = failed]
<1>0. Subscribe(w, stage, cccd, ok) = IF Accepted(w, ok) THEN sent ELSE fails
  BY DEF Subscribe
<1>1. w.g \in AppState /\ cccd \in RecoveryActions
  BY DEF Worlds, Subscriptions, RecoveryActions
<1>2. /\ staged \in AppState /\ SameLink(w.g, staged) /\ staged.stage = stage
      /\ staged.index = w.g.index /\ staged.cccd = "none" /\ ~staged.waiting
  <2>1. staged \in AppState /\ staged.stage = stage
    BY <1>1 DEF AppState
  <2>2. SameLink(w.g, staged)
    BY <1>1 DEF AppState, SameLink
  <2>3. staged.index = w.g.index /\ staged.cccd = "none"
    BY <1>1 DEF AppState
  <2>4. ~staged.waiting
    BY <1>1 DEF AppState
  <2>5. QED
    BY <2>1, <2>2, <2>3, <2>4
<1> HIDE DEF staged
<1>3. /\ g \in AppState /\ SameLink(staged, g) /\ g.stage = stage /\ g.index = w.g.index
      /\ g.cccd = "none" /\ g.action = cccd /\ ~g.waiting
  BY <1>1, <1>2, PrepareFacts
<1> HIDE DEF g
<1>4. SameLink(w.g, g)
  BY <1>2, <1>3 DEF SameLink
<1>5. /\ asked \in AppState /\ SameLink(g, asked) /\ asked.stage = stage
      /\ asked.index = w.g.index /\ asked.cccd = cccd /\ asked.action = cccd
      /\ asked.waiting = FALSE /\ asked.deadline = TRUE
  <2>1. asked \in AppState
    BY <1>3 DEF AppState
  <2>2. SameLink(g, asked)
    BY <1>3 DEF AppState, SameLink
  <2>3. /\ asked.stage = stage /\ asked.index = w.g.index /\ asked.cccd = cccd
        /\ asked.action = cccd
    BY <1>3 DEF AppState
  <2>4. asked.waiting = FALSE /\ asked.deadline = TRUE
    BY <1>3 DEF AppState
  <2>5. QED
    BY <2>1, <2>2, <2>3, <2>4
<1> HIDE DEF asked
<1>6. SameLink(w.g, asked)
  BY <1>4, <1>5 DEF SameLink
<1>7. asking \in Worlds /\ SetsUp(w, asking) /\ asking.g = asked /\ asking.l = w.l
  BY <1>5, <1>6, SetsUpApp DEF Worlds
<1>8. ASSUME Accepted(w, ok)
      PROVE  SetsUp(w, sent) /\ sent.g = asked
  <2>1. asking.g.conn \in Pads /\ asking.l[asking.g.conn].up
    BY <1>6, <1>7, <1>8 DEF Accepted, Led, SameLink
  <2>2. Write(cccd, 0) \in Writes /\ Write(cccd, 0).kind # "command"
    BY DEF Write, Writes, Subscriptions
  <2> HIDE DEF asking
  <2>3. SetsUp(asking, sent) /\ sent.g = asking.g
    BY <1>7, <2>1, <2>2, WriteRemoteFacts
  <2>4. QED
    BY <1>7, <2>3, SetsUpTransitive
<1>9. Staged(asked)
  BY <1>5 DEF Staged, Subscriptions
<1>10. /\ failed \in AppState /\ SameLink(g, failed) /\ failed.stage = stage
       /\ failed.index = w.g.index /\ failed.cccd = "none"
       /\ failed.action \in {cccd, "disconnect"}
       /\ failed.waiting = FALSE /\ failed.deadline = TRUE
  BY <1>1, <1>3, FailFacts
<1> HIDE DEF failed
<1>11. SameLink(w.g, failed)
  BY <1>4, <1>10 DEF SameLink
<1>12. SetsUp(w, fails) /\ fails.g = failed
  BY <1>10, <1>11, SetsUpApp DEF Worlds
<1>13. Staged(failed)
  BY <1>10 DEF Staged, Subscriptions
<1> HIDE DEF sent, fails
<1>14. CASE Accepted(w, ok)
  BY <1>0, <1>5, <1>8, <1>9, <1>14 DEF Asks, Timed
<1>15. CASE ~Accepted(w, ok)
  BY <1>0, <1>10, <1>12, <1>13, <1>15 DEF Asks, Timed
<1>16. QED
  BY <1>14, <1>15

(* The two subscriptions are asked for, each in its stage.                  *)
LEMMA FinishRegistrationFacts ==
  ASSUME NEW w \in Worlds, Led(w.g), NEW ok \in BOOLEAN,
         w.g.cccd = "none", ~w.g.waiting
  PROVE  Asks(w, FinishRegistration(w, ok), {"subscribeAck"})
<1>1. "ackCccd" \in Subscriptions /\ "subscribeAck" \in Stages
  BY DEF Subscriptions, Stages
<1>2. QED
  BY <1>1, SubscribeFacts DEF FinishRegistration

(* The subscription to the input reports comes after the last command.      *)
LEMMA StartInputSubscriptionFacts ==
  ASSUME NEW w \in Worlds, Led(w.g), NEW ok \in BOOLEAN,
         w.g.cccd = "none", ~w.g.waiting, w.g.index = Len(Commands)
  PROVE  Asks(w, StartInputSubscription(w, ok), {"subscribeInput"})
<1>1. "inputCccd" \in Subscriptions /\ "subscribeInput" \in Stages
  BY DEF Subscriptions, Stages
<1>2. QED
  BY <1>1, SubscribeFacts DEF StartInputSubscription

(* The next command is sent, or the input reports are subscribed to.        *)
LEMMA SendInitCommandFacts ==
  ASSUME NEW w \in Worlds, Led(w.g), NEW ok \in BOOLEAN,
         w.g.cccd = "none", w.g.stage = "initializing"
  PROVE  Asks(w, SendInitCommand(w, ok), {"initializing", "subscribeInput"})
<1> DEFINE cleared == RecoveryClear(w.g)
           clear == [w EXCEPT !.g = cleared]
           over == StartInputSubscription(clear, ok)
           g == RecoveryPrepare(w.g, "init")
           asked == [g EXCEPT !.deadline = FALSE, !.waiting = TRUE]
           asking == [w EXCEPT !.g = asked]
           x == Write("command", w.g.index)
           sent == WriteRemote(asking, x)
           failed == RecoveryFail(g, "init")
           fails == [w EXCEPT !.g = failed]
<1>0. SendInitCommand(w, ok) = IF w.g.index >= Len(Commands) THEN over
                               ELSE IF Accepted(w, ok) THEN sent ELSE fails
  <2>1. [w EXCEPT !.g = RecoveryClear(@)] = clear
    BY DEF Worlds
  <2>2. QED
    BY <2>1 DEF SendInitCommand
<1>1. w.g \in AppState /\ "init" \in RecoveryActions /\ w.g.index \in 0 .. Len(Commands)
  BY DEF Worlds, RecoveryActions, AppState
<1>2. CASE w.g.index >= Len(Commands)
  <2>1. w.g.index = Len(Commands)
    BY <1>1, <1>2, CommandsFinite
  <2>2. /\ cleared \in AppState /\ SameLink(w.g, cleared) /\ cleared.cccd = "none"
        /\ ~cleared.waiting /\ cleared.index = w.g.index
    BY <1>1, ClearFacts
  <2> HIDE DEF cleared
  <2>3. clear \in Worlds /\ SetsUp(w, clear) /\ clear.g = cleared
    BY <2>2, SetsUpApp DEF Worlds
  <2> HIDE DEF clear
  <2>4. Led(clear.g)
    BY <2>2, <2>3 DEF Led, SameLink
  <2>5. Asks(clear, over, {"subscribeInput"})
    BY <2>1, <2>2, <2>3, <2>4, StartInputSubscriptionFacts
  <2> HIDE DEF over
  <2>6. SetsUp(w, over)
    BY <2>3, <2>5, SetsUpTransitive DEF Asks
  <2>7. QED
    BY <1>0, <1>2, <2>2, <2>3, <2>5, <2>6 DEF Asks
<1>3. /\ g \in AppState /\ SameLink(w.g, g) /\ g.stage = "initializing"
      /\ g.index = w.g.index /\ g.cccd = "none" /\ g.action = "init"
  BY <1>1, PrepareFacts
<1> HIDE DEF g
<1>4. /\ asked \in AppState /\ SameLink(g, asked) /\ asked.stage = "initializing"
      /\ asked.index = w.g.index /\ asked.cccd = "none" /\ asked.action = "init"
      /\ asked.deadline = FALSE /\ asked.waiting = TRUE
  <2>1. asked \in AppState
    BY <1>3 DEF AppState
  <2>2. SameLink(g, asked)
    BY <1>3 DEF AppState, SameLink
  <2>3. /\ asked.stage = "initializing" /\ asked.index = w.g.index /\ asked.cccd = "none"
        /\ asked.action = "init"
    BY <1>3 DEF AppState
  <2>4. asked.deadline = FALSE /\ asked.waiting = TRUE
    BY <1>3 DEF AppState
  <2>5. QED
    BY <2>1, <2>2, <2>3, <2>4
<1> HIDE DEF asked
<1>5. SameLink(w.g, asked)
  BY <1>3, <1>4 DEF SameLink
<1>6. asking \in Worlds /\ SetsUp(w, asking) /\ asking.g = asked /\ asking.l = w.l
  BY <1>4, <1>5, SetsUpApp DEF Worlds
<1>7. ASSUME ~(w.g.index >= Len(Commands)), Accepted(w, ok)
      PROVE  SetsUp(w, sent) /\ sent.g = asked
  <2>1. asking.g.conn \in Pads /\ asking.l[asking.g.conn].up
    BY <1>5, <1>6, <1>7 DEF Accepted, Led, SameLink
  <2>2. x \in Writes /\ x.index \in Index
    BY <1>1, <1>7, CommandsFinite DEF Write, Writes, Index
  <2> HIDE DEF asking, x
  <2>3. SetsUp(asking, sent) /\ sent.g = asking.g
    BY <1>6, <2>1, <2>2, WriteRemoteFacts
  <2>4. QED
    BY <1>6, <2>3, SetsUpTransitive
<1>8. Staged(asked) /\ Timed(asked)
  BY <1>4 DEF Staged, Timed
<1>9. /\ failed \in AppState /\ SameLink(g, failed) /\ failed.stage = "initializing"
      /\ failed.index = w.g.index /\ failed.cccd = "none"
      /\ failed.action \in {"init", "disconnect"}
      /\ failed.waiting = FALSE /\ failed.deadline = TRUE
  BY <1>1, <1>3, FailFacts
<1> HIDE DEF failed
<1>10. SameLink(w.g, failed)
  BY <1>3, <1>9 DEF SameLink
<1>11. SetsUp(w, fails) /\ fails.g = failed
  BY <1>9, <1>10, SetsUpApp DEF Worlds
<1>12. Staged(failed) /\ Timed(failed)
  BY <1>9 DEF Staged, Timed
<1> HIDE DEF sent, fails
<1>13. CASE ~(w.g.index >= Len(Commands))
  <2>1. CASE Accepted(w, ok)
    BY <1>0, <1>4, <1>7, <1>8, <1>13, <2>1 DEF Asks
  <2>2. CASE ~Accepted(w, ok)
    BY <1>0, <1>9, <1>11, <1>12, <1>13, <2>2 DEF Asks
  <2>3. QED
    BY <2>1, <2>2
<1>14. QED
  BY <1>2, <1>13

-----------------------------------------------------------------------------
(* What the code waits for is the same.                                     *)
SameWait(g, h) ==
  /\ h.stage = g.stage /\ h.index = g.index /\ h.cccd = g.cccd /\ h.action = g.action
  /\ h.deadline = g.deadline /\ h.waiting = g.waiting

(* What is not touched stays staged.                                        *)
LEMMA StagedSame ==
  ASSUME NEW g, NEW h, SameWait(g, h), Staged(g)
  PROVE  Staged(h)
  BY DEF SameWait, Staged

(* What waits for nothing is staged, but for the end of the set-up.         *)
LEMMA StagedClear ==
  ASSUME NEW g \in AppState, Staged(g)
  PROVE  Staged(RecoveryClear(g))
<1>1. LET h == RecoveryClear(g)
      IN /\ h.stage = g.stage /\ h.index = g.index /\ h.cccd = "none" /\ h.action = "none"
         /\ h.waiting = FALSE /\ h.deadline = FALSE
  BY ClearFacts
<1>2. QED
  BY <1>1 DEF Staged

(* Taking the handles' registration back changes nothing else.              *)
LEMMA UnregisterFacts ==
  ASSUME NEW g \in AppState
  PROVE  LET h == Unregister(g)
         IN h \in AppState /\ SameLink(g, h) /\ SameWait(g, h)
<1> DEFINE h == [g EXCEPT !.registered = FALSE, !.registering = FALSE]
<1>1. h \in AppState
  BY DEF AppState
<1>2. SameLink(g, h)
  BY DEF AppState, SameLink
<1>3. SameWait(g, h)
  BY DEF AppState, SameWait
<1>4. SameLink(g, g) /\ SameWait(g, g)
  BY DEF SameLink, SameWait
<1> HIDE DEF h
<1>5. QED
  BY <1>1, <1>2, <1>3, <1>4 DEF Unregister, h

(* A registration is asked of the stack, and a deadline set.                *)
LEMMA AttemptRegistrationFacts ==
  ASSUME NEW w \in Worlds, w.g.connected, Led(w.g), Staged(w.g), NEW ok \in BOOLEAN
  PROVE  Asks(w, AttemptRegistration(w, ok), {w.g.stage})
<1> DEFINE g == RecoveryPrepare(w.g, "register")
           p == g.conn
           b == [w.l[p] EXCEPT !.registering = TRUE]
           m == [w.l EXCEPT ![p] = b]
           asked == [g EXCEPT !.registered = TRUE, !.registering = TRUE, !.deadline = TRUE]
           asking == [w EXCEPT !.g = asked]
           sent == [asking EXCEPT !.l = m]
           refused == [g EXCEPT !.registered = FALSE, !.registering = FALSE]
           failed == RecoveryFail(refused, "register")
           fails == [w EXCEPT !.g = failed]
<1>1. /\ w.g \in AppState /\ w.l \in [Pads -> LinkState] /\ w.r \in Radios
      /\ "register" \in RecoveryActions /\ w.g.stage \in Stages
  BY DEF Worlds, RecoveryActions, AppState
<1>2. /\ g \in AppState /\ SameLink(w.g, g) /\ g.stage = w.g.stage /\ g.index = w.g.index
      /\ g.cccd = w.g.cccd /\ g.action = "register" /\ g.waiting = w.g.waiting
  BY <1>1, PrepareFacts
<1> HIDE DEF g
<1>3. p \in Pads
  BY <1>2 DEF Led, SameLink
<1>4. w.l[p].up => LinkGrows(w.l[p], b)
  <2>1. w.l[p] \in LinkState
    BY <1>1, <1>3
  <2>2. b \in LinkState /\ b.writes = w.l[p].writes
    BY <2>1 DEF LinkState
  <2>3. b.on = w.l[p].on /\ b.heard = w.l[p].heard /\ b.owed = w.l[p].owed
    BY <2>1 DEF LinkState
  <2>4. /\ b.up = w.l[p].up /\ b.leaving = w.l[p].leaving
        /\ b.searching = w.l[p].searching
    BY <2>1 DEF LinkState
  <2> HIDE DEF b
  <2>5. QED
    BY <2>2, <2>3, <2>4 DEF LinkGrows
<1>5. AttemptRegistration(w, ok) =
        IF ok /\ w.l[g.conn].up THEN sent ELSE fails
  <2>1. [w EXCEPT !.l[g.conn].registering = TRUE,
                  !.g = [g EXCEPT !.registered = TRUE, !.registering = TRUE,
                                  !.deadline = TRUE]] = sent
    BY <1>1, <1>2, <1>3 DEF Worlds
  <2>2. QED
    BY <2>1 DEF AttemptRegistration, g
<1> HIDE DEF b
<1>6. w.l[p].up => LinksGrow(w.l, m)
  BY <1>1, <1>3, <1>4, GrowsAt
<1> HIDE DEF m
<1>7. /\ asked \in AppState /\ SameLink(g, asked) /\ asked.stage = w.g.stage
      /\ asked.index = w.g.index /\ asked.cccd = w.g.cccd /\ asked.action = "register"
      /\ asked.waiting = w.g.waiting /\ asked.deadline = TRUE
  <2>1. asked \in AppState
    BY <1>2 DEF AppState
  <2>2. SameLink(g, asked)
    BY <1>2 DEF AppState, SameLink
  <2>3. /\ asked.stage = w.g.stage /\ asked.index = w.g.index /\ asked.cccd = w.g.cccd
        /\ asked.action = "register"
    BY <1>2 DEF AppState
  <2>4. asked.waiting = w.g.waiting
    BY <1>2 DEF AppState
  <2>5. asked.deadline = TRUE
    BY <1>2 DEF AppState
  <2>6. QED
    BY <2>1, <2>2, <2>3, <2>4, <2>5
<1> HIDE DEF asked
<1>8. w.l[p].up => Asks(w, sent, {w.g.stage})
  <2> SUFFICES ASSUME w.l[p].up
               PROVE  Asks(w, sent, {w.g.stage})
    OBVIOUS
  <2>1. sent \in Worlds /\ sent.g = asked /\ sent.l = m /\ sent.r = w.r
    BY <1>1, <1>6, <1>7 DEF Worlds, LinksGrow
  <2>2. SameLink(w.g, asked)
    BY <1>2, <1>7 DEF SameLink
  <2>3. Staged(asked) /\ Timed(asked)
    BY <1>7 DEF Staged, Timed
  <2> HIDE DEF sent
  <2>4. QED
    BY <1>6, <1>7, <2>1, <2>2, <2>3 DEF Asks, SetsUp
<1>9. /\ refused \in AppState /\ SameLink(g, refused) /\ refused.stage = w.g.stage
      /\ refused.index = w.g.index /\ refused.cccd = w.g.cccd
  <2>1. refused \in AppState
    BY <1>2 DEF AppState
  <2>2. SameLink(g, refused)
    BY <1>2 DEF AppState, SameLink
  <2>3. refused.stage = w.g.stage /\ refused.index = w.g.index /\ refused.cccd = w.g.cccd
    BY <1>2 DEF AppState
  <2>4. QED
    BY <2>1, <2>2, <2>3
<1> HIDE DEF refused
<1>10. /\ failed \in AppState /\ SameLink(refused, failed) /\ failed.stage = w.g.stage
       /\ failed.index = w.g.index /\ failed.cccd = w.g.cccd
       /\ failed.action \in {"register", "disconnect"}
       /\ failed.waiting = FALSE /\ failed.deadline = TRUE
  BY <1>1, <1>9, FailFacts
<1> HIDE DEF failed
<1>11. Asks(w, fails, {w.g.stage})
  <2>1. SameLink(w.g, failed)
    BY <1>2, <1>9, <1>10 DEF SameLink
  <2>2. SetsUp(w, fails) /\ fails.g = failed
    BY <1>10, <2>1, SetsUpApp DEF Worlds
  <2>3. Staged(failed) /\ Timed(failed)
    BY <1>10 DEF Staged, Timed
  <2> HIDE DEF fails
  <2>4. QED
    BY <1>10, <2>2, <2>3 DEF Asks
<1> HIDE DEF sent, fails
<1>12. QED
  BY <1>5, <1>8, <1>11

(* It begins with nothing else to wait for.                                 *)
LEMMA BeginRegistrationFacts ==
  ASSUME NEW w \in Worlds, w.g.connected, Led(w.g), Staged(w.g), NEW ok \in BOOLEAN
  PROVE  Asks(w, BeginRegistration(w, ok), {w.g.stage})
<1> DEFINE h == RecoveryClear(w.g)
           clear == [w EXCEPT !.g = h]
           v == AttemptRegistration(clear, ok)
<1>1. /\ h \in AppState /\ SameLink(w.g, h) /\ Staged(h) /\ h.stage = w.g.stage
      /\ h.index = w.g.index
  BY ClearFacts, StagedClear DEF Worlds
<1>2. BeginRegistration(w, ok) = v
  BY DEF BeginRegistration, Worlds
<1> HIDE DEF h
<1>3. clear \in Worlds /\ SetsUp(w, clear) /\ clear.g = h
  BY <1>1, SetsUpApp DEF Worlds
<1>4. clear.g.connected /\ Led(clear.g)
  BY <1>1, <1>3 DEF SameLink, Led
<1> HIDE DEF clear
<1>5. Asks(clear, v, {clear.g.stage})
  BY <1>1, <1>3, <1>4, AttemptRegistrationFacts
<1> HIDE DEF v
<1>6. SetsUp(w, v)
  BY <1>3, <1>5, SetsUpTransitive DEF Asks
<1>7. QED
  BY <1>1, <1>2, <1>3, <1>5, <1>6 DEF Asks

-----------------------------------------------------------------------------
(* A step of the scan: nothing of the session changes, and no link.         *)
SameSession(g, h) ==
  /\ SameWait(g, h)
  /\ h.connected = g.connected /\ h.conn = g.conn
  /\ h.target = g.target /\ h.wanted = g.wanted
(* What the code does to the scan leaves the session alone.                 *)
Scans(w, v) == v \in Worlds /\ SameSession(w.g, v.g) /\ v.l = w.l

(* What is scanned for is wanted, and the code knows that it scans.         *)
ScanIsWanted(w) == w.r.scan => w.g.wanted /\ w.g.scanning

(* Doing nothing does.                                                      *)
LEMMA ScansItself == \A w \in Worlds : Scans(w, w)
  BY DEF Scans, SameSession, SameWait

(* So does one after the other.                                             *)
LEMMA ScansTransitive ==
  ASSUME NEW u, NEW v, NEW w, Scans(u, v), Scans(v, w)
  PROVE  Scans(u, w)
  BY DEF Scans, SameSession, SameWait

(* A scan that is wanted is one still when it is started.                   *)
LEMMA StartScanNowFacts ==
  ASSUME NEW w \in Worlds, NEW ok \in BOOLEAN
  PROVE  LET v == StartScanNow(w, ok)
         IN /\ Scans(w, v) /\ v.r.creating = w.r.creating /\ v.r.stopped = w.r.stopped
            /\ ScanIsWanted(w) /\ w.g.wanted => ScanIsWanted(v)
<1> DEFINE again == [w.g EXCEPT !.scanRetry = TRUE]
           tries == [w EXCEPT !.g = again]
           g == [w.g EXCEPT !.scanRetry = FALSE, !.scanning = TRUE]
           r == [w.r EXCEPT !.scan = TRUE]
           scans == [w EXCEPT !.g = g, !.r = r]
<1>1. w.g \in AppState /\ w.r \in Radios /\ w.l \in [Pads -> LinkState]
  BY DEF Worlds
<1>2. StartScanNow(w, ok) = IF ok THEN scans ELSE tries
  BY DEF StartScanNow, Worlds
<1>3. again \in AppState /\ SameSession(w.g, again)
  <2>1. again \in AppState
    BY <1>1 DEF AppState
  <2>2. SameSession(w.g, again)
    BY <1>1 DEF AppState, SameSession, SameWait
  <2>3. QED
    BY <2>1, <2>2
<1>4. again.scanning = w.g.scanning /\ again.wanted = w.g.wanted
  BY <1>1 DEF AppState
<1> HIDE DEF again
<1>5. tries \in Worlds /\ tries.g = again /\ tries.l = w.l /\ tries.r = w.r
  BY <1>1, <1>3 DEF Worlds
<1>6. g \in AppState /\ SameSession(w.g, g)
  <2>1. g \in AppState
    BY <1>1 DEF AppState
  <2>2. SameSession(w.g, g)
    BY <1>1 DEF AppState, SameSession, SameWait
  <2>3. QED
    BY <2>1, <2>2
<1>7. g.scanning = TRUE /\ g.wanted = w.g.wanted
  BY <1>1 DEF AppState
<1>8. r \in Radios /\ r.creating = w.r.creating
  BY <1>1 DEF Radios
<1>9. r.stopped = w.r.stopped
  BY <1>1 DEF Radios
<1> HIDE DEF g, r
<1>10. scans \in Worlds /\ scans.g = g /\ scans.l = w.l /\ scans.r = r
  BY <1>1, <1>6, <1>8 DEF Worlds
<1> HIDE DEF tries, scans
<1>11. CASE ok
  BY <1>2, <1>6, <1>7, <1>8, <1>9, <1>10, <1>11 DEF Scans, ScanIsWanted
<1>12. CASE ~ok
  BY <1>2, <1>3, <1>4, <1>5, <1>12 DEF Scans, ScanIsWanted
<1>13. QED
  BY <1>11, <1>12

(* A scan that was wanted is none when it is stopped.                       *)
LEMMA StopScanningFacts ==
  ASSUME NEW w \in Worlds
  PROVE  LET v == StopScanning(w)
         IN /\ Scans(w, v) /\ v.r.creating = w.r.creating
            /\ v.r.stopped => w.r.stopped \/ w.r.scan
            /\ ScanIsWanted(w) => ~v.r.scan
            /\ v.g.powered = w.g.powered
<1> DEFINE g == [w.g EXCEPT !.scanning = FALSE]
           end == w.r.stopped \/ w.r.scan
           r == [w.r EXCEPT !.scan = FALSE, !.stopped = end]
           v == [w EXCEPT !.g = g, !.r = r]
<1>1. w.g \in AppState /\ w.r \in Radios /\ w.l \in [Pads -> LinkState]
  BY DEF Worlds
<1>2. StopScanning(w) = IF w.g.scanning THEN v ELSE w
  BY DEF StopScanning, Worlds, Radios
<1>3. end \in BOOLEAN
  OBVIOUS
<1> HIDE DEF end
<1>4. r \in Radios /\ r.creating = w.r.creating
  BY <1>1, <1>3 DEF Radios
<1>5. r.stopped = end /\ ~r.scan
  BY <1>1, <1>3 DEF Radios
<1>6. g \in AppState /\ SameSession(w.g, g)
  <2>1. g \in AppState
    BY <1>1 DEF AppState
  <2>2. SameSession(w.g, g)
    BY <1>1 DEF AppState, SameSession, SameWait
  <2>3. QED
    BY <2>1, <2>2
<1>7. g.powered = w.g.powered
  BY <1>1 DEF AppState
<1> HIDE DEF g, r
<1>8. v \in Worlds /\ v.g = g /\ v.l = w.l /\ v.r = r
  BY <1>1, <1>4, <1>6 DEF Worlds
<1> HIDE DEF v
<1>9. CASE w.g.scanning
  BY <1>2, <1>4, <1>5, <1>6, <1>7, <1>8, <1>9 DEF Scans, end
<1>10. CASE ~w.g.scanning
  BY <1>2, <1>10, ScansItself DEF ScanIsWanted
<1>11. QED
  BY <1>9, <1>10

(* A connection is begun with the candidate, or not at all.                 *)
LEMMA ConnectCandidateFacts ==
  ASSUME NEW w \in Worlds, NEW p \in Pads, NEW ok \in BOOLEAN
  PROVE  LET v == ConnectCandidate(w, p, ok)
         IN /\ Scans(w, v) /\ (ScanIsWanted(w) => ScanIsWanted(v))
            /\ v.r.creating = w.r.creating \/ (v.r.creating = p /\ ~w.l[p].up)
            /\ v.r.stopped => w.r.stopped \/ w.r.scan
<1> DEFINE quiet == StopScanning(w)
           g == [quiet.g EXCEPT !.connecting = TRUE]
           r == [quiet.r EXCEPT !.creating = p, !.cancelled = FALSE]
           v == [quiet EXCEPT !.g = g, !.r = r]
<1>1. /\ Scans(w, quiet) /\ quiet.r.creating = w.r.creating
      /\ quiet.r.stopped => w.r.stopped \/ w.r.scan
      /\ ScanIsWanted(w) => ~quiet.r.scan
  BY StopScanningFacts
<1>2. ConnectCandidate(w, p, ok) =
        IF w.g.connecting \/ w.g.connected THEN w
        ELSE IF ok /\ w.r.creating = None /\ ~w.l[p].up THEN v ELSE quiet
  <2>1. [quiet EXCEPT !.g.connecting = TRUE, !.r.creating = p, !.r.cancelled = FALSE] = v
    BY <1>1 DEF Scans, Worlds, Radios, AppState
  <2> HIDE DEF v
  <2>2. QED
    BY <2>1 DEF ConnectCandidate
<1> HIDE DEF quiet
<1>3. quiet \in Worlds /\ quiet.g \in AppState /\ quiet.r \in Radios /\ quiet.l \in [Pads -> LinkState]
  BY <1>1 DEF Scans, Worlds
<1>4. g \in AppState /\ SameSession(quiet.g, g)
  <2>1. g \in AppState
    BY <1>3 DEF AppState
  <2>2. SameSession(quiet.g, g)
    BY <1>3 DEF AppState, SameSession, SameWait
  <2>3. QED
    BY <2>1, <2>2
<1>5. r \in Radios /\ r.creating = p
  BY <1>3 DEF Radios
<1>6. r.scan = quiet.r.scan /\ r.stopped = quiet.r.stopped
  BY <1>3 DEF Radios
<1> HIDE DEF g, r
<1>7. v \in Worlds /\ v.g = g /\ v.r = r /\ v.l = quiet.l
  BY <1>3, <1>4, <1>5 DEF Worlds
<1> HIDE DEF v
<1>8. Scans(quiet, v)
  BY <1>4, <1>7 DEF Scans
<1>9. Scans(w, v)
  BY <1>1, <1>8, ScansTransitive
<1>10. CASE w.g.connecting \/ w.g.connected
  BY <1>2, <1>10, ScansItself
<1>11. CASE ~(w.g.connecting \/ w.g.connected) /\ ok /\ w.r.creating = None /\ ~w.l[p].up
  BY <1>1, <1>2, <1>5, <1>6, <1>7, <1>9, <1>11 DEF ScanIsWanted
<1>12. CASE ~(w.g.connecting \/ w.g.connected) /\ ~(ok /\ w.r.creating = None /\ ~w.l[p].up)
  BY <1>1, <1>2, <1>12 DEF ScanIsWanted
<1>13. QED
  BY <1>10, <1>11, <1>12

-----------------------------------------------------------------------------
(* A session begins and ends.                                               *)
LEMMA OnConnectedFacts ==
  ASSUME NEW w \in Worlds, NEW p \in Pads, NEW found \in BOOLEAN, NEW ok \in BOOLEAN
  PROVE  LET v == OnConnected(w, p, found, ok)
         IN /\ v \in Worlds /\ v.g.connected /\ v.g.conn = p /\ v.r = w.r
            /\ v.g.target = w.g.target /\ v.g.wanted = w.g.wanted
            /\ v.g.stage = "idle" /\ v.g.index = 0 /\ Staged(v.g)
            /\ LinksGrow(w.l, v.l)
            /\ Timed(v.g) \/ v.l[p].searching
<1> DEFINE clear == RecoveryClear(w.g)
           g == [clear EXCEPT !.connected = TRUE, !.connecting = FALSE, !.scanning = FALSE,
                              !.scanRetry = FALSE, !.registered = FALSE, !.index = 0,
                              !.stage = "idle", !.conn = p]
           begun == [w EXCEPT !.g = g]
           b == [w.l[p] EXCEPT !.searching = TRUE]
           m == [w.l EXCEPT ![p] = b]
           searched == [w EXCEPT !.g = g, !.l = m]
           known == BeginRegistration(begun, ok)
<1>1. w.g \in AppState /\ w.l \in [Pads -> LinkState] /\ w.r \in Radios
  BY DEF Worlds
<1>2. /\ clear \in AppState /\ SameLink(w.g, clear) /\ clear.cccd = "none"
      /\ clear.action = "none" /\ ~clear.waiting /\ ~clear.deadline
  BY <1>1, ClearFacts
<1>3. OnConnected(w, p, found, ok) = IF found /\ w.l[p].up THEN searched ELSE known
  BY <1>1 DEF OnConnected, Worlds
<1> HIDE DEF clear
<1>4. /\ g \in AppState /\ g.connected = TRUE /\ g.conn = p /\ g.stage = "idle"
      /\ g.index = 0 /\ Staged(g) /\ g.target = w.g.target /\ g.wanted = w.g.wanted
  <2>1. g \in AppState
    <3>1. "idle" \in Stages /\ 0 \in 0 .. Len(Commands)
      BY CommandsFinite DEF Stages
    <3>2. QED
      BY <1>2, <3>1 DEF AppState
  <2>2. g.conn = p /\ g.stage = "idle" /\ g.index = 0 /\ g.target = clear.target
    BY <1>2 DEF AppState
  <2>3. g.cccd = "none" /\ g.action = "none"
    BY <1>2 DEF AppState
  <2>4. g.connected = TRUE /\ g.wanted = clear.wanted
    BY <1>2 DEF AppState
  <2>5. ~g.waiting /\ ~g.deadline
    BY <1>2 DEF AppState
  <2>6. Staged(g)
    BY <2>2, <2>3, <2>5 DEF Staged
  <2>7. QED
    BY <1>2, <2>1, <2>2, <2>4, <2>6 DEF SameLink
<1> HIDE DEF g
<1>5. begun \in Worlds /\ begun.g = g /\ begun.l = w.l /\ begun.r = w.r
  BY <1>1, <1>4 DEF Worlds
<1>6. (w.l[p].up => LinkGrows(w.l[p], b)) /\ b.searching
  <2>1. w.l[p] \in LinkState
    BY <1>1
  <2>2. b \in LinkState /\ b.writes = w.l[p].writes
    BY <2>1 DEF LinkState
  <2>3. b.on = w.l[p].on /\ b.heard = w.l[p].heard /\ b.owed = w.l[p].owed
    BY <2>1 DEF LinkState
  <2>4. b.up = w.l[p].up /\ b.leaving = w.l[p].leaving /\ b.searching = TRUE
    BY <2>1 DEF LinkState
  <2> HIDE DEF b
  <2>5. QED
    BY <2>2, <2>3, <2>4 DEF LinkGrows
<1> HIDE DEF b
<1>7. w.l[p].up => LinksGrow(w.l, m) /\ m[p] = b
  BY <1>1, <1>6, GrowsAt
<1> HIDE DEF m
<1>8. w.l[p].up => searched \in Worlds /\ searched.g = g /\ searched.l = m /\ searched.r = w.r
  BY <1>1, <1>4, <1>7 DEF Worlds, LinksGrow
<1> HIDE DEF begun, searched
<1>9. Asks(begun, known, {"idle"})
  BY <1>4, <1>5, BeginRegistrationFacts DEF Led
<1> HIDE DEF known
<1>10. CASE found /\ w.l[p].up
  BY <1>3, <1>4, <1>6, <1>7, <1>8, <1>10
<1>11. CASE ~(found /\ w.l[p].up)
  BY <1>3, <1>4, <1>5, <1>9, <1>11 DEF Asks, SetsUp, SameLink
<1>12. QED
  BY <1>10, <1>11

(* A link that is lost is forgotten with all it waited for.                 *)
LEMMA OnDisconnectedFacts ==
  ASSUME NEW w \in Worlds, Staged(w.g), NEW p \in Pads, NEW ok \in BOOLEAN
  PROVE  LET v == OnDisconnected(w, p, ok)
         IN /\ v \in Worlds /\ Staged(v.g) /\ v.l = w.l
            /\ v.g.target = w.g.target /\ v.g.wanted = w.g.wanted
            /\ v.r.creating = w.r.creating /\ v.r.stopped = w.r.stopped
            /\ IF w.g.conn = p THEN ~v.g.connected ELSE SameSession(w.g, v.g)
<1> DEFINE clear == RecoveryClear(w.g)
           g == [clear EXCEPT !.connected = FALSE, !.connecting = FALSE, !.registered = FALSE,
                              !.index = 0, !.stage = "idle", !.conn = None]
           gone == [w EXCEPT !.g = g]
           after == IF w.g.conn = p THEN gone ELSE w
           v == IF w.g.wanted THEN StartScanNow(after, ok) ELSE after
<1>1. w.g \in AppState /\ w.l \in [Pads -> LinkState] /\ w.r \in Radios
  BY DEF Worlds
<1>2. /\ clear \in AppState /\ SameLink(w.g, clear) /\ clear.cccd = "none"
      /\ clear.action = "none" /\ ~clear.waiting /\ ~clear.deadline
  BY <1>1, ClearFacts
<1>3. OnDisconnected(w, p, ok) = v
  BY <1>1 DEF OnDisconnected
<1> HIDE DEF clear
<1>4. /\ g \in AppState /\ ~g.connected /\ Staged(g)
      /\ g.target = w.g.target /\ g.wanted = w.g.wanted
  <2>1. g \in AppState
    <3>1. "idle" \in Stages /\ 0 \in 0 .. Len(Commands)
      BY CommandsFinite DEF Stages
    <3>2. QED
      BY <1>2, <3>1 DEF AppState
  <2>2. g.stage = "idle" /\ g.target = clear.target /\ g.cccd = "none" /\ g.action = "none"
    BY <1>2 DEF AppState
  <2>3. ~g.connected /\ g.wanted = clear.wanted
    BY <1>2 DEF AppState
  <2>4. ~g.waiting /\ ~g.deadline
    BY <1>2 DEF AppState
  <2>5. Staged(g)
    BY <2>2, <2>4 DEF Staged
  <2>6. QED
    BY <1>2, <2>1, <2>2, <2>3, <2>5 DEF SameLink
<1> HIDE DEF g
<1>5. gone \in Worlds /\ gone.g = g /\ gone.l = w.l /\ gone.r = w.r
  BY <1>1, <1>4 DEF Worlds
<1> HIDE DEF gone
<1>6. /\ after \in Worlds /\ Staged(after.g) /\ after.l = w.l /\ after.r = w.r
      /\ after.g.target = w.g.target /\ after.g.wanted = w.g.wanted
      /\ IF w.g.conn = p THEN ~after.g.connected ELSE SameSession(w.g, after.g)
  BY <1>4, <1>5 DEF SameSession, SameWait
<1> HIDE DEF after
<1>7. CASE w.g.wanted
  <2> DEFINE u == StartScanNow(after, ok)
  <2>1. Scans(after, u) /\ u.r.creating = after.r.creating /\ u.r.stopped = after.r.stopped
    BY <1>6, StartScanNowFacts
  <2>2. v = u
    BY <1>7
  <2> HIDE DEF u, v
  <2>3. Staged(u.g)
    BY <1>6, <2>1, StagedSame DEF Scans, SameSession
  <2>4. IF w.g.conn = p THEN ~u.g.connected ELSE SameSession(w.g, u.g)
    BY <1>6, <2>1 DEF Scans, SameSession, SameWait
  <2>5. QED
    BY <1>3, <1>6, <2>1, <2>2, <2>3, <2>4 DEF Scans, SameSession
<1>8. CASE ~w.g.wanted
  BY <1>3, <1>6, <1>8
<1>9. QED
  BY <1>7, <1>8

-----------------------------------------------------------------------------
(* The application's calls leave the session to itself: the link it leads   *)
(* to may be told to end.                                                   *)
Leaves(w, v) ==
  /\ v \in Worlds /\ SameWait(w.g, v.g) /\ LinksGrow(w.l, v.l)
  /\ v.g.connected = w.g.connected /\ v.g.conn = w.g.conn
  /\ v.r.creating = w.r.creating

(* What only touches the scan leaves the links alone.                       *)
LEMMA ScansLeaves ==
  ASSUME NEW w \in Worlds, NEW v, Scans(w, v), v.r.creating = w.r.creating
  PROVE  Leaves(w, v)
  BY GrowsItself DEF Leaves, Scans, SameSession, Worlds

(* So does one after the other.                                             *)
LEMMA LeavesTransitive ==
  ASSUME NEW u, NEW v, NEW w, Leaves(u, v), Leaves(v, w)
  PROVE  Leaves(u, w)
  BY GrowsTransitive DEF Leaves, SameWait

(* Saying whether a scan is wanted.                                         *)
LEMMA WantsFacts ==
  ASSUME NEW w \in Worlds, NEW wanted \in BOOLEAN
  PROVE  LET v == [w EXCEPT !.g.wanted = wanted]
         IN /\ Leaves(w, v) /\ v.l = w.l /\ v.r = w.r /\ v.g.wanted = wanted
            /\ wanted = w.g.wanted => v = w
<1> DEFINE g == [w.g EXCEPT !.wanted = wanted]
           v == [w EXCEPT !.g = g]
<1>1. w.g \in AppState /\ w.l \in [Pads -> LinkState] /\ w.r \in Radios
  BY DEF Worlds
<1>2. g \in AppState /\ g.wanted = wanted
  BY <1>1 DEF AppState
<1>3. SameWait(w.g, g)
  BY <1>1 DEF AppState, SameWait
<1>4. g.conn = w.g.conn
  BY <1>1 DEF AppState
<1>5. g.connected = w.g.connected
  BY <1>1 DEF AppState
<1>6. wanted = w.g.wanted => g = w.g
  BY <1>1 DEF AppState
<1> HIDE DEF g
<1>7. v \in Worlds /\ v.g = g /\ v.l = w.l /\ v.r = w.r /\ (g = w.g => v = w)
  BY <1>1, <1>2 DEF Worlds
<1>8. [w EXCEPT !.g.wanted = wanted] = v
  BY DEF Worlds, g
<1> HIDE DEF v
<1>9. QED
  BY <1>1, <1>2, <1>3, <1>4, <1>5, <1>6, <1>7, <1>8, GrowsItself DEF Leaves

(* ble_gatt_stop_scan leaves the links alone.                               *)
LEMMA StopScanLeaves ==
  ASSUME NEW w \in Worlds
  PROVE  Leaves(w, StopScan(w))
<1> DEFINE g == [w.g EXCEPT !.wanted = FALSE, !.scanRetry = FALSE]
           off == [w EXCEPT !.g = g]
           h == [g EXCEPT !.connecting = FALSE]
           r == [w.r EXCEPT !.cancelled = TRUE]
           cancelled == [off EXCEPT !.g = h, !.r = r]
           last == IF g.connecting THEN cancelled ELSE off
<1>1. w.g \in AppState /\ w.l \in [Pads -> LinkState] /\ w.r \in Radios
  BY DEF Worlds
<1>2. g \in AppState
  BY <1>1 DEF AppState
<1>3. SameWait(w.g, g)
  BY <1>1 DEF AppState, SameWait
<1>4. g.conn = w.g.conn
  BY <1>1 DEF AppState
<1>5. g.connected = w.g.connected
  BY <1>1 DEF AppState
<1>6. [w EXCEPT !.g.wanted = FALSE, !.g.scanRetry = FALSE] = off
  BY DEF Worlds
<1> HIDE DEF g
<1>7. h \in AppState
  BY <1>2 DEF AppState
<1>8. SameWait(g, h)
  BY <1>2 DEF AppState, SameWait
<1>9. h.conn = g.conn
  BY <1>2 DEF AppState
<1>10. h.connected = g.connected
  BY <1>2 DEF AppState
<1>11. r \in Radios /\ r.creating = w.r.creating
  BY <1>1 DEF Radios
<1>12. off \in Worlds /\ off.g = g /\ off.l = w.l /\ off.r = w.r
  BY <1>1, <1>2 DEF Worlds
<1>13. [off EXCEPT !.g.connecting = FALSE, !.r.cancelled = TRUE] = cancelled
  BY <1>12 DEF Worlds
<1> HIDE DEF h, r
<1>15. cancelled \in Worlds /\ cancelled.g = h /\ cancelled.l = w.l /\ cancelled.r = r
  BY <1>1, <1>7, <1>11, <1>12 DEF Worlds
<1> HIDE DEF off, cancelled
<1>14. StopScan(w) = StopScanning(last)
  BY <1>6, <1>12, <1>13 DEF StopScan
<1>16. /\ last \in Worlds /\ last.l = w.l /\ last.r.creating = w.r.creating
       /\ SameWait(w.g, last.g)
       /\ last.g.connected = w.g.connected /\ last.g.conn = w.g.conn
  BY <1>3, <1>4, <1>5, <1>8, <1>9, <1>10, <1>11, <1>12, <1>15 DEF SameWait
<1> HIDE DEF last
<1>17. Leaves(w, last)
  BY <1>1, <1>16, GrowsItself DEF Leaves
<1>18. Leaves(last, StopScanning(last))
  BY <1>16, StopScanningFacts, ScansLeaves
<1>19. QED
  BY <1>14, <1>17, <1>18, LeavesTransitive

(* So does ble_gatt_start_scan.                                             *)
LEMMA StartScanLeaves ==
  ASSUME NEW w \in Worlds, NEW ok \in BOOLEAN
  PROVE  Leaves(w, StartScan(w, ok))
<1> DEFINE on == [w EXCEPT !.g.wanted = TRUE]
<1>1. Leaves(w, on) /\ on \in Worlds
  BY WantsFacts DEF Leaves
<1> HIDE DEF on
<1>2. Leaves(on, StartScanNow(on, ok))
  BY <1>1, StartScanNowFacts, ScansLeaves
<1>3. StartScan(w, ok) = IF on.g.powered THEN StartScanNow(on, ok) ELSE on
  BY DEF StartScan, on
<1>4. QED
  BY <1>1, <1>2, <1>3, LeavesTransitive

(* ble_gatt_disconnect asks for the end of a link, or leaves all alone.     *)
LEMMA DisconnectFacts ==
  ASSUME NEW w \in Worlds, Led(w.g), NEW resume \in BOOLEAN, NEW ok \in BOOLEAN
  PROVE  LET v == Disconnect(w, resume, ok)
         IN /\ Leaves(w, v)
            /\ w.g.connected /\ resume = w.g.wanted => v.g = w.g /\ v.r = w.r
            /\ w.g.connected /\ ok /\ w.l[w.g.conn].up => v.l[w.g.conn].leaving
<1> DEFINE told == [w EXCEPT !.g.wanted = resume]
           p == w.g.conn
           b == [w.l[p] EXCEPT !.leaving = TRUE]
           m == [w.l EXCEPT ![p] = b]
           ends == [told EXCEPT !.l = m]
<1>1. w.g \in AppState /\ w.l \in [Pads -> LinkState] /\ w.r \in Radios
  BY DEF Worlds
<1>2. /\ Leaves(w, told) /\ told \in Worlds /\ told.l = w.l /\ told.r = w.r
      /\ resume = w.g.wanted => told = w
  BY WantsFacts DEF Leaves
<1> HIDE DEF told
<1>3. Disconnect(w, resume, ok) =
        IF w.g.connected
        THEN IF ok /\ w.l[p].up THEN ends ELSE told
        ELSE IF resume THEN StartScan(told, ok) ELSE StopScan(told)
  <2>1. [told EXCEPT !.l[w.g.conn].leaving = TRUE] = ends
    BY <1>2 DEF Worlds
  <2> HIDE DEF ends
  <2>2. QED
    BY <2>1 DEF Disconnect, told
<1>4. CASE ~w.g.connected
  <2>1. Leaves(told, StartScan(told, ok)) /\ Leaves(told, StopScan(told))
    BY <1>2, StartScanLeaves, StopScanLeaves
  <2>2. QED
    BY <1>2, <1>3, <1>4, <2>1, LeavesTransitive
<1>5. CASE w.g.connected
  <2>1. p \in Pads
    BY <1>5 DEF Led
  <2>2. (w.l[p].up => LinkGrows(w.l[p], b)) /\ b.leaving
    <3>1. w.l[p] \in LinkState
      BY <1>1, <2>1
    <3>2. b \in LinkState /\ b.writes = w.l[p].writes
      BY <3>1 DEF LinkState
    <3>3. b.on = w.l[p].on /\ b.heard = w.l[p].heard /\ b.owed = w.l[p].owed
      BY <3>1 DEF LinkState
    <3>4. b.up = w.l[p].up /\ b.searching = w.l[p].searching /\ b.leaving = TRUE
      BY <3>1 DEF LinkState
    <3> HIDE DEF b
    <3>5. QED
      BY <3>2, <3>3, <3>4 DEF LinkGrows
  <2> HIDE DEF b
  <2>3. w.l[p].up => LinksGrow(w.l, m) /\ m[p] = b
    BY <1>1, <2>1, <2>2, GrowsAt
  <2> HIDE DEF m
  <2>4. w.l[p].up => ends \in Worlds /\ ends.g = told.g /\ ends.l = m /\ ends.r = told.r
    BY <1>2, <2>3 DEF Worlds, LinksGrow
  <2> HIDE DEF ends
  <2>5. w.l[p].up => Leaves(w, ends)
    BY <1>2, <2>3, <2>4 DEF Leaves
  <2>6. QED
    BY <1>2, <1>3, <1>5, <2>2, <2>3, <2>4, <2>5
<1>6. QED
  BY <1>4, <1>5

-----------------------------------------------------------------------------
(* A recovery goes on with the step that failed, or gives the link up.      *)
Recovers(w, v) ==
  /\ SetsUp(w, v) /\ Staged(v.g) /\ v.g.index = w.g.index
  /\ v.g.stage = w.g.stage \/ (w.g.stage = "initializing" /\ v.g.stage = "subscribeInput")
  /\ Timed(v.g) \/ v.l[w.g.conn].leaving \/ ~v.l[w.g.conn].up

(* A recovery that is given up has the disconnect due.                      *)
LEMMA DisconnectNowFacts ==
  ASSUME NEW g \in AppState, Staged(g)
  PROVE  LET h == RecoveryDisconnectNow(g)
         IN /\ h \in AppState /\ SameLink(g, h) /\ Staged(h) /\ h.deadline = TRUE
            /\ h.stage = g.stage /\ h.index = g.index
<1> DEFINE h == [g EXCEPT !.waiting = FALSE, !.cccd = "none", !.registering = FALSE,
                          !.action = "disconnect", !.deadline = TRUE]
<1>1. h \in AppState
  BY DEF AppState, RecoveryActions
<1>2. SameLink(g, h)
  BY DEF AppState, SameLink
<1>3. h.stage = g.stage /\ h.index = g.index /\ h.cccd = "none" /\ h.action = "disconnect"
  BY DEF AppState
<1>4. h.waiting = FALSE /\ h.deadline = TRUE
  BY DEF AppState
<1> HIDE DEF h
<1>5. Staged(h)
  BY <1>3, <1>4 DEF Staged
<1>6. QED
  BY <1>1, <1>2, <1>3, <1>4, <1>5 DEF RecoveryDisconnectNow, h

(* Asking the link for something is a recovery.                             *)
LEMMA AsksRecovers ==
  ASSUME NEW w, NEW u, NEW v, SetsUp(w, u), u.g.stage = w.g.stage, u.g.index = w.g.index,
         Asks(u, v, {w.g.stage})
           \/ (w.g.stage = "initializing" /\ Asks(u, v, {"initializing", "subscribeInput"}))
  PROVE  Recovers(w, v)
  BY SetsUpTransitive DEF Asks, Recovers

(* A recovery asks again, gives up, or leaves.                              *)
LEMMA RecoverFacts ==
  ASSUME NEW w \in Worlds, w.g.connected, Led(w.g), Staged(w.g), w.g.deadline, NEW ok \in BOOLEAN
  PROVE  Recovers(w, Recover(w, ok))
<1> DEFINE g == [w.g EXCEPT !.deadline = FALSE]
           due == [w EXCEPT !.g = g]
           left == Disconnect(due, g.wanted, ok)
           up == Unregister(g)
           given == RecoveryDisconnectNow(up)
           now == RecoveryDisconnectNow(g)
           cleared == RecoveryClear(left.g)
           later == [left.g EXCEPT !.deadline = TRUE]
<1>0. Recover(w, ok) =
        CASE g.action = "register" /\ g.registering -> [w EXCEPT !.g = given]
          [] g.action = "register" /\ ~g.registering -> AttemptRegistration(due, ok)
          [] g.action \in Subscriptions /\ g.cccd # "none" -> [w EXCEPT !.g = now]
          [] g.action = "ackCccd" /\ g.cccd = "none" -> FinishRegistration(due, ok)
          [] g.action = "inputCccd" /\ g.cccd = "none" -> StartInputSubscription(due, ok)
          [] g.action = "init" -> SendInitCommand(due, ok)
          [] g.action = "disconnect" ->
               IF ok THEN [left EXCEPT !.g = RecoveryClear(@)]
               ELSE [left EXCEPT !.g.deadline = TRUE]
          [] OTHER -> due
  BY DEF Recover
<1>1. w.g \in AppState /\ w.l \in [Pads -> LinkState] /\ w.r \in Radios
  BY DEF Worlds
<1>2. g \in AppState
  BY <1>1 DEF AppState
<1>3. SameLink(w.g, g)
  BY <1>1 DEF AppState, SameLink
<1>4. g.stage = w.g.stage /\ g.index = w.g.index /\ g.cccd = w.g.cccd /\ g.action = w.g.action
  BY <1>1 DEF AppState
<1>5. g.waiting = w.g.waiting
  BY <1>1 DEF AppState
<1>6. g.deadline = FALSE
  BY <1>1 DEF AppState
<1> HIDE DEF g
<1>7. Staged(g)
  BY <1>4, <1>5, <1>6 DEF Staged
<1>8. due \in Worlds /\ SetsUp(w, due) /\ due.g = g /\ due.l = w.l /\ due.r = w.r
  BY <1>1, <1>2, <1>3, SetsUpApp DEF Worlds
<1>9. due.g.connected /\ Led(due.g) /\ Staged(due.g)
  BY <1>3, <1>7, <1>8 DEF SameLink, Led
<1> HIDE DEF due
<1>10. \A h \in AppState :
         SameLink(g, h) /\ Staged(h) /\ h.deadline = TRUE /\ h.stage = g.stage /\ h.index = g.index
           => Recovers(w, [w EXCEPT !.g = h])
  <2> SUFFICES ASSUME NEW h \in AppState, SameLink(g, h), Staged(h), h.deadline = TRUE,
                      h.stage = g.stage, h.index = g.index
               PROVE  Recovers(w, [w EXCEPT !.g = h])
    OBVIOUS
  <2>1. SameLink(w.g, h)
    BY <1>3 DEF SameLink
  <2>2. SetsUp(w, [w EXCEPT !.g = h]) /\ [w EXCEPT !.g = h].g = h
    BY <2>1, SetsUpApp DEF Worlds
  <2>3. QED
    BY <1>4, <2>2 DEF Recovers, Timed
<1>11. ASSUME w.g.action = "register", g.registering
       PROVE  Recovers(w, Recover(w, ok))
  <2>1. up \in AppState /\ SameLink(g, up) /\ SameWait(g, up)
    BY <1>2, UnregisterFacts
  <2> HIDE DEF up
  <2>2. Staged(up) /\ up.stage = g.stage /\ up.index = g.index
    BY <1>7, <2>1, StagedSame DEF SameWait
  <2>3. /\ given \in AppState /\ SameLink(up, given) /\ Staged(given) /\ given.deadline = TRUE
        /\ given.stage = up.stage /\ given.index = up.index
    BY <2>1, <2>2, DisconnectNowFacts
  <2>4. Recover(w, ok) = [w EXCEPT !.g = given]
    BY <1>0, <1>4, <1>11 DEF Subscriptions
  <2> HIDE DEF given
  <2>5. SameLink(g, given)
    BY <2>1, <2>3 DEF SameLink
  <2>6. QED
    BY <1>10, <2>2, <2>3, <2>4, <2>5
<1>12. ASSUME w.g.action \in Subscriptions, w.g.cccd # "none"
       PROVE  Recovers(w, Recover(w, ok))
  <2>1. /\ now \in AppState /\ SameLink(g, now) /\ Staged(now) /\ now.deadline = TRUE
        /\ now.stage = g.stage /\ now.index = g.index
    BY <1>2, <1>7, DisconnectNowFacts
  <2>2. Recover(w, ok) = [w EXCEPT !.g = now]
    BY <1>0, <1>4, <1>12 DEF Subscriptions
  <2> HIDE DEF now
  <2>3. QED
    BY <1>10, <2>1, <2>2
<1>13. ASSUME w.g.action = "register", ~g.registering
       PROVE  Recovers(w, Recover(w, ok))
  <2>1. Asks(due, AttemptRegistration(due, ok), {g.stage})
    BY <1>8, <1>9, AttemptRegistrationFacts
  <2>2. Recover(w, ok) = AttemptRegistration(due, ok)
    BY <1>0, <1>4, <1>13 DEF Subscriptions
  <2>3. QED
    BY <1>4, <1>8, <2>1, <2>2, AsksRecovers
<1>14. ASSUME w.g.action = "ackCccd", w.g.cccd = "none"
       PROVE  Recovers(w, Recover(w, ok))
  <2>1. g.stage = "subscribeAck" /\ ~g.waiting
    BY <1>4, <1>7, <1>14 DEF Staged
  <2>2. Asks(due, FinishRegistration(due, ok), {"subscribeAck"})
    BY <1>4, <1>8, <1>9, <1>14, <2>1, FinishRegistrationFacts
  <2>3. Recover(w, ok) = FinishRegistration(due, ok)
    BY <1>0, <1>4, <1>14 DEF Subscriptions
  <2>4. QED
    BY <1>4, <1>8, <2>1, <2>2, <2>3, AsksRecovers
<1>15. ASSUME w.g.action = "inputCccd", w.g.cccd = "none"
       PROVE  Recovers(w, Recover(w, ok))
  <2>1. g.stage = "subscribeInput" /\ ~g.waiting /\ g.index = Len(Commands)
    BY <1>4, <1>7, <1>15 DEF Staged
  <2>2. Asks(due, StartInputSubscription(due, ok), {"subscribeInput"})
    BY <1>4, <1>8, <1>9, <1>15, <2>1, StartInputSubscriptionFacts
  <2>3. Recover(w, ok) = StartInputSubscription(due, ok)
    BY <1>0, <1>4, <1>15 DEF Subscriptions
  <2>4. QED
    BY <1>4, <1>8, <2>1, <2>2, <2>3, AsksRecovers
<1>16. ASSUME w.g.action = "init"
       PROVE  Recovers(w, Recover(w, ok))
  <2>1. g.stage = "initializing"
    BY <1>4, <1>7, <1>16 DEF Staged
  <2>2. g.cccd = "none"
    <3>1. g.cccd \in Subscriptions \cup {"none"}
      BY <1>2 DEF AppState
    <3>2. QED
      BY <1>7, <2>1, <3>1 DEF Staged, Subscriptions
  <2>3. Asks(due, SendInitCommand(due, ok), {"initializing", "subscribeInput"})
    BY <1>8, <1>9, <2>1, <2>2, SendInitCommandFacts
  <2>4. Recover(w, ok) = SendInitCommand(due, ok)
    BY <1>0, <1>4, <1>16 DEF Subscriptions
  <2>5. QED
    BY <1>4, <1>8, <2>1, <2>3, <2>4, AsksRecovers
<1>17. ASSUME w.g.action = "disconnect"
       PROVE  Recovers(w, Recover(w, ok))
  <2>1. g.wanted \in BOOLEAN
    BY <1>2 DEF AppState
  <2>2. /\ Leaves(due, left) /\ left.g = g /\ left.r = w.r
        /\ ok /\ w.l[g.conn].up => left.l[g.conn].leaving
    BY <1>8, <1>9, <2>1, DisconnectFacts
  <2> DEFINE ended == [left EXCEPT !.g = cleared]
             waits == [left EXCEPT !.g = later]
  <2>3. left \in Worlds /\ LinksGrow(w.l, left.l) /\ g.conn = w.g.conn
    BY <1>3, <1>8, <2>2 DEF Leaves, SameLink
  <2>4. Recover(w, ok) = IF ok THEN ended ELSE waits
    <3>1. [left EXCEPT !.g = RecoveryClear(@)] = ended
      BY <2>3 DEF Worlds
    <3>2. [left EXCEPT !.g.deadline = TRUE] = waits
      BY <2>3 DEF Worlds
    <3> HIDE DEF ended, waits
    <3>3. QED
      BY <1>0, <1>4, <1>17, <3>1, <3>2 DEF Subscriptions
  <2> HIDE DEF left
  <2>5. /\ cleared \in AppState /\ SameLink(g, cleared) /\ Staged(cleared)
        /\ cleared.stage = g.stage /\ cleared.index = g.index
    BY <1>2, <1>7, <2>2, ClearFacts, StagedClear
  <2>6. later \in AppState
    BY <1>2, <2>2 DEF AppState
  <2>7. SameLink(g, later)
    BY <1>2, <2>2 DEF AppState, SameLink
  <2>8. /\ later.stage = g.stage /\ later.index = g.index /\ later.cccd = g.cccd
        /\ later.action = g.action
    BY <1>2, <2>2 DEF AppState
  <2>9. later.waiting = g.waiting
    BY <1>2, <2>2 DEF AppState
  <2>10. later.deadline = TRUE
    BY <1>2, <2>2 DEF AppState
  <2> HIDE DEF cleared, later
  <2>11. Staged(later) /\ Timed(later)
    BY <1>4, <1>7, <1>17, <2>8, <2>9, <2>10 DEF Staged, Timed
  <2>12. ended \in Worlds /\ ended.g = cleared /\ ended.l = left.l /\ ended.r = left.r
    BY <2>3, <2>5 DEF Worlds
  <2>13. waits \in Worlds /\ waits.g = later /\ waits.l = left.l /\ waits.r = left.r
    BY <2>3, <2>6 DEF Worlds
  <2> HIDE DEF ended, waits
  <2>14. SameLink(w.g, cleared) /\ SameLink(w.g, later)
    BY <1>3, <2>5, <2>7 DEF SameLink
  <2>15. SetsUp(w, ended) /\ SetsUp(w, waits)
    BY <2>2, <2>3, <2>12, <2>13, <2>14 DEF SetsUp
  <2>16. CASE ok
    <3>1. w.l[w.g.conn].up = ended.l[w.g.conn].up
      BY <2>3, <2>12 DEF LinksGrow, LinkGrows, Led
    <3>2. QED
      BY <1>4, <2>2, <2>3, <2>4, <2>5, <2>12, <2>15, <2>16, <3>1 DEF Recovers
  <2>17. CASE ~ok
    BY <1>4, <2>4, <2>8, <2>11, <2>13, <2>15, <2>17 DEF Recovers
  <2>18. QED
    BY <2>16, <2>17
<1>18. w.g.action \in {"register", "ackCccd", "init", "inputCccd", "disconnect"}
  <2>1. w.g.action \in RecoveryActions
    BY <1>1 DEF AppState
  <2>2. QED
    BY <2>1 DEF Staged, RecoveryActions
<1>19. QED
  BY <1>11, <1>12, <1>13, <1>14, <1>15, <1>16, <1>17, <1>18 DEF Subscriptions

(* The session goes on, be it a stage further.                              *)
Continues(w, v) ==
  /\ v \in Worlds /\ Staged(v.g) /\ LinksGrow(w.l, v.l)
  /\ v.g.connected = w.g.connected /\ v.g.conn = w.g.conn
  /\ v.g.target = w.g.target /\ v.g.wanted = w.g.wanted
  /\ v.g.index = w.g.index
  /\ v.g.stage = w.g.stage \/ (w.g.stage = "initializing" /\ v.g.stage = "subscribeInput")
  /\ v.r.creating = w.r.creating /\ v.r.stopped = w.r.stopped

(* The timers keep the session, and something to wait for where there was.  *)
LEMMA PollTimersFacts ==
  ASSUME NEW w \in Worlds, Led(w.g), Staged(w.g),
         NEW ackDue \in BOOLEAN, NEW due \in BOOLEAN, NEW ok \in BOOLEAN
  PROVE  LET v == PollTimers(w, ackDue, due, ok)
         IN /\ Continues(w, v) /\ (ScanIsWanted(w) => ScanIsWanted(v))
            /\ w.g.connected /\ Timed(w.g)
                 => Timed(v.g) \/ v.l[w.g.conn].leaving \/ ~v.l[w.g.conn].up
<1> DEFINE failed == RecoveryFail(w.g, "init")
           fails == [w EXCEPT !.g = failed]
           timedOut == IF w.g.waiting /\ ackDue THEN fails ELSE w
           v == PollTimers(w, ackDue, due, ok)
<1>1. w.g \in AppState /\ w.l \in [Pads -> LinkState] /\ w.r \in Radios
  BY DEF Worlds
<1>2. Continues(w, w)
  BY <1>1, GrowsItself DEF Continues
<1>3. CASE ~w.g.connected
  <2>1. v = w \/ (w.g.wanted /\ v = StartScanNow(w, ok))
    BY <1>3 DEF PollTimers
  <2>2. CASE v = w
    BY <1>2, <1>3, <2>2
  <2>3. CASE w.g.wanted /\ v = StartScanNow(w, ok)
    <3>1. /\ Scans(w, v) /\ v.r.creating = w.r.creating /\ v.r.stopped = w.r.stopped
          /\ ScanIsWanted(w) => ScanIsWanted(v)
      BY <2>3, StartScanNowFacts
    <3> HIDE DEF v
    <3>2. Staged(v.g)
      BY <3>1, StagedSame DEF Scans, SameSession
    <3>3. Continues(w, v)
      BY <1>1, <3>1, <3>2, GrowsItself DEF Continues, Scans, SameSession, SameWait
    <3>4. QED
      BY <1>3, <3>1, <3>3 DEF v
  <2>4. QED
    BY <2>1, <2>2, <2>3
<1>4. CASE w.g.connected
  <2>1. /\ timedOut \in Worlds /\ SetsUp(w, timedOut) /\ Staged(timedOut.g)
        /\ timedOut.g.stage = w.g.stage /\ timedOut.g.index = w.g.index
        /\ Timed(w.g) => Timed(timedOut.g)
    <3>1. CASE w.g.waiting /\ ackDue
      <4>1. "init" \in RecoveryActions /\ w.g.stage = "initializing"
        BY <3>1 DEF RecoveryActions, Staged
      <4>2. /\ failed \in AppState /\ SameLink(w.g, failed) /\ failed.stage = w.g.stage
            /\ failed.index = w.g.index /\ failed.cccd = w.g.cccd
            /\ failed.action \in {"init", "disconnect"}
            /\ failed.waiting = FALSE /\ failed.deadline = TRUE
        BY <1>1, <4>1, FailFacts
      <4> HIDE DEF failed
      <4>3. fails \in Worlds /\ SetsUp(w, fails) /\ fails.g = failed
        BY <4>2, SetsUpApp DEF Worlds
      <4>4. Staged(failed) /\ Timed(failed)
        BY <4>1, <4>2 DEF Staged, Timed
      <4>5. timedOut = fails
        BY <3>1
      <4> HIDE DEF timedOut, fails
      <4>6. QED
        BY <4>2, <4>3, <4>4, <4>5
    <3>2. CASE ~(w.g.waiting /\ ackDue)
      <4>1. timedOut = w
        BY <3>2
      <4> HIDE DEF timedOut
      <4>2. QED
        BY <1>1, <4>1, GrowsItself DEF SetsUp, SameLink
    <3>3. QED
      BY <3>1, <3>2
  <2>2. v = IF timedOut.g.deadline /\ (due \/ timedOut.g.action = "disconnect")
            THEN Recover(timedOut, ok) ELSE timedOut
    BY <1>4 DEF PollTimers
  <2> HIDE DEF timedOut, v
  <2>3. timedOut.g.connected /\ Led(timedOut.g) /\ timedOut.g.conn = w.g.conn
    BY <1>4, <2>1 DEF SetsUp, SameLink, Led
  <2>4. ASSUME NEW u, SetsUp(w, u), Staged(u.g), u.g.index = w.g.index,
               u.g.stage = w.g.stage
                 \/ (w.g.stage = "initializing" /\ u.g.stage = "subscribeInput")
        PROVE  Continues(w, u) /\ (ScanIsWanted(w) => ScanIsWanted(u))
    BY <2>4 DEF SetsUp, SameLink, Continues, ScanIsWanted
  <2>5. CASE timedOut.g.deadline /\ (due \/ timedOut.g.action = "disconnect")
    <3>1. Recovers(timedOut, v)
      BY <2>1, <2>2, <2>3, <2>5, RecoverFacts
    <3>2. SetsUp(w, v)
      BY <2>1, <3>1, SetsUpTransitive DEF Recovers
    <3>3. Continues(w, v) /\ (ScanIsWanted(w) => ScanIsWanted(v))
      BY <2>1, <2>4, <3>1, <3>2 DEF Recovers
    <3>4. QED
      BY <2>3, <3>1, <3>3 DEF Recovers, v
  <2>6. CASE ~(timedOut.g.deadline /\ (due \/ timedOut.g.action = "disconnect"))
    <3>1. v = timedOut
      BY <2>2, <2>6
    <3>2. QED
      BY <2>1, <2>4, <3>1 DEF v
  <2>7. QED
    BY <2>5, <2>6
<1>5. QED
  BY <1>3, <1>4

-----------------------------------------------------------------------------
(* What the main loop makes of one event.                                   *)
Events == [kind : EventKinds, pad : Pads \cup {None}, ok : BOOLEAN, of : Writes]
(* The events that tell of a link that is up.                               *)
OfLink == {"connected", "searched", "registered", "written", "acked"}

(* The news that a link is lost.                                            *)
Loss(e, p) == e.kind = "disconnected" /\ e.pad = p

(* What an event of a link says of the link it is of.                       *)
Holds(e, l) ==
  /\ l[e.pad].up
  /\ e.kind = "acked" => e.of.index \in l[e.pad].heard
  /\ e.kind = "written" /\ e.ok /\ e.of.kind # "command" => e.of.kind \in l[e.pad].on

(* The commands before the index and the subscriptions of the stage have    *)
(* reached the controller.                                                  *)
Earned(g, a, excused) ==
  /\ 0 .. g.index - 1 \subseteq a.heard
  /\ g.stage \in {"initializing", "subscribeInput", "ready"} => "ackCccd" \in a.on \/ excused
  /\ g.stage = "ready" => "inputCccd" \in a.on \/ excused

(* The session goes on: what is waited for is the same, or there is         *)
(* something to wait for or no need, and what is done has been earned.      *)
GoesOn(v, e) ==
  /\ v.g.connected = app.connected /\ v.g.conn = app.conn /\ ~Loss(e, app.conn)
  /\ SameWait(app, v.g) \/ Timed(v.g) \/ v.g.stage = "ready"
  /\ e.kind = "searched" /\ app.connected /\ e.pad = app.conn => Timed(v.g)
  /\ \A excused \in BOOLEAN :
       /\ Earned(app, link[app.conn], excused)
       /\ app.connected /\ e.pad = app.conn /\ e.kind \in OfLink => Holds(e, link)
       => Earned(v.g, link[app.conn], excused \/ Borrowed(e))

(* A session begins with nothing done, on the link the event tells of.      *)
Begins(v, e) ==
  /\ e.kind = "connected" /\ v.g.connected /\ v.g.conn = e.pad
  /\ v.g.stage = "idle" /\ v.g.index = 0
  /\ Timed(v.g) \/ v.l[e.pad].searching

(* What every handler does with an event: the session ends, begins or goes  *)
(* on.                                                                      *)
Takes(v, e) ==
  /\ v \in Worlds /\ Staged(v.g) /\ Led(v.g) /\ LinksGrow(link, v.l)
  /\ v.g.target = app.target /\ v.g.wanted = app.wanted
  /\ v.r.creating = radio.creating /\ v.r.stopped = radio.stopped
  /\ ~v.g.connected \/ Begins(v, e) \/ GoesOn(v, e)

(* What the events are handled in.                                          *)
Ready == Now \in Worlds /\ Staged(app) /\ Led(app)

(* The parts of the world are the variables.                                *)
LEMMA NowFacts ==
  Now.g = app /\ Now.l = link /\ Now.r = radio
  BY DEF Now

(* What the handlers start from.                                            *)
LEMMA ReadyFacts ==
  ASSUME Ready
  PROVE  app \in AppState /\ link \in [Pads -> LinkState] /\ radio \in Radios
  BY DEF Ready, Now, Worlds

(* What is not touched stays earned.                                        *)
LEMMA EarnedSame ==
  ASSUME NEW g, NEW h, NEW a, NEW x \in BOOLEAN, NEW y \in BOOLEAN,
         h.stage = g.stage, h.index = g.index, Earned(g, a, x)
  PROVE  Earned(h, a, x \/ y)
  BY DEF Earned

(* Whether an answer was borrowed is a truth value.                         *)
LEMMA BorrowedIsBoolean ==
  \A e : Borrowed(e) \in BOOLEAN
  BY DEF Borrowed

(* An event that changes nothing of the session is taken.                   *)
LEMMA QuietTakes ==
  ASSUME Ready, NEW v, Scans(Now, v), NEW e, ~Loss(e, app.conn),
         ~(e.kind = "searched" /\ app.connected /\ e.pad = app.conn),
         v.r.creating = radio.creating, v.r.stopped = radio.stopped
  PROVE  Takes(v, e)
<1>1. SameSession(app, v.g) /\ v.l = link /\ v \in Worlds
  BY NowFacts DEF Scans
<1>2. Staged(v.g) /\ Led(v.g)
  BY <1>1, StagedSame DEF Ready, SameSession, Led
<1>3. LinksGrow(link, v.l)
  BY <1>1, ReadyFacts, GrowsItself
<1>4. GoesOn(v, e)
  BY <1>1, EarnedSame, BorrowedIsBoolean DEF GoesOn, SameSession, SameWait
<1>5. QED
  BY <1>1, <1>2, <1>3, <1>4 DEF Takes, SameSession

(* So is one after which the link is asked for the next thing.              *)
LEMMA AsksTakes ==
  ASSUME Ready, NEW u, SetsUp(Now, u), NEW v, NEW stages, Asks(u, v, stages), NEW e,
         ~Loss(e, app.conn),
         \A excused \in BOOLEAN :
           /\ Earned(app, link[app.conn], excused)
           /\ app.connected /\ e.pad = app.conn /\ e.kind \in OfLink => Holds(e, link)
           => Earned(v.g, link[app.conn], excused \/ Borrowed(e))
  PROVE  Takes(v, e)
<1>1. SetsUp(Now, v) /\ Staged(v.g) /\ Timed(v.g)
  BY SetsUpTransitive DEF Asks
<1>2. v \in Worlds /\ SameLink(app, v.g) /\ LinksGrow(link, v.l) /\ v.r = radio
  BY <1>1, NowFacts DEF SetsUp
<1>3. Led(v.g)
  BY <1>2 DEF Ready, SameLink, Led
<1>4. GoesOn(v, e)
  BY <1>1, <1>2 DEF GoesOn, SameLink
<1>5. QED
  BY <1>1, <1>2, <1>3, <1>4 DEF Takes, SameLink

(* The handlers of ble_gatt_process_control_event, one by one.              *)
LEMMA PowerOnTakes ==
  ASSUME Ready, NEW e, e.kind = "powerOn", NEW ok \in BOOLEAN
  PROVE  LET on == [Now EXCEPT !.g.powered = TRUE]
         IN Takes(IF app.wanted THEN StartScanNow(on, ok) ELSE on, e)
<1> DEFINE g == [app EXCEPT !.powered = TRUE]
           on == [Now EXCEPT !.g = g]
           v == StartScanNow(on, ok)
<1>1. Now \in Worlds /\ app \in AppState
  BY ReadyFacts DEF Ready
<1>2. [Now EXCEPT !.g.powered = TRUE] = on
  BY NowFacts, <1>1 DEF Worlds
<1>3. g \in AppState
  BY <1>1 DEF AppState
<1>4. SameSession(app, g)
  BY <1>1 DEF AppState, SameSession, SameWait
<1> HIDE DEF g
<1>5. on \in Worlds /\ on.g = g /\ on.l = link /\ on.r = radio
  BY <1>1, <1>3, NowFacts DEF Worlds
<1> HIDE DEF on
<1>6. Scans(Now, on)
  BY <1>4, <1>5, NowFacts DEF Scans
<1>7. Scans(on, v) /\ v.r.creating = on.r.creating /\ v.r.stopped = on.r.stopped
  BY <1>5, StartScanNowFacts
<1> HIDE DEF v
<1>8. Scans(Now, v)
  BY <1>6, <1>7, ScansTransitive
<1>9. ~Loss(e, app.conn) /\ e.kind # "searched"
  BY DEF Loss
<1>10. Takes(v, e) /\ Takes(on, e)
  BY <1>5, <1>6, <1>7, <1>8, <1>9, QuietTakes
<1>11. QED
  BY <1>2, <1>10 DEF v

(* What the events of the scan and of a failed connection set.              *)
ScanNoted(scanning, scanRetry, connecting) ==
  [Now EXCEPT !.g = [@ EXCEPT !.scanning = scanning, !.scanRetry = scanRetry,
                              !.connecting = connecting]]

(* The ends of scans and failed connections.                                *)
LEMMA ScanEventsTake ==
  ASSUME Ready, NEW e, e.kind \in {"scanFailed", "scanStopped", "connectFailed"},
         NEW scanning \in BOOLEAN, NEW scanRetry \in BOOLEAN, NEW connecting \in BOOLEAN
  PROVE  Takes(ScanNoted(scanning, scanRetry, connecting), e)
<1> DEFINE g == [app EXCEPT !.scanning = scanning, !.scanRetry = scanRetry,
                            !.connecting = connecting]
           v == [Now EXCEPT !.g = g]
<1>1. Now \in Worlds /\ app \in AppState
  BY ReadyFacts DEF Ready
<1>2. ScanNoted(scanning, scanRetry, connecting) = v
  BY NowFacts, <1>1 DEF Worlds, ScanNoted
<1>3. g \in AppState
  BY <1>1 DEF AppState
<1>4. SameSession(app, g)
  BY <1>1 DEF AppState, SameSession, SameWait
<1> HIDE DEF g
<1>5. v \in Worlds /\ v.g = g /\ v.l = link /\ v.r = radio
  BY <1>1, <1>3, NowFacts DEF Worlds
<1> HIDE DEF v
<1>6. Scans(Now, v)
  BY <1>4, <1>5, NowFacts DEF Scans
<1>7. ~Loss(e, app.conn) /\ e.kind # "searched"
  BY DEF Loss
<1>8. Takes(v, e)
  BY <1>5, <1>6, <1>7, QuietTakes
<1>9. QED
  BY <1>2, <1>8

(* A link that is made begins a session.                                    *)
LEMMA ConnectedTakes ==
  ASSUME Ready, NEW e, e.kind = "connected", e.pad \in Pads,
         NEW found \in BOOLEAN, NEW ok \in BOOLEAN
  PROVE  Takes(OnConnected(Now, e.pad, found, ok), e)
<1> DEFINE v == OnConnected(Now, e.pad, found, ok)
           p == e.pad
<1>1. p \in Pads /\ Now \in Worlds
  BY DEF Ready
<1>2. /\ v \in Worlds /\ v.g.connected /\ v.g.conn = p /\ v.r = Now.r
      /\ v.g.target = Now.g.target /\ v.g.wanted = Now.g.wanted
      /\ v.g.stage = "idle" /\ v.g.index = 0 /\ Staged(v.g)
      /\ LinksGrow(Now.l, v.l)
      /\ Timed(v.g) \/ v.l[p].searching
  BY <1>1, OnConnectedFacts
<1> HIDE DEF v
<1>3. Begins(v, e) /\ Led(v.g)
  BY <1>1, <1>2 DEF Begins, Led
<1>4. QED
  BY <1>2, <1>3, NowFacts DEF Takes, v

(* A link that is lost ends its session, another one's goes on.             *)
LEMMA DisconnectedTakes ==
  ASSUME Ready, NEW e, e.kind = "disconnected", e.pad \in Pads, NEW ok \in BOOLEAN
  PROVE  Takes(OnDisconnected(Now, e.pad, ok), e)
<1> DEFINE v == OnDisconnected(Now, e.pad, ok)
           p == e.pad
<1>1. p \in Pads /\ Now \in Worlds /\ Staged(Now.g) /\ app.conn = Now.g.conn
  BY NowFacts DEF Ready
<1>2. /\ v \in Worlds /\ Staged(v.g) /\ v.l = Now.l
      /\ v.g.target = Now.g.target /\ v.g.wanted = Now.g.wanted
      /\ v.r.creating = Now.r.creating /\ v.r.stopped = Now.r.stopped
      /\ IF Now.g.conn = p THEN ~v.g.connected ELSE SameSession(Now.g, v.g)
  BY <1>1, OnDisconnectedFacts
<1> HIDE DEF v
<1>3. CASE app.conn = p
  <2>1. LinksGrow(link, v.l) /\ ~v.g.connected /\ Led(v.g)
    BY <1>1, <1>2, <1>3, NowFacts, ReadyFacts, GrowsItself DEF Led
  <2>2. QED
    BY <1>2, <2>1, NowFacts DEF Takes, v
<1>4. CASE app.conn # p
  <2>1. Scans(Now, v) /\ v.r.creating = radio.creating /\ v.r.stopped = radio.stopped
    BY <1>1, <1>2, <1>4, NowFacts DEF Scans
  <2>2. ~Loss(e, app.conn) /\ e.kind # "searched"
    BY <1>4 DEF Loss
  <2>3. QED
    BY <2>1, <2>2, QuietTakes DEF v
<1>5. QED
  BY <1>3, <1>4

(* The end of the search is followed by the registration.                   *)
LEMMA SearchedTakes ==
  ASSUME Ready, NEW e, e.kind = "searched", NEW ok \in BOOLEAN
  PROVE  Takes(IF ForThisLink(Now, e) THEN BeginRegistration(Now, ok) ELSE Now, e)
<1>1. Now \in Worlds /\ Staged(Now.g) /\ Led(Now.g) /\ ~Loss(e, app.conn)
  BY NowFacts DEF Ready, Loss
<1>2. CASE ForThisLink(Now, e)
  <2> DEFINE v == BeginRegistration(Now, ok)
  <2>1. Now.g.connected
    BY <1>2 DEF ForThisLink
  <2>2. Asks(Now, v, {Now.g.stage}) /\ SetsUp(Now, Now)
    BY <1>1, <2>1, BeginRegistrationFacts, GrowsItself DEF SetsUp, SameLink, Worlds
  <2> HIDE DEF v
  <2>3. v.g.stage = app.stage /\ v.g.index = app.index
    BY <2>2, NowFacts DEF Asks
  <2>4. Takes(v, e)
    BY <1>1, <2>2, <2>3, AsksTakes, EarnedSame, BorrowedIsBoolean
  <2>5. QED
    BY <1>2, <2>4 DEF v
<1>3. CASE ~ForThisLink(Now, e)
  <2>1. ~(e.kind = "searched" /\ app.connected /\ e.pad = app.conn)
    BY <1>3, NowFacts DEF ForThisLink
  <2>2. QED
    BY <1>1, <1>3, <2>1, NowFacts, ScansItself, QuietTakes
<1>4. QED
  BY <1>2, <1>3

(* Clearing what was waited for asks for nothing.                           *)
LEMMA ClearSetsUp ==
  ASSUME Ready
  PROVE  LET u == [Now EXCEPT !.g = RecoveryClear(@)]
         IN /\ SetsUp(Now, u) /\ u \in Worlds /\ u.g = RecoveryClear(app) /\ u.l = link /\ u.r = radio
            /\ Led(u.g) /\ Staged(u.g)
<1> DEFINE h == RecoveryClear(app)
           u == [Now EXCEPT !.g = h]
<1>1. Now \in Worlds /\ app \in AppState
  BY ReadyFacts DEF Ready
<1>2. h \in AppState /\ SameLink(app, h) /\ Staged(h)
  BY <1>1, ClearFacts, StagedClear DEF Ready
<1>3. [Now EXCEPT !.g = RecoveryClear(@)] = u
  BY NowFacts
<1> HIDE DEF h
<1>4. SetsUp(Now, u) /\ u \in Worlds
  BY <1>1, <1>2, NowFacts, SetsUpApp
<1>5. u.g = h /\ u.l = link /\ u.r = radio
  BY <1>1, NowFacts DEF Worlds
<1> HIDE DEF u
<1>6. Led(h)
  BY <1>2 DEF Ready, SameLink, Led
<1>7. QED
  BY <1>2, <1>3, <1>4, <1>5, <1>6 DEF h

(* A registration is followed by the first subscription, or fails.          *)
LEMMA RegisteredTakes ==
  ASSUME Ready, NEW e \in Events, e.kind = "registered", NEW ok \in BOOLEAN
  PROVE  Takes(CASE ~ForThisLink(Now, e) \/ ~app.registering -> Now
                 [] ForThisLink(Now, e) /\ app.registering /\ e.ok ->
                      FinishRegistration([Now EXCEPT !.g = RecoveryClear(@)], ok)
                 [] OTHER -> [Now EXCEPT !.g = RecoveryFail(Unregister(@), "register")], e)
<1>1. Now \in Worlds /\ Staged(Now.g) /\ Led(Now.g) /\ ~Loss(e, app.conn) /\ app \in AppState
  BY NowFacts, ReadyFacts DEF Ready, Loss
<1>2. Takes(Now, e)
  BY <1>1, NowFacts, ScansItself, QuietTakes
<1>3. Takes(FinishRegistration([Now EXCEPT !.g = RecoveryClear(@)], ok), e)
  <2> DEFINE u == [Now EXCEPT !.g = RecoveryClear(@)]
             v == FinishRegistration(u, ok)
  <2>1. SetsUp(Now, u) /\ u \in Worlds /\ u.g = RecoveryClear(app) /\ Led(u.g)
    BY ClearSetsUp
  <2> HIDE DEF u
  <2>2. u.g.cccd = "none" /\ u.g.waiting = FALSE /\ u.g.index = app.index
    BY <1>1, <2>1, ClearFacts
  <2>3. Asks(u, v, {"subscribeAck"})
    BY <2>1, <2>2, FinishRegistrationFacts
  <2> HIDE DEF v
  <2>4. v.g.stage = "subscribeAck" /\ v.g.index = app.index
    BY <2>2, <2>3 DEF Asks
  <2>5. Takes(v, e)
    BY <1>1, <2>1, <2>3, <2>4, AsksTakes DEF Earned
  <2>6. QED
    BY <2>5 DEF u, v
<1>4. Takes([Now EXCEPT !.g = RecoveryFail(Unregister(@), "register")], e)
  <2> DEFINE h == Unregister(app)
             g == RecoveryFail(h, "register")
             v == [Now EXCEPT !.g = g]
  <2>1. h \in AppState /\ SameLink(app, h) /\ SameWait(app, h)
    BY <1>1, UnregisterFacts
  <2>2. [Now EXCEPT !.g = RecoveryFail(Unregister(@), "register")] = v
    BY NowFacts
  <2> HIDE DEF h
  <2>3. Staged(h) /\ "register" \in RecoveryActions
    BY <2>1, StagedSame DEF Ready, RecoveryActions
  <2>4. /\ g \in AppState /\ SameLink(h, g) /\ g.stage = h.stage /\ g.index = h.index
        /\ g.cccd = h.cccd /\ g.action \in {"register", "disconnect"}
        /\ g.waiting = FALSE /\ g.deadline = TRUE
    BY <2>1, <2>3, FailFacts
  <2> HIDE DEF g
  <2>5. SameLink(app, g) /\ Staged(g) /\ Timed(g)
    BY <2>1, <2>3, <2>4 DEF SameLink, Staged, Timed
  <2>6. SetsUp(Now, v) /\ v.g = g
    BY <1>1, <2>4, <2>5, NowFacts, SetsUpApp DEF Worlds
  <2> HIDE DEF v
  <2>7. v.g.stage = app.stage /\ v.g.index = app.index
    BY <2>1, <2>4, <2>6 DEF SameWait
  <2>8. Asks(Now, v, {app.stage}) /\ SetsUp(Now, Now)
    BY <1>1, <2>5, <2>6, <2>7, NowFacts, GrowsItself DEF Asks, SetsUp, SameLink, Worlds
  <2>9. Takes(v, e)
    BY <1>1, <2>7, <2>8, AsksTakes, EarnedSame, BorrowedIsBoolean
  <2>10. QED
    BY <2>2, <2>9
<1>5. QED
  BY <1>2, <1>3, <1>4

(* An acknowledgement that matches is of the command at the index.          *)
LEMMA AckedTakes ==
  ASSUME Ready, NEW e \in Events, e.kind = "acked", NEW ok \in BOOLEAN
  PROVE  LET taken == /\ ForThisLink(Now, e) /\ app.stage = "initializing" /\ app.waiting
                      /\ InitAckMatches(Now, e.of.index)
         IN Takes(IF taken
                  THEN SendInitCommand([Now EXCEPT !.g = [RecoveryClear(app) EXCEPT !.index = @ + 1]], ok)
                  ELSE Now, e)
<1>1. /\ Now \in Worlds /\ Staged(Now.g) /\ Led(Now.g) /\ ~Loss(e, app.conn) /\ app \in AppState
      /\ link \in [Pads -> LinkState]
  BY NowFacts, ReadyFacts DEF Ready, Loss
<1>2. Takes(Now, e)
  BY <1>1, NowFacts, ScansItself, QuietTakes
<1>3. ASSUME ForThisLink(Now, e), app.stage = "initializing", InitAckMatches(Now, e.of.index)
      PROVE  Takes(SendInitCommand([Now EXCEPT !.g = [RecoveryClear(app) EXCEPT !.index = @ + 1]], ok), e)
  <2> DEFINE h == RecoveryClear(app)
             i == app.index + 1
             g == [h EXCEPT !.index = i]
             u == [Now EXCEPT !.g = g]
             v == SendInitCommand(u, ok)
  <2>1. /\ h \in AppState /\ SameLink(app, h) /\ h.stage = "initializing"
        /\ h.index = app.index /\ h.cccd = "none"
    BY <1>1, <1>3, ClearFacts
  <2>2. [Now EXCEPT !.g = [RecoveryClear(app) EXCEPT !.index = @ + 1]] = u
    BY <2>1
  <2>3. app.index \in 0 .. Len(Commands) /\ app.index < Len(Commands) /\ i \in 0 .. Len(Commands)
    BY <1>1, <1>3, CommandsFinite, NowFacts DEF AppState, InitAckMatches
  <2> HIDE DEF h, i
  <2>4. g \in AppState
    BY <2>1, <2>3 DEF AppState
  <2>5. SameLink(app, g)
    BY <2>1 DEF AppState, SameLink
  <2>6. g.stage = "initializing" /\ g.index = i /\ g.cccd = "none"
    BY <2>1, <2>3 DEF AppState
  <2> HIDE DEF g
  <2>7. SetsUp(Now, u) /\ u \in Worlds /\ u.g = g
    BY <1>1, <2>4, <2>5, NowFacts, SetsUpApp DEF Worlds
  <2>8. Led(u.g)
    BY <2>5, <2>7 DEF Ready, SameLink, Led
  <2> HIDE DEF u
  <2>9. Asks(u, v, {"initializing", "subscribeInput"})
    BY <2>6, <2>7, <2>8, SendInitCommandFacts
  <2> HIDE DEF v
  <2>10. v.g.stage \in {"initializing", "subscribeInput"} /\ v.g.index = app.index + 1
    BY <2>6, <2>7, <2>9 DEF Asks, i
  <2>11. ASSUME NEW excused \in BOOLEAN, Earned(app, link[app.conn], excused), Holds(e, link)
         PROVE  Earned(v.g, link[app.conn], excused \/ Borrowed(e))
    <3>1. app.conn \in Pads /\ e.pad = app.conn
      BY <1>3, NowFacts DEF ForThisLink, Ready, Led
    <3>2. e.of.index \in link[app.conn].heard /\ link[app.conn].heard \subseteq Index
      BY <1>1, <2>11, <3>1 DEF Holds, LinkState
    <3>3. e.of.index = app.index
      <4> DEFINE n == e.of.index
      <4>1. n \in 0 .. Len(Commands) - 1 /\ n + 1 \in 1 .. Len(Commands)
        BY <3>2, CommandsFinite DEF Index
      <4>2. app.index + 1 \in 1 .. Len(Commands)
        BY <2>3, CommandsFinite
      <4>3. DOMAIN Commands = 1 .. Len(Commands)
        BY NsLinkAssumption
      <4>4. /\ Commands[n + 1].op = Commands[app.index + 1].op
            /\ Commands[n + 1].sub = Commands[app.index + 1].sub
            /\ Commands[n + 1].op = FlashRead
                 => Commands[n + 1].address = Commands[app.index + 1].address
        BY <1>3, NowFacts DEF InitAckMatches
      <4>5. n + 1 = app.index + 1
        BY <4>1, <4>2, <4>3, <4>4, AcknowledgementsDiffer
      <4>6. QED
        BY <2>3, <4>1, <4>5
    <3>4. 0 .. v.g.index - 1 \subseteq link[app.conn].heard
      <4>1. 0 .. v.g.index - 1 = (0 .. app.index - 1) \cup {app.index}
        BY <2>3, <2>10, CommandsFinite
      <4>2. QED
        BY <2>11, <3>2, <3>3, <4>1 DEF Earned
    <3>5. QED
      BY <1>3, <2>10, <2>11, <3>4, BorrowedIsBoolean DEF Earned
  <2>12. e.pad = app.conn /\ app.connected /\ e.kind \in OfLink
    BY <1>3, NowFacts DEF ForThisLink, OfLink
  <2>13. Takes(v, e)
    BY <1>1, <2>7, <2>9, <2>11, <2>12, AsksTakes
  <2>14. QED
    BY <2>2, <2>13 DEF v
<1>4. QED
  BY <1>2, <1>3

(* The answer to a subscription says which one it answers, unless borrowed. *)
LEMMA WrittenSubscription ==
  ASSUME Ready, NEW e \in Events, e.kind = "written", e.ok, ForThisLink(Now, e),
         app.cccd # "none", Holds(e, link)
  PROVE  app.cccd \in link[app.conn].on \/ Borrowed(e)
<1>1. app.cccd \in Subscriptions /\ e.pad = app.conn
  BY ReadyFacts, NowFacts DEF AppState, ForThisLink
<1>2. CASE e.of.kind = app.cccd
  BY <1>1, <1>2 DEF Holds, Subscriptions
<1>3. CASE e.of.kind # app.cccd
  BY <1>3 DEF Borrowed
<1>4. QED
  BY <1>2, <1>3

(* A subscription that is done is followed by the commands, or by nothing.  *)
LEMMA AfterWriteTakes ==
  ASSUME Ready, NEW e \in Events, e.kind = "written", e.ok, ForThisLink(Now, e),
         app.cccd # "none", NEW ok \in BOOLEAN
  PROVE  Takes(AfterWrite([Now EXCEPT !.g = RecoveryClear(@)], app.cccd, ok), e)
<1> DEFINE u == [Now EXCEPT !.g = RecoveryClear(@)]
           v == AfterWrite(u, app.cccd, ok)
<1>1. /\ SetsUp(Now, u) /\ u \in Worlds /\ u.g = RecoveryClear(app) /\ u.l = link /\ u.r = radio
      /\ Led(u.g)
  BY ClearSetsUp
<1> HIDE DEF u
<1>2. app \in AppState /\ app.cccd \in Subscriptions /\ ~Loss(e, app.conn)
  BY ReadyFacts DEF AppState, Loss
<1>3. /\ u.g \in AppState /\ SameLink(app, u.g) /\ u.g.cccd = "none" /\ u.g.index = app.index
      /\ u.g.action = "none" /\ ~u.g.waiting /\ ~u.g.deadline
  BY <1>1, <1>2, ClearFacts
<1>4. app.connected /\ e.pad = app.conn /\ e.kind \in OfLink
  BY NowFacts DEF ForThisLink, OfLink
<1>5. CASE app.cccd = "ackCccd"
  <2> DEFINE g == [u.g EXCEPT !.stage = "initializing", !.index = 0]
             begun == [u EXCEPT !.g = g]
             sent == SendInitCommand(begun, ok)
  <2>1. v = sent
    <3>1. [u EXCEPT !.g.stage = "initializing", !.g.index = 0] = begun
      BY <1>1 DEF Worlds
    <3> HIDE DEF begun
    <3>2. QED
      BY <1>5, <3>1 DEF AfterWrite
  <2>2. g \in AppState
    <3>1. "initializing" \in Stages /\ 0 \in 0 .. Len(Commands)
      BY CommandsFinite DEF Stages
    <3>2. QED
      BY <1>3, <3>1 DEF AppState
  <2>3. SameLink(u.g, g)
    BY <1>3 DEF AppState, SameLink
  <2>4. g.stage = "initializing" /\ g.index = 0 /\ g.cccd = "none"
    BY <1>3 DEF AppState
  <2> HIDE DEF g
  <2>5. begun \in Worlds /\ SetsUp(u, begun) /\ begun.g = g
    BY <1>1, <2>2, <2>3, SetsUpApp DEF Worlds
  <2>6. SetsUp(Now, begun) /\ Led(begun.g)
    BY <1>1, <2>3, <2>5, SetsUpTransitive DEF SameLink, Led
  <2> HIDE DEF begun
  <2>7. Asks(begun, sent, {"initializing", "subscribeInput"})
    BY <2>4, <2>5, <2>6, SendInitCommandFacts
  <2> HIDE DEF sent
  <2>8. sent.g.stage \in {"initializing", "subscribeInput"} /\ sent.g.index = 0
    BY <2>4, <2>5, <2>7 DEF Asks
  <2>9. ASSUME NEW excused \in BOOLEAN, Holds(e, link)
        PROVE  Earned(sent.g, link[app.conn], excused \/ Borrowed(e))
    <3>1. "ackCccd" \in link[app.conn].on \/ Borrowed(e)
      BY <1>5, <2>9, WrittenSubscription
    <3>2. 0 .. sent.g.index - 1 = {}
      BY <2>8
    <3>3. sent.g.stage # "ready"
      BY <2>8
    <3>4. QED
      BY <3>1, <3>2, <3>3, BorrowedIsBoolean DEF Earned
  <2>10. QED
    BY <1>2, <1>4, <2>1, <2>6, <2>7, <2>9, AsksTakes DEF u, v
<1>6. CASE app.cccd = "inputCccd"
  <2> DEFINE g == [u.g EXCEPT !.stage = "ready"]
             done == [u EXCEPT !.g = g]
  <2>1. v = done
    <3>1. [u EXCEPT !.g.stage = "ready"] = done
      BY <1>1 DEF Worlds
    <3> HIDE DEF done
    <3>2. QED
      BY <1>6, <3>1 DEF AfterWrite
  <2> HIDE DEF v
  <2>2. g \in AppState
    BY <1>3 DEF AppState, Stages
  <2>3. SameLink(u.g, g)
    BY <1>3 DEF AppState, SameLink
  <2>4. g.stage = "ready" /\ g.index = app.index /\ g.cccd = "none" /\ g.action = "none"
    BY <1>3 DEF AppState
  <2>5. ~g.waiting /\ ~g.deadline
    BY <1>3 DEF AppState
  <2> HIDE DEF g
  <2>6. SetsUp(u, done) /\ done.g = g
    BY <1>1, <2>2, <2>3, SetsUpApp DEF Worlds
  <2> HIDE DEF done
  <2>7. SetsUp(Now, done)
    BY <1>1, <2>6, SetsUpTransitive
  <2>8. done \in Worlds /\ SameLink(app, g) /\ LinksGrow(link, done.l) /\ done.r = radio
    BY <2>6, <2>7, NowFacts DEF SetsUp
  <2>9. app.stage = "subscribeInput" /\ app.index = Len(Commands)
    BY <1>6 DEF Ready, Staged
  <2>10. Staged(g)
    BY <2>4, <2>5, <2>9 DEF Staged
  <2>11. ASSUME NEW excused \in BOOLEAN, Earned(app, link[app.conn], excused), Holds(e, link)
         PROVE  Earned(g, link[app.conn], excused \/ Borrowed(e))
    <3>1. "inputCccd" \in link[app.conn].on \/ Borrowed(e)
      BY <1>6, <2>11, WrittenSubscription
    <3>2. QED
      BY <2>4, <2>9, <2>11, <3>1, BorrowedIsBoolean DEF Earned
  <2>12. GoesOn(done, e)
    BY <1>2, <1>4, <2>4, <2>6, <2>8, <2>11 DEF GoesOn, SameLink
  <2>13. Led(g)
    BY <2>8 DEF Ready, SameLink, Led
  <2>14. QED
    BY <2>1, <2>6, <2>8, <2>10, <2>12, <2>13 DEF Takes, SameLink, u, v
<1>7. QED
  BY <1>2, <1>5, <1>6 DEF Subscriptions

(* A subscription that failed is due again.                                 *)
LEMMA WriteFailedTakes ==
  ASSUME Ready, NEW e, e.kind = "written", app.cccd # "none"
  PROVE  Takes([Now EXCEPT !.g = RecoveryFail([@ EXCEPT !.cccd = "none", !.deadline = FALSE],
                                              app.cccd)], e)
<1> DEFINE h == [app EXCEPT !.cccd = "none", !.deadline = FALSE]
           g == RecoveryFail(h, app.cccd)
           v == [Now EXCEPT !.g = g]
<1>1. Now \in Worlds /\ app \in AppState /\ ~Loss(e, app.conn) /\ e.kind # "searched"
  BY ReadyFacts DEF Ready, Loss
<1>2. app.cccd \in Subscriptions /\ app.cccd \in RecoveryActions
  BY <1>1 DEF AppState, Subscriptions, RecoveryActions
<1>3. h \in AppState
  BY <1>1 DEF AppState
<1>4. SameLink(app, h)
  BY <1>1 DEF AppState, SameLink
<1>5. h.stage = app.stage /\ h.index = app.index /\ h.cccd = "none"
  BY <1>1 DEF AppState
<1>6. [Now EXCEPT !.g = RecoveryFail([@ EXCEPT !.cccd = "none", !.deadline = FALSE], app.cccd)] = v
  BY NowFacts
<1> HIDE DEF h
<1>7. /\ g \in AppState /\ SameLink(h, g) /\ g.stage = app.stage /\ g.index = app.index
      /\ g.cccd = "none" /\ g.action \in {app.cccd, "disconnect"}
      /\ g.waiting = FALSE /\ g.deadline = TRUE
  BY <1>2, <1>3, <1>5, FailFacts
<1> HIDE DEF g
<1>8. SameLink(app, g) /\ Timed(g)
  BY <1>4, <1>7 DEF SameLink, Timed
<1>9. Staged(g)
  BY <1>2, <1>7 DEF Ready, Staged, Subscriptions
<1>10. SetsUp(Now, v) /\ v.g = g
  BY <1>1, <1>7, <1>8, NowFacts, SetsUpApp DEF Worlds
<1> HIDE DEF v
<1>11. Asks(Now, v, {app.stage}) /\ SetsUp(Now, Now)
  BY <1>1, <1>7, <1>8, <1>9, <1>10, NowFacts, GrowsItself DEF Asks, SetsUp, SameLink, Worlds
<1>12. Takes(v, e)
  BY <1>1, <1>7, <1>10, <1>11, AsksTakes, EarnedSame, BorrowedIsBoolean
<1>13. QED
  BY <1>6, <1>12

(* The answer to a write.                                                   *)
LEMMA WrittenTakes ==
  ASSUME Ready, NEW e \in Events, e.kind = "written", NEW ok \in BOOLEAN
  PROVE  LET taken == ForThisLink(Now, e) /\ app.cccd # "none"
         IN Takes(CASE ~taken -> Now
                    [] taken /\ e.ok -> AfterWrite([Now EXCEPT !.g = RecoveryClear(@)], app.cccd, ok)
                    [] OTHER -> [Now EXCEPT !.g = RecoveryFail([@ EXCEPT !.cccd = "none", !.deadline = FALSE],
                                                               app.cccd)], e)
<1>1. Now \in Worlds /\ ~Loss(e, app.conn) /\ e.kind # "searched"
  BY DEF Ready, Loss
<1>2. Takes(Now, e)
  BY <1>1, NowFacts, ScansItself, QuietTakes
<1>3. QED
  BY <1>2, AfterWriteTakes, WriteFailedTakes

-----------------------------------------------------------------------------
(* The ring: an event that no loss of its link follows is of the link that  *)
(* is up now.                                                               *)
LossIn(q, p) == \E i \in DOMAIN q : Loss(q[i], p)
(* No loss of its link follows the event in the ring.                       *)
Fresh(q, i) == \A j \in DOMAIN q : j > i => ~Loss(q[j], q[i].pad)

(* An event of a link is of some controller's.                              *)
OfPads(e) == e.kind \in OfLink \cup {"disconnected"} => e.pad \in Pads
Queued(q) == q \in Seq(Events) /\ \A i \in DOMAIN q : OfPads(q[i])
(* What the fresh events of the ring say is so.                             *)
QueueHolds(q, l) == \A i \in DOMAIN q : q[i].kind \in OfLink /\ Fresh(q, i) => Holds(q[i], l)

(* What an event says of a link stays true.                                 *)
Later(a, b) == (a.up => b.up) /\ a.on \subseteq b.on /\ a.heard \subseteq b.heard

(* The model and the proof say the same of a loss that waits.               *)
LEMMA LossQueuedIsIn ==
  \A p : LossQueued(p) <=> LossIn(queue, p)
  BY DEF LossQueued, LossIn, Loss

(* What the ring says when its first event is taken.                        *)
LEMMA TailFacts ==
  ASSUME NEW q, Queued(q), q # <<>>
  PROVE  LET e == Head(q)  t == Tail(q)
         IN /\ e \in Events /\ OfPads(e) /\ Queued(t)
            /\ \A p : LossIn(q, p) <=> Loss(e, p) \/ LossIn(t, p)
            /\ \A l : QueueHolds(q, l)
                 => /\ QueueHolds(t, l)
                    /\ e.kind \in OfLink /\ ~LossIn(t, e.pad) => Holds(e, l)
            /\ \A i \in DOMAIN q : i = 1 \/ (i - 1 \in DOMAIN t /\ t[i - 1] = q[i])
<1> DEFINE e == Head(q)
           t == Tail(q)
<1>1. /\ q \in Seq(Events) /\ Len(q) \in Nat /\ Len(q) > 0
      /\ DOMAIN q = 1 .. Len(q)
  BY EmptySeq DEF Queued
<1>2. /\ e = q[1] /\ t \in Seq(Events) /\ Len(t) = Len(q) - 1 /\ DOMAIN t = 1 .. Len(q) - 1
      /\ \A i \in 1 .. Len(t) : t[i] = q[i + 1]
  BY <1>1, HeadTailProperties
<1>3. 1 \in DOMAIN q /\ e \in Events /\ OfPads(e)
  BY <1>1, <1>2 DEF Queued
<1>4. \A i \in DOMAIN t : i + 1 \in DOMAIN q /\ t[i] = q[i + 1]
  BY <1>1, <1>2
<1>5. \A i \in DOMAIN q : i = 1 \/ (i - 1 \in DOMAIN t /\ t[i - 1] = q[i])
  <2> SUFFICES ASSUME NEW i \in DOMAIN q, i # 1
               PROVE  i - 1 \in DOMAIN t /\ t[i - 1] = q[i]
    OBVIOUS
  <2>1. i - 1 \in 1 .. Len(t) /\ (i - 1) + 1 = i
    BY <1>1, <1>2
  <2>2. QED
    BY <1>2, <2>1
<1>6. DOMAIN q \subseteq Int /\ DOMAIN t \subseteq Int
  BY <1>1, <1>2
<1> HIDE DEF e, t
<1>7. Queued(t)
  BY <1>2, <1>4 DEF Queued
<1>8. \A p : LossIn(q, p) <=> Loss(e, p) \/ LossIn(t, p)
  BY <1>2, <1>3, <1>4, <1>5 DEF LossIn
<1>9. \A i \in DOMAIN t : Fresh(t, i) => Fresh(q, i + 1)
  <2> SUFFICES ASSUME NEW i \in DOMAIN t, Fresh(t, i), NEW j \in DOMAIN q, j > i + 1
               PROVE  ~Loss(q[j], q[i + 1].pad)
    BY DEF Fresh
  <2>1. j # 1 /\ i \in Int /\ j \in Int /\ j - 1 > i
    <3>1. i \in Int /\ j \in Int /\ i >= 1
      BY <1>2, <1>6
    <3>2. QED
      BY <3>1
  <2>2. j - 1 \in DOMAIN t /\ t[j - 1] = q[j] /\ t[i] = q[i + 1]
    BY <1>4, <1>5, <2>1
  <2>3. QED
    BY <2>1, <2>2 DEF Fresh
<1>10. ~LossIn(t, e.pad) => Fresh(q, 1)
  <2> SUFFICES ASSUME ~LossIn(t, e.pad), NEW j \in DOMAIN q, j > 1
               PROVE  ~Loss(q[j], q[1].pad)
    BY DEF Fresh
  <2>1. j - 1 \in DOMAIN t /\ t[j - 1] = q[j]
    BY <1>5
  <2>2. QED
    BY <1>2, <2>1 DEF LossIn
<1>11. ASSUME NEW l, QueueHolds(q, l)
       PROVE  /\ QueueHolds(t, l)
              /\ e.kind \in OfLink /\ ~LossIn(t, e.pad) => Holds(e, l)
  BY <1>2, <1>3, <1>4, <1>9, <1>10, <1>11 DEF QueueHolds
<1>12. QED
  BY <1>3, <1>5, <1>7, <1>8, <1>11 DEF e, t

(* What an event says stays true while its link does.                       *)
LEMMA HoldsLater ==
  ASSUME NEW e, NEW l, NEW m, Holds(e, l), Later(l[e.pad], m[e.pad])
  PROVE  Holds(e, m)
  BY DEF Holds, Later

(* So does what the ring says.                                              *)
LEMMA QueueHoldsLater ==
  ASSUME NEW q, Queued(q), NEW l, NEW m, QueueHolds(q, l),
         \A p \in Pads : Later(l[p], m[p])
  PROVE  QueueHolds(q, m)
<1> SUFFICES ASSUME NEW i \in DOMAIN q, q[i].kind \in OfLink, Fresh(q, i)
             PROVE  Holds(q[i], m)
  BY DEF QueueHolds
<1>1. Holds(q[i], l) /\ q[i].pad \in Pads
  BY DEF QueueHolds, Queued, OfPads
<1>2. QED
  BY <1>1, HoldsLater

(* What the ring says when an event is put into it, full or not.            *)
LEMMA PushFacts ==
  ASSUME NEW q, Queued(q), NEW e \in Events, OfPads(e)
  PROVE  LET t == Push(q, e)
         IN /\ Queued(t)
            /\ \A p : LossIn(t, p) => LossIn(q, p) \/ Loss(e, p)
            /\ \A p : Loss(e, p) => LossIn(t, p)
            /\ \A p : LossIn(q, p) /\ (Len(q) < Room \/ e.kind # "disconnected") => LossIn(t, p)
            /\ Len(q) < Room => /\ \A i \in DOMAIN q : i \in DOMAIN t /\ t[i] = q[i]
                                /\ Len(q) + 1 \in DOMAIN t /\ t[Len(q) + 1] = e
            /\ \A l, m :
                 /\ QueueHolds(q, l)
                 /\ \A p \in Pads : Later(l[p], m[p]) \/ Loss(e, p) \/ ~l[p].up
                 /\ e.kind \in OfLink => Holds(e, m)
                 => QueueHolds(t, m)
<1> DEFINE t == Push(q, e)
<1>1. /\ q \in Seq(Events) /\ Len(q) \in Nat /\ DOMAIN q = 1 .. Len(q) /\ Room \in Nat
  BY NsLinkAssumption DEF Queued
<1>2. CASE Len(q) < Room
  <2>1. t = Append(q, e)
    <3>1. ~(Len(q) >= Room)
      BY <1>1, <1>2
    <3>2. QED
      BY <1>2, <3>1 DEF Push
  <2>2. /\ t \in Seq(Events) /\ Len(t) = Len(q) + 1 /\ t[Len(q) + 1] = e
        /\ \A i \in 1 .. Len(q) : t[i] = q[i]
    BY <1>1, <2>1, AppendProperties
  <2>3. DOMAIN t = 1 .. Len(q) + 1
    BY <2>2
  <2> HIDE DEF t
  <2>4. DOMAIN t = DOMAIN q \cup {Len(q) + 1} /\ \A i \in DOMAIN q : t[i] = q[i]
    BY <1>1, <2>2, <2>3
  <2>5. Queued(t)
    BY <2>2, <2>4 DEF Queued
  <2>6. \A p : LossIn(t, p) <=> LossIn(q, p) \/ Loss(e, p)
    BY <2>2, <2>4 DEF LossIn
  <2>7. ASSUME NEW l, NEW m, QueueHolds(q, l),
               \A p \in Pads : Later(l[p], m[p]) \/ Loss(e, p) \/ ~l[p].up,
               e.kind \in OfLink => Holds(e, m)
        PROVE  QueueHolds(t, m)
    <3> SUFFICES ASSUME NEW i \in DOMAIN t, t[i].kind \in OfLink, Fresh(t, i)
                 PROVE  Holds(t[i], m)
      BY DEF QueueHolds
    <3>1. CASE i = Len(q) + 1
      BY <2>2, <2>7, <3>1
    <3>2. CASE i \in DOMAIN q
      <4>1. i \in Int /\ Len(q) + 1 > i /\ t[i] = q[i]
        BY <1>1, <2>4, <3>2
      <4>2. Fresh(q, i) /\ ~Loss(e, q[i].pad)
        BY <2>2, <2>4, <4>1 DEF Fresh
      <4>3. Holds(q[i], l) /\ q[i].pad \in Pads
        BY <2>7, <3>2, <4>1, <4>2 DEF QueueHolds, Queued, OfPads
      <4>4. Later(l[q[i].pad], m[q[i].pad])
        BY <2>7, <4>2, <4>3 DEF Holds
      <4>5. QED
        BY <4>1, <4>3, <4>4, HoldsLater
    <3>3. QED
      BY <2>4, <3>1, <3>2
  <2>8. Len(q) + 1 \in DOMAIN t /\ t[Len(q) + 1] = e
    BY <2>2, <2>4
  <2>9. QED
    BY <2>4, <2>5, <2>6, <2>7, <2>8 DEF t
<1>3. CASE ~(Len(q) < Room) /\ e.kind = "disconnected"
  <2>1. t = <<e>>
    BY <1>1, <1>3 DEF Push
  <2>2. t \in Seq(Events) /\ DOMAIN t = {1} /\ t[1] = e
    BY <2>1
  <2> HIDE DEF t
  <2>3. Queued(t)
    BY <2>2 DEF Queued
  <2>4. \A p : LossIn(t, p) <=> Loss(e, p)
    BY <2>2 DEF LossIn
  <2>5. \A m : QueueHolds(t, m)
    BY <1>3, <2>2 DEF QueueHolds, OfLink
  <2>6. QED
    BY <1>3, <2>3, <2>4, <2>5 DEF t
<1>4. CASE ~(Len(q) < Room) /\ e.kind # "disconnected"
  <2>1. t = q
    BY <1>1, <1>4 DEF Push
  <2> HIDE DEF t
  <2>2. \A p : ~Loss(e, p)
    BY <1>4 DEF Loss
  <2>3. ASSUME NEW l, NEW m, QueueHolds(q, l),
               \A p \in Pads : Later(l[p], m[p]) \/ Loss(e, p) \/ ~l[p].up
        PROVE  QueueHolds(q, m)
    <3> SUFFICES ASSUME NEW i \in DOMAIN q, q[i].kind \in OfLink, Fresh(q, i)
                 PROVE  Holds(q[i], m)
      BY DEF QueueHolds
    <3>1. Holds(q[i], l) /\ q[i].pad \in Pads
      BY <2>3 DEF QueueHolds, Queued, OfPads
    <3>2. Later(l[q[i].pad], m[q[i].pad])
      BY <2>2, <2>3, <3>1 DEF Holds
    <3>3. QED
      BY <3>1, <3>2, HoldsLater
  <2>4. QED
    BY <1>4, <2>1, <2>2, <2>3 DEF t
<1>5. QED
  BY <1>2, <1>3, <1>4

-----------------------------------------------------------------------------
(* The invariant.                                                           *)
TypeFits == TypeOK /\ Queued(queue) /\ Staged(app) /\ Led(app)

(* A controller owes answers only to what it has heard; a link that is not  *)
(* up has nothing; and a connection is made only to a controller without.   *)
Sound(a) == (\A i \in DOMAIN a.owed : a.owed[i] \in a.heard) /\ Indexed(a.writes)
LinkFits(p) ==
  /\ Sound(link[p])
  /\ ~link[p].up => link[p] = Down
  /\ radio.creating = p => ~link[p].up
LinksFit == \A p \in Pads : LinkFits(p)

(* What the fresh events of the ring say of the links is so.                *)
RingFits == QueueHolds(queue, link)

(* A loss that emptied the ring of another one dropped it.                  *)
PurgesAreDrops == "purged" \in mishaps => "dropped" \in mishaps

(* The session at hand has earned its steps on the present link, unless the *)
(* ring holds the news that it is the one before.                           *)
StepsAreEarned ==
  app.connected /\ link[app.conn].up /\ ~LossIn(queue, app.conn) /\ "purged" \notin mishaps =>
    Earned(app, link[app.conn], "borrowed" \in mishaps)

(* A candidate was heard by a scan that was wanted, and fits the target.    *)
CandidateFits ==
  ~changed => /\ radio.stopped \/ candidate # None => app.wanted
              /\ candidate # None => app.target \in {None, candidate}
(* A scan that goes on is wanted, and so is its candidate.                  *)
ScanFits == "strayScan" \notin mishaps => ScanIsWanted(Now) /\ CandidateFits

(* The inductive invariant.                                                 *)
NsInv ==
  /\ TypeFits /\ LinksFit /\ RingFits /\ PurgesAreDrops /\ StepsAreEarned
  /\ LossIsSeen /\ SomethingIsDue /\ ScanFits

(* The step asks the stack for no connection.                               *)
NoneBegun == radio'.creating \in {radio.creating, None}

(* What every step finds.                                                   *)
LEMMA InvReady ==
  ASSUME NsInv
  PROVE  /\ Ready /\ app \in AppState /\ link \in [Pads -> LinkState] /\ radio \in Radios
         /\ Now \in Worlds /\ Queued(queue) /\ Staged(app) /\ Led(app) /\ TypeOK
         /\ mishaps \subseteq Mishaps /\ changed \in BOOLEAN /\ candidate \in Pads \cup {None}
<1>1. TypeOK /\ Queued(queue) /\ Staged(app) /\ Led(app)
  BY DEF NsInv, TypeFits
<1>2. app \in AppState /\ link \in [Pads -> LinkState] /\ radio \in Radios
  BY <1>1 DEF TypeOK, Radios
<1>3. Now \in Worlds
  BY <1>2 DEF Now, Worlds
<1>4. mishaps \subseteq Mishaps /\ changed \in BOOLEAN /\ candidate \in Pads \cup {None}
  BY <1>1 DEF TypeOK
<1>5. QED
  BY <1>1, <1>2, <1>3, <1>4 DEF Ready

(* The ring holds events.                                                   *)
LEMMA QueuedTyped ==
  ASSUME NEW q, Queued(q)
  PROVE  \A i \in DOMAIN q : q[i] \in Events
<1>1. q \in Seq(Events) /\ DOMAIN q = 1 .. Len(q)
  BY DEF Queued
<1>2. QED
  BY <1>1, ElementOfSeq

(* The bounds of the model are kept.                                        *)
LEMMA ChargeTyped ==
  ASSUME TypeOK, NEW n \in Nat, Charge(n)
  PROVE  incidents' \in 0 .. MaxIncidents
  BY NsLinkAssumption DEF TypeOK, Charge

(* A refusal is one incident.                                               *)
LEMMA RefusalTyped ==
  ASSUME TypeOK, NEW ok \in BOOLEAN, Refusal(ok)
  PROVE  incidents' \in 0 .. MaxIncidents
  BY ChargeTyped DEF Refusal

(* What is earned stays so as the link goes on.                             *)
LEMMA EarnedLater ==
  ASSUME NEW g, NEW a, NEW b, NEW x \in BOOLEAN, NEW y \in BOOLEAN,
         Earned(g, a, x), a.heard \subseteq b.heard, a.on \subseteq b.on, x => y
  PROVE  Earned(g, b, y)
  BY DEF Earned

(* A link that is asked for more goes on.                                   *)
LEMMA GrowsLater ==
  ASSUME NEW l, NEW m, LinksGrow(l, m)
  PROVE  \A p \in Pads : Later(l[p], m[p])
  BY DEF LinksGrow, LinkGrows, Later

(* It stays sound.                                                          *)
LEMMA GrowsFits ==
  ASSUME NsInv, LinksGrow(link, link'), NEW p \in Pads, radio'.creating = p => ~link[p].up
  PROVE  LinkFits(p)'
<1>1. LinkFits(p) /\ LinkGrows(link[p], link'[p])
  BY DEF NsInv, LinksFit, LinksGrow
<1>2. QED
  BY <1>1 DEF LinkFits, LinkGrows, Sound

(* A handler keeps the types.                                               *)
LEMMA HandleTyped ==
  ASSUME NsInv, NEW kind, NEW v, Handle(kind, v), Takes(v, Head(queue)),
         incidents' \in 0 .. MaxIncidents
  PROVE  TypeFits'
<1>1. app' = v.g /\ link' = v.l /\ radio' = v.r
  BY DEF Handle, Result
<1>2. v \in Worlds /\ Staged(v.g) /\ Led(v.g)
  BY DEF Takes
<1>3. app' \in AppState /\ link' \in [Pads -> LinkState] /\ radio' \in Radios
  BY <1>1, <1>2 DEF Worlds
<1>4. queue # <<>> /\ queue' = Tail(queue)
  BY DEF Handle
<1>5. Queued(queue')
  BY <1>4, InvReady, TailFacts
<1>6. /\ mishaps' \subseteq Mishaps /\ phase' = "events"
      /\ candidate' = candidate /\ changed' = changed /\ calls' = calls
  BY InvReady DEF Handle, Noted, Mishaps
<1>7. calls \in 0 .. MaxCalls /\ changed \in BOOLEAN /\ candidate \in Pads \cup {None}
  BY InvReady DEF TypeOK
<1>8. \A i \in DOMAIN queue' :
        queue'[i] \in [kind : EventKinds, pad : Pads \cup {None}, ok : BOOLEAN, of : Writes]
  BY <1>5, QueuedTyped DEF Events
<1>9. TypeOK'
  BY <1>3, <1>6, <1>7, <1>8 DEF TypeOK, Radios
<1>10. QED
  BY <1>1, <1>2, <1>5, <1>9 DEF TypeFits

(* A handler that takes its event keeps the invariant.                      *)
LEMMA HandleStep ==
  ASSUME NsInv, NEW kind, NEW v, Handle(kind, v), Takes(v, Head(queue)),
         incidents' \in 0 .. MaxIncidents
  PROVE  NsInv' /\ NoneBegun
<1> DEFINE e == Head(queue)
           t == Tail(queue)
<1>1. app' = v.g /\ link' = v.l /\ radio' = v.r
  BY DEF Handle, Result
<1>2. /\ LinksGrow(link, v.l)
      /\ v.g.target = app.target /\ v.g.wanted = app.wanted
      /\ v.r.creating = radio.creating /\ v.r.stopped = radio.stopped
      /\ ~v.g.connected \/ Begins(v, e) \/ GoesOn(v, e)
  BY DEF Takes
<1>3. queue # <<>> /\ queue' = t
  BY DEF Handle
<1>4. /\ e \in Events /\ OfPads(e) /\ Queued(t)
      /\ \A p : LossIn(queue, p) <=> Loss(e, p) \/ LossIn(t, p)
      /\ QueueHolds(queue, link)
           => /\ QueueHolds(t, link)
              /\ e.kind \in OfLink /\ ~LossIn(t, e.pad) => Holds(e, link)
      /\ \A i \in DOMAIN queue : i = 1 \/ (i - 1 \in DOMAIN t /\ t[i - 1] = queue[i])
  BY <1>3, InvReady, TailFacts
<1>5. mishaps \subseteq mishaps' /\ (Borrowed(e) => "borrowed" \in mishaps')
      /\ ("purged" \in mishaps' => "purged" \in mishaps)
      /\ ("dropped" \in mishaps' <=> "dropped" \in mishaps)
      /\ ("strayScan" \notin mishaps' => "strayScan" \notin mishaps /\ ~StrayScan(v))
  BY DEF Handle, Noted
<1>6. queue[1] = e
  BY <1>3, InvReady, HeadTailProperties DEF Queued
<1> HIDE DEF e, t
<1>7. Led(v.g)
  BY DEF Takes
<1>8. TypeFits'
  BY HandleTyped
<1>9. LinksFit'
  <2> SUFFICES ASSUME NEW p \in Pads
               PROVE  LinkFits(p)'
    BY DEF LinksFit
  <2>1. radio'.creating = p => ~link[p].up
    BY <1>1, <1>2 DEF NsInv, LinksFit, LinkFits
  <2>2. QED
    BY <1>1, <1>2, <2>1, GrowsFits
<1>10. RingFits'
  <2>1. QueueHolds(t, link) /\ Queued(t)
    BY <1>4 DEF NsInv, RingFits
  <2>2. \A p \in Pads : Later(link[p], v.l[p])
    BY <1>2, GrowsLater
  <2>3. QueueHolds(t, v.l)
    BY <2>1, <2>2, QueueHoldsLater
  <2>4. QED
    BY <1>1, <1>3, <2>3 DEF RingFits
<1>11. PurgesAreDrops'
  BY <1>5 DEF NsInv, PurgesAreDrops
<1>12. \A p \in Pads : /\ v.l[p].up = link[p].up /\ v.l[p].heard = link[p].heard
                       /\ v.l[p].on = link[p].on
                       /\ (link[p].searching => v.l[p].searching)
                       /\ (link[p].leaving => v.l[p].leaving)
  BY <1>2 DEF LinksGrow, LinkGrows
<1>13. e.kind \in OfLink /\ ~LossIn(t, e.pad) => Holds(e, link)
  BY <1>4 DEF NsInv, RingFits
<1>14. StepsAreEarned'
  <2> SUFFICES ASSUME v.g.connected, v.l[v.g.conn].up, ~LossIn(t, v.g.conn), "purged" \notin mishaps'
               PROVE  Earned(v.g, v.l[v.g.conn], "borrowed" \in mishaps')
    BY <1>1, <1>3 DEF StepsAreEarned
  <2>1. v.g.conn \in Pads
    BY <1>7 DEF Led
  <2>2. CASE Begins(v, e)
    <3>1. 0 .. v.g.index - 1 = {} /\ v.g.stage = "idle"
      BY <2>2 DEF Begins
    <3>2. QED
      BY <3>1 DEF Earned
  <2>3. CASE GoesOn(v, e)
    <3>1. app.connected /\ v.g.conn = app.conn /\ ~Loss(e, app.conn)
      BY <2>3 DEF GoesOn
    <3>2. link[app.conn].up /\ ~LossIn(queue, app.conn) /\ "purged" \notin mishaps
      BY <1>4, <1>5, <1>12, <2>1, <3>1
    <3> DEFINE excused == "borrowed" \in mishaps
    <3>3. Earned(app, link[app.conn], excused) /\ excused \in BOOLEAN
      BY <3>1, <3>2 DEF NsInv, StepsAreEarned
    <3>4. e.pad = app.conn /\ e.kind \in OfLink => Holds(e, link)
      BY <1>13, <3>1
    <3>5. (excused \/ Borrowed(e)) => "borrowed" \in mishaps'
      BY <1>5
    <3> HIDE DEF excused
    <3>6. Earned(v.g, link[app.conn], excused \/ Borrowed(e))
      BY <2>3, <3>3, <3>4 DEF GoesOn
    <3> DEFINE x == excused \/ Borrowed(e)
               y == "borrowed" \in mishaps'
    <3>7. x \in BOOLEAN /\ y \in BOOLEAN /\ (x => y)
      BY <3>3, <3>5, BorrowedIsBoolean
    <3>8. Earned(v.g, link[app.conn], x)
      BY <3>6
    <3> HIDE DEF x, y
    <3>9. Earned(v.g, v.l[v.g.conn], y)
      BY <1>12, <2>1, <3>1, <3>7, <3>8, EarnedLater
    <3>10. QED
      BY <3>9 DEF y
  <2>4. QED
    BY <1>2, <2>2, <2>3
<1>15. LossIsSeen'
  <2> SUFFICES ASSUME v.g.connected, ~v.l[v.g.conn].up, "purged" \notin mishaps'
               PROVE  LossIn(t, v.g.conn)
    BY <1>1, <1>3 DEF LossIsSeen, LossQueued, LossIn, Loss
  <2>1. v.g.conn \in Pads
    BY <1>7 DEF Led
  <2>2. CASE Begins(v, e)
    BY <1>12, <1>13, <2>1, <2>2 DEF Begins, Holds, OfLink
  <2>3. CASE GoesOn(v, e)
    <3>1. app.connected /\ v.g.conn = app.conn /\ ~Loss(e, app.conn)
      BY <2>3 DEF GoesOn
    <3>2. LossIn(queue, app.conn)
      BY <1>5, <1>12, <2>1, <3>1, LossQueuedIsIn DEF NsInv, LossIsSeen
    <3>3. QED
      BY <1>4, <3>1, <3>2
  <2>4. QED
    BY <1>2, <2>2, <2>3
<1>16. SomethingIsDue'
  <2> SUFFICES ASSUME v.g.connected, v.l[v.g.conn].up, v.g.stage # "ready", "dropped" \notin mishaps'
               PROVE  \/ Timed(v.g)
                      \/ v.l[v.g.conn].searching \/ v.l[v.g.conn].leaving
                      \/ \E i \in DOMAIN t : t[i].kind \in {"searched", "disconnected"}
                                               /\ t[i].pad = v.g.conn
    BY <1>1, <1>3 DEF SomethingIsDue, Timed
  <2>1. v.g.conn \in Pads
    BY <1>7 DEF Led
  <2>2. CASE Begins(v, e)
    BY <2>2 DEF Begins
  <2>3. CASE GoesOn(v, e)
    <3>1. /\ app.connected /\ v.g.conn = app.conn /\ ~Loss(e, app.conn)
          /\ SameWait(app, v.g) \/ Timed(v.g)
          /\ e.kind = "searched" /\ e.pad = app.conn => Timed(v.g)
      BY <2>3 DEF GoesOn
    <3>2. CASE Timed(v.g)
      BY <3>2
    <3>3. CASE SameWait(app, v.g) /\ ~Timed(v.g)
      <4>1. app.stage # "ready" /\ ~Timed(app)
        BY <3>3 DEF SameWait, Timed
      <4>2. \/ link[app.conn].searching \/ link[app.conn].leaving
            \/ \E i \in DOMAIN queue : queue[i].kind \in {"searched", "disconnected"}
                                         /\ queue[i].pad = app.conn
        BY <1>5, <1>12, <2>1, <3>1, <4>1 DEF NsInv, SomethingIsDue, Timed
      <4>3. CASE link[app.conn].searching \/ link[app.conn].leaving
        BY <1>12, <2>1, <3>1, <4>3
      <4>4. ASSUME NEW i \in DOMAIN queue, queue[i].kind \in {"searched", "disconnected"},
                   queue[i].pad = app.conn
            PROVE  i - 1 \in DOMAIN t /\ t[i - 1] = queue[i]
        BY <1>4, <1>6, <3>1, <3>3, <4>4 DEF Loss
      <4>5. QED
        BY <3>1, <4>2, <4>3, <4>4
    <3>4. QED
      BY <3>1, <3>2, <3>3
  <2>4. QED
    BY <1>2, <2>2, <2>3
<1>17. ScanFits'
  <2> SUFFICES ASSUME "strayScan" \notin mishaps'
               PROVE  ScanIsWanted(Now)' /\ CandidateFits'
    BY DEF ScanFits
  <2>1. ScanIsWanted(Now)'
    BY <1>1, <1>5 DEF StrayScan, ScanIsWanted, Now
  <2>2. CandidateFits
    BY <1>5 DEF NsInv, ScanFits
  <2>3. candidate' = candidate /\ changed' = changed
    BY DEF Handle
  <2>4. CandidateFits'
    BY <1>1, <1>2, <2>2, <2>3 DEF CandidateFits
  <2>5. QED
    BY <2>1, <2>4
<1>18. NoneBegun
  BY <1>1, <1>2 DEF NoneBegun
<1>19. QED
  BY <1>8, <1>9, <1>10, <1>11, <1>14, <1>15, <1>16, <1>17, <1>18 DEF NsInv

(* The event a handler takes.                                               *)
LEMMA HeadFacts ==
  ASSUME NsInv, NEW kind, NEW v, Handle(kind, v)
  PROVE  Head(queue) \in Events /\ OfPads(Head(queue)) /\ Head(queue).kind = kind
<1>1. queue # <<>> /\ Head(queue).kind = kind
  BY DEF Handle
<1>2. QED
  BY <1>1, InvReady, TailFacts

(* A step without an incident.                                              *)
LEMMA QuietlyTyped ==
  ASSUME NsInv, UNCHANGED incidents
  PROVE  incidents' \in 0 .. MaxIncidents
  BY InvReady DEF TypeOK

(* Every handler keeps the invariant.                                       *)
LEMMA ProcessControlEventStep ==
  ASSUME NsInv, ProcessControlEvent
  PROVE  NsInv' /\ NoneBegun
<1>0. Ready /\ TypeOK /\ app \in AppState
  BY InvReady
<1>1. CASE HandlePowerOn
  <2>1. PICK ok \in BOOLEAN :
          /\ Handle("powerOn", LET on == [Now EXCEPT !.g.powered = TRUE]
                               IN IF app.wanted THEN StartScanNow(on, ok) ELSE on)
          /\ Refusal(ok)
    BY <1>1 DEF HandlePowerOn
  <2> DEFINE v == LET on == [Now EXCEPT !.g.powered = TRUE]
                  IN IF app.wanted THEN StartScanNow(on, ok) ELSE on
             e == Head(queue)
  <2>2. e.kind = "powerOn"
    BY <2>1, HeadFacts
  <2> HIDE DEF e
  <2>3. Takes(v, e)
    BY <1>0, <2>2, PowerOnTakes
  <2>4. incidents' \in 0 .. MaxIncidents
    BY <1>0, <2>1, RefusalTyped
  <2> HIDE DEF v
  <2>5. QED
    BY <2>1, <2>3, <2>4, HandleStep DEF v, e
<1>2. CASE HandleScanFailed \/ HandleScanStopped \/ HandleConnectFailed
  <2> DEFINE e == Head(queue)
  <2>1. /\ app.scanning \in BOOLEAN /\ app.scanRetry \in BOOLEAN /\ app.connecting \in BOOLEAN
    BY <1>0 DEF AppState
  <2>2. PICK kind \in {"scanFailed", "scanStopped", "connectFailed"},
             scanning \in BOOLEAN, scanRetry \in BOOLEAN, connecting \in BOOLEAN :
          HandleQuietly(kind, ScanNoted(scanning, scanRetry, connecting))
    <3>1. /\ [Now EXCEPT !.g.scanning = FALSE, !.g.scanRetry = TRUE]
               = ScanNoted(FALSE, TRUE, app.connecting)
          /\ [Now EXCEPT !.g.scanning = FALSE] = ScanNoted(FALSE, app.scanRetry, app.connecting)
          /\ [Now EXCEPT !.g.connecting = FALSE, !.g.scanRetry = TRUE]
               = ScanNoted(app.scanning, TRUE, FALSE)
      BY <1>0 DEF Now, AppState, ScanNoted
    <3>2. QED
      BY <1>2, <2>1, <3>1 DEF HandleScanFailed, HandleScanStopped, HandleConnectFailed
  <2> DEFINE v == ScanNoted(scanning, scanRetry, connecting)
  <2>3. Handle(kind, v) /\ UNCHANGED incidents
    BY <2>2 DEF HandleQuietly
  <2>4. e.kind = kind
    BY <2>3, HeadFacts
  <2> HIDE DEF e
  <2>5. Takes(v, e)
    BY <1>0, <2>4, ScanEventsTake
  <2> HIDE DEF v
  <2>6. QED
    BY <2>3, <2>5, QuietlyTyped, HandleStep DEF e
<1>3. CASE HandleConnected
  <2>1. PICK found \in BOOLEAN, ok \in BOOLEAN :
          /\ Handle("connected", OnConnected(Now, Head(queue).pad, found, ok))
          /\ Refusal(found /\ ok)
    BY <1>3 DEF HandleConnected
  <2> DEFINE e == Head(queue)
             v == OnConnected(Now, e.pad, found, ok)
             answered == found /\ ok
  <2>2. e.kind = "connected" /\ OfPads(e)
    BY <2>1, HeadFacts
  <2> HIDE DEF e
  <2>3. Takes(v, e)
    BY <1>0, <2>2, ConnectedTakes DEF OfPads, OfLink
  <2>4. answered \in BOOLEAN
    OBVIOUS
  <2>5. Refusal(answered)
    BY <2>1
  <2> HIDE DEF answered
  <2>6. incidents' \in 0 .. MaxIncidents
    BY <1>0, <2>4, <2>5, RefusalTyped
  <2> HIDE DEF v
  <2>7. QED
    BY <2>1, <2>3, <2>6, HandleStep DEF v, e
<1>4. CASE HandleDisconnected
  <2>1. PICK ok \in BOOLEAN :
          /\ Handle("disconnected", OnDisconnected(Now, Head(queue).pad, ok))
          /\ Refusal(ok)
    BY <1>4 DEF HandleDisconnected
  <2> DEFINE e == Head(queue)
             v == OnDisconnected(Now, e.pad, ok)
  <2>2. e.kind = "disconnected" /\ OfPads(e)
    BY <2>1, HeadFacts
  <2> HIDE DEF e
  <2>3. Takes(v, e)
    BY <1>0, <2>2, DisconnectedTakes DEF OfPads, OfLink
  <2>4. incidents' \in 0 .. MaxIncidents
    BY <1>0, <2>1, RefusalTyped
  <2> HIDE DEF v
  <2>5. QED
    BY <2>1, <2>3, <2>4, HandleStep DEF v, e
<1>5. CASE HandleSearched
  <2>1. PICK ok \in BOOLEAN :
          /\ Handle("searched", IF ForThisLink(Now, Head(queue)) THEN BeginRegistration(Now, ok)
                                ELSE Now)
          /\ Refusal(ok)
    BY <1>5 DEF HandleSearched
  <2> DEFINE e == Head(queue)
             v == IF ForThisLink(Now, e) THEN BeginRegistration(Now, ok) ELSE Now
  <2>2. e.kind = "searched"
    BY <2>1, HeadFacts
  <2> HIDE DEF e
  <2>3. Takes(v, e)
    BY <1>0, <2>2, SearchedTakes
  <2>4. incidents' \in 0 .. MaxIncidents
    BY <1>0, <2>1, RefusalTyped
  <2> HIDE DEF v
  <2>5. QED
    BY <2>1, <2>3, <2>4, HandleStep DEF v, e
<1>6. CASE HandleRegistered
  <2> DEFINE After(e, ok) ==
               CASE ~ForThisLink(Now, e) \/ ~app.registering -> Now
                 [] ForThisLink(Now, e) /\ app.registering /\ e.ok ->
                      FinishRegistration([Now EXCEPT !.g = RecoveryClear(@)], ok)
                 [] OTHER -> [Now EXCEPT !.g = RecoveryFail(Unregister(@), "register")]
  <2>1. PICK ok \in BOOLEAN : Handle("registered", After(Head(queue), ok)) /\ Refusal(ok)
    BY <1>6 DEF HandleRegistered
  <2> DEFINE e == Head(queue)
  <2>2. e.kind = "registered" /\ e \in Events
    BY <2>1, HeadFacts
  <2> HIDE DEF e
  <2>3. Takes(After(e, ok), e)
    BY <1>0, <2>2, RegisteredTakes
  <2>4. incidents' \in 0 .. MaxIncidents
    BY <1>0, <2>1, RefusalTyped
  <2> HIDE DEF After
  <2>5. QED
    BY <2>1, <2>3, <2>4, HandleStep DEF e
<1>7. CASE HandleWritten
  <2> DEFINE After(e, ok) ==
               LET taken == ForThisLink(Now, e) /\ app.cccd # "none"
               IN CASE ~taken -> Now
                    [] taken /\ e.ok -> AfterWrite([Now EXCEPT !.g = RecoveryClear(@)], app.cccd, ok)
                    [] OTHER -> [Now EXCEPT !.g = RecoveryFail([@ EXCEPT !.cccd = "none", !.deadline = FALSE],
                                                               app.cccd)]
  <2>1. PICK ok \in BOOLEAN : Handle("written", After(Head(queue), ok)) /\ Refusal(ok)
    BY <1>7 DEF HandleWritten
  <2> DEFINE e == Head(queue)
  <2>2. e.kind = "written" /\ e \in Events
    BY <2>1, HeadFacts
  <2> HIDE DEF e
  <2>3. Takes(After(e, ok), e)
    BY <1>0, <2>2, WrittenTakes
  <2>4. incidents' \in 0 .. MaxIncidents
    BY <1>0, <2>1, RefusalTyped
  <2> HIDE DEF After
  <2>5. QED
    BY <2>1, <2>3, <2>4, HandleStep DEF e
<1>8. CASE HandleAcked
  <2> DEFINE After(e, ok) ==
               LET taken == /\ ForThisLink(Now, e) /\ app.stage = "initializing" /\ app.waiting
                            /\ InitAckMatches(Now, e.of.index)
               IN IF taken
                  THEN SendInitCommand([Now EXCEPT !.g = [RecoveryClear(app) EXCEPT !.index = @ + 1]], ok)
                  ELSE Now
  <2>1. PICK ok \in BOOLEAN : Handle("acked", After(Head(queue), ok)) /\ Refusal(ok)
    BY <1>8 DEF HandleAcked
  <2> DEFINE e == Head(queue)
  <2>2. e.kind = "acked" /\ e \in Events
    BY <2>1, HeadFacts
  <2> HIDE DEF e
  <2>3. Takes(After(e, ok), e)
    BY <1>0, <2>2, AckedTakes
  <2>4. incidents' \in 0 .. MaxIncidents
    BY <1>0, <2>1, RefusalTyped
  <2> HIDE DEF After
  <2>5. QED
    BY <2>1, <2>3, <2>4, HandleStep DEF e
<1>9. QED
  BY <1>1, <1>2, <1>3, <1>4, <1>5, <1>6, <1>7, <1>8 DEF ProcessControlEvent

-----------------------------------------------------------------------------
(* A step of the main loop that handles no event.                           *)
CarriesOn(v) ==
  /\ v \in Worlds /\ Staged(v.g) /\ LinksGrow(link, v.l)
  /\ v.g.connected = app.connected /\ v.g.conn = app.conn /\ v.g.index = app.index
  /\ v.g.stage = app.stage \/ (app.stage = "initializing" /\ v.g.stage = "subscribeInput")
  /\ app.connected /\ Timed(app)
       => Timed(v.g) \/ v.l[app.conn].leaving \/ ~v.l[app.conn].up
  /\ \A p \in Pads : v.r.creating = p => ~link[p].up

(* What a step that carries the session on keeps.                           *)
LEMMA CarriesOnStep ==
  ASSUME NsInv, NEW v, Result(v), CarriesOn(v), UNCHANGED queue,
         mishaps' \in {mishaps, mishaps \cup {"strayScan"}},
         candidate' \in Pads \cup {None}, changed' \in BOOLEAN,
         phase' \in {"calls", "events", "timers"},
         incidents' \in 0 .. MaxIncidents, calls' \in 0 .. MaxCalls
  PROVE  /\ TypeFits' /\ LinksFit' /\ RingFits' /\ PurgesAreDrops' /\ StepsAreEarned'
         /\ LossIsSeen' /\ SomethingIsDue'
<1>1. app' = v.g /\ link' = v.l /\ radio' = v.r
  BY DEF Result
<1>2. /\ v \in Worlds /\ Staged(v.g) /\ LinksGrow(link, v.l)
      /\ v.g.connected = app.connected /\ v.g.conn = app.conn /\ v.g.index = app.index
      /\ v.g.stage = app.stage \/ (app.stage = "initializing" /\ v.g.stage = "subscribeInput")
      /\ \A p \in Pads : v.r.creating = p => ~link[p].up
  BY DEF CarriesOn
<1>3. app' \in AppState /\ link' \in [Pads -> LinkState] /\ radio' \in Radios
  BY <1>1, <1>2 DEF Worlds
<1>4. Led(v.g) /\ Queued(queue) /\ mishaps \subseteq Mishaps /\ mishaps' \subseteq Mishaps
  BY <1>2, InvReady DEF Led, Mishaps
<1>5. /\ "purged" \in mishaps' <=> "purged" \in mishaps
      /\ "dropped" \in mishaps' <=> "dropped" \in mishaps
      /\ "borrowed" \in mishaps' <=> "borrowed" \in mishaps
  OBVIOUS
<1>6. \A p \in Pads : /\ v.l[p].up = link[p].up /\ v.l[p].heard = link[p].heard
                      /\ v.l[p].on = link[p].on
                      /\ (link[p].searching => v.l[p].searching)
                      /\ (link[p].leaving => v.l[p].leaving)
  BY <1>2 DEF LinksGrow, LinkGrows
<1>7. v.g.connected => v.g.conn \in Pads
  BY <1>4 DEF Led
<1>8. TypeFits'
  <2>1. \A i \in DOMAIN queue' :
          queue'[i] \in [kind : EventKinds, pad : Pads \cup {None}, ok : BOOLEAN, of : Writes]
    BY <1>4, QueuedTyped DEF Events
  <2>2. TypeOK'
    BY <1>3, <1>4, <2>1 DEF TypeOK, Radios
  <2>3. QED
    BY <1>1, <1>2, <1>4, <2>2 DEF TypeFits
<1>9. LinksFit'
  <2> SUFFICES ASSUME NEW p \in Pads
               PROVE  LinkFits(p)'
    BY DEF LinksFit
  <2>1. QED
    BY <1>1, <1>2, GrowsFits
<1>10. RingFits'
  <2>1. \A p \in Pads : Later(link[p], v.l[p])
    BY <1>2, GrowsLater
  <2>2. QueueHolds(queue, v.l)
    BY <1>4, <2>1, QueueHoldsLater DEF NsInv, RingFits
  <2>3. QED
    BY <1>1, <2>2 DEF RingFits
<1>11. PurgesAreDrops'
  BY <1>5 DEF NsInv, PurgesAreDrops
<1>12. StepsAreEarned'
  <2> SUFFICES ASSUME v.g.connected, v.l[v.g.conn].up, ~LossIn(queue, v.g.conn),
                      "purged" \notin mishaps'
               PROVE  Earned(v.g, v.l[v.g.conn], "borrowed" \in mishaps')
    BY <1>1 DEF StepsAreEarned
  <2>1. Earned(app, link[app.conn], "borrowed" \in mishaps)
    BY <1>2, <1>5, <1>6, <1>7 DEF NsInv, StepsAreEarned
  <2>2. QED
    BY <1>2, <1>5, <1>6, <1>7, <2>1 DEF Earned
<1>13. LossIsSeen'
  <2> SUFFICES ASSUME v.g.connected, ~v.l[v.g.conn].up, "purged" \notin mishaps'
               PROVE  LossIn(queue, v.g.conn)
    BY <1>1 DEF LossIsSeen, LossQueued, LossIn, Loss
  <2>1. QED
    BY <1>2, <1>5, <1>6, <1>7, LossQueuedIsIn DEF NsInv, LossIsSeen
<1>14. SomethingIsDue'
  <2> SUFFICES ASSUME v.g.connected, v.l[v.g.conn].up, v.g.stage # "ready", "dropped" \notin mishaps'
               PROVE  \/ Timed(v.g)
                      \/ v.l[v.g.conn].searching \/ v.l[v.g.conn].leaving
                      \/ \E i \in DOMAIN queue : queue[i].kind \in {"searched", "disconnected"}
                                                   /\ queue[i].pad = v.g.conn
    BY <1>1 DEF SomethingIsDue, Timed
  <2>1. \/ Timed(app)
        \/ link[app.conn].searching \/ link[app.conn].leaving
        \/ \E i \in DOMAIN queue : queue[i].kind \in {"searched", "disconnected"}
                                     /\ queue[i].pad = app.conn
    BY <1>2, <1>5, <1>6, <1>7 DEF NsInv, SomethingIsDue, Timed
  <2>2. Timed(app) => Timed(v.g) \/ v.l[app.conn].leaving
    BY <1>2 DEF CarriesOn
  <2>3. QED
    BY <1>2, <1>6, <1>7, <2>1, <2>2
<1>15. QED
  BY <1>8, <1>9, <1>10, <1>11, <1>12, <1>13, <1>14

(* The timers carry the session on.                                         *)
LEMMA ContinuesCarriesOn ==
  ASSUME NsInv, NEW v, Continues(Now, v),
         app.connected /\ Timed(app)
           => Timed(v.g) \/ v.l[app.conn].leaving \/ ~v.l[app.conn].up
  PROVE  CarriesOn(v)
  BY NowFacts DEF NsInv, LinksFit, LinkFits, Continues, CarriesOn

(* The timers keep the invariant.                                           *)
LEMMA TimersStep ==
  ASSUME NsInv, NEW ackDue \in BOOLEAN, NEW due \in BOOLEAN, Timers(ackDue, due)
  PROVE  NsInv' /\ NoneBegun
<1>1. PICK ok \in BOOLEAN : Result(PollTimers(Now, ackDue, due, ok)) /\ Refusal(ok)
  BY DEF Timers
<1>2. /\ phase' = "calls" /\ candidate' = candidate /\ queue' = queue /\ mishaps' = mishaps
      /\ changed' = changed /\ calls' = calls
  BY DEF Timers
<1> DEFINE v == PollTimers(Now, ackDue, due, ok)
<1>3. /\ Now \in Worlds /\ Led(app) /\ Staged(app) /\ TypeOK
      /\ candidate \in Pads \cup {None} /\ changed \in BOOLEAN
  BY InvReady
<1>4. incidents' \in 0 .. MaxIncidents /\ calls \in 0 .. MaxCalls
  BY <1>1, <1>3, RefusalTyped DEF TypeOK
<1>5. /\ Continues(Now, v) /\ (ScanIsWanted(Now) => ScanIsWanted(v))
      /\ Now.g.connected /\ Timed(Now.g)
           => Timed(v.g) \/ v.l[Now.g.conn].leaving \/ ~v.l[Now.g.conn].up
  BY <1>3, NowFacts, PollTimersFacts
<1>6. Result(v)
  BY <1>1
<1> HIDE DEF v
<1>7. CarriesOn(v)
  BY <1>5, NowFacts, ContinuesCarriesOn
<1>8. /\ TypeFits' /\ LinksFit' /\ RingFits' /\ PurgesAreDrops' /\ StepsAreEarned'
      /\ LossIsSeen' /\ SomethingIsDue'
  BY <1>2, <1>3, <1>4, <1>6, <1>7, CarriesOnStep
<1>9. ScanFits'
  <2>1. app' = v.g /\ radio' = v.r
    BY <1>6 DEF Result
  <2>2. ScanIsWanted(Now) => ScanIsWanted(Now)'
    BY <1>5, <2>1 DEF ScanIsWanted, Now
  <2>3. app'.wanted = app.wanted /\ app'.target = app.target /\ radio'.stopped = radio.stopped
    BY <1>5, <2>1, NowFacts DEF Continues
  <2>4. CandidateFits => CandidateFits'
    BY <1>2, <2>3 DEF CandidateFits
  <2>5. QED
    BY <1>2, <2>2, <2>4 DEF NsInv, ScanFits
<1>10. NoneBegun
  BY <1>5, <1>6, NowFacts DEF Result, Continues, NoneBegun
<1>11. QED
  BY <1>8, <1>9, <1>10 DEF NsInv

(* So does taking the candidate, who is the one that may be called.         *)
LEMMA ProcessCandidateStep ==
  ASSUME NsInv, ProcessCandidate
  PROVE  /\ NsInv'
         /\ NoneBegun \/ (radio'.creating = candidate /\ candidate # None)
<1>1. PICK ok \in BOOLEAN :
        /\ Result(IF candidate = None THEN Now ELSE ConnectCandidate(Now, candidate, ok))
        /\ Refusal(ok)
  BY DEF ProcessCandidate
<1>2. /\ candidate' = None /\ changed' = (changed /\ radio.stopped) /\ phase' = "timers"
      /\ queue' = queue /\ mishaps' = mishaps /\ calls' = calls
  BY DEF ProcessCandidate
<1> DEFINE v == IF candidate = None THEN Now ELSE ConnectCandidate(Now, candidate, ok)
<1>3. /\ Now \in Worlds /\ Led(app) /\ Staged(app) /\ TypeOK
      /\ candidate \in Pads \cup {None} /\ changed \in BOOLEAN /\ changed' \in BOOLEAN
  BY <1>2, InvReady
<1>4. incidents' \in 0 .. MaxIncidents /\ calls \in 0 .. MaxCalls
  BY <1>1, <1>3, RefusalTyped DEF TypeOK
<1>5. /\ Scans(Now, v) /\ (ScanIsWanted(Now) => ScanIsWanted(v))
      /\ v.r.creating = radio.creating \/ (v.r.creating = candidate /\ candidate # None /\ ~link[candidate].up)
      /\ v.r.stopped => radio.stopped \/ radio.scan
  <2>1. CASE candidate = None
    BY <1>3, <2>1, NowFacts, ScansItself
  <2>2. CASE candidate # None
    <3> DEFINE u == ConnectCandidate(Now, candidate, ok)
    <3>1. candidate \in Pads
      BY <1>3, <2>2
    <3>2. /\ Scans(Now, u) /\ (ScanIsWanted(Now) => ScanIsWanted(u))
          /\ u.r.creating = Now.r.creating \/ (u.r.creating = candidate /\ ~Now.l[candidate].up)
          /\ u.r.stopped => Now.r.stopped \/ Now.r.scan
      BY <1>3, <3>1, ConnectCandidateFacts
    <3>3. v = u
      BY <2>2
    <3> HIDE DEF u, v
    <3>4. QED
      BY <2>2, <3>2, <3>3, NowFacts
  <2>3. QED
    BY <2>1, <2>2
<1>6. Result(v)
  BY <1>1
<1> HIDE DEF v
<1>7. CarriesOn(v)
  <2>1. v \in Worlds /\ SameSession(app, v.g) /\ v.l = link
    BY <1>5, NowFacts DEF Scans
  <2>2. Staged(v.g) /\ LinksGrow(link, v.l)
    BY <1>3, <2>1, StagedSame, GrowsItself, InvReady DEF SameSession
  <2>3. \A p \in Pads : v.r.creating = p => ~link[p].up
    BY <1>5 DEF NsInv, LinksFit, LinkFits
  <2>4. QED
    BY <2>1, <2>2, <2>3 DEF CarriesOn, SameSession, SameWait, Timed
<1>8. /\ TypeFits' /\ LinksFit' /\ RingFits' /\ PurgesAreDrops' /\ StepsAreEarned'
      /\ LossIsSeen' /\ SomethingIsDue'
  BY <1>2, <1>3, <1>4, <1>6, <1>7, CarriesOnStep
<1>9. ScanFits'
  <2>1. app' = v.g /\ radio' = v.r
    BY <1>6 DEF Result
  <2>2. ScanIsWanted(Now) => ScanIsWanted(Now)'
    BY <1>5, <2>1 DEF ScanIsWanted, Now
  <2>3. app'.wanted = app.wanted
    BY <1>5, <2>1, NowFacts DEF Scans, SameSession
  <2>4. ScanIsWanted(Now) /\ CandidateFits => CandidateFits'
    <3>1. radio.scan => (ScanIsWanted(Now) => app.wanted)
      BY NowFacts DEF ScanIsWanted
    <3>2. radio'.stopped => radio.stopped \/ radio.scan
      BY <1>5, <2>1
    <3>3. QED
      BY <1>2, <2>3, <3>1, <3>2 DEF CandidateFits
  <2>5. QED
    BY <1>2, <2>2, <2>4 DEF NsInv, ScanFits
<1>10. NoneBegun \/ (radio'.creating = candidate /\ candidate # None)
  BY <1>5, <1>6 DEF Result, NoneBegun
<1>11. QED
  BY <1>8, <1>9, <1>10 DEF NsInv

(* A call is marked as changed, and the scan it leaves is noted.            *)
LEMMA CallStep ==
  ASSUME NsInv, NEW v, Leaves(Now, v), NEW noted \in Pads \cup {None}, Call(v, noted),
         incidents' \in 0 .. MaxIncidents
  PROVE  NsInv' /\ NoneBegun
<1>1. /\ phase' = "calls" /\ candidate' = noted /\ queue' = queue /\ changed' = TRUE
      /\ mishaps' = Noted(v) /\ calls < MaxCalls /\ calls' = calls + 1 /\ Result(v)
  BY DEF Call
<1>2. TypeOK /\ Staged(app)
  BY InvReady
<1>3. calls' \in 0 .. MaxCalls
  BY <1>1, <1>2, NsLinkAssumption DEF TypeOK
<1>4. mishaps' \in {mishaps, mishaps \cup {"strayScan"}}
  BY <1>1 DEF Noted
<1>5. CarriesOn(v)
  <2>1. /\ v \in Worlds /\ SameWait(app, v.g) /\ LinksGrow(link, v.l)
        /\ v.g.connected = app.connected /\ v.g.conn = app.conn
        /\ v.r.creating = radio.creating
    BY NowFacts DEF Leaves
  <2>2. Staged(v.g)
    BY <1>2, <2>1, StagedSame
  <2>3. QED
    BY <2>1, <2>2 DEF CarriesOn, SameWait, Timed, NsInv, LinksFit, LinkFits
<1>6. /\ TypeFits' /\ LinksFit' /\ RingFits' /\ PurgesAreDrops' /\ StepsAreEarned'
      /\ LossIsSeen' /\ SomethingIsDue'
  BY <1>1, <1>3, <1>4, <1>5, CarriesOnStep
<1>7. ScanFits'
  <2>1. app' = v.g /\ radio' = v.r
    BY <1>1 DEF Result
  <2>2. "strayScan" \notin mishaps' => ScanIsWanted(Now)'
    BY <1>1, <2>1 DEF Noted, StrayScan, ScanIsWanted, Now
  <2>3. CandidateFits'
    BY <1>1 DEF CandidateFits
  <2>4. QED
    BY <2>2, <2>3 DEF ScanFits
<1>8. NoneBegun
  BY <1>1, NowFacts DEF Result, Leaves, NoneBegun
<1>9. QED
  BY <1>6, <1>7, <1>8 DEF NsInv

(* So do the application's calls.                                           *)
LEMMA ApplicationStep ==
  ASSUME NsInv, Application
  PROVE  NsInv' /\ NoneBegun
<1>0. /\ Now \in Worlds /\ Led(Now.g) /\ TypeOK /\ candidate \in Pads \cup {None}
      /\ app \in AppState
  BY InvReady, NowFacts
<1>1. ASSUME NEW resume \in BOOLEAN, CallDisconnect(resume)
      PROVE  NsInv' /\ NoneBegun
  <2>1. PICK ok \in BOOLEAN : Call(Disconnect(Now, resume, ok), candidate) /\ Refusal(ok)
    BY <1>1 DEF CallDisconnect
  <2>2. Leaves(Now, Disconnect(Now, resume, ok))
    BY <1>0, DisconnectFacts
  <2>3. incidents' \in 0 .. MaxIncidents
    BY <1>0, <2>1, RefusalTyped
  <2>4. QED
    BY <1>0, <2>1, <2>2, <2>3, CallStep
<1>2. CASE CallStartScan
  <2>1. PICK ok \in BOOLEAN : Call(StartScan(Now, ok), candidate) /\ Refusal(ok)
    BY <1>2 DEF CallStartScan
  <2>2. Leaves(Now, StartScan(Now, ok))
    BY <1>0, StartScanLeaves
  <2>3. incidents' \in 0 .. MaxIncidents
    BY <1>0, <2>1, RefusalTyped
  <2>4. QED
    BY <1>0, <2>1, <2>2, <2>3, CallStep
<1>3. ASSUME NEW target \in Pads \cup Elsewhere \cup {None}
      PROVE  Leaves(Now, [Now EXCEPT !.g.target = target])
  <2> DEFINE g == [app EXCEPT !.target = target]
             v == [Now EXCEPT !.g = g]
  <2>1. g \in AppState
    BY <1>0 DEF AppState
  <2>2. SameWait(app, g)
    BY <1>0 DEF AppState, SameWait
  <2>3. g.conn = app.conn
    BY <1>0 DEF AppState
  <2>4. g.connected = app.connected
    BY <1>0 DEF AppState
  <2>5. [Now EXCEPT !.g.target = target] = v
    BY <1>0, NowFacts DEF Worlds
  <2> HIDE DEF g
  <2>6. v \in Worlds /\ v.g = g /\ v.l = link /\ v.r = radio
    BY <1>0, <2>1, NowFacts DEF Worlds
  <2> HIDE DEF v
  <2>7. LinksGrow(link, link)
    BY InvReady, GrowsItself
  <2>8. QED
    BY <2>2, <2>3, <2>4, <2>5, <2>6, <2>7, NowFacts DEF Leaves
<1>4. CASE ClearTarget
  <2>1. Call([Now EXCEPT !.g.target = None], None) /\ UNCHANGED incidents
    BY <1>4 DEF ClearTarget
  <2> DEFINE v == [Now EXCEPT !.g.target = None]
  <2>2. Leaves(Now, v)
    BY <1>3
  <2> HIDE DEF v
  <2>3. QED
    BY <2>1, <2>2, QuietlyTyped, CallStep DEF v
<1>5. ASSUME NEW p \in Pads \cup Elsewhere, SetTarget(p)
      PROVE  NsInv' /\ NoneBegun
  <2>1. Call([Now EXCEPT !.g.target = p], candidate) /\ UNCHANGED incidents
    BY <1>5 DEF SetTarget
  <2> DEFINE v == [Now EXCEPT !.g.target = p]
  <2>2. Leaves(Now, v)
    BY <1>3
  <2> HIDE DEF v
  <2>3. QED
    BY <1>0, <2>1, <2>2, QuietlyTyped, CallStep DEF v
<1>6. QED
  BY <1>1, <1>2, <1>4, <1>5 DEF Application

-----------------------------------------------------------------------------
(* What the stack and the controllers do.  A link moves: it goes on as      *)
(* before, but for an end of the search that is told.                       *)
Moves(a, b, told) ==
  /\ b \in LinkState /\ b.up = a.up /\ b.leaving = a.leaving
  /\ a.on \subseteq b.on /\ a.heard \subseteq b.heard
  /\ a.searching => b.searching \/ told
  /\ Sound(a) => Sound(b)

(* Each link moves, or its end is told.                                     *)
MovesOrEnds(e) ==
  \A p \in Pads :
    \/ ~link[p].up \/ (Loss(e, p) /\ ~link'[p].up)
    \/ Moves(link[p], link'[p], e.kind = "searched" /\ e.pad = p)

(* A step of the stack that tells of it by an event.                        *)
LEMMA TellStep ==
  ASSUME NsInv, NEW e \in Events, OfPads(e), Tell(e), UNCHANGED <<app, phase, changed, calls>>,
         MovesOrEnds(e), e.kind \in OfLink => Holds(e, link'),
         link' \in [Pads -> LinkState], radio' \in Radios, LinksFit',
         candidate' \in Pads \cup {None}, incidents' \in 0 .. MaxIncidents
  PROVE  /\ TypeFits' /\ LinksFit' /\ RingFits' /\ PurgesAreDrops' /\ StepsAreEarned'
         /\ LossIsSeen' /\ SomethingIsDue'
<1> DEFINE t == Push(queue, e)
<1>1. /\ Queued(queue) /\ Staged(app) /\ Led(app) /\ TypeOK
      /\ app \in AppState /\ link \in [Pads -> LinkState] /\ mishaps \subseteq Mishaps
  BY InvReady
<1>2. app' = app /\ phase' = phase /\ changed' = changed /\ calls' = calls
  OBVIOUS
<1>3. /\ Queued(t)
      /\ \A p : Loss(e, p) => LossIn(t, p)
      /\ \A p : LossIn(queue, p) /\ (Len(queue) < Room \/ e.kind # "disconnected") => LossIn(t, p)
      /\ Len(queue) < Room => /\ \A i \in DOMAIN queue : i \in DOMAIN t /\ t[i] = queue[i]
                              /\ Len(queue) + 1 \in DOMAIN t /\ t[Len(queue) + 1] = e
      /\ /\ QueueHolds(queue, link)
         /\ \A p \in Pads : Later(link[p], link'[p]) \/ Loss(e, p) \/ ~link[p].up
         /\ e.kind \in OfLink => Holds(e, link')
         => QueueHolds(t, link')
  BY <1>1, PushFacts
<1>4. queue' = t
  BY DEF Tell
<1>5. /\ mishaps \subseteq mishaps' /\ mishaps' \subseteq mishaps \cup {"dropped", "purged"}
      /\ "purged" \in mishaps' => "purged" \in mishaps \/ "dropped" \in mishaps'
      /\ "dropped" \notin mishaps' => Len(queue) < Room
      /\ "purged" \notin mishaps' => "purged" \notin mishaps /\ (Len(queue) < Room \/ ~Purges(e))
  BY DEF Tell
<1> HIDE DEF t
<1>6. \A p \in Pads : LossIn(queue, p) /\ "purged" \notin mishaps' => LossIn(t, p)
  <2> SUFFICES ASSUME NEW p \in Pads, LossIn(queue, p), "purged" \notin mishaps', ~LossIn(t, p)
               PROVE  FALSE
    OBVIOUS
  <2>1. ~(Len(queue) < Room) /\ e.kind = "disconnected" /\ ~Loss(e, p)
    BY <1>3
  <2>2. LossQueued(p) /\ p \in Pads \ {e.pad}
    BY <2>1, LossQueuedIsIn DEF Loss
  <2>3. Purges(e)
    BY <2>1, <2>2 DEF Purges
  <2>4. QED
    BY <1>5, <2>1, <2>3
<1>7. TypeFits'
  <2>1. \A i \in DOMAIN queue' :
          queue'[i] \in [kind : EventKinds, pad : Pads \cup {None}, ok : BOOLEAN, of : Writes]
    BY <1>3, <1>4, QueuedTyped DEF Events
  <2>2. mishaps' \subseteq Mishaps
    BY <1>1, <1>5 DEF Mishaps
  <2>3. TypeOK'
    BY <1>1, <1>2, <2>1, <2>2 DEF TypeOK, Radios
  <2>4. QED
    BY <1>1, <1>2, <1>3, <1>4, <2>3 DEF TypeFits
<1>8. \A p \in Pads : Later(link[p], link'[p]) \/ Loss(e, p) \/ ~link[p].up
  BY DEF MovesOrEnds, Moves, Later
<1>9. RingFits'
  BY <1>3, <1>4, <1>8 DEF NsInv, RingFits
<1>10. PurgesAreDrops'
  BY <1>5 DEF NsInv, PurgesAreDrops
<1>11. app.connected => app.conn \in Pads
  BY <1>1 DEF Led
<1>12. app.connected /\ ~link[app.conn].up /\ "purged" \notin mishaps' => LossIn(t, app.conn)
  BY <1>5, <1>6, <1>11, LossQueuedIsIn DEF NsInv, LossIsSeen
<1>13. StepsAreEarned'
  <2> SUFFICES ASSUME app.connected, link'[app.conn].up, ~LossIn(t, app.conn),
                      "purged" \notin mishaps'
               PROVE  Earned(app, link'[app.conn], "borrowed" \in mishaps')
    BY <1>2, <1>4 DEF StepsAreEarned
  <2>1. link[app.conn].up /\ ~Loss(e, app.conn) /\ ~LossIn(queue, app.conn)
    BY <1>3, <1>6, <1>11, <1>12
  <2>2. Later(link[app.conn], link'[app.conn])
    BY <1>8, <1>11, <2>1
  <2>3. Earned(app, link[app.conn], "borrowed" \in mishaps)
    BY <1>5, <2>1 DEF NsInv, StepsAreEarned
  <2> DEFINE x == "borrowed" \in mishaps
             y == "borrowed" \in mishaps'
  <2>4. x \in BOOLEAN /\ y \in BOOLEAN /\ (x => y)
    BY <1>5
  <2>5. Earned(app, link[app.conn], x)
    BY <2>3
  <2> HIDE DEF x, y
  <2>6. Earned(app, link'[app.conn], y)
    BY <2>2, <2>4, <2>5, EarnedLater DEF Later
  <2>7. QED
    BY <2>6 DEF y
<1>14. LossIsSeen'
  <2> SUFFICES ASSUME app.connected, ~link'[app.conn].up, "purged" \notin mishaps'
               PROVE  LossIn(t, app.conn)
    BY <1>2, <1>4 DEF LossIsSeen, LossQueued, LossIn, Loss
  <2>1. CASE ~link[app.conn].up
    BY <1>12, <2>1
  <2>2. CASE link[app.conn].up
    BY <1>3, <1>8, <1>11, <2>2 DEF Later
  <2>3. QED
    BY <2>1, <2>2
<1>15. SomethingIsDue'
  <2> SUFFICES ASSUME app.connected, link'[app.conn].up, app.stage # "ready",
                      "dropped" \notin mishaps', ~Timed(app)
               PROVE  \/ link'[app.conn].searching \/ link'[app.conn].leaving
                      \/ \E i \in DOMAIN t : t[i].kind \in {"searched", "disconnected"}
                                               /\ t[i].pad = app.conn
    BY <1>2, <1>4 DEF SomethingIsDue, Timed
  <2>1. Len(queue) < Room /\ "dropped" \notin mishaps /\ "purged" \notin mishaps
    BY <1>5 DEF NsInv, PurgesAreDrops
  <2>2. /\ \A i \in DOMAIN queue : i \in DOMAIN t /\ t[i] = queue[i]
        /\ Len(queue) + 1 \in DOMAIN t /\ t[Len(queue) + 1] = e
    BY <1>3, <2>1
  <2>3. CASE ~link[app.conn].up
    <3>1. LossQueued(app.conn)
      BY <2>1, <2>3 DEF NsInv, LossIsSeen
    <3>2. QED
      BY <2>2, <3>1 DEF LossQueued
  <2>4. CASE link[app.conn].up
    <3>1. \/ link[app.conn].searching \/ link[app.conn].leaving
          \/ \E i \in DOMAIN queue : queue[i].kind \in {"searched", "disconnected"}
                                       /\ queue[i].pad = app.conn
      BY <2>1, <2>4 DEF NsInv, SomethingIsDue, Timed
    <3>2. CASE Loss(e, app.conn)
      BY <2>2, <3>2 DEF Loss
    <3>3. CASE ~Loss(e, app.conn)
      <4>1. Moves(link[app.conn], link'[app.conn], e.kind = "searched" /\ e.pad = app.conn)
        BY <1>11, <2>4, <3>3 DEF MovesOrEnds
      <4>2. /\ link[app.conn].leaving => link'[app.conn].leaving
            /\ link[app.conn].searching
                 => link'[app.conn].searching \/ (e.kind = "searched" /\ e.pad = app.conn)
        BY <4>1 DEF Moves
      <4>3. CASE \E i \in DOMAIN queue : queue[i].kind \in {"searched", "disconnected"}
                                       /\ queue[i].pad = app.conn
        BY <2>2, <4>3
      <4>4. CASE link[app.conn].searching \/ link[app.conn].leaving
        BY <2>2, <4>2, <4>4
      <4>5. QED
        BY <3>1, <4>3, <4>4
    <3>4. QED
      BY <3>2, <3>3
  <2>5. QED
    BY <2>3, <2>4
<1>16. QED
  BY <1>7, <1>9, <1>10, <1>13, <1>14, <1>15

(* A step of the outside that nothing is told of.                           *)
LEMMA SilentStep ==
  ASSUME NsInv, UNCHANGED <<app, phase, changed, calls, queue, mishaps>>,
         \A p \in Pads : ~link[p].up \/ Moves(link[p], link'[p], FALSE),
         \A p \in Pads : ~link[p].up => ~link'[p].up,
         link' \in [Pads -> LinkState], radio' \in Radios, LinksFit',
         candidate' \in Pads \cup {None}, incidents' \in 0 .. MaxIncidents
  PROVE  /\ TypeFits' /\ LinksFit' /\ RingFits' /\ PurgesAreDrops' /\ StepsAreEarned'
         /\ LossIsSeen' /\ SomethingIsDue'
<1>1. /\ Queued(queue) /\ Staged(app) /\ Led(app) /\ TypeOK
      /\ app \in AppState /\ link \in [Pads -> LinkState] /\ mishaps \subseteq Mishaps
  BY InvReady
<1>2. TypeFits'
  <2>1. TypeOK'
    BY <1>1 DEF TypeOK, Radios
  <2>2. QED
    BY <1>1, <2>1 DEF TypeFits
<1>3. \A p \in Pads : link[p].up => Later(link[p], link'[p]) /\ link'[p].up
  BY DEF Moves, Later
<1>4. app.connected => app.conn \in Pads
  BY <1>1 DEF Led
<1>5. RingFits'
  <2> SUFFICES ASSUME NEW i \in DOMAIN queue, queue[i].kind \in OfLink, Fresh(queue, i)
               PROVE  Holds(queue[i], link')
    BY DEF RingFits, QueueHolds
  <2>1. Holds(queue[i], link) /\ queue[i].pad \in Pads
    BY <1>1 DEF NsInv, RingFits, QueueHolds, Queued, OfPads
  <2>2. QED
    BY <1>3, <2>1, HoldsLater DEF Holds
<1>6. PurgesAreDrops'
  BY DEF NsInv, PurgesAreDrops
<1>7. StepsAreEarned'
  <2> SUFFICES ASSUME app.connected, link'[app.conn].up, ~LossIn(queue, app.conn),
                      "purged" \notin mishaps
               PROVE  Earned(app, link'[app.conn], "borrowed" \in mishaps)
    BY DEF StepsAreEarned
  <2>1. link[app.conn].up /\ Later(link[app.conn], link'[app.conn])
    BY <1>3, <1>4
  <2>2. Earned(app, link[app.conn], "borrowed" \in mishaps)
    BY <2>1 DEF NsInv, StepsAreEarned
  <2> DEFINE x == "borrowed" \in mishaps
  <2>3. x \in BOOLEAN /\ Earned(app, link[app.conn], x)
    BY <2>2
  <2> HIDE DEF x
  <2>4. Earned(app, link'[app.conn], x)
    BY <2>1, <2>3, EarnedLater DEF Later
  <2>5. QED
    BY <2>4 DEF x
<1>8. LossIsSeen'
  BY <1>3, <1>4 DEF NsInv, LossIsSeen, LossQueued
<1>9. SomethingIsDue'
  <2> SUFFICES ASSUME app.connected, link'[app.conn].up, app.stage # "ready",
                      "dropped" \notin mishaps, ~Timed(app)
               PROVE  \/ link'[app.conn].searching \/ link'[app.conn].leaving
                      \/ \E i \in DOMAIN queue : queue[i].kind \in {"searched", "disconnected"}
                                                   /\ queue[i].pad = app.conn
    BY DEF SomethingIsDue, Timed
  <2>1. link[app.conn].up
    BY <1>4
  <2>2. Moves(link[app.conn], link'[app.conn], FALSE)
    BY <1>4, <2>1
  <2>3. \/ link[app.conn].searching \/ link[app.conn].leaving
        \/ \E i \in DOMAIN queue : queue[i].kind \in {"searched", "disconnected"}
                                     /\ queue[i].pad = app.conn
    BY <2>1 DEF NsInv, SomethingIsDue, Timed
  <2>4. /\ link[app.conn].leaving => link'[app.conn].leaving
        /\ link[app.conn].searching => link'[app.conn].searching
    BY <2>2 DEF Moves
  <2>5. QED
    BY <2>3, <2>4
<1>10. QED
  BY <1>2, <1>5, <1>6, <1>7, <1>8, <1>9

(* A link that nothing happens to moves.                                    *)
LEMMA MovesItself ==
  ASSUME NEW l \in [Pads -> LinkState], NEW p \in Pads, NEW told \in BOOLEAN
  PROVE  Moves(l[p], l[p], told)
  BY DEF Moves

(* Telling notes no scan.                                                   *)
LEMMA TellMishaps ==
  ASSUME NEW e, Tell(e)
  PROVE  "strayScan" \in mishaps' <=> "strayScan" \in mishaps
  BY DEF Tell

(* The scan fits while the code does nothing and it only ends.              *)
LEMMA ScanFitsStays ==
  ASSUME NsInv, UNCHANGED <<app, changed, candidate>>,
         "strayScan" \in mishaps' <=> "strayScan" \in mishaps,
         radio'.scan => radio.scan, radio'.stopped => radio.stopped
  PROVE  ScanFits'
  BY DEF NsInv, ScanFits, ScanIsWanted, CandidateFits, Now

(* No controller is not a controller.                                       *)
LEMMA NoneIsNoPad == None \notin Pads
  BY NsLinkAssumption

(* An event that is of no link.                                             *)
LEMMA RadioStep ==
  ASSUME NsInv, NEW r \in Radios, NEW e \in Events,
         e.kind \notin OfLink, e.kind # "disconnected", Radio(r, e),
         r.scan => radio.scan, r.stopped => radio.stopped,
         r.creating \in {radio.creating, None},
         incidents' \in 0 .. MaxIncidents
  PROVE  NsInv' /\ NoneBegun
<1>1. /\ radio' = r /\ Tell(e) /\ UNCHANGED <<app, phase, changed, calls>>
      /\ candidate' = candidate /\ link' = link
  BY DEF Radio, Outside
<1>2. link \in [Pads -> LinkState] /\ candidate \in Pads \cup {None}
  BY InvReady
<1>3. MovesOrEnds(e)
  BY <1>1, <1>2, MovesItself DEF MovesOrEnds
<1>4. LinksFit'
  BY <1>1, NoneIsNoPad DEF NsInv, LinksFit, LinkFits
<1>5. /\ TypeFits' /\ LinksFit' /\ RingFits' /\ PurgesAreDrops' /\ StepsAreEarned'
      /\ LossIsSeen' /\ SomethingIsDue'
  BY <1>1, <1>2, <1>3, <1>4, TellStep DEF OfPads
<1>6. ScanFits'
  BY <1>1, TellMishaps, ScanFitsStays
<1>7. QED
  BY <1>1, <1>5, <1>6 DEF NsInv, NoneBegun

(* One link changes and stays sound.                                        *)
LEMMA LinkFitsAt ==
  ASSUME NsInv, NEW p \in Pads, NEW l \in LinkState, Sound(l),
         l.up => link[p].up, ~l.up => l = Down,
         link' = [link EXCEPT ![p] = l], radio' = radio
  PROVE  LinksFit' /\ link' \in [Pads -> LinkState] /\ link'[p] = l
<1>1. link \in [Pads -> LinkState]
  BY InvReady
<1>2. link' \in [Pads -> LinkState] /\ link'[p] = l /\ \A q \in Pads \ {p} : link'[q] = link[q]
  BY <1>1
<1>3. ASSUME NEW q \in Pads
      PROVE  LinkFits(q)'
  BY <1>2 DEF NsInv, LinksFit, LinkFits
<1>4. QED
  BY <1>2, <1>3 DEF LinksFit

(* Something happens on one link, and an event tells it.                    *)
LEMMA OnLinkStep ==
  ASSUME NsInv, NEW p \in Pads, NEW l \in LinkState, NEW e \in Events, e.pad = p,
         e.kind \in OfLink \cup {"disconnected"}, link[p].up,
         OnLink(p, l, e),
         IF e.kind = "disconnected" THEN l = Down
         ELSE Moves(link[p], l, e.kind = "searched") /\ Holds(e, link'),
         incidents' \in 0 .. MaxIncidents
  PROVE  NsInv' /\ NoneBegun
<1>1. /\ link' = [link EXCEPT ![p] = l] /\ Tell(e) /\ UNCHANGED <<app, phase, changed, calls>>
      /\ candidate' = candidate /\ radio' = radio
  BY DEF OnLink, Outside
<1>2. /\ link \in [Pads -> LinkState] /\ candidate \in Pads \cup {None} /\ radio \in Radios
  BY InvReady
<1>3. Sound(l) /\ (~l.up => l = Down)
  <2>1. CASE l = Down
    BY <2>1 DEF Sound, Down, Indexed
  <2>2. CASE Moves(link[p], l, e.kind = "searched")
    BY <2>2 DEF NsInv, LinksFit, LinkFits, Moves
  <2>3. QED
    BY <2>1, <2>2
<1>4. LinksFit' /\ link' \in [Pads -> LinkState] /\ link'[p] = l
  BY <1>1, <1>3, LinkFitsAt
<1>5. \A q \in Pads \ {p} : link'[q] = link[q]
  BY <1>1, <1>2
<1>6. MovesOrEnds(e)
  <2> SUFFICES ASSUME NEW q \in Pads
               PROVE  \/ ~link[q].up \/ (Loss(e, q) /\ ~link'[q].up)
                      \/ Moves(link[q], link'[q], e.kind = "searched" /\ e.pad = q)
    BY DEF MovesOrEnds
  <2>1. CASE q # p
    <3> DEFINE told == e.kind = "searched" /\ e.pad = q
    <3>1. told \in BOOLEAN
      OBVIOUS
    <3> HIDE DEF told
    <3>2. Moves(link[q], link[q], told)
      BY <1>2, <3>1, MovesItself
    <3>3. QED
      BY <1>5, <2>1, <3>2 DEF told
  <2>2. CASE q = p /\ e.kind = "disconnected"
    BY <1>4, <2>2 DEF Loss, Down
  <2>3. CASE q = p /\ e.kind # "disconnected"
    BY <1>4, <2>3 DEF Moves
  <2>4. QED
    BY <2>1, <2>2, <2>3
<1>7. e.kind \in OfLink => Holds(e, link')
  BY DEF OfLink
<1>8. /\ TypeFits' /\ LinksFit' /\ RingFits' /\ PurgesAreDrops' /\ StepsAreEarned'
      /\ LossIsSeen' /\ SomethingIsDue'
  BY <1>1, <1>2, <1>4, <1>6, <1>7, TellStep DEF OfPads
<1>9. ScanFits'
  BY <1>1, TellMishaps, ScanFitsStays
<1>10. QED
  BY <1>1, <1>8, <1>9 DEF NsInv, NoneBegun

(* Something happens on one link, and nothing tells it.                     *)
LEMMA SilentlyStep ==
  ASSUME NsInv, NEW p \in Pads, NEW l \in LinkState, link[p].up, Silently(p, l),
         Moves(link[p], l, FALSE), incidents' \in 0 .. MaxIncidents
  PROVE  NsInv' /\ NoneBegun
<1>1. /\ link' = [link EXCEPT ![p] = l]
      /\ UNCHANGED <<app, phase, changed, calls, queue, mishaps>>
      /\ candidate' = candidate /\ radio' = radio
  BY DEF Silently, Outside
<1>2. /\ link \in [Pads -> LinkState] /\ candidate \in Pads \cup {None} /\ radio \in Radios
  BY InvReady
<1>3. Sound(l) /\ l.up
  BY DEF NsInv, LinksFit, LinkFits, Moves
<1>4. LinksFit' /\ link' \in [Pads -> LinkState] /\ link'[p] = l
  BY <1>1, <1>3, LinkFitsAt
<1>5. \A q \in Pads \ {p} : link'[q] = link[q]
  BY <1>1, <1>2
<1>6. \A q \in Pads : /\ ~link[q].up \/ Moves(link[q], link'[q], FALSE)
                      /\ ~link[q].up => ~link'[q].up
  BY <1>2, <1>4, <1>5, MovesItself
<1>7. /\ TypeFits' /\ LinksFit' /\ RingFits' /\ PurgesAreDrops' /\ StepsAreEarned'
      /\ LossIsSeen' /\ SomethingIsDue'
  BY <1>1, <1>2, <1>4, <1>6, SilentStep
<1>8. ScanFits'
  BY <1>1, ScanFitsStays
<1>9. QED
  BY <1>1, <1>7, <1>8 DEF NsInv, NoneBegun

(* The events are what they are made of.                                    *)
LEMMA EventTyped ==
  ASSUME NEW kind \in EventKinds, NEW p \in Pads \cup {None}, NEW ok \in BOOLEAN, NEW x \in Writes
  PROVE  LET e == Event(kind, p, ok, x)
         IN e \in Events /\ e.kind = kind /\ e.pad = p /\ e.of = x /\ e.ok = ok
  BY DEF Event, Events

(* An answer to something asked of a link.                                  *)
LEMMA AnswerTyped ==
  ASSUME NEW kind \in EventKinds, NEW p \in Pads, NEW ok \in BOOLEAN
  PROVE  LET e == Answer(kind, p, ok)
         IN e \in Events /\ e.kind = kind /\ e.pad = p
<1>1. Write("command", 0) \in Writes
  BY DEF Write, Writes
<1>2. QED
  BY <1>1, EventTyped DEF Answer

(* An event of no link.                                                     *)
LEMMA PlainTyped ==
  ASSUME NEW kind \in EventKinds
  PROVE  Plain(kind) \in Events /\ Plain(kind).kind = kind
<1>1. Write("command", 0) \in Writes
  BY DEF Write, Writes
<1>2. None \in Pads \cup {None} /\ TRUE \in BOOLEAN
  OBVIOUS
<1>3. QED
  BY <1>1, <1>2 DEF Plain, Event, Events

(* The bounds of the model are kept under the invariant.                    *)
LEMMA ChargeKeeps ==
  ASSUME NsInv, NEW n \in Nat, Charge(n)
  PROVE  incidents' \in 0 .. MaxIncidents
  BY InvReady, ChargeTyped

(* So they are when the stack may refuse.                                   *)
LEMMA RefusalKeeps ==
  ASSUME NsInv, NEW ok \in BOOLEAN, Refusal(ok)
  PROVE  incidents' \in 0 .. MaxIncidents
  BY InvReady, RefusalTyped

(* The stack's own events: power, ends of scans, failed connections.        *)
LEMMA RadioActionsStep ==
  ASSUME NsInv, PowersOn \/ ScanStops \/ ScanFails \/ FailsToConnect
  PROVE  NsInv' /\ NoneBegun
<1>0. radio \in Radios
  BY InvReady
<1> USE DEF EventKinds
<1>1. CASE PowersOn
  <2> DEFINE r == [radio EXCEPT !.on = TRUE]
             e == Plain("powerOn")
  <2>1. Radio(r, e) /\ Charge(0)
    BY <1>1 DEF PowersOn
  <2>2. e \in Events /\ e.kind = "powerOn"
    BY PlainTyped
  <2>3. r \in Radios /\ r.creating = radio.creating
    BY <1>0 DEF Radios
  <2>4. r.scan = radio.scan /\ r.stopped = radio.stopped
    BY <1>0 DEF Radios
  <2> HIDE DEF r, e
  <2>5. QED
    BY <2>1, <2>2, <2>3, <2>4, ChargeKeeps, RadioStep DEF OfLink
<1>2. CASE ScanStops
  <2> DEFINE r == [radio EXCEPT !.stopped = FALSE]
             e == Plain("scanStopped")
  <2>1. Radio(r, e) /\ Charge(0)
    BY <1>2 DEF ScanStops
  <2>2. e \in Events /\ e.kind = "scanStopped"
    BY PlainTyped
  <2>3. r \in Radios /\ r.creating = radio.creating
    BY <1>0 DEF Radios
  <2>4. r.scan = radio.scan /\ ~r.stopped
    BY <1>0 DEF Radios
  <2> HIDE DEF r, e
  <2>5. QED
    BY <2>1, <2>2, <2>3, <2>4, ChargeKeeps, RadioStep DEF OfLink
<1>3. CASE ScanFails
  <2> DEFINE r == [radio EXCEPT !.scan = FALSE]
             e == Plain("scanFailed")
  <2>1. Radio(r, e) /\ Charge(1)
    BY <1>3 DEF ScanFails
  <2>2. e \in Events /\ e.kind = "scanFailed"
    BY PlainTyped
  <2>3. r \in Radios /\ r.creating = radio.creating
    BY <1>0 DEF Radios
  <2>4. ~r.scan /\ r.stopped = radio.stopped
    BY <1>0 DEF Radios
  <2> HIDE DEF r, e
  <2>5. QED
    BY <2>1, <2>2, <2>3, <2>4, ChargeKeeps, RadioStep DEF OfLink
<1>4. CASE FailsToConnect
  <2> DEFINE r == [radio EXCEPT !.creating = None, !.cancelled = FALSE]
             e == Plain("connectFailed")
             n == IF radio.cancelled THEN 0 ELSE 1
  <2>1. Radio(r, e) /\ Charge(n)
    BY <1>4 DEF FailsToConnect
  <2>2. e \in Events /\ e.kind = "connectFailed"
    BY PlainTyped
  <2>3. r \in Radios /\ r.creating = None
    BY <1>0 DEF Radios
  <2>4. r.scan = radio.scan /\ r.stopped = radio.stopped
    BY <1>0 DEF Radios
  <2>5. n \in Nat
    OBVIOUS
  <2> HIDE DEF r, e, n
  <2>6. incidents' \in 0 .. MaxIncidents
    BY <2>1, <2>5, ChargeKeeps
  <2>7. QED
    BY <2>1, <2>2, <2>3, <2>4, <2>6, RadioStep DEF OfLink
<1>5. QED
  BY <1>1, <1>2, <1>3, <1>4

(* A candidate is heard by a scan that goes on or is ending.                *)
LEMMA AdvertisesStep ==
  ASSUME NsInv, NEW p \in Pads, Advertises(p)
  PROVE  NsInv' /\ NoneBegun
<1>1. /\ UNCHANGED <<app, phase, changed, calls, queue, mishaps>>
      /\ link' = link /\ radio' = radio /\ incidents' = incidents /\ candidate' = p
      /\ radio.scan \/ radio.stopped
      /\ app.target \in {None, p}
  BY DEF Advertises, Outside
<1>2. /\ link \in [Pads -> LinkState] /\ radio \in Radios /\ incidents' \in 0 .. MaxIncidents
  BY <1>1, InvReady, QuietlyTyped
<1>3. LinksFit'
  BY <1>1 DEF NsInv, LinksFit, LinkFits
<1>4. \A q \in Pads : /\ ~link[q].up \/ Moves(link[q], link'[q], FALSE)
                      /\ ~link[q].up => ~link'[q].up
  BY <1>1, <1>2, MovesItself
<1>5. /\ TypeFits' /\ LinksFit' /\ RingFits' /\ PurgesAreDrops' /\ StepsAreEarned'
      /\ LossIsSeen' /\ SomethingIsDue'
  BY <1>1, <1>2, <1>3, <1>4, SilentStep
<1>6. ScanFits'
  <2> SUFFICES ASSUME "strayScan" \notin mishaps
               PROVE  ScanIsWanted(Now)' /\ CandidateFits'
    BY <1>1 DEF ScanFits
  <2>1. ScanIsWanted(Now) /\ CandidateFits
    BY DEF NsInv, ScanFits
  <2>2. ScanIsWanted(Now)'
    BY <1>1, <2>1 DEF ScanIsWanted, Now
  <2>3. CandidateFits'
    BY <1>1, <2>1 DEF CandidateFits, ScanIsWanted, Now
  <2>4. QED
    BY <2>2, <2>3
<1>7. QED
  BY <1>1, <1>5, <1>6 DEF NsInv, NoneBegun

(* A link that is down, and one just made.                                  *)
LEMMA DownTyped ==
  Down \in LinkState /\ [Down EXCEPT !.up = TRUE] \in LinkState
<1>1. <<>> \in Seq(Writes) /\ <<>> \in Seq(Index)
  OBVIOUS
<1>2. Down \in LinkState
  BY <1>1 DEF Down, LinkState
<1>3. [Down EXCEPT !.up = TRUE] \in LinkState
  BY <1>2 DEF LinkState
<1>4. QED
  BY <1>2, <1>3

(* A link is made, to a controller that had none.                           *)
LEMMA ConnectsStep ==
  ASSUME NsInv, NEW p \in Pads, Connects(p)
  PROVE  NsInv' /\ NoneBegun
<1> DEFINE r == [radio EXCEPT !.creating = None, !.cancelled = FALSE]
           l == [Down EXCEPT !.up = TRUE]
           e == Answer("connected", p, TRUE)
<1>1. /\ radio.creating = p /\ radio' = r /\ link' = [link EXCEPT ![p] = l] /\ Tell(e)
      /\ UNCHANGED <<app, phase, changed, calls, candidate, incidents>>
  BY DEF Connects, Outside
<1>2. /\ radio \in Radios /\ link \in [Pads -> LinkState] /\ candidate \in Pads \cup {None}
      /\ incidents' \in 0 .. MaxIncidents
  BY <1>1, InvReady, QuietlyTyped
<1>3. e \in Events /\ e.kind = "connected" /\ e.pad = p
  BY AnswerTyped, ZenonT(40) DEF EventKinds
<1>4. r \in Radios /\ r.creating = None
  BY <1>2 DEF Radios
<1>5. r.scan = radio.scan /\ r.stopped = radio.stopped
  BY <1>2 DEF Radios
<1>6. l \in LinkState /\ l.up = TRUE /\ Sound(l)
  <2>1. l.up = TRUE /\ l.owed = <<>> /\ l.writes = <<>>
    BY DEF Down
  <2>2. QED
    BY <2>1, DownTyped DEF Sound, Indexed
<1> HIDE DEF r, l, e
<1>7. link' \in [Pads -> LinkState] /\ link'[p] = l /\ \A q \in Pads \ {p} : link'[q] = link[q]
  BY <1>1, <1>2, <1>6
<1>8. ~link[p].up
  BY <1>1 DEF NsInv, LinksFit, LinkFits
<1>9. MovesOrEnds(e)
  <2> SUFFICES ASSUME NEW q \in Pads
               PROVE  ~link[q].up \/ Moves(link[q], link'[q], e.kind = "searched" /\ e.pad = q)
    BY DEF MovesOrEnds
  <2> DEFINE told == e.kind = "searched" /\ e.pad = q
  <2>1. told \in BOOLEAN
    OBVIOUS
  <2> HIDE DEF told
  <2>2. Moves(link[q], link[q], told)
    BY <1>2, <2>1, MovesItself
  <2>3. QED
    BY <1>7, <1>8, <2>2 DEF told
<1>10. LinksFit'
  <2> SUFFICES ASSUME NEW q \in Pads
               PROVE  LinkFits(q)'
    BY DEF LinksFit
  <2>1. QED
    BY <1>1, <1>4, <1>6, <1>7, NoneIsNoPad DEF NsInv, LinksFit, LinkFits
<1>11. Holds(e, link')
  BY <1>3, <1>6, <1>7 DEF Holds
<1>12. /\ TypeFits' /\ LinksFit' /\ RingFits' /\ PurgesAreDrops' /\ StepsAreEarned'
       /\ LossIsSeen' /\ SomethingIsDue'
  BY <1>1, <1>2, <1>3, <1>4, <1>7, <1>9, <1>10, <1>11, TellStep DEF OfPads
<1>13. ScanFits'
  BY <1>1, <1>5, TellMishaps, ScanFitsStays
<1>14. QED
  BY <1>1, <1>4, <1>12, <1>13 DEF NsInv, NoneBegun

(* A link is lost.                                                          *)
LEMMA LinkEndsStep ==
  ASSUME NsInv, NEW p \in Pads, LinkEnds(p)
  PROVE  NsInv' /\ NoneBegun
<1> DEFINE e == Answer("disconnected", p, TRUE)
           n == IF link[p].leaving THEN 0 ELSE 1
<1>1. link[p].up /\ OnLink(p, Down, e) /\ Charge(n)
  BY DEF LinkEnds
<1>2. e \in Events /\ e.kind = "disconnected" /\ e.pad = p
  BY AnswerTyped, ZenonT(40) DEF EventKinds
<1>3. n \in Nat
  OBVIOUS
<1> HIDE DEF e, n
<1>4. incidents' \in 0 .. MaxIncidents
  BY <1>1, <1>3, ChargeKeeps
<1>5. QED
  BY <1>1, <1>2, <1>4, DownTyped, OnLinkStep DEF OfLink

(* A link that has something to do is up.                                   *)
LEMMA BusyIsUp ==
  ASSUME NsInv, NEW p \in Pads,
         \/ link[p].searching \/ link[p].registering
         \/ link[p].writes # <<>> \/ link[p].owed # <<>>
  PROVE  link[p].up
  BY DEF NsInv, LinksFit, LinkFits, Down

(* The link to one controller.                                              *)
LEMMA LinkOf ==
  ASSUME NsInv, NEW p \in Pads
  PROVE  /\ link[p] \in LinkState /\ Sound(link[p])
         /\ link[p].writes \in Seq(Writes) /\ link[p].owed \in Seq(Index)
<1>1. link[p] \in LinkState
  BY InvReady
<1>2. QED
  BY <1>1 DEF LinkState, NsInv, LinksFit, LinkFits

(* The first of a sequence and the rest.                                    *)
LEMMA TailOf ==
  ASSUME NEW S, NEW s \in Seq(S), s # <<>>
  PROVE  /\ Tail(s) \in Seq(S) /\ Head(s) \in S /\ Head(s) = s[1] /\ 1 \in DOMAIN s
         /\ \A i \in DOMAIN Tail(s) : i + 1 \in DOMAIN s /\ Tail(s)[i] = s[i + 1]
<1>1. /\ Head(s) \in S /\ Tail(s) \in Seq(S) /\ Len(Tail(s)) = Len(s) - 1
      /\ \A i \in 1 .. Len(Tail(s)) : Tail(s)[i] = s[i + 1]
  BY HeadTailProperties
<1>2. Len(s) \in Nat /\ Len(s) # 0 /\ DOMAIN s = 1 .. Len(s) /\ DOMAIN Tail(s) = 1 .. Len(Tail(s))
  BY <1>1, EmptySeq
<1>3. Head(s) = s[1]
  OBVIOUS
<1>4. QED
  BY <1>1, <1>2, <1>3

(* The search ends.                                                         *)
LEMMA SearchedStep ==
  ASSUME NsInv, NEW p \in Pads, Searched(p)
  PROVE  NsInv' /\ NoneBegun
<1> DEFINE l == [link[p] EXCEPT !.searching = FALSE]
           e == Answer("searched", p, TRUE)
<1>1. link[p].searching /\ OnLink(p, l, e) /\ Charge(0)
  BY DEF Searched
<1>2. e \in Events /\ e.kind = "searched" /\ e.pad = p
  BY AnswerTyped DEF EventKinds
<1>3. link[p] \in LinkState /\ link[p].up /\ incidents' \in 0 .. MaxIncidents
  BY <1>1, BusyIsUp, LinkOf, ChargeKeeps
<1>4. l \in LinkState /\ l.owed = link[p].owed /\ l.writes = link[p].writes
      /\ l.on = link[p].on /\ l.heard = link[p].heard
  BY <1>3 DEF LinkState
<1>5. l.up = link[p].up /\ l.leaving = link[p].leaving
  BY <1>3 DEF LinkState
<1> HIDE DEF l, e
<1>6. Moves(link[p], l, e.kind = "searched")
  BY <1>2, <1>4, <1>5 DEF Moves, Sound
<1>7. link'[p] = l
  BY <1>1, InvReady DEF OnLink
<1>8. Holds(e, link')
  BY <1>2, <1>3, <1>5, <1>7 DEF Holds
<1>9. QED
  BY <1>1, <1>2, <1>3, <1>4, <1>6, <1>8, OnLinkStep DEF OfLink

(* A registration is answered.                                              *)
LEMMA RegistersStep ==
  ASSUME NsInv, NEW p \in Pads, NEW ok \in BOOLEAN, Registers(p, ok)
  PROVE  NsInv' /\ NoneBegun
<1> DEFINE l == [link[p] EXCEPT !.registering = FALSE]
           e == Answer("registered", p, ok)
<1>1. link[p].registering /\ OnLink(p, l, e) /\ Refusal(ok)
  BY DEF Registers
<1>2. e \in Events /\ e.kind = "registered" /\ e.pad = p
  BY AnswerTyped DEF EventKinds
<1>3. link[p] \in LinkState /\ link[p].up /\ incidents' \in 0 .. MaxIncidents
  BY <1>1, BusyIsUp, LinkOf, RefusalKeeps
<1>4. l \in LinkState /\ l.owed = link[p].owed /\ l.writes = link[p].writes
      /\ l.on = link[p].on /\ l.heard = link[p].heard
  BY <1>3 DEF LinkState
<1>5. l.up = link[p].up /\ l.leaving = link[p].leaving /\ l.searching = link[p].searching
  BY <1>3 DEF LinkState
<1> HIDE DEF l, e
<1>6. Moves(link[p], l, e.kind = "searched")
  BY <1>4, <1>5 DEF Moves, Sound
<1>7. link'[p] = l
  BY <1>1, InvReady DEF OnLink
<1>8. Holds(e, link')
  BY <1>2, <1>3, <1>5, <1>7 DEF Holds
<1>9. QED
  BY <1>1, <1>2, <1>3, <1>4, <1>6, <1>8, OnLinkStep DEF OfLink

(* What has been sent leaves the queue of writes as it was behind it.       *)
LEMMA SentKeepsWrites ==
  ASSUME NEW s \in Seq(Writes), s # <<>>, Indexed(s)
  PROVE  Indexed(Tail(s))
  BY TailOf DEF Indexed

(* A subscription is written and answered.                                  *)
LEMMA SendsSubscriptionStep ==
  ASSUME NsInv, NEW p \in Pads, NEW ok \in BOOLEAN, SendsSubscription(p, ok)
  PROVE  NsInv' /\ NoneBegun
<1> DEFINE x == Head(link[p].writes)
           t == Tail(link[p].writes)
           on == IF ok THEN link[p].on \cup {x.kind} ELSE link[p].on
           l == [link[p] EXCEPT !.writes = t, !.on = on]
           e == Event("written", p, ok, x)
<1>1. link[p].writes # <<>> /\ x.kind \in Subscriptions /\ OnLink(p, l, e) /\ Refusal(ok)
  BY DEF SendsSubscription
<1>2. link[p] \in LinkState /\ Sound(link[p]) /\ link[p].writes \in Seq(Writes)
  BY LinkOf
<1>3. link[p].up /\ incidents' \in 0 .. MaxIncidents
  BY <1>1, BusyIsUp, RefusalKeeps
<1>4. x \in Writes /\ t \in Seq(Writes) /\ Indexed(t)
  BY <1>1, <1>2, TailOf, SentKeepsWrites DEF Sound
<1>5. on \subseteq Subscriptions /\ link[p].on \subseteq on /\ (ok => x.kind \in on)
  BY <1>1, <1>2 DEF LinkState
<1> HIDE DEF x, t, on
<1>6. e \in Events /\ e.kind = "written" /\ e.pad = p /\ e.of = x
  BY <1>4, EventTyped DEF EventKinds
<1>7. e.ok = ok
  BY <1>4 DEF Event
<1>8. l \in LinkState /\ l.owed = link[p].owed /\ l.writes = t /\ l.on = on /\ l.heard = link[p].heard
  BY <1>2, <1>4, <1>5 DEF LinkState
<1>9. l.up = link[p].up /\ l.leaving = link[p].leaving /\ l.searching = link[p].searching
  BY <1>2 DEF LinkState
<1> HIDE DEF l, e
<1>10. Moves(link[p], l, e.kind = "searched")
  BY <1>2, <1>4, <1>5, <1>8, <1>9 DEF Moves, Sound
<1>11. link'[p] = l
  BY <1>1, InvReady DEF OnLink
<1>12. Holds(e, link')
  BY <1>3, <1>5, <1>6, <1>7, <1>8, <1>9, <1>11 DEF Holds
<1>13. QED
  BY <1>1, <1>3, <1>6, <1>8, <1>10, <1>12, OnLinkStep DEF OfLink

(* A command is written; the controller has heard it.                       *)
LEMMA SendsCommandStep ==
  ASSUME NsInv, NEW p \in Pads, SendsCommand(p)
  PROVE  NsInv' /\ NoneBegun
<1> DEFINE x == Head(link[p].writes)
           t == Tail(link[p].writes)
           heard == link[p].heard \cup {x.index}
           owed == Append(link[p].owed, x.index)
           l == [link[p] EXCEPT !.writes = t, !.heard = heard, !.owed = owed]
           e == Event("written", p, TRUE, x)
<1>1. link[p].writes # <<>> /\ x.kind = "command" /\ OnLink(p, l, e) /\ Charge(0)
  BY DEF SendsCommand
<1>2. /\ link[p] \in LinkState /\ Sound(link[p]) /\ link[p].writes \in Seq(Writes)
      /\ link[p].owed \in Seq(Index)
  BY LinkOf
<1>3. link[p].up /\ incidents' \in 0 .. MaxIncidents
  BY <1>1, BusyIsUp, ChargeKeeps
<1>4. x \in Writes /\ t \in Seq(Writes) /\ Indexed(t)
  BY <1>1, <1>2, TailOf, SentKeepsWrites DEF Sound
<1>5. x.index \in Index
  BY <1>1, <1>2, TailOf DEF Sound, Indexed
<1>6. heard \subseteq Index /\ link[p].heard \subseteq heard
  BY <1>2, <1>5 DEF LinkState
<1>7. owed \in Seq(Index) /\ \A i \in DOMAIN owed : owed[i] \in heard
  <2>1. /\ owed \in Seq(Index) /\ Len(owed) = Len(link[p].owed) + 1
        /\ \A i \in 1 .. Len(link[p].owed) : owed[i] = link[p].owed[i]
        /\ owed[Len(link[p].owed) + 1] = x.index
    BY <1>2, <1>5, AppendProperties
  <2>2. DOMAIN owed = 1 .. Len(link[p].owed) + 1 /\ DOMAIN link[p].owed = 1 .. Len(link[p].owed)
        /\ Len(link[p].owed) \in Nat
    BY <1>2, <2>1
  <2>3. \A i \in DOMAIN link[p].owed : link[p].owed[i] \in link[p].heard
    BY <1>2 DEF Sound
  <2> HIDE DEF owed, x
  <2>4. QED
    BY <2>1, <2>2, <2>3
<1> HIDE DEF x, t, heard, owed
<1>8. e \in Events /\ e.kind = "written" /\ e.pad = p /\ e.of = x
  BY <1>4 DEF Event, Events, EventKinds
<1>9. l \in LinkState /\ l.owed = owed /\ l.writes = t /\ l.on = link[p].on /\ l.heard = heard
  BY <1>2, <1>4, <1>6, <1>7 DEF LinkState
<1>10. l.up = link[p].up /\ l.leaving = link[p].leaving /\ l.searching = link[p].searching
  BY <1>2 DEF LinkState
<1> HIDE DEF l, e
<1>11. Moves(link[p], l, e.kind = "searched")
  BY <1>4, <1>6, <1>7, <1>9, <1>10 DEF Moves, Sound
<1>12. link'[p] = l
  BY <1>1, InvReady DEF OnLink
<1>13. Holds(e, link')
  BY <1>1, <1>3, <1>8, <1>10, <1>12 DEF Holds
<1>14. QED
  BY <1>1, <1>3, <1>8, <1>9, <1>11, <1>13, OnLinkStep DEF OfLink

(* A link that owes one answer less, whether it was given or not.           *)
LEMMA OwesLess ==
  ASSUME NsInv, NEW p \in Pads, link[p].owed # <<>>
  PROVE  LET l == [link[p] EXCEPT !.owed = Tail(@)]
         IN /\ link[p].up /\ l \in LinkState /\ l.up = TRUE /\ l.heard = link[p].heard
            /\ Head(link[p].owed) \in Index \cap link[p].heard
            /\ \A told \in BOOLEAN : Moves(link[p], l, told)
<1> DEFINE t == Tail(link[p].owed)
           l == [link[p] EXCEPT !.owed = t]
<1>1. link[p] \in LinkState /\ Sound(link[p]) /\ link[p].owed \in Seq(Index)
  BY LinkOf
<1>2. link[p].up
  BY BusyIsUp
<1>3. /\ t \in Seq(Index) /\ Head(link[p].owed) \in Index /\ Head(link[p].owed) = link[p].owed[1]
      /\ 1 \in DOMAIN link[p].owed
      /\ \A i \in DOMAIN t : i + 1 \in DOMAIN link[p].owed /\ t[i] = link[p].owed[i + 1]
  BY <1>1, TailOf
<1>4. \A i \in DOMAIN t : t[i] \in link[p].heard
  BY <1>1, <1>3 DEF Sound
<1>5. Head(link[p].owed) \in link[p].heard
  BY <1>1, <1>3 DEF Sound
<1> HIDE DEF t
<1>6. /\ l \in LinkState /\ l.owed = t /\ l.writes = link[p].writes
      /\ l.on = link[p].on /\ l.heard = link[p].heard
  BY <1>1, <1>3 DEF LinkState
<1>7. l.up = link[p].up /\ l.leaving = link[p].leaving /\ l.searching = link[p].searching
  BY <1>1 DEF LinkState
<1> HIDE DEF l
<1>8. \A told \in BOOLEAN : Moves(link[p], l, told)
  BY <1>4, <1>6, <1>7 DEF Moves, Sound
<1>9. l.up = TRUE
  BY <1>1, <1>2, <1>7 DEF LinkState
<1>10. QED
  BY <1>2, <1>3, <1>5, <1>6, <1>8, <1>9 DEF l, t

(* The controller acknowledges a command it has heard.                      *)
LEMMA AcknowledgesStep ==
  ASSUME NsInv, NEW p \in Pads, Acknowledges(p)
  PROVE  NsInv' /\ NoneBegun
<1> DEFINE l == [link[p] EXCEPT !.owed = Tail(@)]
           x == Write("command", Head(link[p].owed))
           e == Event("acked", p, TRUE, x)
<1>1. link[p].owed # <<>> /\ Charge(0) /\ (OnLink(p, l, e) \/ Silently(p, l))
  BY DEF Acknowledges
<1>2. /\ link[p].up /\ l \in LinkState /\ l.up = TRUE /\ l.heard = link[p].heard
      /\ Head(link[p].owed) \in Index \cap link[p].heard
      /\ \A told \in BOOLEAN : Moves(link[p], l, told)
  BY <1>1, OwesLess
<1>3. x \in Writes /\ x.index = Head(link[p].owed)
  BY <1>2 DEF Write, Writes, Index
<1>4. incidents' \in 0 .. MaxIncidents
  BY <1>1, ChargeKeeps
<1> HIDE DEF l, x
<1>5. e \in Events /\ e.kind = "acked" /\ e.pad = p /\ e.of = x
  BY <1>3 DEF Event, Events, EventKinds
<1> HIDE DEF e
<1>6. CASE OnLink(p, l, e)
  <2>1. link'[p] = l
    BY <1>6, InvReady DEF OnLink
  <2>2. Holds(e, link')
    BY <1>2, <1>3, <1>5, <2>1 DEF Holds
  <2>3. Moves(link[p], l, e.kind = "searched")
    BY <1>2, <1>5
  <2>4. QED
    BY <1>2, <1>4, <1>5, <1>6, <2>2, <2>3, OnLinkStep DEF OfLink
<1>7. CASE Silently(p, l)
  BY <1>2, <1>4, <1>7, SilentlyStep
<1>8. QED
  BY <1>1, <1>6, <1>7

(* An answer never comes.                                                   *)
LEMMA StaysSilentStep ==
  ASSUME NsInv, NEW p \in Pads, StaysSilent(p)
  PROVE  NsInv' /\ NoneBegun
<1>1. incidents' \in 0 .. MaxIncidents
  BY ChargeKeeps DEF StaysSilent
<1>2. CASE link[p].owed # <<>> /\ Silently(p, [link[p] EXCEPT !.owed = Tail(@)])
  <2> DEFINE l == [link[p] EXCEPT !.owed = Tail(@)]
  <2>1. link[p].up /\ l \in LinkState /\ \A told \in BOOLEAN : Moves(link[p], l, told)
    BY <1>2, OwesLess
  <2> HIDE DEF l
  <2>2. QED
    BY <1>1, <1>2, <2>1, SilentlyStep DEF l
<1>3. CASE link[p].registering /\ Silently(p, [link[p] EXCEPT !.registering = FALSE])
  <2> DEFINE l == [link[p] EXCEPT !.registering = FALSE]
  <2>1. link[p] \in LinkState /\ link[p].up
    BY <1>3, BusyIsUp, LinkOf
  <2>2. /\ l \in LinkState /\ l.owed = link[p].owed /\ l.writes = link[p].writes
        /\ l.on = link[p].on /\ l.heard = link[p].heard
    BY <2>1 DEF LinkState
  <2>3. l.up = link[p].up /\ l.leaving = link[p].leaving /\ l.searching = link[p].searching
    BY <2>1 DEF LinkState
  <2> HIDE DEF l
  <2>4. Moves(link[p], l, FALSE)
    BY <2>2, <2>3 DEF Moves, Sound
  <2>5. QED
    BY <1>1, <1>3, <2>1, <2>2, <2>4, SilentlyStep DEF l
<1>4. CASE link[p].writes # <<>> /\ Silently(p, [link[p] EXCEPT !.writes = Tail(@)])
  <2> DEFINE t == Tail(link[p].writes)
             l == [link[p] EXCEPT !.writes = t]
  <2>1. /\ link[p] \in LinkState /\ Sound(link[p]) /\ link[p].writes \in Seq(Writes)
        /\ link[p].up
    BY <1>4, BusyIsUp, LinkOf
  <2>2. t \in Seq(Writes) /\ Indexed(t)
    BY <1>4, <2>1, TailOf, SentKeepsWrites DEF Sound
  <2> HIDE DEF t
  <2>3. /\ l \in LinkState /\ l.owed = link[p].owed /\ l.writes = t
        /\ l.on = link[p].on /\ l.heard = link[p].heard
    BY <2>1, <2>2 DEF LinkState
  <2>4. l.up = link[p].up /\ l.leaving = link[p].leaving /\ l.searching = link[p].searching
    BY <2>1 DEF LinkState
  <2>5. Silently(p, l)
    BY <1>4 DEF t
  <2> HIDE DEF l
  <2>6. Moves(link[p], l, FALSE)
    BY <2>2, <2>3, <2>4 DEF Moves, Sound
  <2>7. QED
    BY <1>1, <2>1, <2>3, <2>5, <2>6, SilentlyStep
<1>5. QED
  BY <1>2, <1>3, <1>4 DEF StaysSilent

(* The stack and the controllers keep the invariant.                        *)
LEMMA StackStep ==
  ASSUME NsInv, Stack
  PROVE  NsInv' /\ NoneBegun
<1>1. CASE PowersOn \/ ScanStops \/ ScanFails \/ FailsToConnect
  BY <1>1, RadioActionsStep
<1>2. ASSUME NEW p \in Pads,
             \/ Advertises(p) \/ Connects(p) \/ LinkEnds(p) \/ Searched(p)
             \/ SendsCommand(p) \/ Acknowledges(p) \/ StaysSilent(p)
      PROVE  NsInv' /\ NoneBegun
  BY <1>2, AdvertisesStep, ConnectsStep, LinkEndsStep, SearchedStep, SendsCommandStep,
     AcknowledgesStep, StaysSilentStep
<1>3. ASSUME NEW p \in Pads, NEW ok \in BOOLEAN, Registers(p, ok) \/ SendsSubscription(p, ok)
      PROVE  NsInv' /\ NoneBegun
  BY <1>3, RegistersStep, SendsSubscriptionStep
<1>4. QED
  BY <1>1, <1>2, <1>3 DEF Stack

-----------------------------------------------------------------------------
(* The theorems.                                                            *)
LEMMA InitialWorld ==
  ASSUME Init
  PROVE  /\ app \in AppState /\ ~app.connected /\ Staged(app)
         /\ link \in [Pads -> LinkState] /\ (\A p \in Pads : link[p] = Down)
         /\ radio \in Radios /\ ~radio.scan /\ ~radio.stopped /\ radio.creating = None
<1>1. PICK wanted \in BOOLEAN :
        app = [powered |-> FALSE, wanted |-> wanted, scanning |-> FALSE, scanRetry |-> FALSE,
               connecting |-> FALSE, connected |-> FALSE, conn |-> None, target |-> None,
               stage |-> "idle", registered |-> FALSE, registering |-> FALSE, cccd |-> "none",
               action |-> "none", retries |-> 0, deadline |-> FALSE, waiting |-> FALSE,
               index |-> 0]
  BY DEF Init
<1>2. /\ "idle" \in Stages /\ "none" \in RecoveryActions /\ "none" \in Subscriptions \cup {"none"}
      /\ None \in Pads \cup {None} /\ None \in Pads \cup Elsewhere \cup {None}
      /\ 0 \in 0 .. MaxRetries /\ 0 \in 0 .. Len(Commands)
  BY CommandsFinite DEF Stages, RecoveryActions
<1>3. app \in AppState
  BY <1>1, <1>2 DEF AppState
<1>4. ~app.connected
  BY <1>1
<1>5. Staged(app)
  BY <1>1 DEF Staged
<1>6. link \in [Pads -> LinkState] /\ (\A p \in Pads : link[p] = Down)
  BY DownTyped DEF Init
<1>7. radio \in Radios /\ ~radio.scan /\ ~radio.stopped /\ radio.creating = None
  BY DEF Init, Radios
<1>8. QED
  BY <1>3, <1>4, <1>5, <1>6, <1>7

(* The invariant holds at the start.                                        *)
LEMMA NsInit == Init => NsInv
<1> SUFFICES ASSUME Init
             PROVE  NsInv
  OBVIOUS
<1>1. /\ candidate = None /\ queue = <<>> /\ phase = "calls"
      /\ mishaps = {} /\ changed = FALSE /\ incidents = 0 /\ calls = 0
  BY DEF Init
<1>2. queue \in Seq(Events) /\ DOMAIN queue = {}
  BY <1>1
<1>3. 0 \in 0 .. MaxIncidents /\ 0 \in 0 .. MaxCalls
  BY NsLinkAssumption
<1>4. TypeOK
  BY <1>1, <1>2, <1>3, InitialWorld DEF TypeOK, Radios
<1>5. TypeFits
  BY <1>2, <1>4, InitialWorld DEF TypeFits, Queued, Led
<1>6. LinksFit
  <2> SUFFICES ASSUME NEW p \in Pads
               PROVE  LinkFits(p)
    BY DEF LinksFit
  <2>1. link[p] = Down /\ radio.creating # p
    BY InitialWorld, NoneIsNoPad
  <2>2. Sound(Down)
    BY DEF Sound, Indexed, Down
  <2>3. QED
    BY <2>1, <2>2 DEF LinkFits
<1>7. RingFits /\ PurgesAreDrops
  BY <1>1, <1>2 DEF RingFits, QueueHolds, PurgesAreDrops
<1>8. StepsAreEarned /\ LossIsSeen /\ SomethingIsDue
  BY InitialWorld DEF StepsAreEarned, LossIsSeen, SomethingIsDue
<1>9. ScanFits
  BY <1>1, InitialWorld DEF ScanFits, ScanIsWanted, CandidateFits, Now
<1>10. QED
  BY <1>5, <1>6, <1>7, <1>8, <1>9 DEF NsInv

(* A connection is begun with a candidate, which the scan fits.             *)
OnlyWanted ==
  radio'.creating \notin {radio.creating, None} =>
    changed \/ "strayScan" \in mishaps
      \/ (app.wanted /\ app.target \in {None, radio'.creating})

(* Every step keeps the invariant, and begins no connection but one that    *)
(* fits.                                                                    *)
LEMMA NsStep == NsInv /\ [Next]_vars => NsInv' /\ (OnlyWanted \/ UNCHANGED vars)
<1> SUFFICES ASSUME NsInv, [Next]_vars
             PROVE  NsInv' /\ (OnlyWanted \/ UNCHANGED vars)
  OBVIOUS
<1>1. NoneBegun => OnlyWanted
  BY DEF NoneBegun, OnlyWanted
<1>2. CASE ProcessControlEvent
  BY <1>1, <1>2, ProcessControlEventStep
<1>3. CASE ProcessCandidate
  <2>1. NsInv' /\ (NoneBegun \/ (radio'.creating = candidate /\ candidate # None))
    BY <1>3, ProcessCandidateStep
  <2>2. OnlyWanted
    BY <1>1, <2>1 DEF NsInv, ScanFits, CandidateFits, OnlyWanted
  <2>3. QED
    BY <2>1, <2>2
<1>4. ASSUME NEW ackDue \in BOOLEAN, NEW due \in BOOLEAN, Timers(ackDue, due)
      PROVE  NsInv' /\ OnlyWanted
  BY <1>1, <1>4, TimersStep
<1>5. CASE Application
  BY <1>1, <1>5, ApplicationStep
<1>6. CASE Stack
  BY <1>1, <1>6, StackStep
<1>7. CASE UNCHANGED vars
  <2>1. /\ app' = app /\ candidate' = candidate /\ queue' = queue /\ phase' = phase /\ link' = link
        /\ radio' = radio /\ mishaps' = mishaps /\ changed' = changed
        /\ incidents' = incidents /\ calls' = calls
    BY <1>7 DEF vars
  <2>2. TypeFits' /\ LinksFit' /\ RingFits' /\ PurgesAreDrops'
    BY <2>1 DEF NsInv, TypeFits, TypeOK, LinksFit, LinkFits, RingFits, PurgesAreDrops
  <2>3. StepsAreEarned' /\ LossIsSeen' /\ SomethingIsDue'
    BY <2>1 DEF NsInv, StepsAreEarned, LossIsSeen, LossQueued, SomethingIsDue
  <2>4. ScanFits'
    BY <2>1 DEF NsInv, ScanFits, ScanIsWanted, CandidateFits, Now
  <2>5. QED
    BY <1>7, <2>2, <2>3, <2>4 DEF NsInv
<1>8. QED
  BY <1>2, <1>3, <1>4, <1>5, <1>6, <1>7 DEF Next, Poll

(* The invariant holds in every state the NS2Pro link (ble_gatt_sifli.c)    *)
(* reaches, however many controllers, commands, retries and places in the   *)
(* ring there are.                                                          *)
THEOREM NsCorrect == Spec => []NsInv
<1>1. NsInv /\ [Next]_vars => NsInv'
  BY NsStep
<1>2. QED
  BY <1>1, NsInit, PTL DEF Spec

(* The code's variables and the ring stay within their types: the index of  *)
(* the commands, the retries and the stage are never out of range.          *)
THEOREM NsTypeCorrect == Spec => []TypeOK
<1>1. NsInv => TypeOK
  BY DEF NsInv, TypeFits
<1>2. QED
  BY <1>1, NsCorrect, PTL

(* What is ready has earned it.                                             *)
LEMMA NsInvIsReady == NsInv => ReadyIsEarned
<1> SUFFICES ASSUME NsInv, app.connected, link[app.conn].up, ~LossQueued(app.conn),
                    "purged" \notin mishaps
             PROVE  /\ 0 .. app.index - 1 \subseteq link[app.conn].heard
                    /\ app.stage = "ready" =>
                         /\ app.index = Len(Commands)
                         /\ link[app.conn].on = Subscriptions \/ "borrowed" \in mishaps
  BY DEF ReadyIsEarned
<1>1. Earned(app, link[app.conn], "borrowed" \in mishaps)
  BY LossQueuedIsIn DEF NsInv, StepsAreEarned
<1>2. app.conn \in Pads /\ Staged(app) /\ link \in [Pads -> LinkState]
  BY InvReady DEF Led
<1>3. link[app.conn].on \subseteq Subscriptions
  BY <1>2 DEF LinkState
<1>4. app.stage = "ready" => link[app.conn].on = Subscriptions \/ "borrowed" \in mishaps
  BY <1>1, <1>3 DEF Earned, Subscriptions
<1>5. QED
  BY <1>1, <1>2, <1>4 DEF Earned, Staged

(* A link passes for ready only when its controller has got every command   *)
(* of the set-up and both subscriptions on this very connection             *)
(* (ble_gatt_send_current_init_command, ble_gatt_process_control_event),    *)
(* unless the ring holds the news of its loss, or a loss emptied the ring,  *)
(* or an answer was another link's.                                         *)
THEOREM ReadyIsAlwaysEarned == Spec => []ReadyIsEarned
  BY NsCorrect, NsInvIsReady, PTL

(* A link the code takes for up and that is down has its loss in the ring   *)
(* (ble_gatt_control_event_push), unless another link's loss emptied the    *)
(* full ring of it.                                                         *)
THEOREM LossesAreSeen == Spec => []LossIsSeen
<1>1. NsInv => LossIsSeen
  BY DEF NsInv
<1>2. QED
  BY <1>1, NsCorrect, PTL

(* A link that is up and not ready has an answer that is sure to come, a    *)
(* deadline, or an acknowledgement timed: the set-up never hangs, unless    *)
(* the full ring dropped an event.                                          *)
THEOREM SomethingIsAlwaysDue == Spec => []SomethingIsDue
<1>1. NsInv => SomethingIsDue
  BY DEF NsInv
<1>2. QED
  BY <1>1, NsCorrect, PTL

(* A connection is begun only while one is wanted and only with the target, *)
(* unless a call came after the candidate was heard                         *)
(* (ble_gatt_process_candidate).                                            *)
THEOREM OnlyWantedAreConnected == Spec => OnlyWantedConnections
<1>1. NsInv /\ [Next]_vars => [OnlyWanted]_vars
  BY NsStep
<1>2. OnlyWantedConnections <=> [][OnlyWanted]_vars
  BY DEF OnlyWantedConnections, OnlyWanted
<1>3. QED
  BY <1>1, <1>2, NsCorrect, PTL DEF Spec

=============================================================================
