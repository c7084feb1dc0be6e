------------------------ MODULE ManagerReply_proofs -------------------------
(***************************************************************************)
(* A client in step takes the whole reply to its own command, for any      *)
(* number of commands, any room in the queue and replies of any length.    *)
(*                                                                         *)
(* Commands are numbered as they are sent.  Those that wait are newer than *)
(* the one the loop is at work on, and that one is newer than the reply    *)
(* that is shown; none is newer than the client's.  So the loop never      *)
(* replaces a reply the client is reading, and it builds the next one      *)
(* where no poll looks.                                                    *)
(***************************************************************************)
EXTENDS ManagerReply, TLAPS

(* A chunk of a reply, of any length.                                       *)
Chunks == [of : Nat, offset : Nat]

(* What the order of the replies needs to know of the types.                *)
Types ==
  /\ sets \in Seq(Nat)
  /\ awaited \in BOOLEAN /\ dualsense \in BOOLEAN
  /\ buffers \in [{0, 1} -> [of : Nat, length : Nat, offset : Nat]]
  /\ current \in {0, 1}
  /\ task \in [at : {"take", "bytes", "length", "offset", "flip"}, of : Nat, length : Nat \ {0}]
  /\ client \in [of : Nat, at : {"idle", "polls", "done", "failed"},
                 chunks : Seq(Chunks)]

(* The buffer a client reads, and the loop between two commands.            *)
Shown == buffers[current]
Idle == LoopAt("take")

(* The order of the commands, from the reply that is shown to the newest.   *)
OrderInv ==
  /\ Shown.of <= client.of
  /\ ~Idle => Shown.of < task.of /\ task.of <= client.of
  /\ \A i \in 1 .. Len(sets) :
       /\ sets[i] <= client.of
       /\ sets[i] # 0 => Shown.of < sets[i] /\ (~Idle => task.of < sets[i])
  /\ \A i, j \in 1 .. Len(sets) : i < j /\ sets[i] # 0 /\ sets[j] # 0 => sets[i] < sets[j]

(* How far the loop is with the reply it builds.                            *)
BuildInv ==
  /\ Shown.length > 0 /\ Shown.offset <= Shown.length
  /\ task.at \in {"length", "offset", "flip"} => buffers[Build].of = task.of
  /\ task.at \in {"offset", "flip"} => buffers[Build].length = task.length
  /\ task.at = "flip" => buffers[Build].offset = 0

(* What a client in step has of its reply.                                  *)
ClientInv ==
  mixed = {} =>
    /\ client.at # "failed"
    /\ client.at = "polls" =>
         /\ dualsense => awaited
         /\ Shown.of < client.of => client.chunks = <<>>
         /\ Shown.of = client.of =>
              Len(client.chunks) = Shown.offset /\ Whole(client.of, client.chunks)
    /\ client.at = "done" =>
         /\ Shown.of = client.of
         /\ Len(client.chunks) = Shown.length /\ Whole(client.of, client.chunks)

(* The inductive invariant of the replies.                                  *)
ReplyInv == Types /\ OrderInv /\ BuildInv /\ ClientInv

(* A sequence with one more element.                                        *)
LEMMA Appended ==
  ASSUME NEW S, NEW s \in Seq(S), NEW e \in S
  PROVE  /\ Append(s, e) \in Seq(S) /\ Len(Append(s, e)) = Len(s) + 1
         /\ Append(s, e)[Len(s) + 1] = e
         /\ \A i \in 1 .. Len(s) : Append(s, e)[i] = s[i]
  OBVIOUS

(* The manager begins with no reply and no client.                          *)
LEMMA InitReply == Init => ReplyInv
<1> SUFFICES ASSUME Init PROVE ReplyInv
  OBVIOUS
<1>1. Shown = [of |-> 0, length |-> 1, offset |-> 0]
  BY DEF Init, Shown
<1>2. awaited \in BOOLEAN /\ dualsense \in BOOLEAN /\ current \in {0, 1}
  BY DEF Init
<1>3. buffers \in [{0, 1} -> [of : Nat, length : Nat, offset : Nat]]
  BY DEF Init
<1>4. task \in [at : {"take", "bytes", "length", "offset", "flip"}, of : Nat, length : Nat \ {0}]
  BY DEF Init
<1>5. client \in [of : Nat, at : {"idle", "polls", "done", "failed"},
                  chunks : Seq(Chunks)]
  BY DEF Init
<1>6. sets \in Seq(Nat) /\ Len(sets) = 0
  <2>1. sets = <<>>
    BY DEF Init
  <2>2. QED
    BY <2>1
<1>7. task.at = "take" /\ client.of = 0 /\ client.at = "idle"
  BY DEF Init
<1>8. QED
  BY <1>1, <1>2, <1>3, <1>4, <1>5, <1>6, <1>7 DEF ReplyInv, Types, OrderInv, BuildInv, ClientInv,
     Idle, LoopAt

(* A request that is queued comes last, and one that is not changes nothing. *)
LEMMA Queued ==
  ASSUME NEW n \in Nat, sets \in Seq(Nat), Set(n)
  PROVE  /\ sets' \in Seq(Nat)
         /\ \A i \in 1 .. Len(sets') : \/ i \in 1 .. Len(sets) /\ sets'[i] = sets[i]
                                       \/ i = Len(sets) + 1 /\ sets'[i] = n
<1>1. CASE sets' = Append(sets, n)
  BY <1>1
<1>2. CASE sets' = sets
  BY <1>2
<1>3. QED
  BY <1>1, <1>2 DEF Set

(* The order survives a request that is newer than the others, or none.     *)
LEMMA OrderQueued ==
  ASSUME Types, OrderInv, NEW n \in Nat, Set(n),
         client'.of \in Nat, client.of <= client'.of, n = 0 \/ (n = client'.of /\ client.of < n)
  PROVE  OrderInv'
<1>1. Shown' = Shown /\ Idle' = Idle /\ UNCHANGED task
  BY DEF Set, Shown, Idle, LoopAt
<1>2. Shown.of \in Nat /\ task.of \in Nat /\ client.of \in Nat
  BY DEF Shown, Types
<1>3. sets \in Seq(Nat)
  BY DEF Types
<1>4. /\ Len(sets') \in Nat /\ Len(sets) \in Nat
      /\ \A i \in 1 .. Len(sets) : sets[i] \in Nat
      /\ \A i \in 1 .. Len(sets') : \/ i \in 1 .. Len(sets) /\ sets'[i] = sets[i]
                                    \/ i = Len(sets) + 1 /\ sets'[i] = n
  BY <1>3, Queued
<1>5. Shown'.of <= client'.of /\ (~Idle' => Shown'.of < task'.of /\ task'.of <= client'.of)
  BY <1>1, <1>2 DEF OrderInv
<1>6. ASSUME NEW i \in 1 .. Len(sets')
      PROVE  /\ sets'[i] <= client'.of
             /\ sets'[i] # 0 => Shown'.of < sets'[i] /\ (~Idle' => task'.of < sets'[i])
  BY <1>1, <1>2, <1>4, SMTT(30) DEF OrderInv
<1>7. ASSUME NEW i \in 1 .. Len(sets'), NEW j \in 1 .. Len(sets'),
             i < j, sets'[i] # 0, sets'[j] # 0
      PROVE  sets'[i] < sets'[j]
  BY <1>2, <1>4, <1>7 DEF OrderInv
<1>8. QED
  BY <1>5, <1>6, <1>7 DEF OrderInv

(* The host sets a feature, of the manager or of the controller.            *)
LEMMA SetSteps ==
  ASSUME ReplyInv, SendCommand \/ SetNative
  PROVE  ReplyInv'
<1>0. Types /\ OrderInv /\ BuildInv /\ ClientInv /\ sets \in Seq(Nat) /\ client.of \in Nat
  BY DEF ReplyInv, Types
<1>1. CASE SendCommand
  <2> DEFINE n == client.of + 1
  <2>1. n \in Nat /\ Set(n) /\ client' = [of |-> n, at |-> "polls", chunks |-> <<>>]
    BY <1>0, <1>1 DEF SendCommand
  <2>2. Shown' = Shown /\ UNCHANGED <<dualsense, buffers, current, task>>
    BY <2>1 DEF Set, Shown
  <2>3. Types'
    <3>1. awaited' \in BOOLEAN
      BY <1>1 DEF SendCommand
    <3>2. client' \in [of : Nat, at : {"idle", "polls", "done", "failed"}, chunks : Seq(Chunks)]
      BY <2>1
    <3>3. sets' \in Seq(Nat)
      BY <1>0, <2>1, Queued
    <3>4. QED
      BY <1>0, <2>2, <3>1, <3>2, <3>3 DEF Types
  <2>4. OrderInv'
    BY <1>0, <2>1, OrderQueued
  <2>5. BuildInv'
    BY <1>0, <2>2 DEF BuildInv, Build
  <2>6. mixed' = {} => awaited' = TRUE
    BY <1>1 DEF SendCommand
  <2>7. Shown.of \in Nat /\ Shown.of <= client.of
    BY <1>0 DEF OrderInv, Types, Shown
  <2>8. Shown'.of < client'.of
    BY <1>0, <2>1, <2>2, <2>7
  <2>9. ClientInv'
    BY <2>1, <2>2, <2>6, <2>7, <2>8 DEF ClientInv
  <2>10. QED
    BY <2>3, <2>4, <2>5, <2>9 DEF ReplyInv
<1>2. CASE SetNative
  <2>1. 0 \in Nat /\ Set(0) /\ UNCHANGED <<awaited, client, mixed>>
    BY <1>2 DEF SetNative
  <2>2. Shown' = Shown /\ UNCHANGED <<dualsense, buffers, current, task>>
    BY <2>1 DEF Set, Shown
  <2>3. sets' \in Seq(Nat)
    BY <1>0, <2>1, Queued
  <2>4. Types'
    BY <1>0, <2>1, <2>2, <2>3 DEF Types
  <2>5. OrderInv'
    <3>1. client'.of = client.of
      BY <2>1
    <3>2. client'.of \in Nat /\ client.of <= client'.of
      BY <1>0, <3>1
    <3>3. QED
      BY <1>0, <2>1, <3>2, OrderQueued
  <2>6. BuildInv' /\ ClientInv'
    BY <1>0, <2>1, <2>2 DEF BuildInv, Build, ClientInv
  <2>7. QED
    BY <2>4, <2>5, <2>6 DEF ReplyInv
<1>3. QED
  BY <1>1, <1>2

(* What a poll leaves alone.                                                *)
LEMMA PollKeepsOrder ==
  ASSUME ReplyInv, Shown'.of = Shown.of, client'.of = client.of, UNCHANGED <<sets, task>>
  PROVE  OrderInv'
  BY DEF ReplyInv, OrderInv, Idle, LoopAt

(* A poll takes a chunk of the reply that is shown.  While the client is in *)
(* step that is a chunk of its own, or none.                                *)
LEMMA PollSteps ==
  ASSUME ReplyInv, GetChunk
  PROVE  ReplyInv'
<1> DEFINE reply == Shown
           chunk == [of |-> reply.of, offset |-> reply.offset]
           chunks == client'.chunks
<1>1. /\ UNCHANGED <<sets, dualsense, current, task, natives>>
      /\ client.at = "polls" /\ client'.of = client.of
      /\ chunks = IF reply.offset < reply.length THEN Append(client.chunks, chunk) ELSE client.chunks
      /\ client' = [of |-> client.of,
                    at |-> IF Len(chunks) >= reply.length THEN "done" ELSE "polls",
                    chunks |-> chunks]
  BY DEF GetChunk, ReplyInv, Types, Shown
<1>2. /\ reply \in [of : Nat, length : Nat, offset : Nat]
      /\ reply.of \in Nat /\ reply.length \in Nat /\ reply.offset \in Nat
      /\ client.of \in Nat /\ client.chunks \in Seq(Chunks) /\ chunk \in Chunks
  BY DEF ReplyInv, Types, Shown, Chunks
<1>3. buffers' = [buffers EXCEPT ![current] = AfterChunk(reply)]
  BY DEF GetChunk, Shown
<1>4. /\ AfterChunk(reply) \in [of : Nat, length : Nat, offset : Nat]
      /\ AfterChunk(reply).of = reply.of /\ AfterChunk(reply).length = reply.length
      /\ AfterChunk(reply).offset = IF reply.offset < reply.length THEN reply.offset + 1
                                    ELSE reply.length
  BY <1>2 DEF AfterChunk
<1>5. Shown' = AfterChunk(reply) /\ buffers'[Build] = buffers[Build] /\ Build' = Build
  <2>1. /\ buffers \in [{0, 1} -> [of : Nat, length : Nat, offset : Nat]]
        /\ current \in {0, 1} /\ Build \in {0, 1} /\ Build # current
    BY DEF ReplyInv, Types, Build
  <2>2. buffers'[current] = AfterChunk(reply) /\ buffers'[Build] = buffers[Build]
    BY <1>3, <2>1
  <2>3. QED
    BY <1>1, <2>2 DEF Shown, Build
<1>6. chunks \in Seq(Chunks)
  BY <1>1, <1>2, Appended
<1>7. Types'
  <2>1. awaited' \in BOOLEAN
    BY DEF GetChunk, StillAwaited
  <2>2. buffers' \in [{0, 1} -> [of : Nat, length : Nat, offset : Nat]]
    <3>1. buffers \in [{0, 1} -> [of : Nat, length : Nat, offset : Nat]]
      BY DEF ReplyInv, Types
    <3>2. QED
      BY <1>3, <1>4, <3>1
  <2>3. client' \in [of : Nat, at : {"idle", "polls", "done", "failed"},
                     chunks : Seq(Chunks)]
    <3>1. PICK at \in {"idle", "polls", "done", "failed"}, c \in Seq(Chunks) :
            client' = [of |-> client.of, at |-> at, chunks |-> c]
      BY <1>1, <1>6
    <3>2. QED
      BY <1>2, <3>1
  <2>4. QED
    BY <1>1, <2>1, <2>2, <2>3 DEF ReplyInv, Types
<1>8. OrderInv'
  BY <1>1, <1>4, <1>5, PollKeepsOrder
<1>9. BuildInv'
  BY <1>1, <1>2, <1>4, <1>5 DEF ReplyInv, BuildInv
<1>10. ASSUME mixed' = {} PROVE ClientInv'
  <2>1. mixed = {} /\ ~(reply.offset < reply.length /\ reply.of < client.of)
        /\ ~(dualsense /\ reply.of < client.of /\ ~StillAwaited(reply))
    BY <1>10 DEF GetChunk, Shown
  <2>2. awaited' = StillAwaited(reply)
    BY DEF GetChunk, Shown
  <2>3. reply.of <= client.of /\ reply.length > 0 /\ reply.offset <= reply.length
    BY DEF ReplyInv, OrderInv, BuildInv
  <2>4. client.at = "polls" /\ mixed = {} /\ dualsense => awaited
    BY DEF ReplyInv, ClientInv
  <2>5. CASE reply.of < client.of
    <3>1. chunks = <<>> /\ Len(chunks) = 0
      BY <1>1, <2>1, <2>5 DEF ReplyInv, ClientInv
    <3>2. client'.at = "polls"
      BY <1>1, <1>2, <2>3, <3>1
    <3>3. dualsense' => awaited'
      BY <1>1, <2>1, <2>2, <2>5
    <3>4. QED
      BY <1>1, <1>4, <1>5, <2>5, <3>1, <3>2, <3>3 DEF ClientInv
  <2>6. CASE reply.of = client.of
    <3>1. Len(client.chunks) = reply.offset /\ Whole(client.of, client.chunks)
      BY <1>1, <2>1, <2>6 DEF ReplyInv, ClientInv
    <3>2. Whole(client.of, chunks)
      <4>1. CASE reply.offset < reply.length
        <5>1. chunks = Append(client.chunks, chunk)
          BY <1>1, <4>1
        <5>2. Len(chunks) = reply.offset + 1 /\ chunks[reply.offset + 1] = chunk
          BY <1>2, <3>1, <5>1, Appended
        <5>3. \A i \in 1 .. reply.offset : chunks[i] = client.chunks[i]
          BY <1>2, <3>1, <5>1, Appended
        <5>4. QED
          <6>1. ASSUME NEW i \in 1 .. Len(chunks)
                PROVE  chunks[i] = [of |-> client.of, offset |-> i - 1]
            <7>1. CASE i = reply.offset + 1
              BY <1>2, <2>6, <5>2, <7>1
            <7>2. CASE i \in 1 .. reply.offset
              BY <1>2, <3>1, <5>3, <7>2 DEF Whole
            <7>3. QED
              BY <1>2, <5>2, <7>1, <7>2
          <6>2. QED
            BY <6>1 DEF Whole
      <4>2. CASE ~(reply.offset < reply.length)
        BY <1>1, <3>1, <4>2
      <4>3. QED
        BY <4>1, <4>2
    <3>3. Len(chunks) = IF reply.offset < reply.length THEN reply.offset + 1 ELSE reply.offset
      BY <1>1, <1>2, <3>1
    <3>4. CASE Len(chunks) >= reply.length
      <4>1. client'.at = "done"
        BY <1>1, <3>4
      <4>2. Len(chunks) = reply.length
        BY <1>2, <2>3, <3>3, <3>4
      <4>3. QED
        BY <1>1, <1>4, <1>5, <2>6, <3>2, <4>1, <4>2 DEF ClientInv
    <3>5. CASE ~(Len(chunks) >= reply.length)
      <4>1. client'.at = "polls"
        BY <1>1, <3>5
      <4>2. Len(chunks) = AfterChunk(reply).offset /\ AfterChunk(reply).offset < reply.length
        BY <1>2, <1>4, <3>3, <3>5
      <4>3. dualsense' => awaited'
        BY <1>1, <1>4, <2>1, <2>2, <2>4, <4>2 DEF StillAwaited
      <4>4. QED
        BY <1>1, <1>2, <1>4, <1>5, <2>6, <3>2, <4>1, <4>2, <4>3 DEF ClientInv
    <3>6. QED
      BY <3>4, <3>5
  <2>7. QED
    BY <1>2, <2>3, <2>5, <2>6
<1>11. QED
  BY <1>7, <1>8, <1>9, <1>10 DEF ReplyInv, ClientInv

(* A poll that reaches a native feature, which one in step never does, a    *)
(* client that gives up, and a switch of the persona.                       *)
LEMMA LeavingSteps ==
  ASSUME ReplyInv, GetNative \/ GiveUp \/ SwitchPersona
  PROVE  ReplyInv'
<1>0. Types /\ OrderInv /\ BuildInv /\ ClientInv
  BY DEF ReplyInv
<1>1. Shown' = Shown /\ Build' = Build /\ UNCHANGED <<buffers, current, task, mixed>>
  BY DEF GetNative, GiveUp, SwitchPersona, Shown, Build
<1>2. /\ client'.of = client.of /\ client'.chunks = client.chunks
      /\ client'.at \in {"idle", "polls", "done", "failed"} /\ client'.at # "polls"
      /\ client' \in [of : Nat, at : {"idle", "polls", "done", "failed"}, chunks : Seq(Chunks)]
  BY <1>0 DEF GetNative, GiveUp, SwitchPersona, Types
<1>3. sets' \in {sets, <<>>} /\ awaited' \in BOOLEAN /\ dualsense' \in BOOLEAN
  <2>1. awaited \in BOOLEAN /\ dualsense \in BOOLEAN
    BY <1>0 DEF Types
  <2>2. QED
    BY <2>1 DEF GetNative, GiveUp, SwitchPersona
<1>4. Types'
  <2>1. sets' \in Seq(Nat)
    <3>1. sets \in Seq(Nat) /\ <<>> \in Seq(Nat)
      BY <1>0 DEF Types
    <3>2. QED
      BY <1>3, <3>1
  <2>2. QED
    BY <1>0, <1>1, <1>2, <1>3, <2>1 DEF Types
<1>5. OrderInv'
  <2>1. CASE sets' = sets
    BY <1>0, <1>1, <1>2, <2>1 DEF OrderInv, Idle, LoopAt
  <2>2. CASE sets' = <<>>
    BY <1>0, <1>1, <1>2, <2>2 DEF OrderInv, Idle, LoopAt
  <2>3. QED
    BY <1>3, <2>1, <2>2
<1>6. BuildInv'
  BY <1>0, <1>1 DEF BuildInv
<1>7. ClientInv'
  <2>1. mixed' = {} => client'.at # "failed"
    BY <1>0 DEF GetNative, GiveUp, SwitchPersona, ClientInv, ToManager, Types
  <2>2. client'.at = "done" => client.at = "done"
    BY <1>0 DEF GetNative, GiveUp, SwitchPersona, Types
  <2>3. QED
    BY <1>0, <1>1, <1>2, <2>1, <2>2 DEF ClientInv
<1>8. QED
  BY <1>4, <1>5, <1>6, <1>7 DEF ReplyInv

(* The loop takes what was set first; a command it begins is the oldest.    *)
LEMMA TakeStep ==
  ASSUME ReplyInv, TakeSet
  PROVE  ReplyInv'
<1>0. Types /\ OrderInv /\ BuildInv /\ ClientInv
  BY DEF ReplyInv
<1>1. /\ Idle /\ sets \in Seq(Nat) /\ sets # <<>> /\ sets' = Tail(sets)
      /\ UNCHANGED <<awaited, dualsense, buffers, current, client, mixed>>
  BY <1>0 DEF TakeSet, Loop, Idle, Types
<1>2. Shown' = Shown /\ Build' = Build
  BY <1>1 DEF Shown, Build
<1>3. /\ sets' \in Seq(Nat) /\ Len(sets) \in Nat /\ Len(sets) > 0 /\ Len(sets') = Len(sets) - 1
      /\ Head(sets) = sets[1] /\ Head(sets) \in Nat
      /\ \A i \in 1 .. Len(sets') : sets'[i] = sets[i + 1] /\ i + 1 \in 1 .. Len(sets)
      /\ \A i \in 1 .. Len(sets) : sets[i] \in Nat
  BY <1>1
<1>4. Shown.of \in Nat /\ client.of \in Nat
  BY <1>0 DEF Types, Shown
<1>5. /\ Shown'.of <= client'.of
      /\ \A i \in 1 .. Len(sets') : sets'[i] <= client'.of /\ (sets'[i] # 0 => Shown'.of < sets'[i])
      /\ \A i, j \in 1 .. Len(sets') :
           i < j /\ sets'[i] # 0 /\ sets'[j] # 0 => sets'[i] < sets'[j]
  BY <1>0, <1>1, <1>2, <1>3, <1>4 DEF OrderInv
<1>6. ClientInv'
  BY <1>0, <1>1, <1>2 DEF ClientInv
<1>7. CASE Head(sets) = 0
  <2>1. task' = task
    BY <1>7 DEF TakeSet
  <2>2. Types' /\ OrderInv' /\ BuildInv'
    BY <1>0, <1>1, <1>2, <1>3, <1>5, <2>1 DEF Types, OrderInv, BuildInv, Idle, LoopAt
  <2>3. QED
    BY <1>6, <2>2 DEF ReplyInv
<1>8. CASE Head(sets) # 0
  <2>1. PICK n \in 1 .. MaxLength : task' = [at |-> "bytes", of |-> Head(sets), length |-> n]
    BY <1>8 DEF TakeSet
  <2>2. n \in Nat \ {0}
    OBVIOUS
  <2>3. Types'
    BY <1>0, <1>1, <1>3, <2>1, <2>2 DEF Types
  <2>4. Shown'.of < task'.of /\ task'.of <= client'.of
    BY <1>0, <1>1, <1>2, <1>3, <1>8, <2>1 DEF OrderInv
  <2>5. \A i \in 1 .. Len(sets') : sets'[i] # 0 => task'.of < sets'[i]
    <3>1. task'.of = sets[1]
      BY <1>3, <2>1
    <3>2. SUFFICES ASSUME NEW i \in 1 .. Len(sets'), sets'[i] # 0
                   PROVE  task'.of < sets'[i]
      OBVIOUS
    <3>3. i + 1 \in 1 .. Len(sets) /\ 1 \in 1 .. Len(sets) /\ 1 < i + 1 /\ sets'[i] = sets[i + 1]
      BY <1>3
    <3>4. sets[1] # 0 /\ sets[i + 1] # 0
      BY <1>3, <1>8, <3>2, <3>3
    <3>5. sets[1] < sets[i + 1]
      BY <1>0, <3>3, <3>4 DEF OrderInv
    <3>6. QED
      BY <3>1, <3>3, <3>5
  <2>6. OrderInv'
    BY <1>5, <2>4, <2>5 DEF OrderInv
  <2>7. BuildInv'
    BY <1>0, <1>2, <2>1 DEF BuildInv
  <2>8. QED
    BY <1>6, <2>3, <2>6, <2>7 DEF ReplyInv
<1>9. QED
  BY <1>7, <1>8

(* A record of the reply with one field written.                            *)
LEMMA Written ==
  ASSUME NEW r \in [of : Nat, length : Nat, offset : Nat], NEW n \in Nat
  PROVE  /\ [r EXCEPT !.of = n] = [of |-> n, length |-> r.length, offset |-> r.offset]
         /\ [r EXCEPT !.length = n] = [of |-> r.of, length |-> n, offset |-> r.offset]
         /\ [r EXCEPT !.offset = n] = [of |-> r.of, length |-> r.length, offset |-> n]
  OBVIOUS

(* The reply is written where no poll looks.                                *)
LEMMA WriteSteps ==
  ASSUME ReplyInv, WriteBytes \/ WriteLength \/ WriteOffset
  PROVE  ReplyInv'
<1>0. Types /\ OrderInv /\ BuildInv /\ ClientInv
  BY DEF ReplyInv
<1>1. /\ UNCHANGED <<sets, awaited, dualsense, current, client, mixed>>
      /\ ~Idle /\ task'.at # "take" /\ task'.of = task.of /\ task'.length = task.length
      /\ task' \in [at : {"take", "bytes", "length", "offset", "flip"}, of : Nat, length : Nat \ {0}]
  BY <1>0 DEF WriteBytes, WriteLength, WriteOffset, Building, LoopAt, LoopTo, Loop, Idle, Types
<1>2. /\ Build \in {0, 1} /\ Build # current /\ current \in {0, 1}
      /\ buffers \in [{0, 1} -> [of : Nat, length : Nat, offset : Nat]]
      /\ buffers[Build] \in [of : Nat, length : Nat, offset : Nat]
      /\ task.of \in Nat /\ task.length \in Nat
  BY <1>0 DEF Types, Build
<1>3. /\ buffers' \in [{0, 1} -> [of : Nat, length : Nat, offset : Nat]]
      /\ buffers'[current] = buffers[current]
      /\ task'.at \in {"length", "offset", "flip"} => buffers'[Build].of = task.of
      /\ task'.at \in {"offset", "flip"} => buffers'[Build].length = task.length
      /\ task'.at = "flip" => buffers'[Build].offset = 0
  <2>1. CASE WriteBytes
    <3>1. buffers' = [buffers EXCEPT ![Build] = [of |-> task.of, length |-> buffers[Build].length,
                                                 offset |-> buffers[Build].offset]]
      <4>1. buffers' = [buffers EXCEPT ![Build] = [buffers[Build] EXCEPT !.of = task.of]]
        BY <2>1 DEF WriteBytes
      <4>2. QED
        BY <1>2, <4>1, Written
    <3>2. task'.at = "length"
      BY <1>0, <2>1 DEF WriteBytes, Building, LoopTo, Types
    <3>3. QED
      BY <1>2, <3>1, <3>2
  <2>2. CASE WriteLength
    <3>1. buffers' = [buffers EXCEPT ![Build] = [of |-> buffers[Build].of, length |-> task.length,
                                                 offset |-> buffers[Build].offset]]
      <4>1. buffers' = [buffers EXCEPT ![Build] = [buffers[Build] EXCEPT !.length = task.length]]
        BY <2>2 DEF WriteLength
      <4>2. QED
        BY <1>2, <4>1, Written
    <3>2. task.at = "length" /\ task'.at = "offset"
      BY <1>0, <2>2 DEF WriteLength, Building, LoopAt, LoopTo, Types
    <3>3. QED
      BY <1>0, <1>2, <3>1, <3>2 DEF BuildInv
  <2>3. CASE WriteOffset
    <3>1. buffers' = [buffers EXCEPT ![Build] = [of |-> buffers[Build].of,
                                                 length |-> buffers[Build].length, offset |-> 0]]
      <4>1. buffers' = [buffers EXCEPT ![Build] = [buffers[Build] EXCEPT !.offset = 0]]
        BY <2>3 DEF WriteOffset
      <4>2. QED
        BY <1>2, <4>1, Written
    <3>2. task.at = "offset" /\ task'.at = "flip"
      BY <1>0, <2>3 DEF WriteOffset, Building, LoopAt, LoopTo, Types
    <3>3. QED
      BY <1>0, <1>2, <3>1, <3>2 DEF BuildInv
  <2>4. QED
    BY <2>1, <2>2, <2>3
<1>4. Shown' = Shown /\ Build' = Build /\ ~Idle'
  BY <1>1, <1>3 DEF Shown, Build, Idle, LoopAt
<1>5. Types'
  BY <1>0, <1>1, <1>3 DEF Types
<1>6. OrderInv'
  BY <1>0, <1>1, <1>4 DEF OrderInv
<1>7. BuildInv'
  BY <1>0, <1>1, <1>3, <1>4 DEF BuildInv
<1>8. ClientInv'
  BY <1>0, <1>1, <1>4 DEF ClientInv
<1>9. QED
  BY <1>5, <1>6, <1>7, <1>8 DEF ReplyInv

(* A reply that is shown is newer than the one before, so no client is      *)
(* through with that one, and none in step has taken anything of it.        *)
LEMMA ShowStep ==
  ASSUME ReplyInv, MakeCurrent
  PROVE  ReplyInv'
<1>0. Types /\ OrderInv /\ BuildInv /\ ClientInv
  BY DEF ReplyInv
<1>1. /\ UNCHANGED <<sets, awaited, dualsense, buffers, client, mixed>>
      /\ current' = Build /\ Build \in {0, 1} /\ task.at = "flip"
      /\ task' \in [at : {"take", "bytes", "length", "offset", "flip"}, of : Nat, length : Nat \ {0}]
      /\ task'.at = "take"
  BY <1>0, SMTT(30) DEF MakeCurrent, Building, LoopAt, LoopTo, Loop, Types, Build
<1>2. /\ Shown' = buffers[Build] /\ Shown'.of = task.of /\ Shown'.length = task.length
      /\ Shown'.offset = 0
  BY <1>0, <1>1 DEF Shown, BuildInv
<1>3. /\ Shown.of < task.of /\ task.of <= client.of /\ Shown.of \in Nat /\ task.of \in Nat
      /\ client.of \in Nat /\ task.length \in Nat \ {0}
  BY <1>0, <1>1 DEF OrderInv, Types, Shown, Idle, LoopAt
<1>4. Types'
  BY <1>0, <1>1 DEF Types
<1>5. OrderInv'
  BY <1>0, <1>1, <1>2, <1>3 DEF OrderInv, Idle, LoopAt
<1>6. BuildInv'
  BY <1>1, <1>2, <1>3 DEF BuildInv
<1>7. ClientInv'
  <2>1. mixed = {} => client.at # "done" /\ (client.at = "polls" => client.chunks = <<>>)
    BY <1>0, <1>3 DEF ClientInv
  <2>2. Whole(client.of, <<>>) /\ Len(<<>>) = 0
    BY DEF Whole
  <2>3. QED
    BY <1>0, <1>1, <1>2, <1>3, <2>1, <2>2 DEF ClientInv
<1>8. QED
  BY <1>4, <1>5, <1>6, <1>7 DEF ReplyInv

(* The invariant holds in every reachable state.                            *)
THEOREM ReplyCorrect == Spec => []ReplyInv
<1>1. ReplyInv /\ UNCHANGED vars => ReplyInv'
  BY DEF vars, ReplyInv, Types, OrderInv, BuildInv, ClientInv, Shown, Idle, LoopAt, Build
<1>2. ReplyInv /\ [Next]_vars => ReplyInv'
  BY <1>1, SetSteps, PollSteps, LeavingSteps, TakeStep, WriteSteps, ShowStep DEF Next, Serve
<1>3. QED
  BY <1>2, InitReply, PTL DEF Spec

(* However early a client polls and wherever a poll falls into the building *)
(* of a reply, a client in step takes every chunk of its own command's      *)
(* reply, in order (ns2_profile_on_feature_get, queue_json).                *)
THEOREM AnswersStayWhole == Spec => []AnswersAreWhole
<1>1. ReplyInv => AnswersAreWhole
  BY DEF ReplyInv, ClientInv, AnswersAreWhole, Shown
<1>2. QED
  BY <1>1, ReplyCorrect, PTL

(* The variables keep their types: no reply is longer than the longest, and *)
(* the queue does not outgrow its room.                                     *)
Tasks == [at : {"take", "bytes", "length", "offset", "flip"}, of : CommandIds, length : 1 .. MaxLength]
(* The clients.                                                             *)
Clients == [of : CommandIds, at : {"idle", "polls", "done", "failed"}, chunks : Seq(Chunk)]

(* The manager begins with its types.                                       *)
LEMMA InitReplyType ==
  ASSUME SetRoom \in Nat, MaxLength \in Nat \ {0}, MaxExchanges \in Nat, MaxNatives \in Nat, Init
  PROVE  ReplyTypeOK
<1>1. 0 \in CommandIds /\ 0 \in 0 .. MaxLength /\ 1 \in 0 .. MaxLength /\ 1 \in 1 .. MaxLength
  BY DEF CommandIds
<1>2. buffers \in [{0, 1} -> Reply] /\ current \in {0, 1}
  BY <1>1 DEF Init, Reply
<1>3. task \in Tasks
  BY <1>1 DEF Init, Tasks
<1>4. client \in Clients
  BY <1>1 DEF Init, Clients
<1>5. sets \in Seq(CommandIds) /\ Len(sets) <= SetRoom
  <2>1. sets = <<>> /\ <<>> \in Seq(CommandIds) /\ Len(<<>>) = 0
    BY DEF Init
  <2>2. QED
    BY <2>1
<1>6. awaited \in BOOLEAN /\ dualsense \in BOOLEAN
  BY DEF Init
<1>7. mixed \in SUBSET Mixed /\ natives \in 0 .. MaxNatives
  BY DEF Init
<1>8. QED
  BY <1>2, <1>3, <1>4, <1>5, <1>6, <1>7 DEF ReplyTypeOK, Tasks, Clients

(* A set of the host's adds to the queue what fits.                         *)
LEMMA SetTyped ==
  ASSUME SetRoom \in Nat, sets \in Seq(CommandIds), Len(sets) <= SetRoom,
         NEW n \in CommandIds, Set(n)
  PROVE  sets' \in Seq(CommandIds) /\ Len(sets') <= SetRoom
<1>1. CASE Len(sets) < SetRoom
  <2>1. sets' = Append(sets, n)
    BY <1>1 DEF Set
  <2>2. /\ Append(sets, n) \in Seq(CommandIds) /\ Len(Append(sets, n)) = Len(sets) + 1
        /\ Len(sets) \in Nat
    BY Appended
  <2>3. QED
    BY <1>1, <2>1, <2>2
<1>2. CASE ~(Len(sets) < SetRoom)
  BY <1>2 DEF Set
<1>3. QED
  BY <1>1, <1>2

(* Every step of the loop and of the client keeps the types.                *)
LEMMA ReplyTypeSteps ==
  ASSUME SetRoom \in Nat, MaxLength \in Nat \ {0}, MaxExchanges \in Nat, MaxNatives \in Nat,
         ReplyTypeOK, Next
  PROVE  ReplyTypeOK'
<1> USE DEF Loop, LoopAt, LoopTo
<1>1. /\ sets \in Seq(CommandIds) /\ Len(sets) <= SetRoom
      /\ awaited \in BOOLEAN /\ dualsense \in BOOLEAN
      /\ buffers \in [{0, 1} -> Reply] /\ current \in {0, 1}
      /\ task \in Tasks /\ client \in Clients
      /\ mixed \in SUBSET Mixed /\ natives \in 0 .. MaxNatives
  BY DEF ReplyTypeOK, Tasks, Clients
<1>2. ASSUME sets' \in Seq(CommandIds), Len(sets') <= SetRoom, awaited' \in BOOLEAN,
             dualsense' \in BOOLEAN, buffers' \in [{0, 1} -> Reply], current' \in {0, 1},
             task' \in Tasks, client' \in Clients, mixed' \in SUBSET Mixed,
             natives' \in 0 .. MaxNatives
      PROVE  ReplyTypeOK'
  BY <1>2 DEF ReplyTypeOK, Tasks, Clients
<1>3. CASE SendCommand
  <2>1. client.of + 1 \in CommandIds
    BY <1>1, <1>3 DEF SendCommand, Clients, CommandIds
  <2>2. client' \in Clients
    BY <1>3, <2>1 DEF SendCommand, Clients
  <2>3. sets' \in Seq(CommandIds) /\ Len(sets') <= SetRoom
    BY <1>1, <1>3, <2>1, SetTyped DEF SendCommand
  <2>4. awaited' \in BOOLEAN
    BY <1>3 DEF SendCommand
  <2>5. mixed' \in SUBSET Mixed
    BY <1>1, <1>3 DEF SendCommand, Mixed
  <2>6. UNCHANGED <<dualsense, buffers, current, task, natives>>
    BY <1>3 DEF SendCommand, Set
  <2>7. QED
    BY <1>1, <1>2, <2>2, <2>3, <2>4, <2>5, <2>6
<1>4. CASE SetNative
  <2>1. 0 \in CommandIds
    BY DEF CommandIds
  <2>2. sets' \in Seq(CommandIds) /\ Len(sets') <= SetRoom
    BY <1>1, <1>4, <2>1, SetTyped DEF SetNative
  <2>3. natives' \in 0 .. MaxNatives
    BY <1>1, <1>4 DEF SetNative
  <2>4. UNCHANGED <<dualsense, buffers, current, task, awaited, client, mixed>>
    BY <1>4 DEF SetNative, Set
  <2>5. QED
    BY <1>1, <1>2, <2>2, <2>3, <2>4
<1>5. CASE GetChunk
  <2> DEFINE reply == buffers[current]
             some == reply.offset < reply.length
             chunk == [of |-> reply.of, offset |-> reply.offset]
             chunks == IF some THEN Append(client.chunks, chunk) ELSE client.chunks
  <2>1. reply \in Reply /\ chunk \in Chunk /\ client.chunks \in Seq(Chunk)
    BY <1>1 DEF Reply, Chunk, Clients
  <2>2. AfterChunk(reply) \in Reply
    <3>1. reply.length \in 0 .. MaxLength /\ reply.offset \in 0 .. MaxLength
      BY <2>1 DEF Reply
    <3>2. (IF reply.offset < reply.length THEN reply.offset + 1 ELSE reply.length) \in 0 .. MaxLength
      BY <3>1
    <3>3. QED
      BY <2>1, <3>2 DEF AfterChunk, Reply
  <2>3. chunks \in Seq(Chunk)
    BY <2>1, Appended
  <2>4. buffers' = [buffers EXCEPT ![current] = AfterChunk(reply)]
    BY <1>5 DEF GetChunk
  <2>5. client' = [client EXCEPT !.chunks = chunks,
                                 !.at = IF Len(chunks) >= reply.length THEN "done" ELSE @]
    BY <1>5 DEF GetChunk
  <2>6. awaited' \in BOOLEAN
    BY <1>5 DEF GetChunk, StillAwaited
  <2>7. mixed' \in SUBSET Mixed
    BY <1>1, <1>5 DEF GetChunk, Mixed
  <2>8. UNCHANGED <<sets, dualsense, current, task, natives>>
    BY <1>5 DEF GetChunk
  <2> HIDE DEF reply, chunks
  <2>9. buffers' \in [{0, 1} -> Reply]
    BY <1>1, <2>2, <2>4
  <2>10. client' \in Clients
    BY <1>1, <2>3, <2>5 DEF Clients
  <2>11. QED
    BY <1>1, <1>2, <2>6, <2>7, <2>8, <2>9, <2>10
<1>6. CASE GetNative \/ GiveUp
  <2>1. client' \in Clients
    BY <1>1, <1>6 DEF GetNative, GiveUp, Clients
  <2>2. UNCHANGED <<sets, awaited, dualsense, buffers, current, task, mixed, natives>>
    BY <1>6 DEF GetNative, GiveUp
  <2>3. QED
    BY <1>1, <1>2, <2>1, <2>2
<1>7. CASE SwitchPersona
  <2>1. client' \in Clients
    BY <1>1, <1>7 DEF SwitchPersona, Clients
  <2>2. natives' \in 0 .. MaxNatives
    BY <1>1, <1>7 DEF SwitchPersona
  <2>3. /\ sets' \in Seq(CommandIds) /\ Len(sets') <= SetRoom
        /\ awaited' \in BOOLEAN /\ dualsense' \in BOOLEAN
    <3>1. sets' = <<>> /\ <<>> \in Seq(CommandIds) /\ Len(<<>>) = 0
      BY <1>7 DEF SwitchPersona
    <3>2. awaited' \in BOOLEAN /\ dualsense' \in BOOLEAN
      BY <1>7 DEF SwitchPersona
    <3>3. QED
      BY <3>1, <3>2
  <2>4. UNCHANGED <<buffers, current, task, mixed>>
    BY <1>7 DEF SwitchPersona
  <2>5. QED
    BY <1>1, <1>2, <2>1, <2>2, <2>3, <2>4
<1>8. CASE TakeSet
  <2>1. /\ sets' \in Seq(CommandIds) /\ Len(sets') <= SetRoom /\ Head(sets) \in CommandIds
    <3>1. sets # <<>> /\ sets' = Tail(sets)
      BY <1>8 DEF TakeSet
    <3>2. /\ Tail(sets) \in Seq(CommandIds) /\ Len(Tail(sets)) = Len(sets) - 1
          /\ Head(sets) \in CommandIds /\ Len(sets) \in Nat
      BY <1>1, <3>1
    <3>3. QED
      BY <1>1, <3>1, <3>2
  <2>2. task' \in Tasks
    <3>1. CASE Head(sets) = 0
      BY <1>1, <1>8, <3>1 DEF TakeSet
    <3>2. CASE Head(sets) # 0
      BY <1>8, <2>1, <3>2 DEF TakeSet, Tasks
    <3>3. QED
      BY <3>1, <3>2
  <2>3. UNCHANGED <<awaited, dualsense, buffers, current, natives, client, mixed>>
    BY <1>8 DEF TakeSet
  <2>4. QED
    BY <1>1, <1>2, <2>1, <2>2, <2>3
<1>9. CASE WriteBytes \/ WriteLength \/ WriteOffset
  <2>1. /\ task.of \in CommandIds /\ task.length \in 0 .. MaxLength /\ 0 \in 0 .. MaxLength
        /\ Build \in {0, 1} /\ buffers[Build] \in Reply
    BY <1>1 DEF Tasks, Build
  <2>2. /\ [buffers[Build] EXCEPT !.of = task.of] \in Reply
        /\ [buffers[Build] EXCEPT !.length = task.length] \in Reply
        /\ [buffers[Build] EXCEPT !.offset = 0] \in Reply
    BY <2>1 DEF Reply
  <2>3. PICK reply \in Reply : buffers' = [buffers EXCEPT ![Build] = reply]
    <3>1. CASE WriteBytes
      <4>1. buffers' = [buffers EXCEPT ![Build] = [buffers[Build] EXCEPT !.of = task.of]]
        BY <3>1 DEF WriteBytes
      <4>2. QED
        BY <2>2, <4>1
    <3>2. CASE WriteLength
      <4>1. buffers' = [buffers EXCEPT ![Build] = [buffers[Build] EXCEPT !.length = task.length]]
        BY <3>2 DEF WriteLength
      <4>2. QED
        BY <2>2, <4>1
    <3>3. CASE WriteOffset
      <4>1. buffers' = [buffers EXCEPT ![Build] = [buffers[Build] EXCEPT !.offset = 0]]
        BY <3>3 DEF WriteOffset
      <4>2. QED
        BY <2>2, <4>1
    <3>4. QED
      BY <1>9, <3>1, <3>2, <3>3
  <2>4. buffers' \in [{0, 1} -> Reply]
    BY <1>1, <2>1, <2>3
  <2>5. task' \in Tasks
    BY <1>1, <1>9 DEF WriteBytes, WriteLength, WriteOffset, Building, Tasks
  <2>6. UNCHANGED <<sets, awaited, dualsense, current, client, mixed, natives>>
    BY <1>9 DEF WriteBytes, WriteLength, WriteOffset, Building
  <2>7. QED
    BY <1>1, <1>2, <2>4, <2>5, <2>6
<1>10. CASE MakeCurrent
  <2>1. task' \in Tasks
    BY <1>1, <1>10 DEF MakeCurrent, Building, Tasks
  <2>2. current' \in {0, 1}
    BY <1>1, <1>10 DEF MakeCurrent, Build
  <2>3. UNCHANGED <<sets, awaited, dualsense, buffers, client, mixed, natives>>
    BY <1>10 DEF MakeCurrent, Building
  <2>4. QED
    BY <1>1, <1>2, <2>1, <2>2, <2>3
<1>11. QED
  BY <1>3, <1>4, <1>5, <1>6, <1>7, <1>8, <1>9, <1>10 DEF Next, Serve

=============================================================================
