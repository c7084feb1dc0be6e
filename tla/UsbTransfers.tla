---------------------------- MODULE UsbTransfers -----------------------------
(***************************************************************************)
(* The transfers of the Nintendo persona to the host: input reports, which *)
(* the main loop sends (sf32lb52_usb_send_input_report), and the replies   *)
(* to vendor commands, which the interrupt queues and sends                *)
(* (sf32lb52_usb_device.c), with the port of the USB stack to the          *)
(* controller below them (usb_dc_musb.c).  The interrupt is one step, the  *)
(* loop may be interrupted between any two of its steps.  Both change one  *)
(* register, the mask of the endpoints whose transfers end with an         *)
(* interrupt.  Each endpoint's other registers and its FIFO have addresses *)
(* of their own in this build: what EPIDX selects, which the port saves    *)
(* and restores, plays no part.                                            *)
(*                                                                         *)
(* External: the controller chip, which empties its FIFOs on a bus reset   *)
(* and keeps an interrupt that the mask holds back, the core of the stack, *)
(* and the host, which configures the device once after a reset.  Endpoint *)
(* 0, stalls and what the packets say are left out.                        *)
(*                                                                         *)
(* Operators named for another one and a fault ("RefusedKeepsBusy") are    *)
(* mutated forms, kept to show that the properties can fail.               *)
(***************************************************************************)
EXTENDS Naturals, Sequences

CONSTANTS
  Room,         (* NINTENDO_VENDOR_REPLY_QUEUE_CAPACITY                    *)
  Long,         (* the commands whose reply takes two packets              *)
  Silent,       (* the commands that have no reply                         *)
  MaxCommands,  (* bound on the commands, which are numbered               *)
  MaxEvents     (* bound on resets, suspensions and registrations          *)

Endpoints == {"hid", "vendor"}
CommandNumbers == 1 .. MaxCommands

VARIABLES
  chip,      (* the registers and FIFOs, and the port's g_musb_udc         *)
  dev,       (* the static variables of sf32lb52_usb_device.c              *)
  replies,   (* vendor_reply_queue                                         *)
  caller,    (* where the loop is in sf32lb52_usb_send_input_report        *)
  bus,       (* whether the host has reset, and configured, the device     *)
  sent,      (* commands the host has sent                                 *)
  owed,      (* history: packets of queued replies the host has not got    *)
  clobbered, (* history: endpoints taken out of the mask by a late write   *)
  events

vars == <<chip, dev, replies, caller, bus, sent, owed, clobbered, events>>

Packet == [of : CommandNumbers, left : 1 .. 2]
NoPacket == [of |-> 0, left |-> 0]

(* ready: TXRDY of the endpoints; mask: TXIE; raised: TXIS; in: the packet  *)
(* in the FIFO of the vendor endpoint; enabled: ep_enable; out: the command *)
(* in the FIFO, listens: its bit in RXIE.                                   *)
Chip == [ready : [Endpoints -> BOOLEAN], raised : SUBSET Endpoints,
         mask : SUBSET Endpoints, in : Packet \cup {NoPacket},
         enabled : BOOLEAN, out : CommandNumbers \cup {0}, listens : BOOLEAN]

Dev == [mounted : BOOLEAN, suspended : BOOLEAN, hostReady : BOOLEAN,
        busy : [Endpoints -> BOOLEAN]]

Caller == [at : {"idle", "mark", "enter", "test", "load", "arm", "go"},
           mask : SUBSET Endpoints]

TransfersTypeOK ==
  /\ chip \in Chip /\ dev \in Dev /\ caller \in Caller
  /\ replies \in Seq(CommandNumbers) /\ Len(replies) <= Room
  /\ owed \in Seq(Packet)
  /\ bus \in {"attached", "reset", "configured"}
  /\ sent \in 0 .. MaxCommands /\ clobbered \in SUBSET Endpoints
  /\ events \in 0 .. MaxEvents

Nobody == [e \in Endpoints |-> FALSE]

Init ==
  /\ chip = [ready |-> Nobody, raised |-> {}, mask |-> {},
             in |-> NoPacket, enabled |-> FALSE, out |-> 0, listens |-> FALSE]
  /\ dev = [mounted |-> FALSE, suspended |-> FALSE, hostReady |-> FALSE, busy |-> Nobody]
  /\ caller = [at |-> "idle", mask |-> {}]
  /\ replies = <<>> /\ owed = <<>> /\ bus = "attached"
  /\ sent = 0 /\ clobbered = {} /\ events = 0

Fits(c) == IF c \in Long THEN 2 ELSE 1
PacketsOf(c) == IF c \in Long THEN <<[of |-> c, left |-> 2], [of |-> c, left |-> 1]>>
                ELSE <<[of |-> c, left |-> 1]>>

-----------------------------------------------------------------------------
(* The loop: sf32lb52_usb_send_input_report and, from "enter" on,           *)
(* usbd_ep_start_write for its endpoint.                                    *)

At(step) == caller.at = step
GoTo(step) == caller' = [caller EXCEPT !.at = step]
Fail == /\ dev' = [dev EXCEPT !.busy["hid"] = FALSE]
        /\ GoTo("idle")
LoopOnly == UNCHANGED <<replies, bus, sent, owed, events>>

SendReport ==
  /\ At("idle")
  /\ dev.mounted /\ ~dev.suspended /\ dev.hostReady /\ ~dev.busy["hid"]
  /\ GoTo("mark")
  /\ LoopOnly /\ UNCHANGED <<chip, dev, clobbered>>

MarkBusy ==
  /\ At("mark") /\ GoTo("enter")
  /\ dev' = [dev EXCEPT !.busy["hid"] = TRUE]
  /\ LoopOnly /\ UNCHANGED <<chip, clobbered>>

(* The endpoint must be enabled: -2.                                        *)
EnterWrite ==
  /\ At("enter") /\ LoopOnly /\ UNCHANGED <<chip, clobbered>>
  /\ \/ ~chip.enabled /\ Fail
     \/ chip.enabled /\ GoTo("test") /\ UNCHANGED dev

RefusedKeepsBusy ==
  /\ At("test") /\ chip.ready["hid"] /\ GoTo("idle")
  /\ LoopOnly /\ UNCHANGED <<chip, dev, clobbered>>

(* A packet waits already: -3.                                              *)
Refused ==
  /\ At("test") /\ chip.ready["hid"] /\ Fail
  /\ LoopOnly /\ UNCHANGED <<chip, clobbered>>

(* The packet is written and the mask read, to be written back with one bit *)
(* more.                                                                    *)
LoadPacket ==
  /\ At("test") /\ ~chip.ready["hid"]
  /\ caller' = [caller EXCEPT !.at = "arm", !.mask = chip.mask]
  /\ LoopOnly /\ UNCHANGED <<chip, dev, clobbered>>

ArmInterrupt ==
  /\ At("arm") /\ GoTo("go")
  /\ chip' = [chip EXCEPT !.mask = caller.mask \cup {"hid"}]
  /\ clobbered' = clobbered \cup (chip.mask \ caller.mask)
  /\ LoopOnly /\ UNCHANGED dev

(* TXRDY of its endpoint, whatever has happened to the mask meanwhile.      *)
Launch ==
  /\ At("go") /\ GoTo("idle")
  /\ chip' = [chip EXCEPT !.ready["hid"] = TRUE]
  /\ LoopOnly /\ UNCHANGED <<dev, clobbered>>

Send == SendReport \/ MarkBusy \/ EnterWrite \/ Refused \/ LoadPacket \/ ArmInterrupt \/ Launch

-----------------------------------------------------------------------------
(* The interrupt: USBD_IRQHandler and the callbacks it makes.               *)

(* usbd_ep_start_write of the vendor endpoint, in the interrupt.            *)
Writable(c) == c.enabled /\ ~c.ready["vendor"]
Write(c, packet) ==
  [c EXCEPT !.in = packet, !.mask = @ \cup {"vendor"}, !.ready["vendor"] = TRUE]

(* As StartNext, with a reply begun while another is being sent.            *)
StartNextUnguarded(c, busy, q) ==
  IF q = <<>> THEN [chip |-> c, busy |-> busy, replies |-> q]
  ELSE [chip |-> IF Writable(c) THEN Write(c, [of |-> Head(q), left |-> Fits(Head(q))]) ELSE c,
        busy |-> Writable(c), replies |-> Tail(q)]

(* vendor_start_next_reply, on the chip, the flag and the queue; a reply    *)
(* the controller refuses is dropped.                                       *)
StartNext(c, busy, q) ==
  IF busy \/ q = <<>> THEN [chip |-> c, busy |-> busy, replies |-> q]
  ELSE [chip |-> IF Writable(c) THEN Write(c, [of |-> Head(q), left |-> Fits(Head(q))]) ELSE c,
        busy |-> Writable(c), replies |-> Tail(q)]

Interrupt == UNCHANGED <<caller, clobbered, bus, sent>>

(* The end of a packet the host took.  A transfer with more to send goes on *)
(* with its next packet; gamepad_in_callback and vendor_in_callback.        *)
Served(e) == [chip EXCEPT !.raised = @ \ {e}]

CompleteHid ==
  /\ "hid" \in chip.raised \cap chip.mask
  /\ chip' = [Served("hid") EXCEPT !.mask = @ \ {"hid"}]
  /\ dev' = [dev EXCEPT !.busy["hid"] = FALSE]
  /\ Interrupt /\ UNCHANGED <<replies, owed, events>>

ContinueReply ==
  /\ "vendor" \in chip.raised \cap chip.mask /\ chip.in.left > 1
  /\ chip' = [Served("vendor") EXCEPT !.in.left = @ - 1, !.ready["vendor"] = TRUE]
  /\ Interrupt /\ UNCHANGED <<dev, replies, owed, events>>

CompleteReply ==
  /\ "vendor" \in chip.raised \cap chip.mask /\ chip.in.left <= 1
  /\ LET w == StartNext([Served("vendor") EXCEPT !.mask = @ \ {"vendor"}], FALSE, replies)
     IN /\ chip' = w.chip
        /\ dev' = [dev EXCEPT !.busy["vendor"] = w.busy]
        /\ replies' = w.replies
  /\ Interrupt /\ UNCHANGED <<owed, events>>

(* vendor_out_callback: the reply to a command is queued unless the queue   *)
(* is full, and the next command is listened for.                           *)
Command ==
  /\ chip.out # 0 /\ chip.listens
  /\ LET n == chip.out
         answers == n \notin Silent /\ Len(replies) < Room
         heard == [chip EXCEPT !.out = 0, !.listens = chip.enabled]
         w == IF answers THEN StartNext(heard, dev.busy["vendor"], Append(replies, n))
              ELSE [chip |-> heard, busy |-> dev.busy["vendor"], replies |-> replies]
     IN /\ chip' = w.chip
        /\ dev' = [dev EXCEPT !.busy["vendor"] = w.busy]
        /\ replies' = w.replies
        /\ owed' = IF answers THEN owed \o PacketsOf(n) ELSE owed
  /\ Interrupt /\ UNCHANGED events

Complete == CompleteHid \/ ContinueReply \/ CompleteReply \/ Command

-----------------------------------------------------------------------------
(* What happens on the bus, and the handler of its events.                  *)

Emptied(c) ==
  [c EXCEPT !.ready = Nobody, !.raised = {}, !.in = NoPacket, !.out = 0]

Event == events < MaxEvents /\ events' = events + 1

BusReset ==
  /\ Event /\ bus' = "reset"
  /\ chip' = [Emptied(chip) EXCEPT !.enabled = FALSE, !.mask = {}, !.listens = FALSE]
  /\ dev' = [dev EXCEPT !.busy = Nobody, !.hostReady = FALSE]
  /\ replies' = <<>> /\ owed' = <<>>
  /\ UNCHANGED <<caller, sent, clobbered>>

(* The endpoints are opened, which flushes them, and the OUT endpoint is    *)
(* armed.                                                                   *)
Configured ==
  /\ bus = "reset" /\ bus' = "configured"
  /\ chip' = [Emptied(chip) EXCEPT !.enabled = TRUE, !.listens = TRUE]
  /\ dev' = [dev EXCEPT !.busy["hid"] = FALSE, !.hostReady = TRUE,
                        !.mounted = TRUE, !.suspended = FALSE]
  /\ clobbered' = {}
  /\ UNCHANGED <<replies, caller, sent, owed, events>>

SetSuspended(to) ==
  /\ Event /\ bus = "configured"
  /\ dev' = [dev EXCEPT !.suspended = to]
  /\ UNCHANGED <<chip, replies, caller, bus, sent, owed, clobbered>>

(* usb_apply_pending_role, as far as it concerns the transfers, when the    *)
(* loop is not sending: the host must reset the device it finds then.       *)
Reregister ==
  /\ Event /\ At("idle") /\ bus' = "attached"
  /\ chip' = [chip EXCEPT !.mask = {}, !.listens = FALSE]
  /\ dev' = [mounted |-> FALSE, suspended |-> FALSE, hostReady |-> FALSE, busy |-> Nobody]
  /\ replies' = <<>> /\ owed' = <<>>
  /\ UNCHANGED <<caller, sent, clobbered>>

(* sf32lb52_usb_force_reconnect: nothing but the pull-up is touched.        *)
ForceReconnect ==
  /\ Event /\ At("idle") /\ bus' = "attached"
  /\ UNCHANGED <<chip, dev, replies, caller, sent, owed, clobbered>>

Bus ==
  \/ BusReset \/ Configured \/ Reregister \/ ForceReconnect
  \/ \E to \in BOOLEAN : SetSuspended(to)

(* The host takes a packet, or sends a command once the last one is read.   *)
Talking == bus = "configured" /\ ~dev.suspended

Takes(e) ==
  /\ Talking /\ chip.ready[e]
  /\ chip' = [chip EXCEPT !.ready[e] = FALSE, !.raised = @ \cup {e}]
  /\ owed' = IF e = "vendor" /\ owed # <<>> THEN Tail(owed) ELSE owed
  /\ UNCHANGED <<dev, replies, caller, bus, sent, clobbered, events>>

SendsCommand ==
  /\ Talking /\ chip.out = 0 /\ sent < MaxCommands
  /\ sent' = sent + 1
  /\ chip' = [chip EXCEPT !.out = sent + 1]
  /\ UNCHANGED <<dev, replies, caller, bus, owed, clobbered, events>>

-----------------------------------------------------------------------------
Host == SendsCommand \/ \E e \in Endpoints : Takes(e)

Next == Send \/ Complete \/ Bus \/ Host

Spec == Init /\ [][Next]_vars

(* The loop goes on with a report it began, an interrupt that is not held   *)
(* back is served, and the host takes what is ready.                        *)
Proceed == caller.at # "idle" /\ Send
FairSpec ==
  /\ Spec /\ WF_vars(Proceed)
  /\ WF_vars(CompleteHid) /\ WF_vars(ContinueReply \/ CompleteReply) /\ WF_vars(Command)
  /\ \A e \in Endpoints : WF_vars(Takes(e))

-----------------------------------------------------------------------------
(* Properties.                                                              *)

(* Commands that arrive while a reply is being sent, replies in two         *)
(* packets, a full queue and resets in between never get the replies out of *)
(* step: the packet the host finds at the vendor endpoint is the next of    *)
(* those it is owed, and while it is owed any, a reply is being sent, so    *)
(* none waits in the queue with nothing to start it (vendor_in_busy).       *)
VendorRepliesInOrder ==
  Talking =>
    /\ chip.ready["vendor"] => owed # <<>> /\ chip.in = Head(owed)
    /\ owed # <<>> => dev.busy["vendor"]

(* No endpoint stays busy for ever on a bus that works, so reports and      *)
(* replies go on, after resets, suspensions and reconnections in the middle *)
(* of a transfer too.  Excepted is an endpoint that lost its interrupt: the *)
(* loop adds its bit to the mask by reading and writing it, and undoes what *)
(* an interrupt in between has set.                                         *)
TransfersEnd ==
  \A e \in Endpoints :
    ~<>[](Talking /\ dev.busy[e] /\ e \notin clobbered)

=============================================================================
