----------------------------- MODULE MCExchanges -----------------------------
(***************************************************************************)
(* Five exchanges between the main loop, the other threads and the         *)
(* interrupts, in one run of TLC: the mailbox of a callback, a request     *)
(* ring, the USB transfers, the audio worker and the manager's replies.    *)
(* They share no state; each behaviour is one of one of them, `part`,      *)
(* while the others stay where they begin.  So the states are the sum of   *)
(* theirs and not the product, and each property is checked on its part.   *)
(***************************************************************************)
EXTENDS SampleMailbox

CONSTANTS
  Capacity, MaxAsked,
  Room, Long, Silent, MaxCommands, MaxEvents,
  MaxWork, MaxBlocks, MaxRequests, MaxFailures,
  SetRoom, MaxLength, MaxExchanges, MaxNatives

(* Sizes and bounds are numbers; a ring has a slot, a reply a chunk.        *)
ASSUME ExchangesAssumption ==
  /\ Capacity \in Nat \ {0} /\ MaxAsked \in Nat
  /\ Room \in Nat /\ MaxCommands \in Nat /\ MaxEvents \in Nat
  /\ MaxWork \in Nat /\ MaxBlocks \in Nat /\ MaxRequests \in Nat /\ MaxFailures \in Nat
  /\ SetRoom \in Nat /\ MaxLength \in Nat \ {0}
  /\ MaxExchanges \in Nat /\ MaxNatives \in Nat

VARIABLES
  part,
  slots, head, tail, asked, producer, consumer, command, handled, inPass,
  chip, dev, replies, caller, bus, sent, owed, clobbered, events,
  mic, blocks, passed, work, worker, loop, heard, host, pad, mishaps, requests, failures,
  sets, awaited, dualsense, buffers, current, task, client, mixed, natives

Ring == INSTANCE RequestRing
Usb == INSTANCE UsbTransfers
Audio == INSTANCE AudioWorker
Manager == INSTANCE ManagerReply

ringVars == <<slots, head, tail, asked, producer, consumer, command, handled, inPass>>
usbVars == <<chip, dev, replies, caller, bus, sent, owed, clobbered, events>>
audioVars ==
  <<mic, blocks, passed, work, worker, loop, heard, host, pad, mishaps, requests, failures>>
managerVars == <<sets, awaited, dualsense, buffers, current, task, client, mixed, natives>>

exchangesVars ==
  <<part, vars, ringVars, usbVars, audioVars, managerVars>>

Parts == {"mailbox", "ring", "usb", "audio", "manager"}

ExchangesInit ==
  /\ part \in Parts
  /\ Init /\ Ring!Init /\ Usb!Init /\ Audio!Init /\ Manager!Init
  /\ part # "audio" => ~pad.up
  /\ part # "manager" => ~dualsense

MailboxNext ==
  /\ part = "mailbox" /\ Next
  /\ UNCHANGED <<part, ringVars, usbVars, audioVars, managerVars>>
RingNext ==
  /\ part = "ring" /\ Ring!Next
  /\ UNCHANGED <<part, vars, usbVars, audioVars, managerVars>>
UsbNext ==
  /\ part = "usb" /\ Usb!Next
  /\ UNCHANGED <<part, vars, ringVars, audioVars, managerVars>>
AudioNext ==
  /\ part = "audio" /\ Audio!Next
  /\ UNCHANGED <<part, vars, ringVars, usbVars, managerVars>>
ManagerNext ==
  /\ part = "manager" /\ Manager!Next
  /\ UNCHANGED <<part, vars, ringVars, usbVars, audioVars>>

ExchangesNext ==
  MailboxNext \/ RingNext \/ UsbNext \/ AudioNext \/ ManagerNext

(* The fairness of each part, for its own behaviours: that of its FairSpec. *)
ExchangesSpec ==
  /\ ExchangesInit /\ [][ExchangesNext]_exchangesVars
  /\ WF_vars(part = "mailbox" /\ FinishWrite) /\ WF_vars(part = "mailbox" /\ Read)
  /\ WF_ringVars(part = "ring" /\ (Ring!Fill \/ Ring!Publish))
  /\ WF_ringVars(part = "ring" /\ Ring!Consume)
  /\ WF_usbVars(part = "usb" /\ Usb!Proceed)
  /\ WF_usbVars(part = "usb" /\ Usb!CompleteHid)
  /\ WF_usbVars(part = "usb" /\ (Usb!ContinueReply \/ Usb!CompleteReply))
  /\ WF_usbVars(part = "usb" /\ Usb!Command)
  /\ WF_usbVars(part = "usb" /\ Usb!Takes("hid"))
  /\ WF_usbVars(part = "usb" /\ Usb!Takes("vendor"))
  /\ WF_audioVars(part = "audio" /\ Audio!Work) /\ WF_audioVars(part = "audio" /\ Audio!Pass)
  /\ WF_audioVars(part = "audio" /\ Audio!RetryTime)
  /\ WF_audioVars(part = "audio" /\ ~host.attached /\ Audio!BusReset)
  /\ WF_managerVars(part = "manager" /\ Manager!Serve)
  /\ WF_managerVars(part = "manager" /\ (Manager!GetChunk \/ Manager!GetNative))

-----------------------------------------------------------------------------
(* The properties of the parts; those of the mailbox are SampleMailbox's.   *)

(* The variables of every part have their types: what is numbered, queued   *)
(* or copied stays in its range in the mailbox, the ring, the USB           *)
(* transfers, the audio worker and the manager's replies.                   *)
PartsTypeOK ==
  /\ TypeOK /\ Ring!TypeOK
  /\ Usb!TransfersTypeOK /\ Audio!AudioTypeOK /\ Manager!ReplyTypeOK

(* A request ring is a bounded queue: see RequestRing.                      *)
IsBoundedFifo == Ring!IsBoundedFifo

(* The host finds the replies it is owed, in order: see UsbTransfers.       *)
VendorRepliesInOrder == Usb!VendorRepliesInOrder
(* No endpoint stays busy: see UsbTransfers.                                *)
TransfersEnd == Usb!TransfersEnd

(* Speaker and haptics samples belong together: see AudioWorker.            *)
BlocksAreWhole == Audio!BlocksAreWhole
(* A stream that ends leaves the motors still: see AudioWorker.             *)
EndedStreamIsSilent == Audio!EndedStreamIsSilent
(* The microphone follows the host: see AudioWorker.                        *)
MicFollowsHost == Audio!MicFollowsHost

(* A client gets its own command's reply: see ManagerReply.                 *)
AnswersAreWhole == Manager!AnswersAreWhole
(* A client gets a reply: see ManagerReply.                                 *)
CommandIsAnswered == Manager!CommandIsAnswered

=============================================================================
