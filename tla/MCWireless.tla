----------------------------- MODULE MCWireless ------------------------------
(***************************************************************************)
(* What goes on for ever on the wireless side, in one run of TLC: the link *)
(* of the NS2Pro, and arbitration between the two controllers with one     *)
(* persona.  As in MCExchanges each behaviour is one of one part.          *)
(***************************************************************************)
EXTENDS MCNsLink

CONSTANTS Stale, Takeover, MaxSleep

VARIABLES part, preference, role, arb, pads, seen, mail, taken, snapshot, shown, at

Arbiter == INSTANCE InputArbiter WITH
  link <- pads, phase <- at,
  OutputRoles <- {"ns2pro"}, Preferences <- {"auto", "dualsense"}, Skewed <- FALSE

arbiterVars == <<preference, role, arb, pads, seen, mail, taken, snapshot, shown, at>>

WirelessInit ==
  /\ part \in {"link", "arbiter"}
  /\ Init /\ Arbiter!Init
  /\ part # "link" => ~app.wanted

LinkNext == part = "link" /\ Next /\ UNCHANGED <<part, arbiterVars>>
ArbiterNext == part = "arbiter" /\ Arbiter!Next /\ UNCHANGED <<part, vars>>

WirelessNext == LinkNext \/ ArbiterNext

partVars == IF part = "link" THEN vars ELSE arbiterVars

(* The fairness of each part, for its own behaviours: that of its FairSpec. *)
(* Strong fairness is stated of both parts at once: one of them stands      *)
(* still, so that is strong fairness of the other.                          *)
Again ==
  /\ part' = part
  /\ \/ part = "link" /\ Timers(TRUE, TRUE)
     \/ part = "arbiter" /\ \E identity \in BOOLEAN : Arbiter!MakeReport(identity)

WirelessSpec ==
  /\ WirelessInit /\ [][WirelessNext]_<<part, vars, arbiterVars>>
  /\ WF_vars(part = "link" /\ Poll) /\ WF_vars(part = "link" /\ Answering)
  /\ WF_arbiterVars(part = "arbiter" /\ Arbiter!Loop)
  /\ SF_partVars(Again)

-----------------------------------------------------------------------------
(* The properties of the parts.                                             *)

(* A scan that is wanted is under way in the end, and a link ends up ready  *)
(* or is given up: see NsLink.                                              *)
SearchesAndSettles == RadioSearches /\ Settles

(* No report shows a controller that is gone: see InputArbiter.             *)
GoneIsNeutral == Arbiter!GoneIsNeutral
(* The controller that sends drives the output: see InputArbiter.           *)
SenderTakesOver == Arbiter!SenderTakesOver

=============================================================================
