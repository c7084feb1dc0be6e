-------------------------------- MODULE MCDs5 --------------------------------
(***************************************************************************)
(* The three parts of the DualSense driver that run side by side, in one   *)
(* run of TLC: the life of its link, its output reports and its feature    *)
(* reports.  The last two are modelled for one life of the link or as the  *)
(* link comes and goes by itself, so the parts share no state; as in       *)
(* MCExchanges each behaviour is one of one part.                          *)
(***************************************************************************)
EXTENDS Ds5Link

CONSTANTS MaxStates, MaxFailures, MaxRetries, MaxSent, MaxAsked, MaxHost, MaxTroubles

VARIABLES
  part,
  up, composed, holds, waiting, audioNext, flying, confirmed, primer, pass, shown, newest,
  slips, failures,
  request, control, index, phase, profile, cache, section, sent, asked, gives, givenUp,
  mistaken, hosts, troubles

Output == INSTANCE Ds5Output
Feature == INSTANCE Ds5Feature

outputVars ==
  <<up, composed, holds, waiting, audioNext, flying, confirmed, primer, pass, shown, newest,
    slips, failures>>
featureVars ==
  <<request, control, index, phase, profile, cache, section, sent, asked, gives, givenUp,
    mistaken, hosts, troubles>>
ds5Vars == <<part, vars, outputVars, featureVars>>

Ds5Init ==
  /\ part \in {"link", "output", "feature"}
  /\ Init /\ Output!Init /\ Feature!Init
  /\ part # "link" => bond = NoDevice /\ ~managed
  /\ part # "feature" => gives = {"firmware"}

LinkNext == part = "link" /\ Next /\ UNCHANGED <<part, outputVars, featureVars>>
OutputNext == part = "output" /\ Output!Next /\ UNCHANGED <<part, vars, featureVars>>
FeatureNext == part = "feature" /\ Feature!Next /\ UNCHANGED <<part, vars, outputVars>>

Ds5Next == LinkNext \/ OutputNext \/ FeatureNext

(* The fairness of each part, for its own behaviours: that of its FairSpec. *)
Ds5Spec ==
  /\ Ds5Init /\ [][Ds5Next]_ds5Vars
  /\ WF_vars(part = "link" /\ EventHandler) /\ WF_vars(part = "link" /\ Poll)
  /\ WF_vars(part = "link" /\ Registered /\ Remember)
  /\ WF_vars(part = "link" /\ ReadsBonds /\ Remember)
  /\ \A d \in Devices, p \in PSMs : WF_vars(part = "link" /\ Opens(d, p) /\ Remember)
  /\ WF_outputVars(part = "output" /\ Output!Loop)
  /\ WF_outputVars(part = "output" /\ Output!Confirm)
  /\ WF_outputVars(part = "output" /\ Output!SendWaiting)
  /\ WF_outputVars(part = "output" /\ (Output!Refuse("loop") \/ Output!HandOver("loop")))
  /\ WF_outputVars(part = "output" /\ (Output!Refuse("worker") \/ Output!HandOver("worker")))
  /\ WF_featureVars(part = "feature" /\ Feature!Section)
  /\ WF_featureVars(part = "feature" /\ Feature!PollTimeout)
  /\ WF_featureVars(part = "feature" /\ Feature!PollUnlock)
  /\ WF_featureVars(part = "feature" /\ Feature!BuildRequest)
  /\ WF_featureVars(part = "feature" /\ (Feature!Confirm \/ Feature!ConfirmFailure))

-----------------------------------------------------------------------------
(* The properties of the parts; LossIsRepaired is Ds5Link's.                *)

(* The controller ends up with the last state sent: see Ds5Output.          *)
LastStateIsShown == Output!LastStateIsShown

(* The newest state is the last in line: see Ds5Output.                     *)
NewestIsLast == Output!NewestIsLast

(* A feature is not passed over unsettled: see Ds5Feature.                  *)
PassedOverIsSettled == Feature!PassedOverIsSettled
(* Fetching and unlocking end: see Ds5Feature.                              *)
FetchingEnds == <>[](part # "feature") \/ Feature!FetchingEnds

=============================================================================
