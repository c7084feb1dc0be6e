------------------------------ MODULE MCNsLink -------------------------------
(***************************************************************************)
(* Instances of NsLink for TLC.                                            *)
(***************************************************************************)
EXTENDS NsLink

(* The last commands of the set-up: two that differ in the address alone.   *)
LastCommands == SubSeq(InitCommands, 14, 15)
LastCommand == SubSeq(InitCommands, 15, 15)

(* No two commands of the whole set-up have the same acknowledgement, so a  *)
(* shorter sequence with the closest pair stands for it.                    *)
ASSUME InitCommandsDiffer ==
  \A i, j \in DOMAIN InitCommands : InitCommands[i] = InitCommands[j] => i = j
=============================================================================
