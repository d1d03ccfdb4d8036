------------------------- MODULE StageQualification -------------------------
(***************************************************************************)
(* What the service promises about one batch, without its deviations,      *)
(* people or observations: a batch qualifies for the next stage by a       *)
(* recovery, and a recovery is an unbroken run of as many qualified        *)
(* observations as its baseline asks for.  BatchLifecycle implements it.   *)
(***************************************************************************)
EXTENDS Naturals

CONSTANT Windows   (* recovery windows that a baseline may ask for            *)

VARIABLES
  phase,    (* the status of the batch                                        *)
  window,   (* the frozen recovery window, 0 before there is a baseline       *)
  credit    (* qualified observations since the last abnormal one, counted    *)
            (* once a recovery has been approved                              *)

vars == <<phase, window, credit>>

Init == phase = "draft" /\ window = 0 /\ credit = 0

FreezeBaseline(w) ==
  /\ phase = "draft" /\ phase' = "monitoring"
  /\ window' = w
  /\ UNCHANGED credit

Deviate ==
  /\ phase \in {"monitoring", "recovering"} /\ phase' = "paused"
  /\ credit' = 0
  /\ UNCHANGED window

StartRecovery ==
  /\ phase = "paused" /\ phase' = "recovering"
  /\ UNCHANGED <<window, credit>>

Recover ==
  /\ phase = "recovering"
  /\ credit' = credit + 1
  /\ phase' = IF credit' = window THEN "pending_review" ELSE "recovering"
  /\ UNCHANGED window

Seal ==
  /\ phase = "pending_review" /\ phase' \in {"approved_sealed", "rejected_sealed"}
  /\ UNCHANGED <<window, credit>>

Next == \/ \E w \in Windows : FreezeBaseline(w)
        \/ Deviate \/ StartRecovery \/ Recover \/ Seal

Spec == Init /\ [][Next]_vars
=============================================================================
