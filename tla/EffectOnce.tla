----------------------------- MODULE EffectOnce -----------------------------
(* What the execution of an approved request promises to the domain whose   *)
(* effect was approved: the effect is committed at most once, exactly when  *)
(* the request is reported executed; a refused request has no effect; a     *)
(* parked request (quarantined for an operator) has no effect either and    *)
(* stays parked until it is reopened.                                       *)
EXTENDS Naturals

VARIABLES outcome,  \* what the approval says: "open", "parked", "applied", "refused"
          effects   \* committed domain effects

vars == <<outcome, effects>>

Init == outcome = "open" /\ effects = 0

Apply == /\ outcome = "open"
         /\ outcome' = "applied"
         /\ effects' = effects + 1

Refuse == outcome = "open" /\ outcome' = "refused" /\ UNCHANGED effects

Park == outcome = "open" /\ outcome' = "parked" /\ UNCHANGED effects

Reopen == outcome = "parked" /\ outcome' = "open" /\ UNCHANGED effects

Next == Apply \/ Refuse \/ Park \/ Reopen

Spec == Init /\ [][Next]_vars
=============================================================================
