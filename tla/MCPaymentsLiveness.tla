-------------------------- MODULE MCPaymentsLiveness --------------------------
(* One payment, its refund and one top-up, with two workers.  No symmetry,   *)
(* as the run checks liveness.                                               *)
EXTENDS Payments, TLC

CONSTANTS g1, u1, r1, v1, w1, w2, booking, nobody

MCKind == g1 :> "gateway" @@ u1 :> "topup" @@ r1 :> "refund" @@ v1 :> "reversal"
MCRelated == g1 :> booking @@ u1 :> nobody @@ r1 :> booking @@ v1 :> nobody
MCAmount == g1 :> 2 @@ u1 :> 2 @@ r1 :> 2 @@ v1 :> 2
=============================================================================
