----------------------------- MODULE MCPayments -----------------------------
(* One booking paid through VNPay and, twice, from the wallet; one top-up, *)
(* one session whose fee exceeds its deposit and one it falls short of.     *)
EXTENDS Payments, TLC

CONSTANTS g1, k1, k2, s1, u1, x1, w1, w2, booking, session, nobody

MCKind == g1 :> "gateway" @@ k1 :> "wallet" @@ k2 :> "wallet" @@ s1 :> "surplus"
            @@ u1 :> "topup" @@ x1 :> "charge"
MCRelated == g1 :> booking @@ k1 :> booking @@ k2 :> booking @@ s1 :> session
               @@ u1 :> nobody @@ x1 :> session
MCAmount == g1 :> 2 @@ k1 :> 2 @@ k2 :> 2 @@ s1 :> 1 @@ u1 :> 2 @@ x1 :> 3

MCSymmetry == {w1 :> w2 @@ w2 :> w1, k1 :> k2 @@ k2 :> k1,
               w1 :> w2 @@ w2 :> w1 @@ k1 :> k2 @@ k2 :> k1}
=============================================================================
