------------------------- MODULE MCBookingLiveness -------------------------
(* One booking, two workers: a job, a handler and the failures of both race *)
(* for the one row.  Liveness needs the unreduced graph, so no symmetry.    *)
EXTENDS BookingLifecycle, TLC

CONSTANTS b1, c1, p1, w1, w2

MCChargerOf == b1 :> c1
MCStartOf   == b1 :> 1
MCEndOf     == b1 :> 2
MCPaidFor   == p1 :> b1
=============================================================================
