------------------------- MODULE MCBookingLifecycle -------------------------
(* A small instance of BookingLifecycle: two requests for the same slot of  *)
(* one charger, two workers and one payment per booking.                    *)
EXTENDS BookingLifecycle, TLC

CONSTANTS b1, b2, c1, p1, p2, w1, w2

MCChargerOf == b1 :> c1 @@ b2 :> c1
MCStartOf   == b1 :> 1 @@ b2 :> 1
MCEndOf     == b1 :> 2 @@ b2 :> 2
MCPaidFor   == p1 :> b1 @@ p2 :> b2

\* The workers are alike, and so are the two requests with their payments.
SwapWorkers == w1 :> w2 @@ w2 :> w1
SwapBookings == b1 :> b2 @@ b2 :> b1 @@ p1 :> p2 @@ p2 :> p1

MCSymmetry == {SwapWorkers, SwapBookings, SwapWorkers @@ SwapBookings}

\* Once a booking is raced no property reads its events, and no action does.
MCView ==
  <<rows, tx, lock, available, now, raced,
    [b \in Bookings |-> IF b \in raced THEN << >> ELSE outbox[b]]>>
=============================================================================
