------------------------------ MODULE MCBooking ------------------------------
(***************************************************************************)
(* Booking on small instances: slots are two units long, starts lie one    *)
(* unit apart, so that two orders can overlap under different lock keys.   *)
(***************************************************************************)
EXTENDS Booking, TLC

CONSTANTS s1, s2, c1, c2, utc, ist

MCItem(s, z, t) == [staff |-> s, zone |-> z, start |-> t, before |-> 0, duration |-> 2]
Body(c, m, d, items) == [customer |-> c, marketplace |-> m, deposit |-> d, items |-> items]

\* The same slot, the slot one unit later, one after a buffer, and two items.
MixedOrders ==
    {Body(c1, TRUE, FALSE, <<MCItem(s1, utc, 1)>>),
     Body(c1, TRUE, TRUE, <<MCItem(s1, utc, 2), MCItem(s2, utc, 4)>>),
     Body(c2, FALSE, FALSE,
          <<[staff |-> s1, zone |-> utc, start |-> 2, before |-> 1, duration |-> 2]>>)}

\* Two items in opposite orders, and one of them alone.
CrossedOrders ==
    {Body(c1, FALSE, FALSE, <<MCItem(s1, utc, 2), MCItem(s2, utc, 4)>>),
     Body(c1, FALSE, FALSE, <<MCItem(s2, utc, 4), MCItem(s1, utc, 2)>>),
     Body(c2, FALSE, FALSE, <<MCItem(s1, utc, 2)>>)}

\* One slot, asked for with the same start.
OneSlot == {Body(c1, FALSE, FALSE, <<MCItem(s1, utc, 1)>>)}

BookingSymmetry == Permutations(Bookings)
=============================================================================
