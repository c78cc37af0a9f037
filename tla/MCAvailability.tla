--------------------------- MODULE MCAvailability ---------------------------
(***************************************************************************)
(* Availability on the small calendar of MCBooking: days of four units, so *)
(* that the visits there can run over midnight.                            *)
(***************************************************************************)
EXTENDS MCBooking, Availability

TwoServices == {[before |-> 0, duration |-> 1, after |-> 0],
                [before |-> 1, duration |-> 1, after |-> 1]}
TwoDays == {0, 1}
Offsets == (utc :> 0) @@ (ist :> 1)
Morning == [work |-> <<0, 3>>, break |-> {}]
Late    == [work |-> <<0, 3>>, break |-> {<<1, 2>>}]
Shifts  == [x \in Staff \X TwoDays |-> IF x = <<s1, 0>> THEN {Morning} ELSE {}]
Shop    == [d \in TwoDays |-> {IF d = 0 THEN Late ELSE Morning}]
Leave   == {<<s2, 1>>}
=============================================================================
