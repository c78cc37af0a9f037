---------------------------- MODULE Availability ----------------------------
(***************************************************************************)
(* AvailabilityService.get_availability: the start times a customer is     *)
(* shown, computed from the working hours, the committed calendar and the  *)
(* slot locks of a moment.  It changes nothing, so it adds operators and   *)
(* no actions to Booking.  Times of day are read as UTC.                   *)
(***************************************************************************)
EXTENDS Booking

CONSTANTS
    Services,    \* rows of services: buffers and duration
    Days,        \* the dates that are asked for
    DayLength,
    Interval,    \* SLOT_INTERVAL_MINUTES
    LockWindow,  \* how long a lock is taken to last: 2 hours
    Offset,      \* what a zone adds to UTC
    Utc,         \* the zone in which slots are shown
    StaffHours,  \* the hours a staff member works on a date, {} when there is no
                 \* row for the weekday or it says closed
    BranchHours, \* the same for the branch
    OnLeave      \* approved leave: staff members and dates

Service == [before : Nat, duration : Nat \ {0}, after : Nat]

\* Times of day.  No break is {}.
Period == (0 .. DayLength - 1) \X (0 .. DayLength - 1)
Hours == [work : Period, break : {{}} \cup {{p} : p \in Period}]

ASSUME AvailabilityAssumption ==
    /\ Services \subseteq Service
    /\ Days \subseteq Nat
    /\ DayLength \in Nat \ {0} /\ Interval \in Nat \ {0} /\ LockWindow \in Nat \ {0}
    /\ Offset \in [Zones -> Int]
    /\ Utc \in Zones /\ Offset[Utc] = 0
    /\ StaffHours \in [Staff \X Days -> {{}} \cup {{h} : h \in Hours}]
    /\ BranchHours \in [Days -> {{}} \cup {{h} : h \in Hours}]
    /\ OnLeave \subseteq Staff \X Days

\* The times of a date.
DayTimes(d) == d * DayLength .. (d + 1) * DayLength - 1

Meets(from, to, w) == from < w[2] /\ to > w[1]

\* Mutant: only what a customer has paid for is booked.
ConfirmedWindows(s, d) ==
    {<<ItemStart(x), ItemEnd(x)>> : x \in
        {y \in UNION {{Items(a)[i] : i \in DOMAIN Items(a)} :
                         a \in {a \in Bookings : status[a] = "CONFIRMED"}} :
            y.staff = s /\ ItemStart(y) \in DayTimes(d)}}

\* _get_booked_windows: items that start on the date.
BookedWindows(s, d) ==
    {<<ItemStart(x), ItemEnd(x)>> : x \in
        {y \in UNION {{Items(a)[i] : i \in DOMAIN Items(a)} :
                         a \in {a \in Bookings : status[a] \in Blocking}} :
            y.staff = s /\ ItemStart(y) \in DayTimes(d)}}

\* _get_locked_windows: keys whose date, as it is spelled, is the date.
LockedWindows(s, d) ==
    {<<k[3], k[3] + LockWindow>> : k \in
        {l \in locks : l[1] = s /\ l[3] + Offset[l[2]] \in DayTimes(d)}}

\* A staff member without open hours on a date, on a day off too, is shown with
\* the branch's.
HoursOf(s, d) == IF StaffHours[<<s, d>>] # {} THEN StaffHours[<<s, d>>] ELSE BranchHours[d]

\* _get_staff_slots: a 15-minute grid from opening time on.  The whole visit,
\* buffers included, lies in the working hours and outside the break.
Slots(s, v, d) ==
    LET day   == d * DayLength
        total == v.before + v.duration + v.after
        Fits(t, h) ==
            /\ t + total <= day + h.work[2]
            /\ \A p \in h.break : ~Meets(t, t + total, <<day + p[1], day + p[2]>>)
            /\ \A w \in BookedWindows(s, d) \cup LockedWindows(s, d) : ~Meets(t, t + total, w)
            /\ t > now
    IN  IF <<s, d>> \in OnLeave THEN {}
        ELSE UNION {{t \in {day + h.work[1] + n * Interval : n \in 0 .. DayLength} : Fits(t, h)} :
                       h \in HoursOf(s, d)}

\* What is shown can be booked, as far as create_booking will look: a customer
\* who answers at once is refused neither for a past start, nor for a taken key,
\* nor for a conflict.  The exception is a visit that began the day before.
OfferedSlotIsAccepted ==
    \A s \in Staff, v \in Services, d \in Days : \A t \in Slots(s, v, d) :
        LET it == [staff |-> s, zone |-> Utc, start |-> t,
                   before |-> v.before, duration |-> v.duration]
        IN  /\ it.start > now
            /\ LockKey(it) \notin locks
            /\ \A a \in Bookings : status[a] \in Blocking =>
                  \A i \in DOMAIN Items(a) :
                     Overlap(Items(a)[i], it) => ItemStart(Items(a)[i]) < d * DayLength
=============================================================================
