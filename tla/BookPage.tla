------------------------------ MODULE BookPage ------------------------------
(***************************************************************************)
(* The booking page of a customer                                          *)
(* (apps/customer-web/src/app/(public)/book/page.tsx): a service, a        *)
(* specialist, a day and a slot are chosen in four steps that can be gone  *)
(* back, while effects load the specialists and the slots.                 *)
(*                                                                         *)
(* Availability and Booking model the server: here any of the slots may be *)
(* free when it is asked, and a booking may be refused.  A slot stands for *)
(* one start time of a specialist on a day.  The customer is signed in.    *)
(***************************************************************************)
EXTENDS Browser

CONSTANTS
    Treatments,  \* ids of the services
    Stylists,    \* ids of the bookable staff
    Does,        \* the staff of each service
    LastDay      \* bound: the days of the carousel, 1 to LastDay (14 in the code)

ASSUME BookPageAssumption ==
    /\ Nil \notin Treatments \cup Stylists
    /\ Does \in [Treatments -> SUBSET Stylists]
    /\ LastDay \in Nat \ {0}

CarouselDays == 1..LastDay
Slots == [staff : Stylists, day : CarouselDays]
Questions == [service : Treatments, staff : Stylists \cup {Nil}, day : CarouselDays]
Bookings == [service : Treatments, slot : Slots]

BookView ==
    [step : {"service", "staff", "datetime", "confirm", "left"},
     services : SUBSET Treatments, staffList : SUBSET Stylists,
     availability : (SUBSET Slots) \cup {Nil}, loadingSlots : BOOLEAN,
     service : Treatments \cup {Nil}, staff : Stylists \cup {Nil},  \* selectedService, selectedStaff; Nil: any
     day : CarouselDays, slot : Slots \cup {Nil},                   \* selectedDate, selectedSlot
     booking : BOOLEAN]

\* past: preselected, the service of the link; overlap, two loads of slots were
\* under way at once.
BookInit ==
    /\ page = "book"
    /\ server = Nil
    /\ view = [step |-> "service", services |-> {}, staffList |-> {}, availability |-> Nil, loadingSlots |-> FALSE,
               service |-> Nil, staff |-> Nil, day |-> 1, slot |-> Nil, booking |-> FALSE]
    /\ past \in [preselected : Treatments \cup {Nil}, overlap : {FALSE}]
    /\ Mount(Request("load", Nil))

(***************************************************************************)
(* The effects: what the change to a new state loads                       *)
(***************************************************************************)
LoadStaff(c, state) ==
    /\ Send(c, "staff", state.service)
    /\ view' = state
    /\ UNCHANGED <<server, past>>

LoadSlots(c, state) ==
    /\ Send(c, "slots", [service |-> state.service, staff |-> state.staff, day |-> state.day])
    /\ view' = [state EXCEPT !.availability = Nil, !.loadingSlots = TRUE]
    /\ past' = [past EXCEPT !.overlap = @ \/ Pending("slots") # {}]
    /\ UNCHANGED server

(***************************************************************************)
(* The steps                                                               *)
(***************************************************************************)
ServiceStep(c) ==
    /\ view.step = "service"
    /\ \E s \in view.services :
          IF s = view.service
          THEN Show([view EXCEPT !.step = "staff"])
          ELSE LoadStaff(c, [view EXCEPT !.service = s, !.step = "staff"])

\* The slot that was chosen before stays.
StaffStep(c) ==
    /\ view.step = "staff"
    /\ \/ Show([view EXCEPT !.step = "service"])
       \/ \E s \in view.staffList \cup {Nil} : LoadSlots(c, [view EXCEPT !.staff = s, !.step = "datetime"])

\* Mutant: the slot of the other day stays.
PickDayOnly(c, d) == LoadSlots(c, [view EXCEPT !.day = d])

PickDay(c, d) == LoadSlots(c, [view EXCEPT !.day = d, !.slot = Nil])

DateTimeStep(c) ==
    /\ view.step = "datetime"
    /\ \/ Show([view EXCEPT !.step = "staff"])
       \/ \E d \in CarouselDays : PickDay(c, d)
       \/ /\ ~view.loadingSlots /\ view.availability # Nil
          /\ \E slot \in view.availability : Show([view EXCEPT !.slot = slot])

HandleBook(c) ==
    /\ ~view.booking
    /\ Send(c, "book", [service |-> view.service, slot |-> view.slot])
    /\ view' = [view EXCEPT !.booking = TRUE]
    /\ UNCHANGED <<server, past>>

ConfirmStep(c) ==
    /\ view.step = "confirm"
    /\ LoadSlots(c, [view EXCEPT !.step = "datetime"])

\* The bar under the steps.
ActionBar(c) ==
    \/ view.step = "datetime" /\ view.slot # Nil /\ Show([view EXCEPT !.step = "confirm"])
    \/ view.step = "confirm" /\ HandleBook(c)

(***************************************************************************)
(* The answers                                                             *)
(***************************************************************************)
SlotsFor(q) == {slot \in Slots : slot.day = q.day /\ slot.staff \in Does[q.service] /\ q.staff \in {slot.staff, Nil}}

ServeRead(c) ==
    /\ \/ Stands(c, "load", "sent") /\ Answer(c, Nil)
       \/ Stands(c, "staff", "sent") /\ Answer(c, Nil)
       \/ Stands(c, "slots", "sent") /\ \E slots \in SUBSET SlotsFor(call[c].arg) : Answer(c, slots)
    /\ Keep

\* create_booking: the specialist of the slot has to do the service.
ServeBooking(c) ==
    /\ Stands(c, "book", "sent")
    /\ \/ call[c].arg.slot.staff \in Does[call[c].arg.service] /\ Answer(c, Nil)
       \/ Refuse(c)
    /\ Keep

\* The service of the link is selected, and its specialists are loaded.
ReceiveLoad(c) ==
    /\ Stands(c, "load", "served")
    /\ LET loaded == [view EXCEPT !.services = Treatments] IN
          IF past.preselected = Nil
          THEN view' = loaded /\ End(c)
          ELSE /\ view' = [loaded EXCEPT !.service = past.preselected, !.step = "staff"]
               /\ Then(c, "staff", past.preselected)
    /\ UNCHANGED <<server, past>>

Take(c, op, state) == Stands(c, op, "served") /\ view' = state /\ End(c) /\ UNCHANGED <<server, past>>

ReceiveStaff(c) == Take(c, "staff", [view EXCEPT !.staffList = Does[call[c].arg]])

\* The slots are shown, whatever day and specialist are selected by now.
ReceiveSlots(c) == Take(c, "slots", [view EXCEPT !.availability = call[c].data, !.loadingSlots = FALSE])

\* router.push: the page of the appointment replaces this one.
ReceiveBooking(c) == Take(c, "book", [view EXCEPT !.step = "left", !.booking = FALSE])

FailedBook(c) ==
    /\ call[c].step = "failed"
    /\ view' = CASE call[c].op = "slots" -> [view EXCEPT !.loadingSlots = FALSE]
                 [] call[c].op = "book" -> [view EXCEPT !.booking = FALSE]
                 [] OTHER -> view
    /\ End(c)
    /\ UNCHANGED <<server, past>>

BookAnswers(c) ==
    \/ ServeRead(c) \/ ServeBooking(c) \/ ReceiveLoad(c) \/ ReceiveStaff(c)
    \/ ReceiveSlots(c) \/ ReceiveBooking(c) \/ FailedBook(c)

BookNext ==
    /\ page = "book" /\ UNCHANGED page
    /\ view.step # "left"
    /\ \E c \in Calls :
          \/ ServiceStep(c) \/ StaffStep(c) \/ DateTimeStep(c) \/ ConfirmStep(c) \/ ActionBar(c)
          \/ BookAnswers(c) \/ LoseCall(c)

BookSpec == BookInit /\ [][BookNext]_webVars

(***************************************************************************)
(* Properties                                                              *)
(***************************************************************************)
BookTypeOK == page = "book" =>
    /\ \A c \in Calls :
          IsCall(call[c], [load |-> {Nil}, staff |-> Treatments, slots |-> Questions, book |-> Bookings],
                          [load |-> {}, staff |-> {}, slots |-> SUBSET Slots, book |-> {}])
    /\ server = Nil
    /\ view \in BookView
    /\ past \in [preselected : Treatments \cup {Nil}, overlap : BOOLEAN]

\* The day that stands on the page to be confirmed is the day of the slot that is
\* booked, whatever steps were gone back and whatever others booked meanwhile:
\* unless slots were asked for twice at once, and the first ones arrived last.
ShownDayIsBooked == page = "book" /\ ~past.overlap /\ view.slot # Nil => view.slot.day = view.day
=============================================================================
