----------------------------- MODULE VisitPages -----------------------------
(***************************************************************************)
(* What a customer does with a booked visit (apps/customer-web/src/app):   *)
(* the list of bookings (bookings/page.tsx), one booking, which can be     *)
(* cancelled (bookings/[id]/page.tsx), and its review (review/page.tsx).   *)
(*                                                                         *)
(* The three pages replace each other.  What a page sent goes on when it   *)
(* is left: its answer changes no state any more, but can still navigate.  *)
(* The server reads a row in one statement and writes it in a later one,   *)
(* with no lock.  One visit, one customer, who is signed in.               *)
(***************************************************************************)
EXTENDS Browser

CONSTANTS MaxReviews  \* bound: the reviews of the visit

VisitStatuses == {"PENDING", "CONFIRMED", "IN_PROGRESS", "COMPLETED", "CANCELLED", "NO_SHOW", "RESCHEDULED"}
Final == {"COMPLETED", "CANCELLED", "NO_SHOW"}

ASSUME VisitPagesAssumption == MaxReviews \in Nat \ {0} /\ Nil \notin VisitStatuses \cup {"read"}

AppointmentTransitions ==
    [PENDING |-> {"CONFIRMED", "CANCELLED"},
     CONFIRMED |-> {"IN_PROGRESS", "CANCELLED", "NO_SHOW", "RESCHEDULED"},
     IN_PROGRESS |-> {"COMPLETED", "CANCELLED"},
     RESCHEDULED |-> {"CONFIRMED", "CANCELLED"},
     COMPLETED |-> {}, CANCELLED |-> {}, NO_SHOW |-> {}]

Places == {"list", "detail", "review"}

\* view: the page that is open, the status it loaded (Nil: none), and its controls.
VisitView ==
    [at : Places, shown : VisitStatuses \cup {Nil}, tab : {"upcoming", "past"},
     dialog : BOOLEAN, cancelling : BOOLEAN,     \* showCancelDialog, isCancelling
     rated : BOOLEAN, submitting : BOOLEAN]      \* rating, isSubmitting

OpenedAt(place) ==
    [at |-> place, shown |-> Nil, tab |-> "upcoming", dialog |-> FALSE, cancelling |-> FALSE,
     rated |-> FALSE, submitting |-> FALSE]

\* server: the status of the visit, whether its time is past, the number of its
\* reviews, and the status that the business is writing (Nil: none).
\* past.raced: two writers had read before either wrote.
VisitInit ==
    /\ page = "visits"
    /\ server \in [status : {"PENDING", "CONFIRMED"}, over : {FALSE}, reviews : {0}, edit : {Nil}]
    /\ view = OpenedAt("list")
    /\ past = [raced |-> FALSE]
    /\ Mount(Request("list", "here"))

(***************************************************************************)
(* Links: the old page is dropped, and the new one loads                   *)
(***************************************************************************)
Left == [d \in Calls |-> IF call[d] = Free THEN Free ELSE [call[d] EXCEPT !.arg = "left"]]

Go(c, place) ==
    /\ call' = [Left EXCEPT ![c] = IF place = "review" THEN Free ELSE Request(place, "here")]
    /\ view' = OpenedAt(place)
    /\ UNCHANGED <<server, past>>

Link(c, place) == call[c] = Free /\ Go(c, place)

IsUpcoming(status) == ~server.over /\ status \notin Final
InTab == view.shown # Nil /\ (view.tab = "upcoming") = IsUpcoming(view.shown)

BookingsPage(c) ==
    /\ view.at = "list"
    /\ \/ \E tab \in {"upcoming", "past"} : Show([view EXCEPT !.tab = tab])
       \/ InTab /\ Link(c, "detail")

CanCancel == view.shown \in {"CONFIRMED", "PENDING"} /\ ~server.over

\* handleCancel.
HandleCancel(c) ==
    /\ ~view.cancelling
    /\ Send(c, "cancel", "here")
    /\ view' = [view EXCEPT !.cancelling = TRUE]
    /\ UNCHANGED <<server, past>>

CancelDialog(c) ==
    /\ view.dialog
    /\ \/ Show([view EXCEPT !.dialog = FALSE])
       \/ HandleCancel(c)

BookingDetailPage(c) ==
    /\ view.at = "detail" /\ view.shown # Nil
    /\ \/ Link(c, "list")
       \/ CanCancel /\ Show([view EXCEPT !.dialog = TRUE])
       \/ view.shown = "COMPLETED" /\ Link(c, "review")
       \/ CancelDialog(c)

HandleSubmit(c) ==
    /\ view.rated /\ ~view.submitting
    /\ Send(c, "review", "here")
    /\ view' = [view EXCEPT !.submitting = TRUE]
    /\ UNCHANGED <<server, past>>

ReviewPage(c) ==
    /\ view.at = "review"
    /\ \/ Show([view EXCEPT !.rated = TRUE])
       \/ HandleSubmit(c)
       \/ Link(c, "list")

(***************************************************************************)
(* The server                                                              *)
(***************************************************************************)
\* Requests of one kind that have read and not written.
Writing(op) == {c \in Calls : Stands(c, op, "sent") /\ call[c].data = "read"}

ReadBy(c, raced) ==
    /\ call' = [call EXCEPT ![c].data = "read"]
    /\ past' = [past EXCEPT !.raced = @ \/ raced]
    /\ UNCHANGED <<view, server>>

ServeShow(c) ==
    /\ \/ Stands(c, "list", "sent") \/ Stands(c, "detail", "sent")
    /\ Answer(c, server.status)
    /\ Keep

Asks(c, op) == Stands(c, op, "sent") /\ call[c].data = Nil

\* Mutant: a visit that is over can be cancelled.
ReadCancelUnchecked(c) == Asks(c, "cancel") /\ ReadBy(c, server.edit # Nil \/ Writing("cancel") # {})

\* cancel_booking.
ReadCancel(c) ==
    /\ Asks(c, "cancel")
    /\ IF server.status \in Final
       THEN Refuse(c) /\ Keep
       ELSE ReadBy(c, server.edit # Nil \/ Writing("cancel") # {})

WriteCancel(c) ==
    /\ c \in Writing("cancel")
    /\ server' = [server EXCEPT !.status = "CANCELLED"]
    /\ Answer(c, "CANCELLED")
    /\ UNCHANGED <<view, past>>

\* create_review: one row is a conflict, and two raise in scalar_one_or_none.  The
\* status of the visit is not looked at.
ReadReviews(c) ==
    /\ Asks(c, "review")
    /\ IF server.reviews > 0
       THEN Refuse(c) /\ Keep
       ELSE ReadBy(c, Writing("review") # {})

WriteReview(c) ==
    /\ c \in Writing("review") /\ server.reviews < MaxReviews
    /\ server' = [server EXCEPT !.reviews = @ + 1]
    /\ Answer(c, Nil)
    /\ UNCHANGED <<view, past>>

\* update_appointment_status, by the business.
ReadUpdate ==
    /\ server.edit = Nil
    /\ \E status \in AppointmentTransitions[server.status] : server' = [server EXCEPT !.edit = status]
    /\ past' = [past EXCEPT !.raced = @ \/ Writing("cancel") # {}]
    /\ UNCHANGED <<view, call>>

WriteUpdate ==
    /\ server.edit # Nil
    /\ server' = [server EXCEPT !.status = server.edit, !.edit = Nil]
    /\ UNCHANGED <<view, call, past>>

TimePasses ==
    /\ ~server.over
    /\ server' = [server EXCEPT !.over = TRUE]
    /\ UNCHANGED <<view, call, past>>

(***************************************************************************)
(* The answers                                                             *)
(***************************************************************************)
Here(c) == call[c].arg = "here"
Settle(c, state) == view' = (IF Here(c) THEN state ELSE view) /\ End(c) /\ UNCHANGED <<server, past>>

ReceiveShow(c) ==
    /\ \/ Stands(c, "list", "served") \/ Stands(c, "detail", "served")
    /\ Settle(c, [view EXCEPT !.shown = call[c].data])

\* The booking cannot be loaded: router.push("/bookings").
FailDetail(c) == Stands(c, "detail", "failed") /\ Go(c, "list")
FailShow(c) == Stands(c, "list", "failed") /\ Settle(c, view)

ReceiveCancel(c) ==
    Stands(c, "cancel", "served") /\ Settle(c, [view EXCEPT !.shown = call[c].data, !.dialog = FALSE, !.cancelling = FALSE])
FailCancel(c) == Stands(c, "cancel", "failed") /\ Settle(c, [view EXCEPT !.cancelling = FALSE])

\* router.push to the booking, wherever the customer is by now.
ReceiveReview(c) == Stands(c, "review", "served") /\ Go(c, "detail")
FailReview(c) == Stands(c, "review", "failed") /\ Settle(c, [view EXCEPT !.submitting = FALSE])

VisitAnswers(c) ==
    \/ ServeShow(c) \/ ReceiveShow(c) \/ FailDetail(c) \/ FailShow(c)
    \/ ReadCancel(c) \/ WriteCancel(c) \/ ReceiveCancel(c) \/ FailCancel(c)
    \/ ReadReviews(c) \/ WriteReview(c) \/ ReceiveReview(c) \/ FailReview(c)

VisitNext ==
    /\ page = "visits" /\ UNCHANGED page
    /\ \/ ReadUpdate \/ WriteUpdate \/ TimePasses
       \/ \E c \in Calls :
             \/ BookingsPage(c) \/ BookingDetailPage(c) \/ ReviewPage(c)
             \/ VisitAnswers(c) \/ LoseCall(c)

VisitSpec == VisitInit /\ [][VisitNext]_webVars

(***************************************************************************)
(* Properties                                                              *)
(***************************************************************************)
VisitTypeOK == page = "visits" =>
    /\ \A c \in Calls :
          IsCall(call[c], [op \in {"list", "detail", "cancel", "review"} |-> {"here", "left"}],
                          [op \in {"list", "detail", "cancel", "review"} |-> VisitStatuses \cup {"read"}])
    /\ server \in [status : VisitStatuses, over : BOOLEAN, reviews : 0..MaxReviews, edit : VisitStatuses \cup {Nil}]
    /\ view \in VisitView
    /\ past \in [raced : BOOLEAN]

\* A visit is reviewed once, and a reviewed visit stays completed: whatever page the
\* customer left in the middle of a cancellation or a review, went back to and sent
\* again from, and whatever answers were lost; unless two requests wrote at once.
ReviewedOnceAndCompleted == page = "visits" /\ ~past.raced =>
    server.reviews <= 1 /\ (server.reviews = 1 => server.status = "COMPLETED")
=============================================================================
