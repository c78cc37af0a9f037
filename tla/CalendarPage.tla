---------------------------- MODULE CalendarPage ----------------------------
(***************************************************************************)
(* The calendar of a business                                              *)
(* (apps/business-web/src/app/dashboard/calendar/page.tsx): a day or a     *)
(* week of appointments, loaded for the date and the view that are set.    *)
(* The times within a day are left out.                                    *)
(***************************************************************************)
EXTENDS Listing

CONSTANTS
    Appointments,
    LastDate,   \* bound: dates are 0 .. LastDate
    WeekLength  \* 7

ASSUME CalendarAssumption == LastDate \in Nat /\ WeekLength \in Nat \ {0}

Dates == 0 .. LastDate
CalendarKeys == [view : {"day", "week"}, date : Dates]  \* view, currentDate

\* server: the date of each appointment, Nil: not booked (yet).
booked == server

Today == [view |-> "day", date |-> 0]

CalendarInit ==
    /\ page = "calendar"
    /\ server \in [Appointments -> Dates \cup {Nil}]
    /\ view = [key |-> Today, rows |-> {}, loading |-> TRUE]
    /\ MountList(Today)

\* weekDays: the columns.
WeekOf(date) == {d \in Dates : d \div WeekLength = date \div WeekLength}
Columns(key) == IF key.view = "day" THEN {key.date} ELSE WeekOf(key.date)

\* list_business_appointments, between the start and the end of the columns.
Between(key) == {a \in Appointments : booked[a] \in Columns(key)}

Cells == [id : Appointments, date : Dates]
CalendarRows(key) == {[id |-> a, date |-> booked[a]] : a \in Between(key)}

Navigate(c, direction) ==
    LET date == view.key.date + direction * (IF view.key.view = "week" THEN WeekLength ELSE 1)
    IN date \in Dates /\ LoadList(c, [view EXCEPT !.key.date = date])

\* The view toggle, the arrows and "Today", which sets a new date every time.
CalendarHeader(c) ==
    \/ \E v \in {"day", "week"} \ {view.key.view} : LoadList(c, [view EXCEPT !.key.view = v])
    \/ Navigate(c, 1) \/ Navigate(c, -1)
    \/ LoadList(c, [view EXCEPT !.key.date = Today.date])

GetDayAppts(date) == {r \in view.rows : r.date = date}

\* The time grid, behind its spinner while it loads.
Grid == IF view.loading THEN [d \in {} |-> {}] ELSE [d \in Columns(view.key) |-> GetDayAppts(d)]

\* A customer books, or moves an appointment.
BookElsewhere ==
    /\ \E a \in Appointments, d \in Dates : d # booked[a] /\ server' = [booked EXCEPT ![a] = d]
    /\ past' = [past EXCEPT !.mixed = TRUE]
    /\ UNCHANGED <<call, view>>

CalendarNext ==
    /\ page = "calendar" /\ UNCHANGED page
    /\ \/ BookElsewhere
       \/ \E c \in Calls :
             \/ CalendarHeader(c)
             \/ AnswerList(c, CalendarRows(call[c].arg)) \/ ReceiveList(c) \/ FailList(c, view.rows)
             \/ LoseInList(c)

(***************************************************************************)
(* Properties                                                              *)
(***************************************************************************)
CalendarTypeOK == page = "calendar" =>
    /\ \A c \in Calls : IsCall(call[c], [list |-> CalendarKeys], [list |-> SUBSET Cells])
    /\ booked \in [Appointments -> Dates \cup {Nil}]
    /\ view \in [key : CalendarKeys, rows : SUBSET Cells, loading : BOOLEAN]
    /\ past \in ListPast

\* In whatever order the loads are answered, a column has only appointments that
\* were booked for its day; and it has all of them when nothing is under way, no
\* answer overtook another one, none failed, and nothing was booked meanwhile.
GridShowsEachDay == page = "calendar" =>
    \A d \in DOMAIN Grid :
        /\ \A r \in Grid[d] : r.date = d
        /\ ~past.mixed /\ Quiet => \A a \in Appointments : booked[a] = d => [id |-> a, date |-> d] \in Grid[d]
=============================================================================
