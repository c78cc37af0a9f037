--------------------------- MODULE SitePageProofs ---------------------------
(***************************************************************************)
(* Proofs about the pages of the customers and the admins, and about the   *)
(* pages that are lists with dialogs, for any number of requests under     *)
(* way.  The lemmas about requests and lists are in RequestProofs.         *)
(***************************************************************************)
EXTENDS RequestProofs, MCSitePages

(***************************************************************************)
(* The booking page                                                        *)
(*                                                                         *)
(* As long as slots were asked for once at a time, the question under way  *)
(* and the slots on the page are about the day that is selected.           *)
(***************************************************************************)
DayQuestions == [service : Treatments \cup {Nil}, staff : Stylists \cup {Nil}, day : CarouselDays]

BookTyped ==
    /\ page = "book" /\ CallsOK /\ view \in BookView
    /\ past \in [preselected : Treatments \cup {Nil}, overlap : BOOLEAN]
    /\ \A c \in Calls : Busy(c, "staff") => call[c].arg \in Treatments
    /\ \A c \in Calls : Busy(c, "slots") =>
          /\ call[c].arg \in DayQuestions
          /\ call[c].step = "served" =>
                call[c].data \in SUBSET Slots /\ \A slot \in call[c].data : slot.day = call[c].arg.day

OneDay == ~past.overlap =>
    /\ \A c \in Calls : Busy(c, "slots") => call[c].arg.day = view.day
    /\ view.availability # Nil => \A slot \in view.availability : slot.day = view.day
    /\ view.slot # Nil => view.slot.day = view.day

BookInv == BookTyped /\ OneDay

\* A view with the same day and slots.
SameDay(w, v) ==
    w \in BookView /\ w.day = v.day /\ w.slot = v.slot /\ w.availability = v.availability

\* What the fields of the page may become.
LEMMA BookViewFields ==
    ASSUME NEW v \in BookView
    PROVE  /\ \A x \in {"service", "staff", "datetime", "confirm", "left"} : SameDay([v EXCEPT !.step = x], v)
           /\ \A x \in Treatments : SameDay([v EXCEPT !.service = x], v)
           /\ \A x \in Stylists \cup {Nil} : SameDay([v EXCEPT !.staff = x], v)
           /\ \A x \in BOOLEAN : SameDay([v EXCEPT !.loadingSlots = x], v)
           /\ \A x \in BOOLEAN : SameDay([v EXCEPT !.booking = x], v)
           /\ \A x \in SUBSET Treatments : SameDay([v EXCEPT !.services = x], v)
           /\ \A x \in SUBSET Stylists : SameDay([v EXCEPT !.staffList = x], v)
           /\ \A x \in CarouselDays :
                  LET w == [v EXCEPT !.day = x] IN
                  w \in BookView /\ w.day = x /\ w.slot = v.slot /\ w.availability = v.availability
           /\ \A x \in Slots \cup {Nil} :
                  LET w == [v EXCEPT !.slot = x] IN
                  w \in BookView /\ w.day = v.day /\ w.slot = x /\ w.availability = v.availability
           /\ \A x \in (SUBSET Slots) \cup {Nil} :
                  LET w == [v EXCEPT !.availability = x] IN
                  w \in BookView /\ w.day = v.day /\ w.slot = v.slot /\ w.availability = x
    BY DEF BookView, SameDay

LEMMA BookInitInv == BookInit => BookInv
    <1> SUFFICES ASSUME BookInit PROVE BookInv
        OBVIOUS
    <1>1. CallsOK /\ \E c \in Calls : call[c] = Request("load", Nil) /\ \A e \in Calls \ {c} : call[e] = Free
        BY MountEffect DEF BookInit
    <1>2. \A c \in Calls : ~Busy(c, "slots") /\ ~Busy(c, "staff")
        BY <1>1 DEF Busy, Request, Free
    <1>3. view \in BookView /\ view.availability = Nil /\ view.slot = Nil
        <2>1. 1 \in CarouselDays
            BY BookPageAssumption DEF CarouselDays
        <2> QED BY <2>1 DEF BookInit, BookView
    <1>4. past \in [preselected : Treatments \cup {Nil}, overlap : BOOLEAN]
        BY DEF BookInit
    <1> QED BY <1>1, <1>2, <1>3, <1>4 DEF BookInv, BookTyped, OneDay, BookInit

\* Steps that ask for no slots, and leave the day.
LEMMA DayStays ==
    ASSUME BookInv, UNCHANGED <<page, past>>, CallsOK', view' \in BookView, view'.day = view.day,
           \A e \in Calls : Busy(e, "staff")' => call'[e].arg \in Treatments,
           \A e \in Calls : Busy(e, "slots")' =>
               /\ Busy(e, "slots") /\ call'[e].arg = call[e].arg
               /\ call'[e].step = "served" =>
                      call'[e].data \in SUBSET Slots /\ \A slot \in call'[e].data : slot.day = call'[e].arg.day,
           ~past.overlap /\ view'.slot # Nil => view'.slot.day = view.day,
           ~past.overlap /\ view'.availability # Nil => \A slot \in view'.availability : slot.day = view.day
    PROVE  BookInv'
    <1>1. BookTyped'
        BY DEF BookInv, BookTyped
    <1>2. OneDay'
        BY DEF BookInv, OneDay
    <1> QED BY <1>1, <1>2 DEF BookInv

\* In particular steps with a view of the same day and slots.
LEMMA SameDayKeeps ==
    ASSUME BookInv, UNCHANGED <<page, past>>, CallsOK', SameDay(view', view),
           \A e \in Calls : Busy(e, "staff")' => call'[e].arg \in Treatments,
           \A e \in Calls : Busy(e, "slots")' =>
               /\ Busy(e, "slots") /\ call'[e].arg = call[e].arg
               /\ call'[e].step = "served" =>
                      call'[e].data \in SUBSET Slots /\ \A slot \in call'[e].data : slot.day = call'[e].arg.day
    PROVE  BookInv'
    <1>1. OneDay
        BY DEF BookInv
    <1>2. /\ ~past.overlap /\ view'.slot # Nil => view'.slot.day = view.day
          /\ ~past.overlap /\ view'.availability # Nil => \A slot \in view'.availability : slot.day = view.day
        BY <1>1 DEF SameDay, OneDay
    <1> QED BY <1>2, DayStays DEF SameDay

LEMMA ShowKeeps ==
    ASSUME BookInv, UNCHANGED page, NEW state, Show(state), SameDay(state, view)
    PROVE  BookInv'
    <1>1. UNCHANGED <<call, past>> /\ view' = state
        BY DEF Show
    <1>2. CallsOK'
        BY <1>1 DEF BookInv, BookTyped, CallsOK, IsRequest
    <1> QED BY <1>1, <1>2, SameDayKeeps DEF BookInv, BookTyped, Busy

\* A request that is no question about slots is sent, ends, or moves on.
LEMMA OtherCallKeeps ==
    ASSUME BookInv, UNCHANGED <<page, past>>, NEW c \in Calls, CallsOK', SameDay(view', view),
           \A e \in Calls \ {c} : call'[e] = call[e],
           ~Busy(c, "slots")', Busy(c, "staff")' => call'[c].arg \in Treatments
    PROVE  BookInv'
    BY SameDayKeeps DEF BookInv, BookTyped, Busy

LEMMA LoadStaffKeeps ==
    ASSUME BookInv, UNCHANGED page, NEW c \in Calls, NEW state, SameDay(state, view),
           state.service \in Treatments, LoadStaff(c, state)
    PROVE  BookInv'
    <1>1. Send(c, "staff", state.service) /\ view' = state /\ UNCHANGED past
        BY DEF LoadStaff
    <1>2. /\ CallsOK' /\ call'[c] = Request("staff", state.service)
          /\ \A e \in Calls \ {c} : call'[e] = call[e]
        BY <1>1, SendEffect DEF BookInv, BookTyped
    <1> QED BY <1>1, <1>2, OtherCallKeeps DEF Busy, Request

LEMMA LoadSlotsKeeps ==
    ASSUME BookInv, UNCHANGED page, NEW c \in Calls, NEW state \in BookView, LoadSlots(c, state),
           \/ state.day = view.day /\ state.slot = view.slot
           \/ state.slot = Nil
    PROVE  BookInv'
    <1> DEFINE question == [service |-> state.service, staff |-> state.staff, day |-> state.day]
    <1>1. question \in DayQuestions /\ question.day = state.day
        BY DEF BookView, DayQuestions
    <1> HIDE DEF question
    <1>2. Send(c, "slots", question)
        BY DEF LoadSlots, question
    <1>3. /\ CallsOK' /\ call'[c] = Request("slots", question)
          /\ \A e \in Calls \ {c} : call'[e] = call[e]
        BY <1>2, SendEffect DEF BookInv, BookTyped
    <1> DEFINE mid == [state EXCEPT !.availability = Nil]
    <1>4. mid \in BookView /\ mid.day = state.day /\ mid.slot = state.slot /\ mid.availability = Nil
        BY DEF BookView
    <1>5. view' = [mid EXCEPT !.loadingSlots = TRUE]
        BY DEF LoadSlots
    <1> HIDE DEF mid
    <1>6. view' \in BookView /\ view'.day = state.day /\ view'.slot = state.slot /\ view'.availability = Nil
        BY <1>4, <1>5, BookViewFields DEF SameDay
    <1>7. /\ past' \in [preselected : Treatments \cup {Nil}, overlap : BOOLEAN]
          /\ ~past'.overlap => ~past.overlap /\ \A e \in Calls : ~Busy(e, "slots")
        BY DEF LoadSlots, BookInv, BookTyped, Pending, Busy
    <1>8. BookTyped'
        BY <1>1, <1>3, <1>6, <1>7 DEF BookInv, BookTyped, Busy, Request
    <1>9. OneDay'
        BY <1>1, <1>3, <1>6, <1>7 DEF BookInv, OneDay, Busy, Request
    <1> QED BY <1>8, <1>9 DEF BookInv

\* The clicks of the customer.
LEMMA ClicksOfBooking ==
    ASSUME BookInv, UNCHANGED page, NEW c \in Calls,
           ServiceStep(c) \/ StaffStep(c) \/ DateTimeStep(c) \/ ConfirmStep(c) \/ ActionBar(c)
    PROVE  BookInv'
    <1>v. view \in BookView
        BY DEF BookInv, BookTyped
    <1> DEFINE at(x) == [view EXCEPT !.step = x]
    <1>s. \A x \in {"service", "staff", "datetime", "confirm"} : SameDay(at(x), view)
        BY <1>v, BookViewFields
    <1>f. \A x \in {"service", "staff", "datetime", "confirm"} : Show(at(x)) => BookInv'
        BY <1>s, ShowKeeps
    <1>1. CASE ServiceStep(c)
        <2>1. PICK s \in view.services : IF s = view.service THEN Show(at("staff"))
                                         ELSE LoadStaff(c, [view EXCEPT !.service = s, !.step = "staff"])
            BY <1>1 DEF ServiceStep
        <2>2. s \in Treatments
            BY <1>v DEF BookView
        <2>3. CASE LoadStaff(c, [view EXCEPT !.service = s, !.step = "staff"])
            <3> DEFINE mid == [view EXCEPT !.service = s]
            <3>1. mid \in BookView /\ SameDay(mid, view) /\ mid.service = s
                BY <1>v, <2>2 DEF BookView, SameDay
            <3> DEFINE state == [mid EXCEPT !.step = "staff"]
            <3>2. LoadStaff(c, state)
                BY <2>3
            <3> HIDE DEF mid
            <3>3. SameDay(state, view) /\ state.service = s
                BY <3>1 DEF BookView, SameDay
            <3> HIDE DEF state
            <3> QED BY <2>2, <3>2, <3>3, LoadStaffKeeps
        <2> QED BY <1>f, <2>1, <2>3
    <1>2. CASE StaffStep(c)
        <2>1. ASSUME NEW s \in view.staffList \cup {Nil},
                     LoadSlots(c, [view EXCEPT !.staff = s, !.step = "datetime"])
              PROVE  BookInv'
            <3> DEFINE mid == [view EXCEPT !.staff = s]
            <3>1. mid \in BookView /\ SameDay(mid, view)
                BY <1>v DEF BookView, SameDay
            <3> DEFINE state == [mid EXCEPT !.step = "datetime"]
            <3>2. LoadSlots(c, state)
                BY <2>1
            <3> HIDE DEF mid
            <3>3. state \in BookView /\ state.day = view.day /\ state.slot = view.slot
                BY <3>1 DEF BookView, SameDay
            <3> HIDE DEF state
            <3> QED BY <3>2, <3>3, LoadSlotsKeeps
        <2> QED BY Zenon, <1>2, <1>f, <2>1 DEF StaffStep
    <1>3. CASE DateTimeStep(c)
        <2>1. ASSUME NEW d \in CarouselDays, PickDay(c, d) PROVE BookInv'
            <3> DEFINE mid == [view EXCEPT !.day = d]
            <3>1. mid \in BookView
                BY <1>v DEF BookView
            <3> DEFINE state == [mid EXCEPT !.slot = Nil]
            <3>2. LoadSlots(c, state)
                BY <2>1 DEF PickDay
            <3> HIDE DEF mid
            <3>3. state \in BookView /\ state.slot = Nil
                BY <3>1 DEF BookView
            <3> HIDE DEF state
            <3> QED BY <3>2, <3>3, LoadSlotsKeeps
        <2>2. ASSUME view.availability # Nil, NEW slot \in view.availability, Show([view EXCEPT !.slot = slot])
              PROVE  BookInv'
            <3>1. UNCHANGED <<call, past>> /\ view' = [view EXCEPT !.slot = slot]
                BY <2>2 DEF Show
            <3>2. slot \in Slots
                BY <1>v, <2>2 DEF BookView
            <3>3. view' \in BookView /\ view'.day = view.day /\ view'.slot = slot /\ view'.availability = view.availability
                BY <1>v, <3>1, <3>2 DEF BookView
            <3>4. CallsOK'
                BY <3>1 DEF BookInv, BookTyped, CallsOK, IsRequest
            <3>5. ~past.overlap => \A s \in view.availability : s.day = view.day
                BY <2>2 DEF BookInv, OneDay
            <3>6. BookTyped'
                BY <3>1, <3>3, <3>4 DEF BookInv, BookTyped, Busy
            <3>7. OneDay'
                BY <2>2, <3>1, <3>3, <3>5 DEF BookInv, OneDay, Busy
            <3> QED BY <3>6, <3>7 DEF BookInv
        <2> QED BY <1>3, <1>f, <2>1, <2>2 DEF DateTimeStep
    <1>4. CASE ConfirmStep(c)
        <2>1. LoadSlots(c, at("datetime"))
            BY <1>4 DEF ConfirmStep
        <2> QED BY <1>s, <2>1, LoadSlotsKeeps DEF SameDay
    <1>5. CASE HandleBook(c)
        <2>1. Send(c, "book", [service |-> view.service, slot |-> view.slot]) /\ UNCHANGED past
            BY <1>5 DEF HandleBook
        <2>2. SameDay(view', view)
            BY <1>5, <1>v, BookViewFields DEF HandleBook
        <2>3. /\ CallsOK' /\ call'[c] = Request("book", [service |-> view.service, slot |-> view.slot])
              /\ \A e \in Calls \ {c} : call'[e] = call[e]
            BY <2>1, SendEffect DEF BookInv, BookTyped
        <2> QED BY <2>1, <2>2, <2>3, OtherCallKeeps DEF Busy, Request
    <1> QED BY <1>1, <1>2, <1>3, <1>4, <1>5, <1>f DEF ActionBar

LEMMA ServeReadKeeps ==
    ASSUME BookInv, UNCHANGED page, NEW c \in Calls, ServeRead(c)
    PROVE  BookInv'
    <1>1. UNCHANGED <<view, past>> /\ CallsOK /\ SameDay(view, view)
        BY DEF ServeRead, Keep, BookInv, BookTyped, SameDay
    <1>2. ASSUME NEW d, Answer(c, d), call[c].step = "sent",
                 call[c].op = "slots" => d \in SUBSET Slots /\ \A slot \in d : slot.day = call[c].arg.day
          PROVE  BookInv'
        <2>1. /\ CallsOK' /\ \A e \in Calls \ {c} : call'[e] = call[e]
              /\ call'[c] = [step |-> "served", op |-> call[c].op, arg |-> call[c].arg, data |-> d]
            BY <1>1, <1>2, AnswerEffect
        <2>2. \A e \in Calls : Busy(e, "staff")' => call'[e].arg \in Treatments
            BY <1>2, <2>1 DEF BookInv, BookTyped, Busy
        <2>3. \A e \in Calls : Busy(e, "slots")' =>
                  /\ Busy(e, "slots") /\ call'[e].arg = call[e].arg
                  /\ call'[e].step = "served" =>
                         call'[e].data \in SUBSET Slots /\ \A slot \in call'[e].data : slot.day = call'[e].arg.day
            BY <1>2, <2>1 DEF BookInv, BookTyped, Busy
        <2> QED BY <1>1, <2>1, <2>2, <2>3, SameDayKeeps
    <1>3. CASE (Stands(c, "load", "sent") \/ Stands(c, "staff", "sent")) /\ Answer(c, Nil)
        BY <1>2, <1>3 DEF Stands
    <1>4. ASSUME Stands(c, "slots", "sent"), NEW slots \in SUBSET SlotsFor(call[c].arg), Answer(c, slots)
          PROVE  BookInv'
        BY <1>2, <1>4 DEF Stands, SlotsFor
    <1> QED BY <1>3, <1>4 DEF ServeRead

\* A booking is served, refused or received, and other requests fail or are lost.
LEMMA ServeBookingKeeps ==
    ASSUME BookInv, UNCHANGED page, NEW c \in Calls, ServeBooking(c) \/ LoseCall(c)
    PROVE  BookInv'
    <1>1. UNCHANGED <<view, past>> /\ CallsOK /\ SameDay(view, view)
        BY DEF ServeBooking, LoseCall, Keep, BookInv, BookTyped, SameDay
    <1>2. /\ CallsOK' /\ \A e \in Calls \ {c} : call'[e] = call[e]
          /\ call[c].step # "free" /\ call'[c].op = call[c].op /\ call'[c].arg = call[c].arg
          /\ call[c].op = "slots" => call'[c].step = "failed"
        <2>1. CASE Stands(c, "book", "sent") /\ Answer(c, Nil)
            <3>1. call[c].op = "book" /\ call[c].step = "sent"
                BY <2>1 DEF Stands
            <3>2. /\ CallsOK' /\ \A e \in Calls \ {c} : call'[e] = call[e]
                  /\ call'[c] = [step |-> "served", op |-> call[c].op, arg |-> call[c].arg, data |-> Nil]
                BY <1>1, <2>1, AnswerEffect
            <3> QED BY <3>1, <3>2
        <2>2. CASE Stands(c, "book", "sent") /\ Refuse(c)
            <3>1. call[c].step = "sent"
                BY <2>2 DEF Stands
            <3>2. /\ CallsOK' /\ \A e \in Calls \ {c} : call'[e] = call[e]
                  /\ call'[c] = [step |-> "failed", op |-> call[c].op, arg |-> call[c].arg, data |-> call[c].data]
                BY <1>1, <2>2, RefuseEffect
            <3> QED BY <3>1, <3>2
        <2>3. CASE Lose(c)
            <3>1. /\ CallsOK' /\ \A e \in Calls \ {c} : call'[e] = call[e]
                  /\ call[c].step \in {"sent", "served"}
                  /\ call'[c] = [step |-> "failed", op |-> call[c].op, arg |-> call[c].arg, data |-> Nil]
                BY <1>1, <2>3, LoseEffect
            <3> QED BY <3>1
        <2> QED BY <2>1, <2>2, <2>3 DEF ServeBooking, LoseCall
    <1>3. \A e \in Calls : Busy(e, "staff")' => call'[e].arg \in Treatments
        BY <1>2 DEF BookInv, BookTyped, Busy
    <1>4. \A e \in Calls : Busy(e, "slots")' =>
              /\ Busy(e, "slots") /\ call'[e].arg = call[e].arg
              /\ call'[e].step = "served" =>
                     call'[e].data \in SUBSET Slots /\ \A slot \in call'[e].data : slot.day = call'[e].arg.day
        BY <1>2 DEF BookInv, BookTyped, Busy
    <1> QED BY <1>1, <1>2, <1>3, <1>4, SameDayKeeps

\* The answers that say nothing of slots.
LEMMA ReceiveKeeps ==
    ASSUME BookInv, UNCHANGED page, NEW c \in Calls,
           ReceiveLoad(c) \/ ReceiveStaff(c) \/ ReceiveBooking(c) \/ FailedBook(c)
    PROVE  BookInv'
    <1>1. view \in BookView /\ CallsOK
        BY DEF BookInv, BookTyped
    <1>2. UNCHANGED past
        BY DEF ReceiveLoad, ReceiveStaff, ReceiveBooking, FailedBook, Take
    <1>3. ASSUME End(c), SameDay(view', view) PROVE BookInv'
        <2>1. CallsOK' /\ call'[c] = Free /\ \A e \in Calls \ {c} : call'[e] = call[e]
            BY <1>1, <1>3, EndEffect
        <2> QED BY <1>2, <1>3, <2>1, OtherCallKeeps DEF Busy, Free
    <1>4. CASE ReceiveLoad(c)
        <2> DEFINE loaded == [view EXCEPT !.services = Treatments]
        <2>1. loaded \in BookView /\ SameDay(loaded, view)
            BY <1>1 DEF BookView, SameDay
        <2>2. CASE past.preselected = Nil
            BY <1>3, <1>4, <2>1, <2>2 DEF ReceiveLoad
        <2>3. CASE past.preselected # Nil
            <3>1. past.preselected \in Treatments
                BY <2>3 DEF BookInv, BookTyped
            <3> DEFINE chosen == [loaded EXCEPT !.service = past.preselected]
            <3>2. view' = [chosen EXCEPT !.step = "staff"] /\ Then(c, "staff", past.preselected)
                BY <1>4, <2>3 DEF ReceiveLoad
            <3> HIDE DEF loaded
            <3>3. chosen \in BookView /\ SameDay(chosen, view)
                BY <2>1, <3>1 DEF BookView, SameDay
            <3> HIDE DEF chosen
            <3>4. SameDay(view', view)
                BY <3>2, <3>3 DEF BookView, SameDay
            <3>5. /\ CallsOK' /\ call'[c] = Request("staff", past.preselected)
                  /\ \A e \in Calls \ {c} : call'[e] = call[e]
                BY <1>1, <3>2, ThenEffect
            <3> QED BY <1>2, <3>1, <3>4, <3>5, OtherCallKeeps DEF Busy, Request
        <2> QED BY <2>2, <2>3
    <1>5. CASE ReceiveStaff(c)
        <2>1. /\ call[c].op = "staff" /\ call[c].step = "served" /\ End(c)
              /\ view' = [view EXCEPT !.staffList = Does[call[c].arg]]
            BY <1>5 DEF ReceiveStaff, Take, Stands
        <2>2. Does[call[c].arg] \in SUBSET Stylists
            BY <2>1, BookPageAssumption DEF BookInv, BookTyped, Busy
        <2>3. SameDay(view', view)
            BY <1>1, <2>1, <2>2 DEF BookView, SameDay
        <2> QED BY <1>3, <2>1, <2>3
    <1>6. CASE ReceiveBooking(c)
        <2> DEFINE mid == [view EXCEPT !.step = "left"]
        <2>1. End(c) /\ view' = [mid EXCEPT !.booking = FALSE]
            BY <1>6 DEF ReceiveBooking, Take
        <2>2. mid \in BookView /\ SameDay(mid, view)
            BY <1>1 DEF BookView, SameDay
        <2> HIDE DEF mid
        <2>3. SameDay(view', view)
            BY <2>1, <2>2 DEF BookView, SameDay
        <2> QED BY <1>3, <2>1, <2>3
    <1>7. CASE FailedBook(c)
        <2>1. /\ End(c)
              /\ \/ view' = [view EXCEPT !.loadingSlots = FALSE]
                 \/ view' = [view EXCEPT !.booking = FALSE]
                 \/ view' = view
            BY <1>7 DEF FailedBook
        <2>2. SameDay(view', view)
            BY <1>1, <2>1 DEF BookView, SameDay
        <2> QED BY <1>3, <2>1, <2>2
    <1> QED BY <1>4, <1>5, <1>6, <1>7

LEMMA ReceiveSlotsKeeps ==
    ASSUME BookInv, UNCHANGED page, NEW c \in Calls, ReceiveSlots(c)
    PROVE  BookInv'
    <1>1. view \in BookView /\ CallsOK /\ UNCHANGED past
        BY DEF BookInv, BookTyped, ReceiveSlots, Take
    <1>2. Busy(c, "slots") /\ call[c].step = "served" /\ End(c)
        BY DEF ReceiveSlots, Take, Stands, Busy
    <1>3. CallsOK' /\ call'[c] = Free /\ \A e \in Calls \ {c} : call'[e] = call[e]
        BY <1>1, <1>2, EndEffect
    <1>4. call[c].data \in SUBSET Slots /\ \A slot \in call[c].data : slot.day = call[c].arg.day
        BY <1>2 DEF BookInv, BookTyped
    <1> DEFINE mid == [view EXCEPT !.availability = call[c].data]
    <1>5. mid \in BookView /\ mid.availability = call[c].data /\ mid.day = view.day /\ mid.slot = view.slot
        BY <1>1, <1>4 DEF BookView
    <1>6. view' = [mid EXCEPT !.loadingSlots = FALSE]
        BY DEF ReceiveSlots, Take
    <1> HIDE DEF mid
    <1>7. view' \in BookView /\ view'.availability = call[c].data /\ view'.day = view.day /\ view'.slot = view.slot
        BY <1>5, <1>6 DEF BookView
    <1>8. ~past.overlap => /\ \A slot \in view'.availability : slot.day = view.day
                           /\ view.slot # Nil => view.slot.day = view.day
        BY <1>2, <1>4, <1>7 DEF BookInv, OneDay
    <1>9. BookTyped'
        BY <1>1, <1>3, <1>7 DEF BookInv, BookTyped, Busy, Free
    <1>a. OneDay'
        BY <1>1, <1>3, <1>7, <1>8 DEF BookInv, OneDay, Busy, Free
    <1> QED BY <1>9, <1>a DEF BookInv

LEMMA BookStep == BookInv /\ [BookNext]_webVars => BookInv'
    <1> SUFFICES ASSUME BookInv, [BookNext]_webVars PROVE BookInv'
        OBVIOUS
    <1>1. CASE UNCHANGED webVars
        BY <1>1 DEF webVars, BookInv, BookTyped, OneDay, CallsOK, IsRequest, Busy
    <1>2. CASE BookNext
        <2>1. UNCHANGED page
            BY <1>2 DEF BookNext
        <2>2. ASSUME NEW c \in Calls, BookAnswers(c) \/ LoseCall(c) PROVE BookInv'
            BY <2>1, <2>2, ServeReadKeeps, ServeBookingKeeps, ReceiveKeeps, ReceiveSlotsKeeps DEF BookAnswers
        <2> QED BY <1>2, <2>1, <2>2, ClicksOfBooking DEF BookNext
    <1> QED BY <1>1, <1>2

\* The day that stands on the page is the day of the slot that is booked, for any
\* services, specialists and days, unless slots were asked for twice at once
\* (book/page.tsx, the effect on selectedDate and selectedStaff).
THEOREM ShownDayIsBookedAlways == BookSpec => []ShownDayIsBooked
    <1>1. BookInv => ShownDayIsBooked
        BY DEF BookInv, OneDay, ShownDayIsBooked
    <1> QED BY <1>1, BookInitInv, BookStep, PTL DEF BookSpec

(***************************************************************************)
(* The profile                                                             *)
(*                                                                         *)
(* One save is under way at a time, up to the copy of the user that fills  *)
(* the form; and as long as nothing was typed since it was filled, the     *)
(* form is what is stored, and what the save holds.                        *)
(***************************************************************************)
Saving(c) == call[c].step # "free" /\ call[c].op \in {"patch", "me"}

ProfileTyped ==
    /\ page = "profile" /\ CallsOK /\ view \in ProfileView
    /\ server \in [user : Profiles, password : Passwords]
    /\ past \in [typed : BOOLEAN]
    /\ \A c \in Calls :
          /\ Busy(c, "patch") => call[c].arg \in [form : Profiles]
          /\ Busy(c, "password") => call[c].arg \in [current : Passwords, new : Passwords]
          /\ Busy(c, "me") /\ call[c].step = "served" => call[c].data = server.user

OneSave == \A c \in Calls : Saving(c) => view.saving /\ \A d \in Calls : Saving(d) => d = c

FormIsStored == view.user # Nil /\ ~past.typed =>
    /\ view.form = server.user
    /\ \A c \in Calls : Busy(c, "patch") => call[c].arg.form = view.form

ProfileInv == ProfileTyped /\ OneSave /\ FormIsStored

LEMMA ProfileInitInv == ProfileInit => ProfileInv
    <1> SUFFICES ASSUME ProfileInit PROVE ProfileInv
        OBVIOUS
    <1>1. \A c \in Calls : IsRequest(call[c]) /\ call[c].step = "free"
        BY FreeIsRequest DEF ProfileInit, Free
    <1>2. CallsOK
        BY <1>1 DEF ProfileInit, CallsOK
    <1>3. server \in [user : Profiles, password : Passwords] /\ past \in [typed : BOOLEAN]
        BY DEF ProfileInit
    <1>4. view \in ProfileView /\ view.form = server.user
        BY <1>3 DEF ProfileInit, ProfileView
    <1> QED
        BY <1>1, <1>2, <1>3, <1>4 DEF ProfileInv, ProfileTyped, OneSave, FormIsStored, ProfileInit, Busy, Saving

\* Steps that neither save nor fill the form.
LEMMA FormStays ==
    ASSUME ProfileInv, UNCHANGED <<page, past>>, CallsOK', server' \in [user : Profiles, password : Passwords],
           server'.user = server.user, view' \in ProfileView, view'.form = view.form, view'.user = view.user,
           \A c \in Calls :
               /\ Busy(c, "password")' => call'[c].arg \in [current : Passwords, new : Passwords]
               /\ Saving(c)' => /\ Saving(c) /\ view'.saving /\ call'[c].arg = call[c].arg /\ call'[c].op = call[c].op
                                /\ Busy(c, "me")' /\ call'[c].step = "served" => call'[c].data = server.user
    PROVE  ProfileInv'
    <1>1. ProfileTyped'
        BY DEF ProfileInv, ProfileTyped, Busy, Saving
    <1>2. OneSave'
        BY DEF ProfileInv, OneSave
    <1>3. FormIsStored'
        BY DEF ProfileInv, FormIsStored, Busy, Saving
    <1> QED BY <1>1, <1>2, <1>3 DEF ProfileInv

\* The tabs, and the fields of the password.
LEMMA TabsKeep ==
    ASSUME ProfileInv, UNCHANGED page,
           \/ ProfileTabs
           \/ \E current, new \in Passwords : Show([view EXCEPT !.current = current, !.new = new])
    PROVE  ProfileInv'
    <1>1. UNCHANGED <<call, server, past>>
        BY DEF ProfileTabs, Show
    <1>v. view \in ProfileView
        BY DEF ProfileInv, ProfileTyped
    <1>2. view' \in ProfileView /\ view'.form = view.form /\ view'.user = view.user /\ view'.saving = view.saving
        <2>1. CASE ProfileTabs
            BY <1>v, <2>1 DEF ProfileTabs, Show, ProfileView
        <2>2. CASE \E current, new \in Passwords : Show([view EXCEPT !.current = current, !.new = new])
            <3>1. PICK current, new \in Passwords : view' = [view EXCEPT !.current = current, !.new = new]
                BY <2>2 DEF Show
            <3> DEFINE mid == [view EXCEPT !.current = current]
            <3>2. mid \in ProfileView /\ mid.form = view.form /\ mid.user = view.user /\ mid.saving = view.saving
                BY <1>v DEF ProfileView
            <3>3. view' = [mid EXCEPT !.new = new]
                BY <3>1
            <3> HIDE DEF mid
            <3> QED BY <3>2, <3>3 DEF ProfileView
        <2> QED BY <2>1, <2>2
    <1>c. CallsOK
        BY DEF ProfileInv, ProfileTyped
    <1>3. CallsOK'
        BY <1>1, <1>c, SameCalls
    <1>4. \A c \in Calls :
              /\ Busy(c, "password")' => call'[c].arg \in [current : Passwords, new : Passwords]
              /\ Saving(c)' => /\ Saving(c) /\ view'.saving /\ call'[c].arg = call[c].arg /\ call'[c].op = call[c].op
                               /\ Busy(c, "me")' /\ call'[c].step = "served" => call'[c].data = server.user
        BY Zenon, <1>1, <1>2 DEF ProfileInv, ProfileTyped, OneSave, Busy, Saving
    <1> QED BY Zenon, <1>1, <1>2, <1>3, <1>4, FormStays DEF ProfileInv, ProfileTyped

LEMMA TypeKeeps ==
    ASSUME ProfileInv, UNCHANGED page, NEW d \in Details, NEW text \in Contents, TypeDetail(d, text)
    PROVE  ProfileInv'
    <1> DEFINE form == [view.form EXCEPT ![d] = text]
    <1>1. form \in Profiles
        BY DEF ProfileInv, ProfileTyped, ProfileView, Profiles
    <1>2. view' = [view EXCEPT !.form = form] /\ past' = [past EXCEPT !.typed = TRUE] /\ UNCHANGED <<call, server>>
        BY DEF TypeDetail
    <1> HIDE DEF form
    <1>3. view' \in ProfileView /\ view'.saving = view.saving
        BY <1>1, <1>2 DEF ProfileInv, ProfileTyped, ProfileView
    <1>4. past' \in [typed : BOOLEAN] /\ past'.typed
        BY <1>2 DEF ProfileInv, ProfileTyped
    <1>5. ProfileTyped'
        BY <1>2, <1>3, <1>4 DEF ProfileInv, ProfileTyped, CallsOK, IsRequest, Busy
    <1>6. OneSave' /\ FormIsStored'
        BY <1>2, <1>3, <1>4 DEF ProfileInv, OneSave, FormIsStored, Saving
    <1> QED BY <1>5, <1>6 DEF ProfileInv

LEMMA SaveProfileKeeps ==
    ASSUME ProfileInv, UNCHANGED page, NEW c \in Calls, OnSaveProfile(c)
    PROVE  ProfileInv'
    <1>1. Send(c, "patch", [form |-> view.form]) /\ UNCHANGED <<server, past>> /\ view' = [view EXCEPT !.saving = TRUE]
        BY DEF OnSaveProfile
    <1>2. /\ CallsOK' /\ call'[c] = Request("patch", [form |-> view.form])
          /\ \A e \in Calls \ {c} : call'[e] = call[e]
        BY <1>1, SendEffect DEF ProfileInv, ProfileTyped
    <1>3. view' \in ProfileView /\ view'.saving /\ view'.form = view.form /\ view'.user = view.user
        BY <1>1 DEF ProfileInv, ProfileTyped, ProfileView
    <1>4. \A e \in Calls : ~Saving(e)
        BY DEF OnSaveProfile, ProfileInv, OneSave
    <1>5. call'[c].step = "sent" /\ call'[c].op = "patch" /\ call'[c].arg = [form |-> view.form]
        BY <1>2 DEF Request
    <1>6. view.form \in Profiles
        BY DEF ProfileInv, ProfileTyped, ProfileView
    <1>7. \A e \in Calls \ {c} : ~Saving(e)'
        BY <1>2, <1>4 DEF Saving
    <1>8. ProfileTyped'
        BY <1>1, <1>2, <1>3, <1>5, <1>6 DEF ProfileInv, ProfileTyped, Busy
    <1>9. OneSave'
        BY <1>3, <1>7 DEF OneSave
    <1>a. FormIsStored'
        BY <1>1, <1>3, <1>5, <1>7 DEF ProfileInv, FormIsStored, Busy, Saving
    <1> QED BY <1>8, <1>9, <1>a DEF ProfileInv

\* What the steps of the password change do to its own request alone.
LEMMA PasswordKeeps ==
    ASSUME ProfileInv, UNCHANGED page, NEW c \in Calls,
           OnChangePassword(c) \/ ServePassword(c) \/ ReceivePassword(c)
    PROVE  ProfileInv'
    <1>v. CallsOK /\ view \in ProfileView /\ server \in [user : Profiles, password : Passwords]
        BY DEF ProfileInv, ProfileTyped
    <1>1. UNCHANGED past
        BY DEF OnChangePassword, ServePassword, ReceivePassword
    <1>2. /\ view' \in ProfileView /\ view'.form = view.form /\ view'.user = view.user /\ view'.saving = view.saving
        <2>1. CASE OnChangePassword(c)
            BY <1>v, <2>1 DEF OnChangePassword, ProfileView
        <2>2. CASE ServePassword(c)
            BY <1>v, <2>2 DEF ServePassword
        <2>3. CASE ReceivePassword(c)
            <3> DEFINE v1 == [view EXCEPT !.current = Nil]
            <3> DEFINE v2 == [v1 EXCEPT !.new = Nil]
            <3>1. v1 \in ProfileView /\ v1.form = view.form /\ v1.user = view.user /\ v1.saving = view.saving
                BY <1>v DEF ProfileView
            <3>2. view' = [v2 EXCEPT !.savingPw = FALSE]
                BY <2>3 DEF ReceivePassword
            <3> HIDE DEF v1
            <3>3. v2 \in ProfileView /\ v2.form = view.form /\ v2.user = view.user /\ v2.saving = view.saving
                BY <3>1 DEF ProfileView
            <3> HIDE DEF v2
            <3> QED BY <3>2, <3>3 DEF ProfileView
        <2> QED BY <2>1, <2>2, <2>3
    <1>3. /\ CallsOK' /\ \A e \in Calls \ {c} : call'[e] = call[e]
          /\ ~Saving(c)'
          /\ Busy(c, "password")' => call'[c].arg \in [current : Passwords, new : Passwords]
        <2>1. CASE OnChangePassword(c)
            <3> DEFINE arg == [current |-> view.current, new |-> view.new]
            <3>1. arg \in [current : Passwords, new : Passwords]
                BY <1>v, <2>1 DEF OnChangePassword, ProfileView
            <3> HIDE DEF arg
            <3>2. Send(c, "password", arg)
                BY <2>1 DEF OnChangePassword, arg
            <3>3. /\ CallsOK' /\ call'[c] = Request("password", arg)
                  /\ \A e \in Calls \ {c} : call'[e] = call[e]
                BY <1>v, <3>2, SendEffect
            <3> QED BY <3>1, <3>3 DEF Request, Saving
        <2>2. CASE ServePassword(c)
            <3>1. call[c].op = "password" /\ call[c].step = "sent" /\ (Answer(c, Nil) \/ Refuse(c))
                BY <2>2 DEF ServePassword, Stands
            <3>2. /\ CallsOK' /\ \A e \in Calls \ {c} : call'[e] = call[e]
                  /\ call'[c].op = call[c].op /\ call'[c].arg = call[c].arg
                <4>1. CASE Answer(c, Nil)
                    <5>1. /\ CallsOK' /\ \A e \in Calls \ {c} : call'[e] = call[e]
                          /\ call'[c] = [step |-> "served", op |-> call[c].op, arg |-> call[c].arg, data |-> Nil]
                        BY <1>v, <3>1, <4>1, AnswerEffect
                    <5> QED BY <5>1
                <4>2. CASE Refuse(c)
                    <5>1. /\ CallsOK' /\ \A e \in Calls \ {c} : call'[e] = call[e]
                          /\ call'[c] = [step |-> "failed", op |-> call[c].op, arg |-> call[c].arg, data |-> call[c].data]
                        BY <1>v, <3>1, <4>2, RefuseEffect
                    <5> QED BY <5>1
                <4> QED BY <3>1, <4>1, <4>2
            <3> QED BY <3>1, <3>2 DEF ProfileInv, ProfileTyped, Busy, Saving
        <2>3. CASE ReceivePassword(c)
            BY <1>v, <2>3, EndEffect DEF ReceivePassword, Free, Saving, Busy
        <2> QED BY <2>1, <2>2, <2>3
    <1>4. server' \in [user : Profiles, password : Passwords] /\ server'.user = server.user
        <2>1. CASE ServePassword(c)
            <3>1. call[c].arg.new \in Passwords
                BY <2>1 DEF ServePassword, Stands, ProfileInv, ProfileTyped, Busy
            <3> QED BY <1>v, <2>1, <3>1 DEF ServePassword
        <2>2. CASE OnChangePassword(c) \/ ReceivePassword(c)
            BY <1>v, <2>2 DEF OnChangePassword, ReceivePassword
        <2> QED BY <2>1, <2>2
    <1>5. \A e \in Calls :
              /\ Busy(e, "password")' => call'[e].arg \in [current : Passwords, new : Passwords]
              /\ Saving(e)' => /\ Saving(e) /\ view'.saving /\ call'[e].arg = call[e].arg /\ call'[e].op = call[e].op
                               /\ Busy(e, "me")' /\ call'[e].step = "served" => call'[e].data = server.user
        BY <1>2, <1>3 DEF ProfileInv, ProfileTyped, OneSave, Busy, Saving
    <1> QED BY <1>1, <1>2, <1>3, <1>4, <1>5, FormStays

\* Nothing typed is lost of a field that is not sent: the row keeps it.
LEMMA ServeProfileKeeps ==
    ASSUME ProfileInv, UNCHANGED page, NEW c \in Calls, ServeProfile(c)
    PROVE  ProfileInv'
    <1> DEFINE form == call[c].arg.form
    <1> DEFINE user == [d \in Details |-> IF d \notin Needed /\ form[d] = Nil THEN server.user[d] ELSE form[d]]
    <1>1. /\ call[c].op = "patch" /\ call[c].step = "sent" /\ UNCHANGED <<view, past>> /\ Answer(c, Nil)
          /\ server' = [server EXCEPT !.user = user]
        BY DEF ServeProfile, Stands
    <1>2. form \in Profiles /\ server.user \in Profiles
        BY <1>1 DEF ProfileInv, ProfileTyped, Busy
    <1>3. user \in Profiles
        BY <1>2 DEF Profiles
    <1>4. form = server.user => user = server.user
        BY <1>2 DEF Profiles
    <1> HIDE DEF user
    <1>5. server' \in [user : Profiles, password : Passwords] /\ server'.user = user
        BY <1>1, <1>3 DEF ProfileInv, ProfileTyped
    <1>v. CallsOK
        BY DEF ProfileInv, ProfileTyped
    <1>6. /\ CallsOK' /\ \A e \in Calls \ {c} : call'[e] = call[e]
          /\ call'[c].op = call[c].op /\ call'[c].arg = call[c].arg
        <2>1. /\ CallsOK' /\ \A e \in Calls \ {c} : call'[e] = call[e]
              /\ call'[c] = [step |-> "served", op |-> call[c].op, arg |-> call[c].arg, data |-> Nil]
            BY <1>1, <1>v, AnswerEffect
        <2> QED BY <2>1
    <1>7. \A e \in Calls : Saving(e)' => e = c
        BY <1>1, <1>6 DEF ProfileInv, OneSave, Saving
    <1>8. ProfileTyped'
        BY <1>1, <1>5, <1>6, <1>7 DEF ProfileInv, ProfileTyped, Busy, Saving
    <1>9. OneSave'
        BY <1>1, <1>7 DEF ProfileInv, OneSave, Saving
    <1>a. FormIsStored'
        BY <1>1, <1>4, <1>5, <1>6, <1>7 DEF ProfileInv, FormIsStored, Busy, Saving
    <1> QED BY <1>8, <1>9, <1>a DEF ProfileInv

\* The user is asked for, answered, or some request fails on its way.
LEMMA MovesOfProfile ==
    ASSUME ProfileInv, UNCHANGED page, NEW c \in Calls, ReceiveProfile(c) \/ ServeMe(c) \/ LoseCall(c)
    PROVE  ProfileInv'
    <1>v. CallsOK /\ UNCHANGED <<view, server, past>>
        BY DEF ProfileInv, ProfileTyped, ReceiveProfile, ServeMe, LoseCall, Keep
    <1>1. /\ CallsOK' /\ \A e \in Calls \ {c} : call'[e] = call[e]
          /\ call[c].step # "free"
          /\ \/ /\ Busy(c, "patch") /\ call'[c].op = "me" /\ call'[c].step = "sent"
             \/ /\ call'[c].op = call[c].op /\ call'[c].arg = call[c].arg
                /\ call'[c].step = "served" => call'[c].data = server.user
        <2>1. CASE ReceiveProfile(c)
            <3>1. Then(c, "me", Nil) /\ call[c].op = "patch" /\ call[c].step = "served"
                BY <2>1 DEF ReceiveProfile, Stands
            <3>2. CallsOK' /\ call'[c] = Request("me", Nil) /\ \A e \in Calls \ {c} : call'[e] = call[e]
                BY <1>v, <3>1, ThenEffect
            <3> QED BY <3>1, <3>2 DEF Request, Busy
        <2>2. CASE ServeMe(c)
            <3>1. Answer(c, server.user) /\ call[c].step = "sent"
                BY <2>2 DEF ServeMe, Stands
            <3>2. /\ CallsOK' /\ \A e \in Calls \ {c} : call'[e] = call[e]
                  /\ call'[c] = [step |-> "served", op |-> call[c].op, arg |-> call[c].arg, data |-> server.user]
                BY <1>v, <3>1, AnswerEffect
            <3> QED BY <3>1, <3>2
        <2>3. CASE LoseCall(c)
            <3>1. Lose(c)
                BY <2>3 DEF LoseCall
            <3>2. /\ CallsOK' /\ \A e \in Calls \ {c} : call'[e] = call[e]
                  /\ call[c].step \in {"sent", "served"}
                  /\ call'[c] = [step |-> "failed", op |-> call[c].op, arg |-> call[c].arg, data |-> Nil]
                BY <1>v, <3>1, LoseEffect
            <3> QED BY <3>2
        <2> QED BY <2>1, <2>2, <2>3
    <1>2. \A e \in Calls : Saving(e)' => Saving(e)
        BY <1>1 DEF Saving, Busy
    <1>3. ProfileTyped'
        BY <1>v, <1>1 DEF ProfileInv, ProfileTyped, Busy
    <1>4. OneSave'
        BY <1>v, <1>2 DEF ProfileInv, OneSave
    <1>5. FormIsStored'
        BY <1>v, <1>1 DEF ProfileInv, FormIsStored, Busy
    <1> QED BY <1>3, <1>4, <1>5 DEF ProfileInv

LEMMA ReceiveMeKeeps ==
    ASSUME ProfileInv, UNCHANGED page, NEW c \in Calls, ReceiveMe(c)
    PROVE  ProfileInv'
    <1>1. Busy(c, "me") /\ call[c].step = "served" /\ Saving(c) /\ UNCHANGED server /\ End(c)
        BY DEF ReceiveMe, Stands, Busy, Saving
    <1>2. call[c].data = server.user /\ server.user \in Profiles
        BY <1>1 DEF ProfileInv, ProfileTyped
    <1> DEFINE v1 == [view EXCEPT !.user = call[c].data]
    <1> DEFINE v2 == [v1 EXCEPT !.form = call[c].data]
    <1>3. view' = [v2 EXCEPT !.saving = FALSE] /\ past' = [past EXCEPT !.typed = FALSE]
        BY DEF ReceiveMe
    <1>4. v1 \in ProfileView
        BY <1>2 DEF ProfileInv, ProfileTyped, ProfileView
    <1> HIDE DEF v1
    <1>5. v2 \in ProfileView /\ v2.form = server.user
        BY <1>2, <1>4 DEF ProfileView
    <1> HIDE DEF v2
    <1>6. view' \in ProfileView /\ view'.form = server.user
        BY <1>3, <1>5 DEF ProfileView
    <1>7. past' \in [typed : BOOLEAN]
        BY <1>3 DEF ProfileInv, ProfileTyped
    <1>8. CallsOK' /\ call'[c] = Free /\ \A e \in Calls \ {c} : call'[e] = call[e]
        BY <1>1, EndEffect DEF ProfileInv, ProfileTyped
    <1>9. \A e \in Calls : ~Saving(e)'
        BY <1>1, <1>8 DEF ProfileInv, OneSave, Saving, Free
    <1>a. ProfileTyped'
        BY <1>1, <1>6, <1>7, <1>8 DEF ProfileInv, ProfileTyped, Busy, Free
    <1>b. OneSave' /\ FormIsStored'
        BY <1>1, <1>6, <1>9 DEF OneSave, FormIsStored, Busy, Saving
    <1> QED BY <1>a, <1>b DEF ProfileInv

LEMMA FailedProfileKeeps ==
    ASSUME ProfileInv, UNCHANGED page, NEW c \in Calls, FailedProfile(c)
    PROVE  ProfileInv'
    <1>v. CallsOK /\ view \in ProfileView /\ UNCHANGED <<server, past>> /\ call[c].step = "failed" /\ End(c)
        BY DEF ProfileInv, ProfileTyped, FailedProfile
    <1>1. CallsOK' /\ call'[c] = Free /\ \A e \in Calls \ {c} : call'[e] = call[e]
        BY <1>v, EndEffect
    <1>2. CASE Saving(c)
        <2>1. /\ view' \in ProfileView /\ view'.form = view.form /\ (view'.user = view.user \/ view'.user = Nil)
            <3>1. CASE call[c].op = "patch"
                BY <1>v, <3>1 DEF FailedProfile, ProfileView
            <3>2. CASE call[c].op = "me"
                <4> DEFINE mid == [view EXCEPT !.user = Nil]
                <4>1. mid \in ProfileView /\ mid.form = view.form /\ mid.user = Nil
                    BY <1>v DEF ProfileView
                <4>2. view' = [mid EXCEPT !.saving = FALSE]
                    BY <3>2 DEF FailedProfile
                <4> HIDE DEF mid
                <4> QED BY <4>1, <4>2 DEF ProfileView
            <3> QED BY <1>2, <3>1, <3>2 DEF Saving
        <2>2. \A e \in Calls : ~Saving(e)'
            BY <1>1, <1>2 DEF ProfileInv, OneSave, Saving, Free
        <2>3. ProfileTyped'
            BY <1>v, <1>1, <2>1 DEF ProfileInv, ProfileTyped, Busy, Free
        <2>4. OneSave' /\ FormIsStored'
            BY <1>v, <2>1, <2>2 DEF ProfileInv, OneSave, FormIsStored, Busy, Saving
        <2> QED BY <2>3, <2>4 DEF ProfileInv
    <1>3. CASE ~Saving(c)
        <2>1. view' = [view EXCEPT !.savingPw = FALSE]
            BY <1>v, <1>3 DEF FailedProfile, Saving
        <2>2. view' \in ProfileView /\ view'.form = view.form /\ view'.user = view.user /\ view'.saving = view.saving
            BY <1>v, <2>1 DEF ProfileView
        <2>3. server' \in [user : Profiles, password : Passwords] /\ server'.user = server.user
            BY <1>v DEF ProfileInv, ProfileTyped
        <2>4. \A e \in Calls :
                  /\ Busy(e, "password")' => call'[e].arg \in [current : Passwords, new : Passwords]
                  /\ Saving(e)' => /\ Saving(e) /\ view'.saving /\ call'[e].arg = call[e].arg /\ call'[e].op = call[e].op
                                   /\ Busy(e, "me")' /\ call'[e].step = "served" => call'[e].data = server.user
            BY <1>1, <2>2 DEF ProfileInv, ProfileTyped, OneSave, Busy, Saving, Free
        <2> QED BY <1>v, <1>1, <2>2, <2>3, <2>4, FormStays
    <1> QED BY <1>2, <1>3

LEMMA ProfileStep == ProfileInv /\ [ProfileNext]_webVars => ProfileInv'
    <1> SUFFICES ASSUME ProfileInv, [ProfileNext]_webVars PROVE ProfileInv'
        OBVIOUS
    <1>1. CASE UNCHANGED webVars
        BY <1>1 DEF webVars, ProfileInv, ProfileTyped, OneSave, FormIsStored, CallsOK, IsRequest, Busy, Saving
    <1>2. CASE ProfileNext
        <2>1. UNCHANGED page
            BY <1>2 DEF ProfileNext
        <2>2. ASSUME NEW c \in Calls, ProfileTab(c) \/ PasswordTab(c) PROVE ProfileInv'
            BY <2>1, <2>2, TypeKeeps, SaveProfileKeeps, TabsKeep, PasswordKeeps DEF ProfileTab, PasswordTab
        <2>3. ASSUME NEW c \in Calls, ProfileAnswers(c) \/ LoseCall(c) PROVE ProfileInv'
            BY <2>1, <2>3, ServeProfileKeeps, MovesOfProfile, ReceiveMeKeeps, PasswordKeeps, FailedProfileKeeps
               DEF ProfileAnswers
        <2> QED BY <1>2, <2>1, <2>2, <2>3, TabsKeep DEF ProfileNext
    <1> QED BY <1>1, <1>2

\* A form in which nothing was typed since it was filled is what is stored, for any
\* fields and contents (profile/page.tsx, the effect on user).
THEOREM UntypedFormIsStoredAlways == ProfileSpec => []UntypedFormIsStored
    <1>1. ProfileInv => UntypedFormIsStored
        BY DEF ProfileInv, FormIsStored, UntypedFormIsStored, SignedIn
    <1> QED BY <1>1, ProfileInitInv, ProfileStep, PTL DEF ProfileSpec

(***************************************************************************)
(* The decisions of the admins                                             *)
(*                                                                         *)
(* Unless decisions about one application overlapped, each one that has    *)
(* read and not written holds the row as it is, in a status that only a    *)
(* decision leaves, and no other is about the same business: so the        *)
(* columns that it finds unchanged are those that its target wants.        *)
(***************************************************************************)
Undecided(c) == Stands(c, "decide", "sent")
Deciding(c) == Undecided(c) /\ call[c].data # Nil /\ call[c].arg.firm \in Firms
Rivals == [firm : Firms, action : Decisions, read : Application]

VerificationTyped ==
    /\ page = "verification" /\ CallsOK
    /\ server \in [row : [Firms -> Application], rival : Rivals \cup {Nil}]
    /\ "action" \in DOMAIN view /\ view.action \in Decisions \cup {Nil}
    /\ "raced" \in DOMAIN past /\ past.raced \in BOOLEAN
    /\ \A c \in Calls : Undecided(c) => call[c].arg.action \in Decisions
    /\ \A c \in Calls : Deciding(c) => call[c].data \in Application

Consistent(f) == row[f].verified <=> row[f].status = "APPROVED"
Standing(f, action, read) == read = row[f] /\ Allowed(f, action)

OneDecision == ~past.raced =>
    /\ \A f \in Firms : Consistent(f)
    /\ \A c \in Calls : Deciding(c) => Standing(call[c].arg.firm, call[c].arg.action, call[c].data)
    /\ server.rival # Nil => Standing(server.rival.firm, server.rival.action, server.rival.read)
    /\ \A c, d \in Calls : Deciding(c) /\ Deciding(d) /\ call[c].arg.firm = call[d].arg.firm => c = d
    /\ \A c \in Calls : Deciding(c) /\ server.rival # Nil => call[c].arg.firm # server.rival.firm

VerificationInv == VerificationTyped /\ OneDecision

LEMMA VerificationInitInv == VerificationInit => VerificationInv
    <1> SUFFICES ASSUME VerificationInit PROVE VerificationInv
        OBVIOUS
    <1>1. PICK c \in Calls : /\ call = [d \in Calls |-> IF d = c THEN Request("list", Nil) ELSE Free]
                             /\ past = [loads |-> <<c>>, mixed |-> FALSE, raced |-> FALSE]
        BY DEF VerificationInit
    <1>2. CallsOK /\ \A d \in Calls : ~Undecided(d)
        <2>1. CallsOK
            BY <1>1, FreeIsRequest, RequestIsRequest DEF CallsOK
        <2>2. \A d \in Calls : call[d].op # "decide" \/ call[d].step # "sent"
            BY <1>1 DEF Free, Request
        <2> QED BY <2>1, <2>2 DEF Undecided, Stands
    <1>3. server.rival = Nil /\ server.row = [f \in Firms |-> [status |-> "NOT_APPLIED", verified |-> FALSE]]
        BY DEF VerificationInit
    <1>4. server \in [row : [Firms -> Application], rival : Rivals \cup {Nil}]
        BY DEF VerificationInit, Application, Statuses
    <1>5. "action" \in DOMAIN view /\ view.action = Nil /\ "raced" \in DOMAIN past /\ past.raced = FALSE
        BY <1>1 DEF VerificationInit
    <1>6. \A f \in Firms : Consistent(f)
        BY <1>3 DEF Consistent, row
    <1> QED
        BY <1>2, <1>3, <1>4, <1>5, <1>6 DEF VerificationInv, VerificationTyped, OneDecision, Deciding, VerificationInit

\* Steps that leave the applications, and the decisions under way, alone.
LEMMA DecisionsStay ==
    ASSUME VerificationInv, UNCHANGED <<page, server>>, CallsOK',
           "action" \in DOMAIN view', view'.action \in Decisions \cup {Nil},
           "raced" \in DOMAIN past', past'.raced = past.raced,
           \A c \in Calls : Undecided(c)' =>
               /\ call'[c].arg.action \in Decisions
               /\ \/ call'[c].data = Nil
                  \/ Undecided(c) /\ call'[c].arg = call[c].arg /\ call'[c].data = call[c].data
    PROVE  VerificationInv'
    <1>1. \A c \in Calls : Deciding(c)' => Deciding(c) /\ call'[c].arg = call[c].arg /\ call'[c].data = call[c].data
        BY DEF Deciding, Undecided, Stands
    <1>2. VerificationTyped'
        BY <1>1 DEF VerificationInv, VerificationTyped
    <1>3. OneDecision'
        BY <1>1 DEF VerificationInv, OneDecision, Standing, Consistent, Allowed, row
    <1> QED BY <1>2, <1>3 DEF VerificationInv

\* A decision that is committed on the row that it read leaves the business verified
\* just when it stands approved.
LEMMA CommittedIsConsistent ==
    ASSUME row \in [Firms -> Application], NEW f \in Firms, NEW action \in Decisions, NEW read \in Application
    PROVE  /\ Written(f, action, read) \in [Firms -> Application]
           /\ \A g \in Firms \ {f} : Written(f, action, read)[g] = row[g]
           /\ Consistent(f) /\ Standing(f, action, read) =>
                 (Written(f, action, read)[f].verified <=> Written(f, action, read)[f].status = "APPROVED")
    <1> DEFINE verified == IF action = "review" THEN read.verified ELSE action = "approve"
    <1> DEFINE new == [status |-> Target[action], verified |-> IF verified # read.verified THEN verified ELSE row[f].verified]
    <1>1. read.verified \in BOOLEAN /\ row[f].verified \in BOOLEAN
        BY DEF Application
    <1>2. verified \in BOOLEAN
        BY <1>1
    <1>3. Target[action] \in Statuses
        BY DEF Target, Decisions, Statuses
    <1>4. new.status = Target[action] /\ new.verified \in BOOLEAN
        BY <1>1, <1>2
    <1>5. new \in Application
        BY <1>3, <1>4 DEF Application
    <1>6. Written(f, action, read) = [row EXCEPT ![f] = new]
        BY DEF Written
    <1>7. Consistent(f) /\ Standing(f, action, read) => (new.verified <=> Target[action] = "APPROVED")
        <2> SUFFICES ASSUME Consistent(f), Standing(f, action, read) PROVE new.verified <=> Target[action] = "APPROVED"
            OBVIOUS
        <2>1. read = row[f] /\ <<row[f].status, Target[action]>> \in VerificationTransitions
            BY DEF Standing, Allowed
        <2>2. CASE action = "review"
            <3>1. Target[action] = "UNDER_REVIEW" /\ new.verified = row[f].verified
                BY <2>1, <2>2 DEF Target
            <3>2. row[f].status = "APPLIED"
                BY <2>1, <3>1 DEF VerificationTransitions
            <3> QED BY <3>1, <3>2, <1>1 DEF Consistent
        <2>3. CASE action = "approve"
            BY <1>1, <2>1, <2>3 DEF Target
        <2>4. CASE action = "reject"
            BY <1>1, <2>1, <2>4 DEF Target
        <2> QED BY <2>2, <2>3, <2>4 DEF Decisions
    <1> HIDE DEF new
    <1> QED BY <1>4, <1>5, <1>6, <1>7

LEMMA CommitKeeps ==
    ASSUME VerificationInv, UNCHANGED page, NEW c \in Calls, CommitDecision(c)
    PROVE  VerificationInv'
    <1> DEFINE f == call[c].arg.firm
    <1> DEFINE action == call[c].arg.action
    <1>1. /\ Undecided(c) /\ UNCHANGED <<view, past>> /\ Answer(c, Nil) /\ action \in Decisions
          /\ server' = [server EXCEPT !.row = Written(f, action, call[c].data)]
        BY DEF CommitDecision, Undecided, VerificationInv, VerificationTyped
    <1>2. CallsOK /\ row \in [Firms -> Application] /\ server.rival \in Rivals \cup {Nil}
        BY DEF VerificationInv, VerificationTyped, row
    <1>3. /\ CallsOK' /\ \A e \in Calls \ {c} : call'[e] = call[e]
          /\ call'[c] = [step |-> "served", op |-> call[c].op, arg |-> call[c].arg, data |-> Nil]
        BY <1>1, <1>2, AnswerEffect
    <1>4. \A e \in Calls : Undecided(e)' => Undecided(e) /\ e # c /\ call'[e] = call[e]
        BY <1>3 DEF Undecided, Stands
    <1>5. \A e \in Calls : Deciding(e)' => Deciding(e) /\ e # c /\ call'[e] = call[e]
        BY <1>4 DEF Deciding
    <1>6. server'.rival = server.rival /\ row' = Written(f, action, call[c].data)
        BY <1>1 DEF VerificationInv, VerificationTyped, row
    <1>7. CASE f \notin Firms
        <2>1. row' = row
            <3>1. PICK e : Written(f, action, call[c].data) = [row EXCEPT ![f] = e]
                BY DEF Written
            <3>2. \A rows \in [Firms -> Application] : [rows EXCEPT ![f] = e] = rows
                BY <1>7
            <3> QED BY <1>2, <1>6, <3>1, <3>2
        <2>2. server' = server
            BY <1>1, <1>6, <2>1 DEF VerificationInv, VerificationTyped, row
        <2> QED
            BY <1>1, <1>3, <1>4, <2>2, DecisionsStay DEF VerificationInv, VerificationTyped
    <1>8. CASE f \in Firms
        <2>1. Deciding(c) /\ call[c].data \in Application
            BY <1>1, <1>8 DEF CommitDecision, Deciding, VerificationInv, VerificationTyped
        <2>2. /\ row' \in [Firms -> Application]
              /\ \A g \in Firms \ {f} : row'[g] = row[g]
              /\ Consistent(f) /\ Standing(f, action, call[c].data) => (row'[f].verified <=> row'[f].status = "APPROVED")
            BY <1>1, <1>2, <1>6, <1>8, <2>1, CommittedIsConsistent
        <2>3. server' \in [row : [Firms -> Application], rival : Rivals \cup {Nil}]
            BY <1>1, <1>2, <1>6, <2>2 DEF VerificationInv, VerificationTyped, row
        <2>4. VerificationTyped'
            BY <1>1, <1>3, <1>4, <1>5, <2>3 DEF VerificationInv, VerificationTyped
        <2>5. OneDecision'
            <3> SUFFICES ASSUME ~past.raced PROVE OneDecision'
                BY <1>1 DEF OneDecision
            <3>1. /\ \A g \in Firms : Consistent(g)
                  /\ Standing(f, action, call[c].data)
                  /\ server.rival # Nil => server.rival.firm # f
                  /\ \A e \in Calls : Deciding(e) /\ e # c => call[e].arg.firm # f
                BY <2>1 DEF VerificationInv, OneDecision
            <3>2. \A g \in Firms : Consistent(g)'
                BY <2>2, <3>1 DEF Consistent
            <3>3. server.rival # Nil => server.rival.firm \in Firms
                BY <1>2 DEF Rivals
            <3>4. \A e \in Calls : Deciding(e)' =>
                      Standing(call[e].arg.firm, call[e].arg.action, call[e].data)'
                BY <1>5, <2>2, <3>1 DEF VerificationInv, OneDecision, Standing, Allowed, Deciding
            <3>5. server'.rival # Nil => Standing(server.rival.firm, server.rival.action, server.rival.read)'
                BY Zenon, <1>6, <2>2, <3>1, <3>3 DEF VerificationInv, OneDecision, Standing, Allowed
            <3>6. /\ \A e, d \in Calls : Deciding(e)' /\ Deciding(d)' /\ call'[e].arg.firm = call'[d].arg.firm => e = d
                  /\ \A e \in Calls : Deciding(e)' /\ server'.rival # Nil => call'[e].arg.firm # server'.rival.firm
                BY <1>5, <1>6 DEF VerificationInv, OneDecision
            <3> QED BY <3>2, <3>4, <3>5, <3>6 DEF OneDecision
        <2> QED BY <2>4, <2>5 DEF VerificationInv
    <1> QED BY <1>7, <1>8

\* A decision that reads the row while another one about the business is under way marks
\* the history.
LEMMA ReadKeeps ==
    ASSUME VerificationInv, UNCHANGED page, NEW c \in Calls, ReadDecision(c)
    PROVE  VerificationInv'
    <1> DEFINE f == call[c].arg.firm
    <1> DEFINE action == call[c].arg.action
    <1>1. /\ Undecided(c) /\ UNCHANGED <<view, server>> /\ action \in Decisions /\ call[c].data = Nil
        BY DEF ReadDecision, Undecided, VerificationInv, VerificationTyped
    <1>2. CallsOK /\ row \in [Firms -> Application] /\ row' = row
        BY <1>1 DEF VerificationInv, VerificationTyped, row
    <1>3. CASE ~Allowed(f, action)
        <2>1. Refuse(c) /\ UNCHANGED past
            BY <1>3 DEF ReadDecision
        <2>2. /\ CallsOK' /\ \A e \in Calls \ {c} : call'[e] = call[e]
              /\ call'[c] = [step |-> "failed", op |-> call[c].op, arg |-> call[c].arg, data |-> call[c].data]
            BY <1>2, <2>1, RefuseEffect
        <2>3. \A e \in Calls : Undecided(e)' => Undecided(e) /\ e # c /\ call'[e] = call[e]
            BY <2>2 DEF Undecided, Stands
        <2> QED
            BY <1>1, <2>1, <2>2, <2>3, DecisionsStay DEF VerificationInv, VerificationTyped
    <1>4. CASE Allowed(f, action)
        <2>1. /\ call' = [call EXCEPT ![c].data = row[f]]
              /\ past' = [past EXCEPT !.raced = @ \/ UnderDecision(f)]
            BY <1>4 DEF ReadDecision
        <2>3. /\ CallsOK' /\ \A e \in Calls \ {c} : call'[e] = call[e]
              /\ call'[c] = [step |-> call[c].step, op |-> call[c].op, arg |-> call[c].arg, data |-> row[f]]
            <3> DEFINE r == [step |-> call[c].step, op |-> call[c].op, arg |-> call[c].arg, data |-> row[f]]
            <3>1. IsRequest(r)
                BY DEF IsRequest
            <3>2. PICK s, o, a, x : call[c] = [step |-> s, op |-> o, arg |-> a, data |-> x]
                BY <1>2 DEF CallsOK, IsRequest
            <3>3. [call[c] EXCEPT !.data = row[f]] = r
                BY <3>2
            <3>4. call' = [call EXCEPT ![c] = r]
                BY <2>1, <3>3
            <3> HIDE DEF r
            <3>5. CallsOK' /\ call'[c] = r /\ \A e \in Calls \ {c} : call'[e] = call[e]
                BY <1>2, <3>1, <3>4, OneCall
            <3> QED BY <3>5 DEF r
        <2>4. /\ \A e \in Calls : Undecided(e)' <=> Undecided(e)
              /\ \A e \in Calls : call'[e].arg = call[e].arg
              /\ \A e \in Calls : e # c => call'[e].data = call[e].data
              /\ call'[c].data = row[f]
            BY <2>3 DEF Undecided, Stands
        <2>5. \A e \in Calls : Deciding(e)' /\ e # c => Deciding(e)
            BY <2>4 DEF Deciding
        <2>6. /\ "raced" \in DOMAIN past' /\ past'.raced \in BOOLEAN
              /\ ~past'.raced => ~past.raced /\ ~UnderDecision(f)
            BY <2>1 DEF VerificationInv, VerificationTyped
        <2>7. VerificationTyped'
            <3>1. \A e \in Calls : Deciding(e)' => call'[e].data \in Application
                BY <1>2, <2>4, <2>5 DEF VerificationInv, VerificationTyped, Deciding
            <3> QED BY <1>1, <2>3, <2>4, <2>6, <3>1 DEF VerificationInv, VerificationTyped
        <2>8. OneDecision'
            <3> SUFFICES ASSUME ~past'.raced PROVE OneDecision'
                BY DEF OneDecision
            <3>1. ~past.raced /\ ~UnderDecision(f)
                BY <2>6
            <3>2. /\ server.rival # Nil => server.rival.firm # f
                  /\ \A e \in Calls : Deciding(e) => call[e].arg.firm # f
                BY <3>1 DEF UnderDecision, Deciding, Undecided
            <3>3. \A g \in Firms : Consistent(g)'
                BY <1>2, <3>1 DEF Consistent, VerificationInv, OneDecision
            <3>4. \A e \in Calls : Deciding(e)' =>
                      Standing(call[e].arg.firm, call[e].arg.action, call[e].data)'
                BY <1>2, <1>4, <2>4, <2>5, <3>1 DEF VerificationInv, OneDecision, Standing, Allowed
            <3>5. server'.rival # Nil => Standing(server.rival.firm, server.rival.action, server.rival.read)'
                BY <1>1, <1>2, <3>1 DEF VerificationInv, OneDecision, Standing, Allowed
            <3>6. /\ \A e, d \in Calls : Deciding(e)' /\ Deciding(d)' /\ call'[e].arg.firm = call'[d].arg.firm => e = d
                  /\ \A e \in Calls : Deciding(e)' /\ server'.rival # Nil => call'[e].arg.firm # server'.rival.firm
                BY <1>1, <2>4, <2>5, <3>1, <3>2 DEF VerificationInv, OneDecision
            <3> QED BY <3>3, <3>4, <3>5, <3>6 DEF OneDecision
        <2> QED BY <2>7, <2>8 DEF VerificationInv
    <1> QED BY <1>3, <1>4

\* The other admin, and the owners, who apply when no decision can be under way.
LEMMA OthersKeep ==
    ASSUME VerificationInv, UNCHANGED page,
           RivalReads \/ RivalCommits \/ \E f \in Firms : SubmitForVerification(f)
    PROVE  VerificationInv'
    <1>1. UNCHANGED <<view, call>>
        BY DEF RivalReads, RivalCommits, SubmitForVerification
    <1>2. CallsOK /\ row \in [Firms -> Application] /\ server.rival \in Rivals \cup {Nil}
        BY DEF VerificationInv, VerificationTyped, row
    <1>3. CallsOK'
        BY <1>1, <1>2, SameCalls
    <1>4. \A c \in Calls : (Undecided(c)' <=> Undecided(c)) /\ (Deciding(c)' <=> Deciding(c)) /\ call'[c] = call[c]
        BY <1>1 DEF Undecided, Deciding, Stands
    <1>5. CASE RivalReads
        <2>1. PICK f \in Firms, action \in Decisions :
                  /\ Allowed(f, action)
                  /\ server' = [server EXCEPT !.rival = [firm |-> f, action |-> action, read |-> row[f]]]
                  /\ past' = [past EXCEPT !.raced = @ \/ UnderDecision(f)]
            BY <1>5 DEF RivalReads
        <2> DEFINE rival == [firm |-> f, action |-> action, read |-> row[f]]
        <2>2. rival \in Rivals
            BY <1>2 DEF Rivals
        <2>3. /\ server' \in [row : [Firms -> Application], rival : Rivals \cup {Nil}]
              /\ server'.rival = rival /\ row' = row
            BY <2>1, <2>2 DEF VerificationInv, VerificationTyped, row
        <2>4. /\ "raced" \in DOMAIN past' /\ past'.raced \in BOOLEAN
              /\ ~past'.raced => ~past.raced /\ ~UnderDecision(f)
            BY <2>1 DEF VerificationInv, VerificationTyped
        <2>5. VerificationTyped'
            BY <1>1, <1>3, <1>4, <2>3, <2>4 DEF VerificationInv, VerificationTyped
        <2>6. OneDecision'
            <3> SUFFICES ASSUME ~past'.raced PROVE OneDecision'
                BY DEF OneDecision
            <3>1. ~past.raced /\ \A c \in Calls : Deciding(c) => call[c].arg.firm # f
                BY <2>4 DEF UnderDecision, Deciding, Undecided
            <3>2. \A g \in Firms : Consistent(g)'
                BY <2>3, <3>1 DEF Consistent, VerificationInv, OneDecision
            <3>3. \A c \in Calls : Deciding(c)' =>
                      Standing(call[c].arg.firm, call[c].arg.action, call[c].data)'
                BY <1>4, <2>3, <3>1 DEF VerificationInv, OneDecision, Standing, Allowed
            <3>4. Standing(server.rival.firm, server.rival.action, server.rival.read)'
                BY <2>1, <2>3 DEF Standing, Allowed
            <3>5. /\ \A c, d \in Calls : Deciding(c)' /\ Deciding(d)' /\ call'[c].arg.firm = call'[d].arg.firm => c = d
                  /\ \A c \in Calls : Deciding(c)' => call'[c].arg.firm # server'.rival.firm
                BY <1>4, <2>3, <3>1 DEF VerificationInv, OneDecision
            <3> QED BY <3>2, <3>3, <3>4, <3>5 DEF OneDecision
        <2> QED BY <2>5, <2>6 DEF VerificationInv
    <1>6. CASE RivalCommits
        <2> DEFINE f == server.rival.firm
        <2> DEFINE action == server.rival.action
        <2> DEFINE read == server.rival.read
        <2>1. /\ UNCHANGED past
              /\ server.rival \in Rivals /\ server.rival # Nil
              /\ server' = [row |-> Written(f, action, read), rival |-> Nil]
            BY <1>2, <1>6 DEF RivalCommits
        <2>2. f \in Firms /\ action \in Decisions /\ read \in Application
            BY <2>1 DEF Rivals
        <2>3. row' = Written(f, action, read) /\ server'.rival = Nil
            BY <2>1 DEF row
        <2>4. /\ row' \in [Firms -> Application]
              /\ \A g \in Firms \ {f} : row'[g] = row[g]
              /\ Consistent(f) /\ Standing(f, action, read) => (row'[f].verified <=> row'[f].status = "APPROVED")
            <3> HIDE DEF f, action, read
            <3>1. /\ Written(f, action, read) \in [Firms -> Application]
                  /\ \A g \in Firms \ {f} : Written(f, action, read)[g] = row[g]
                  /\ Consistent(f) /\ Standing(f, action, read) =>
                        (Written(f, action, read)[f].verified <=> Written(f, action, read)[f].status = "APPROVED")
                BY <1>2, <2>2, CommittedIsConsistent
            <3> QED BY <2>3, <3>1
        <2>5. server' \in [row : [Firms -> Application], rival : Rivals \cup {Nil}]
            BY <2>1, <2>3, <2>4
        <2>6. VerificationTyped'
            BY <1>1, <1>3, <1>4, <2>1, <2>5 DEF VerificationInv, VerificationTyped
        <2>7. OneDecision'
            <3> SUFFICES ASSUME ~past.raced PROVE OneDecision'
                BY <2>1 DEF OneDecision
            <3>1. /\ \A g \in Firms : Consistent(g)
                  /\ Standing(f, action, read)
                  /\ \A c \in Calls : Deciding(c) => call[c].arg.firm # f
                BY <2>1 DEF VerificationInv, OneDecision
            <3>2. \A g \in Firms : Consistent(g)'
                BY <2>4, <3>1 DEF Consistent
            <3>3. \A c \in Calls : Deciding(c)' =>
                      Standing(call[c].arg.firm, call[c].arg.action, call[c].data)'
                BY <1>4, <2>4, <3>1 DEF VerificationInv, OneDecision, Standing, Allowed, Deciding
            <3>4. \A c, d \in Calls : Deciding(c)' /\ Deciding(d)' /\ call'[c].arg.firm = call'[d].arg.firm => c = d
                BY <1>4 DEF VerificationInv, OneDecision
            <3> QED BY <2>3, <3>2, <3>3, <3>4 DEF OneDecision
        <2> QED BY <2>6, <2>7 DEF VerificationInv
    <1>7. ASSUME NEW f \in Firms, SubmitForVerification(f) PROVE VerificationInv'
        <2> DEFINE new == [status |-> "APPLIED", verified |-> row[f].verified]
        <2>1. UNCHANGED past /\ <<row[f].status, "APPLIED">> \in VerificationTransitions
            BY <1>7 DEF SubmitForVerification
        <2>2. row[f].status \in {"NOT_APPLIED", "REJECTED"}
            BY <2>1 DEF VerificationTransitions
        <2>3. [row[f] EXCEPT !.status = "APPLIED"] = new /\ new \in Application
            BY <1>2 DEF Application, Statuses
        <2>4. server' = [server EXCEPT !.row = [row EXCEPT ![f] = new]]
            BY <1>7, <2>3 DEF SubmitForVerification, row
        <2>5. row' = [row EXCEPT ![f] = new] /\ server'.rival = server.rival
            BY <2>4 DEF VerificationInv, VerificationTyped, row
        <2>6. row' \in [Firms -> Application] /\ row'[f] = new /\ \A g \in Firms \ {f} : row'[g] = row[g]
            BY <1>2, <2>3, <2>5
        <2>7. server' \in [row : [Firms -> Application], rival : Rivals \cup {Nil}]
            BY <1>2, <2>4, <2>5, <2>6 DEF VerificationInv, VerificationTyped
        <2>8. VerificationTyped'
            BY <1>1, <1>3, <1>4, <2>1, <2>7 DEF VerificationInv, VerificationTyped
        <2>9. OneDecision'
            <3> SUFFICES ASSUME ~past.raced PROVE OneDecision'
                BY <2>1 DEF OneDecision
            <3>1. \A action : ~Allowed(f, action) \/ Target[action] = "APPLIED"
                BY <2>2 DEF Allowed, VerificationTransitions
            <3>2. \A action \in Decisions : ~Allowed(f, action)
                BY <3>1 DEF Decisions, Target
            <3>3. \A c \in Calls : Deciding(c) => call[c].arg.firm # f
                BY <3>2 DEF VerificationInv, VerificationTyped, OneDecision, Standing, Deciding
            <3>4. server.rival # Nil => server.rival.firm # f /\ server.rival.firm \in Firms
                BY <1>2, <3>2 DEF VerificationInv, OneDecision, Standing, Rivals
            <3>5. \A g \in Firms : Consistent(g)'
                BY <2>2, <2>6 DEF Consistent, VerificationInv, OneDecision
            <3>6. \A c \in Calls : Deciding(c)' =>
                      Standing(call[c].arg.firm, call[c].arg.action, call[c].data)'
                BY <1>4, <2>6, <3>3 DEF VerificationInv, OneDecision, Standing, Allowed, Deciding
            <3>7. server'.rival # Nil => Standing(server.rival.firm, server.rival.action, server.rival.read)'
                BY <2>5, <2>6, <3>4 DEF VerificationInv, OneDecision, Standing, Allowed
            <3>8. /\ \A c, d \in Calls : Deciding(c)' /\ Deciding(d)' /\ call'[c].arg.firm = call'[d].arg.firm => c = d
                  /\ \A c \in Calls : Deciding(c)' /\ server'.rival # Nil => call'[c].arg.firm # server'.rival.firm
                BY <1>4, <2>5 DEF VerificationInv, OneDecision
            <3> QED BY <3>5, <3>6, <3>7, <3>8 DEF OneDecision
        <2> QED BY <2>8, <2>9 DEF VerificationInv
    <1> QED BY <1>5, <1>6, <1>7

\* A record that loses no field to the updates of its others.
LEMMA PastKeepsRaced ==
    ASSUME "raced" \in DOMAIN past
    PROVE  /\ \A l, m : /\ "raced" \in DOMAIN [past EXCEPT !.loads = l, !.mixed = m]
                        /\ [past EXCEPT !.loads = l, !.mixed = m].raced = past.raced
    OBVIOUS

LEMMA ClosedShowsNothing ==
    ASSUME "action" \in DOMAIN view
    PROVE  "action" \in DOMAIN Closed(view) /\ Closed(view).action = Nil
    <1> DEFINE v1 == [view EXCEPT !.selected = Nil]
    <1> DEFINE v2 == [v1 EXCEPT !.action = Nil]
    <1>1. "action" \in DOMAIN v1
        OBVIOUS
    <1> HIDE DEF v1
    <1>2. "action" \in DOMAIN v2 /\ v2.action = Nil
        BY <1>1
    <1>3. Closed(view) = [v2 EXCEPT !.reason = FALSE]
        BY DEF Closed, v1
    <1> HIDE DEF v2
    <1> QED BY <1>2, <1>3

\* The queue: what is chosen, and what becomes of the requests of the page.
LEMMA QueueKeeps ==
    ASSUME VerificationInv, UNCHANGED page,
           \/ QueueTabs \/ ApplicationsList
           \/ \E c \in Calls : ConfirmationModal(c)
    PROVE  VerificationInv'
    <1>1. CallsOK /\ UNCHANGED <<server, past>>
        BY Zenon DEF VerificationInv, VerificationTyped, QueueTabs, ApplicationsList, Open, ConfirmationModal, HandleAction, Show
    <1>2. "action" \in DOMAIN view /\ view.action \in Decisions \cup {Nil}
        BY DEF VerificationInv, VerificationTyped
    <1>3. ASSUME NEW state, Show(state), "action" \in DOMAIN state, state.action \in Decisions \cup {Nil}
          PROVE  VerificationInv'
        <2>1. UNCHANGED call /\ view' = state
            BY <1>3 DEF Show
        <2>2. CallsOK'
            BY <1>1, <2>1, SameCalls
        <2>3. \A c \in Calls : Undecided(c)' => Undecided(c) /\ call'[c] = call[c]
            BY <2>1 DEF Undecided, Stands
        <2>4. \A c \in Calls : Undecided(c) => call[c].arg.action \in Decisions
            BY DEF VerificationInv, VerificationTyped
        <2>5. "raced" \in DOMAIN past' /\ past'.raced = past.raced
            BY <1>1 DEF VerificationInv, VerificationTyped
        <2> QED BY <1>1, <1>3, <2>1, <2>2, <2>3, <2>4, <2>5, DecisionsStay
    <1>4. CASE QueueTabs
        <2>1. PICK filter : Show([view EXCEPT !.filter = filter])
            BY <1>4 DEF QueueTabs
        <2> QED BY <1>2, <1>3, <2>1
    <1>5. CASE ApplicationsList
        <2>1. PICK f \in Filtered, action \in Decisions : Open(f, action)
            BY <1>5 DEF ApplicationsList
        <2> DEFINE v1 == [view EXCEPT !.selected = f]
        <2> DEFINE v2 == [v1 EXCEPT !.action = action]
        <2> DEFINE v3 == [v2 EXCEPT !.reason = view.reason /\ action # "reject"]
        <2>2. "action" \in DOMAIN v1
            BY <1>2
        <2> HIDE DEF v1
        <2>3. "action" \in DOMAIN v2 /\ v2.action = action
            BY <2>2
        <2> HIDE DEF v2
        <2>4. "action" \in DOMAIN v3 /\ v3.action = action
            BY <2>3
        <2>5. \E state : Show(state) /\ "action" \in DOMAIN state /\ state.action = action
            BY <2>1, <2>4 DEF Open, v1, v2
        <2> QED BY <1>3, <2>1, <2>5
    <1>6. ASSUME NEW c \in Calls, ConfirmationModal(c) PROVE VerificationInv'
        <2>1. CASE \E long \in BOOLEAN : Show([view EXCEPT !.reason = long])
            BY <1>2, <1>3, <2>1
        <2>2. CASE Show(Closed(view))
            BY <1>2, <1>3, <2>2, ClosedShowsNothing
        <2>3. CASE HandleAction(c)
            <3> DEFINE arg == [firm |-> view.selected, action |-> view.action]
            <3>1. Send(c, "decide", arg) /\ view' = [view EXCEPT !.processing = TRUE] /\ arg.action \in Decisions
                BY <1>2, <1>6, <2>3 DEF HandleAction, ConfirmationModal, ModalShown
            <3> HIDE DEF arg
            <3>2. /\ CallsOK' /\ call'[c] = Request("decide", arg)
                  /\ \A e \in Calls \ {c} : call'[e] = call[e]
                BY <1>1, <3>1, SendEffect
            <3>3. call'[c].arg = arg /\ call'[c].data = Nil
                BY <3>2 DEF Request
            <3>4. \A e \in Calls \ {c} : Undecided(e)' => Undecided(e) /\ call'[e] = call[e]
                BY <3>2 DEF Undecided, Stands
            <3>5. \A e \in Calls : Undecided(e) => call[e].arg.action \in Decisions
                BY DEF VerificationInv, VerificationTyped
            <3>6. "action" \in DOMAIN view' /\ view'.action \in Decisions \cup {Nil}
                BY <1>2, <3>1
            <3>7. "raced" \in DOMAIN past' /\ past'.raced = past.raced
                BY <1>1 DEF VerificationInv, VerificationTyped
            <3>8. \A e \in Calls : Undecided(e)' =>
                      /\ call'[e].arg.action \in Decisions
                      /\ \/ call'[e].data = Nil
                         \/ Undecided(e) /\ call'[e].arg = call[e].arg /\ call'[e].data = call[e].data
                <4>1. ASSUME NEW e \in Calls \ {c}, Undecided(e)'
                      PROVE  Undecided(e) /\ call'[e].arg = call[e].arg /\ call'[e].data = call[e].data
                             /\ call'[e].arg.action \in Decisions
                    BY <3>4, <3>5, <4>1
                <4>2. call'[c].arg.action \in Decisions /\ call'[c].data = Nil
                    BY <3>1, <3>3
                <4> QED BY <4>1, <4>2
            <3> QED BY <1>1, <3>2, <3>6, <3>7, <3>8, DecisionsStay
        <2> QED BY <1>6, <2>1, <2>2, <2>3 DEF ConfirmationModal
    <1> QED BY <1>4, <1>5, <1>6

\* Answers that do not decide, and requests that fail.
LEMMA QueueAnswersKeep ==
    ASSUME VerificationInv, UNCHANGED page, NEW c \in Calls,
           \/ AnswerList(c, Queue) \/ ReceiveList(c) \/ FailList(c, [f \in {} |-> Nil])
           \/ ReceiveDecision(c) \/ FailChange(c, "decide", [view EXCEPT !.processing = FALSE])
           \/ LoseInList(c)
    PROVE  VerificationInv'
    <1>1. /\ CallsOK /\ "action" \in DOMAIN view /\ view.action \in Decisions \cup {Nil}
          /\ "raced" \in DOMAIN past
        BY DEF VerificationInv, VerificationTyped
    <1>2. UNCHANGED server
        BY DEF AnswerList, Keep, ReceiveList, ReceiveRows, SettleList, FailList, ReceiveDecision, Reload,
               FailChange, LoseInList
    <1>3. "raced" \in DOMAIN past' /\ past'.raced = past.raced
        <2>1. CASE ReceiveList(c)
            BY <1>1, <2>1, PastKeepsRaced DEF ReceiveList, ReceiveRows, SettleList
        <2>2. CASE FailList(c, [f \in {} |-> Nil])
            BY <1>1, <2>2, PastKeepsRaced DEF FailList
        <2>3. CASE ReceiveDecision(c)
            BY <1>1, <2>3, PastKeepsRaced DEF ReceiveDecision, Reload
        <2>4. CASE LoseInList(c)
            BY <1>1, <2>4 DEF LoseInList
        <2>5. CASE AnswerList(c, Queue) \/ FailChange(c, "decide", [view EXCEPT !.processing = FALSE])
            BY <1>1, <2>5 DEF AnswerList, Keep, FailChange
        <2> QED BY <2>1, <2>2, <2>3, <2>4, <2>5
    <1>4. "action" \in DOMAIN view' /\ view'.action \in Decisions \cup {Nil}
        <2>1. CASE ReceiveList(c)
            <3> DEFINE mid == [view EXCEPT !.rows = call[c].data]
            <3>1. "action" \in DOMAIN mid /\ mid.action = view.action
                BY <1>1
            <3>2. view' = [mid EXCEPT !.loading = FALSE]
                BY <2>1 DEF ReceiveList, ReceiveRows
            <3> HIDE DEF mid
            <3> QED BY <1>1, <3>1, <3>2
        <2>2. CASE FailList(c, [f \in {} |-> Nil])
            <3> DEFINE mid == [view EXCEPT !.rows = [f \in {} |-> Nil]]
            <3>1. "action" \in DOMAIN mid /\ mid.action = view.action
                BY <1>1
            <3>2. view' = [mid EXCEPT !.loading = FALSE]
                BY <2>2 DEF FailList
            <3> HIDE DEF mid
            <3> QED BY <1>1, <3>1, <3>2
        <2>3. CASE ReceiveDecision(c)
            <3> DEFINE mid == Closed(view)
            <3>1. "action" \in DOMAIN mid /\ mid.action = Nil
                BY <1>1, ClosedShowsNothing
            <3> DEFINE state == [mid EXCEPT !.processing = FALSE]
            <3> HIDE DEF mid
            <3>2. "action" \in DOMAIN state /\ state.action = Nil
                BY <3>1
            <3>3. view' = [state EXCEPT !.loading = TRUE]
                BY <2>3 DEF ReceiveDecision, Reload, mid
            <3> HIDE DEF state
            <3> QED BY <3>2, <3>3
        <2>4. CASE FailChange(c, "decide", [view EXCEPT !.processing = FALSE])
            BY <1>1, <2>4 DEF FailChange
        <2>5. CASE AnswerList(c, Queue) \/ LoseInList(c)
            BY <1>1, <2>5 DEF AnswerList, Keep, LoseInList
        <2> QED BY <2>1, <2>2, <2>3, <2>4, <2>5
    <1>5. CallsOK' /\ (call'[c].step # "sent" \/ call'[c].op = "list") /\ \A e \in Calls \ {c} : call'[e] = call[e]
        <2>1. CASE AnswerList(c, Queue)
            <3>1. Answer(c, Queue)
                BY <2>1 DEF AnswerList
            <3>2. /\ CallsOK' /\ \A e \in Calls \ {c} : call'[e] = call[e]
                  /\ call'[c] = [step |-> "served", op |-> call[c].op, arg |-> call[c].arg, data |-> Queue]
                BY <1>1, <3>1, AnswerEffect
            <3> QED BY <3>2
        <2>2. CASE End(c)
            <3>1. CallsOK' /\ call'[c] = Free /\ \A e \in Calls \ {c} : call'[e] = call[e]
                BY <1>1, <2>2, EndEffect
            <3> QED BY <3>1 DEF Free
        <2>3. CASE ReceiveDecision(c)
            <3>1. Then(c, "list", Nil)
                BY <2>3 DEF ReceiveDecision, Reload
            <3>2. CallsOK' /\ call'[c] = Request("list", Nil) /\ \A e \in Calls \ {c} : call'[e] = call[e]
                BY <1>1, <3>1, ThenEffect
            <3> QED BY <3>2 DEF Request
        <2>4. CASE LoseInList(c)
            <3>1. Lose(c)
                BY <2>4 DEF LoseInList
            <3>2. /\ CallsOK' /\ \A e \in Calls \ {c} : call'[e] = call[e]
                  /\ call'[c] = [step |-> "failed", op |-> call[c].op, arg |-> call[c].arg, data |-> Nil]
                BY <1>1, <3>1, LoseEffect
            <3> QED BY <3>2
        <2> QED
            BY <2>1, <2>2, <2>3, <2>4 DEF ReceiveList, ReceiveRows, SettleList, FailList, FailChange
    <1>6. \A e \in Calls : Undecided(e)' => Undecided(e) /\ call'[e] = call[e]
        BY <1>5 DEF Undecided, Stands
    <1>7. \A e \in Calls : Undecided(e) => call[e].arg.action \in Decisions
        BY DEF VerificationInv, VerificationTyped
    <1> QED BY <1>2, <1>3, <1>4, <1>5, <1>6, <1>7, DecisionsStay

LEMMA VerificationStep == VerificationInv /\ [VerificationNext]_webVars => VerificationInv'
    <1> SUFFICES ASSUME VerificationInv, [VerificationNext]_webVars PROVE VerificationInv'
        OBVIOUS
    <1>1. CASE UNCHANGED webVars
        <2>1. UNCHANGED <<page, call, view, server, past>>
            BY <1>1 DEF webVars
        <2>2. CallsOK'
            BY <2>1, SameCalls DEF VerificationInv, VerificationTyped
        <2> QED
            BY <2>1, <2>2, DecisionsStay DEF VerificationInv, VerificationTyped, Undecided, Stands
    <1>2. CASE VerificationNext
        <2>1. UNCHANGED page
            BY <1>2 DEF VerificationNext
        <2>2. ASSUME NEW c \in Calls, QueueAnswers(c) PROVE VerificationInv'
            BY <2>1, <2>2, ReadKeeps, CommitKeeps, QueueAnswersKeep DEF QueueAnswers
        <2> QED
            BY <1>2, <2>1, <2>2, QueueKeeps, OthersKeep, QueueAnswersKeep DEF VerificationNext
    <1> QED BY <1>1, <1>2

\* A business is verified just when its application stands approved, for any number of
\* businesses and of requests under way, unless decisions about one of them overlapped
\* (verification_service.py: the check of the transition, and the columns written).
THEOREM VerifiedIsApprovedAlways == VerificationSpec => []VerifiedIsApproved
    <1>1. VerificationInv => VerifiedIsApproved
        BY DEF VerificationInv, OneDecision, Consistent, VerifiedIsApproved
    <1> QED BY <1>1, VerificationInitInv, VerificationStep, PTL DEF VerificationSpec

(***************************************************************************)
(* The onboarding                                                          *)
(*                                                                         *)
(* A launch that may still found a business is that of a registered        *)
(* account, which has none yet, and names it as the registration did: and  *)
(* there is one such launch of an account at most, as each follows the     *)
(* one registration that was no conflict.                                  *)
(***************************************************************************)
Launching(c) ==
    \/ Stands(c, "register", "served")
    \/ Stands(c, "login", "sent") \/ Stands(c, "login", "served")
    \/ Stands(c, "create", "sent")

Account(c) == IF call[c].op = "create" THEN call[c].arg.owner ELSE call[c].arg.email

\* The forms before the one that is shown are filled in.
Described(v) ==
    /\ v \in OnboardingView
    /\ v.step >= 2 => v.accountData # Nil
    /\ v.step = 3 => v.bizData # Nil

OnboardingTyped ==
    /\ page = "onboarding" /\ CallsOK
    /\ Described(view)
    /\ server \in [accounts : SUBSET Emails, founded : Seq(Founding)]
    /\ past \in [meant : [Emails -> Names \cup {Nil}]]
    /\ \A c \in Calls : Busy(c, "register") \/ Busy(c, "login") => call[c].arg \in Launch
    /\ \A c \in Calls : Busy(c, "create") => call[c].arg \in Founding

LaunchesAreApart == \A c \in Calls : Launching(c) =>
    /\ Account(c) \in server.accounts
    /\ call[c].arg.name = past.meant[Account(c)]
    /\ Stands(c, "login", "served") => call[c].data = call[c].arg.email
    /\ \A i \in DOMAIN server.founded : server.founded[i].owner # Account(c)
    /\ \A d \in Calls : Launching(d) /\ Account(d) = Account(c) => d = c

FoundedOnce == LET founded == server.founded IN
    \A i \in DOMAIN founded :
        /\ founded[i].owner \in server.accounts
        /\ founded[i].name = past.meant[founded[i].owner]
        /\ \A j \in DOMAIN founded : founded[i].owner = founded[j].owner => i = j

OnboardingInv == OnboardingTyped /\ LaunchesAreApart /\ FoundedOnce

LEMMA OnboardingInitInv == OnboardingInit => OnboardingInv
    <1> SUFFICES ASSUME OnboardingInit PROVE OnboardingInv
        OBVIOUS
    <1>1. CallsOK /\ \A c \in Calls : call[c] = Free
        BY FreeIsRequest DEF OnboardingInit, CallsOK
    <1>2. \A c \in Calls : call[c].step = "free"
        BY <1>1 DEF Free
    <1>3. Described(view)
        BY DEF OnboardingInit, Fresh, Described, OnboardingView
    <1>4. OnboardingTyped
        BY <1>1, <1>2, <1>3 DEF OnboardingInit, OnboardingTyped, Busy
    <1>5. LaunchesAreApart /\ FoundedOnce
        BY <1>2 DEF OnboardingInit, LaunchesAreApart, FoundedOnce, Launching, Stands
    <1> QED BY <1>4, <1>5 DEF OnboardingInv

\* Steps after which no more launches are under way than before.
LEMMA LaunchesStay ==
    ASSUME OnboardingInv, UNCHANGED <<page, server, past>>, CallsOK', Described(view'),
           \A e \in Calls : Busy(e, "register")' \/ Busy(e, "login")' => call'[e].arg \in Launch,
           \A e \in Calls : Busy(e, "create")' => call'[e].arg \in Founding,
           \A e \in Calls : Launching(e)' =>
               /\ Launching(e) /\ Account(e)' = Account(e) /\ call'[e].arg.name = call[e].arg.name
               /\ Stands(e, "login", "served")' => call'[e].data = call'[e].arg.email
    PROVE  OnboardingInv'
    <1>1. OnboardingTyped'
        BY DEF OnboardingInv, OnboardingTyped
    <1>2. LaunchesAreApart'
        BY DEF OnboardingInv, LaunchesAreApart
    <1>3. FoundedOnce'
        BY DEF OnboardingInv, FoundedOnce
    <1> QED BY <1>1, <1>2, <1>3 DEF OnboardingInv

\* In particular steps of one request, to one that launches nothing.
LEMMA OneLaunchEnds ==
    ASSUME OnboardingInv, UNCHANGED <<page, server, past>>, CallsOK', Described(view'), NEW c \in Calls,
           \A e \in Calls \ {c} : call'[e] = call[e],
           ~Launching(c)',
           Busy(c, "register")' \/ Busy(c, "login")' => call'[c].arg \in Launch,
           Busy(c, "create")' => call'[c].arg \in Founding
    PROVE  OnboardingInv'
    BY LaunchesStay DEF OnboardingInv, OnboardingTyped, LaunchesAreApart, Busy, Launching, Account, Stands

\* Or to one that goes on with the same launch.
LEMMA OneLaunchGoesOn ==
    ASSUME OnboardingInv, UNCHANGED <<page, server, past>>, CallsOK', Described(view'), NEW c \in Calls,
           \A e \in Calls \ {c} : call'[e] = call[e],
           Launching(c), Account(c)' = Account(c), call'[c].arg.name = call[c].arg.name,
           ~Stands(c, "login", "served")',
           Busy(c, "register")' \/ Busy(c, "login")' => call'[c].arg \in Launch,
           Busy(c, "create")' => call'[c].arg \in Founding
    PROVE  OnboardingInv'
    <1>1. \A e \in Calls \ {c} : Launching(e)' =>
              /\ Launching(e) /\ Account(e)' = Account(e) /\ call'[e].arg.name = call[e].arg.name
              /\ Stands(e, "login", "served")' => call'[e].data = call'[e].arg.email
        BY DEF OnboardingInv, LaunchesAreApart, Launching, Account, Stands
    <1>2. /\ \A e \in Calls : Busy(e, "register")' \/ Busy(e, "login")' => call'[e].arg \in Launch
          /\ \A e \in Calls : Busy(e, "create")' => call'[e].arg \in Founding
        BY DEF OnboardingInv, OnboardingTyped, Busy
    <1> QED BY <1>1, <1>2, LaunchesStay

LEMMA ShowOnboardingKeeps ==
    ASSUME OnboardingInv, UNCHANGED page, NEW state, Show(state), Described(state)
    PROVE  OnboardingInv'
    <1>1. UNCHANGED <<call, server, past>> /\ view' = state
        BY DEF Show
    <1>2. CallsOK'
        BY <1>1, SameCalls DEF OnboardingInv, OnboardingTyped
    <1> QED
        BY <1>1, <1>2, LaunchesStay DEF OnboardingInv, OnboardingTyped, LaunchesAreApart, Busy, Launching, Account, Stands

\* The three forms.
LEMMA FormsKeep ==
    ASSUME OnboardingInv, UNCHANGED page,
           OnStep1 \/ OnStep2 \/ Back \/ LoadAgain \/ \E c \in Calls : OnStep3(c)
    PROVE  OnboardingInv'
    <1>v. Described(view) /\ view \in OnboardingView /\ CallsOK
        BY DEF OnboardingInv, OnboardingTyped, Described
    <1>1. CASE OnStep1
        <2>1. PICK email \in Emails : Show([view EXCEPT !.accountData = email, !.step = 2])
            BY <1>1 DEF OnStep1
        <2> DEFINE mid == [view EXCEPT !.accountData = email]
        <2>2. mid \in OnboardingView /\ mid.accountData # Nil
            BY <1>v, OnboardingAssumption DEF OnboardingView
        <2> DEFINE state == [mid EXCEPT !.step = 2]
        <2>3. Show(state)
            BY <2>1
        <2> HIDE DEF mid
        <2>4. Described(state)
            BY <2>2 DEF Described, OnboardingView
        <2> QED BY <2>3, <2>4, ShowOnboardingKeeps
    <1>2. CASE OnStep2
        <2>1. PICK name \in Names : Show([view EXCEPT !.bizData = name, !.step = 3])
            BY Zenon, <1>2 DEF OnStep2
        <2> DEFINE mid == [view EXCEPT !.bizData = name]
        <2>2. mid \in OnboardingView /\ mid.bizData # Nil /\ mid.accountData = view.accountData
            BY <1>v, OnboardingAssumption DEF OnboardingView
        <2>s. view.step = 2
            BY <1>2 DEF OnStep2
        <2>3. view.accountData # Nil
            BY <1>v, <2>s DEF Described
        <2> DEFINE state == [mid EXCEPT !.step = 3]
        <2>4. Show(state)
            BY <2>1
        <2> HIDE DEF mid
        <2>5. Described(state)
            BY <2>2, <2>3 DEF Described, OnboardingView
        <2> QED BY <2>4, <2>5, ShowOnboardingKeeps
    <1>3. CASE Back
        <2> DEFINE state == [view EXCEPT !.step = view.step - 1]
        <2>1. Show(state) /\ view.step > 1
            BY <1>3 DEF Back
        <2>2. Described(state)
            BY <1>v, <2>1 DEF Described, OnboardingView
        <2> QED BY <2>1, <2>2, ShowOnboardingKeeps
    <1>4. CASE LoadAgain
        <2> DEFINE state == Fresh({c \in Calls : call[c] # Free})
        <2>1. Described(state)
            BY DEF Described, OnboardingView, Fresh
        <2> QED BY <1>4, <2>1, ShowOnboardingKeeps DEF LoadAgain
    <1>5. ASSUME NEW c \in Calls, OnStep3(c) PROVE OnboardingInv'
        <2> DEFINE arg == [email |-> view.accountData, name |-> view.bizData]
        <2>1. Send(c, "register", arg) /\ view.step = 3 /\ UNCHANGED <<server, past>>
            BY <1>5 DEF OnStep3
        <2>2. arg \in Launch
            BY <1>v, <2>1 DEF Described, OnboardingView, Launch
        <2> HIDE DEF arg
        <2>3. /\ CallsOK' /\ call'[c] = Request("register", arg)
              /\ \A e \in Calls \ {c} : call'[e] = call[e]
            BY <1>v, <2>1, SendEffect
        <2>4. Described(view')
            BY <1>5, <1>v DEF OnStep3, Described, OnboardingView
        <2>5. ~Launching(c)' /\ ~Busy(c, "create")' /\ call'[c].arg = arg
            BY <2>3 DEF Launching, Stands, Busy, Request
        <2> QED BY <2>1, <2>2, <2>3, <2>4, <2>5, OneLaunchEnds
    <1> QED BY <1>1, <1>2, <1>3, <1>4, <1>5

\* The first registration of an account launches a business that it has not yet.
LEMMA ServeRegisterKeeps ==
    ASSUME OnboardingInv, UNCHANGED page, NEW c \in Calls, ServeRegister(c)
    PROVE  OnboardingInv'
    <1> DEFINE email == call[c].arg.email
    <1> DEFINE name == call[c].arg.name
    <1>1. /\ CallsOK /\ Described(view) /\ UNCHANGED view
          /\ server \in [accounts : SUBSET Emails, founded : Seq(Founding)]
          /\ past \in [meant : [Emails -> Names \cup {Nil}]]
        BY DEF OnboardingInv, OnboardingTyped, ServeRegister
    <1>2. call[c].op = "register" /\ call[c].step = "sent" /\ call[c].arg \in Launch
        BY DEF OnboardingInv, OnboardingTyped, ServeRegister, Stands, Busy
    <1>3. email \in Emails /\ name \in Names
        BY <1>2 DEF Launch
    <1>4. CASE Refuse(c) /\ UNCHANGED <<server, past>>
        <2>1. /\ CallsOK' /\ \A e \in Calls \ {c} : call'[e] = call[e]
              /\ call'[c] = [step |-> "failed", op |-> call[c].op, arg |-> call[c].arg, data |-> call[c].data]
            BY <1>1, <1>4, RefuseEffect
        <2>2. ~Launching(c)' /\ ~Busy(c, "create")' /\ call'[c].arg = call[c].arg
            BY <1>2, <2>1 DEF Launching, Stands, Busy
        <2> QED BY <1>1, <1>2, <1>4, <2>1, <2>2, OneLaunchEnds
    <1>5. CASE /\ email \notin server.accounts
               /\ server' = [server EXCEPT !.accounts = @ \cup {email}]
               /\ past' = [past EXCEPT !.meant[email] = name]
               /\ Answer(c, Nil)
        <2>1. /\ CallsOK' /\ \A e \in Calls \ {c} : call'[e] = call[e]
              /\ call'[c] = [step |-> "served", op |-> call[c].op, arg |-> call[c].arg, data |-> Nil]
            BY <1>1, <1>5, AnswerEffect
        <2>2. /\ server' \in [accounts : SUBSET Emails, founded : Seq(Founding)]
              /\ server'.accounts = server.accounts \cup {email} /\ server'.founded = server.founded
            BY <1>1, <1>3, <1>5
        <2>3. /\ past' \in [meant : [Emails -> Names \cup {Nil}]]
              /\ past'.meant[email] = name /\ \A e \in Emails \ {email} : past'.meant[e] = past.meant[e]
            BY <1>1, <1>3, <1>5
        <2>4. Launching(c)' /\ Account(c)' = email /\ call'[c].arg.name = name /\ ~Stands(c, "login", "served")'
            BY <1>2, <2>1 DEF Launching, Account, Stands
        <2>5. \A e \in Calls \ {c} : Launching(e)' =>
                  /\ Launching(e) /\ Account(e)' = Account(e) /\ call'[e] = call[e]
                  /\ Account(e) # email /\ Account(e) \in Emails
                  /\ Stands(e, "login", "served")' => Stands(e, "login", "served")
            BY <1>1, <1>5, <2>1 DEF OnboardingInv, LaunchesAreApart, Launching, Account, Stands
        <2>6. OnboardingTyped'
            BY <1>1, <1>2, <2>1, <2>2, <2>3 DEF OnboardingInv, OnboardingTyped, Busy
        <2>7. \A i \in DOMAIN server.founded :
                  server.founded[i].owner \in Emails /\ server.founded[i].owner # email
            BY <1>1, <1>5 DEF OnboardingInv, FoundedOnce
        <2>8. ASSUME NEW e \in Calls, Launching(e)'
              PROVE  /\ Account(e)' \in server'.accounts
                     /\ call'[e].arg.name = past'.meant[Account(e)']
                     /\ Stands(e, "login", "served")' => call'[e].data = call'[e].arg.email
                     /\ \A i \in DOMAIN server'.founded : server'.founded[i].owner # Account(e)'
                     /\ \A d \in Calls : Launching(d)' /\ Account(d)' = Account(e)' => d = e
            <3>1. CASE e = c
                BY <2>2, <2>3, <2>4, <2>5, <2>7, <3>1
            <3>2. CASE e # c
                BY <2>2, <2>3, <2>4, <2>5, <2>8, <3>2 DEF OnboardingInv, LaunchesAreApart
            <3> QED BY <3>1, <3>2
        <2>9. LaunchesAreApart'
            BY <2>8 DEF LaunchesAreApart
        <2>a. FoundedOnce'
            BY <2>2, <2>3, <2>7 DEF OnboardingInv, FoundedOnce
        <2> QED BY <2>6, <2>9, <2>a DEF OnboardingInv
    <1> QED BY <1>4, <1>5 DEF ServeRegister

\* The tokens of a login are those of the account.
LEMMA ServeLoginKeeps ==
    ASSUME OnboardingInv, UNCHANGED page, NEW c \in Calls, ServeLogin(c)
    PROVE  OnboardingInv'
    <1>1. CallsOK /\ Described(view) /\ UNCHANGED <<view, server, past>>
        BY DEF OnboardingInv, OnboardingTyped, ServeLogin, Keep
    <1>2. call[c].op = "login" /\ call[c].step = "sent" /\ call[c].arg \in Launch
        BY DEF OnboardingInv, OnboardingTyped, ServeLogin, Stands, Busy
    <1>3. /\ CallsOK' /\ \A e \in Calls \ {c} : call'[e] = call[e]
          /\ call'[c] = [step |-> "served", op |-> call[c].op, arg |-> call[c].arg, data |-> call[c].arg.email]
        BY <1>1, AnswerEffect DEF ServeLogin
    <1>4. Launching(c) /\ Account(c)' = Account(c) /\ call'[c].arg = call[c].arg /\ call'[c].data = call'[c].arg.email
        BY <1>2, <1>3 DEF Launching, Account, Stands
    <1>5. \A e \in Calls \ {c} : Launching(e)' =>
              /\ Launching(e) /\ Account(e)' = Account(e)
              /\ Stands(e, "login", "served")' => call'[e].data = call'[e].arg.email
        BY <1>3 DEF OnboardingInv, LaunchesAreApart, Launching, Account, Stands
    <1>6. /\ \A e \in Calls : Busy(e, "register")' \/ Busy(e, "login")' => call'[e].arg \in Launch
          /\ \A e \in Calls : Busy(e, "create")' => call'[e].arg \in Founding
        BY <1>2, <1>3 DEF OnboardingInv, OnboardingTyped, Busy
    <1> QED BY <1>1, <1>3, <1>4, <1>5, <1>6, LaunchesStay

\* A launch that founds a business is none any more.
LEMMA ServeBusinessKeeps ==
    ASSUME OnboardingInv, UNCHANGED page, NEW c \in Calls, ServeBusiness(c)
    PROVE  OnboardingInv'
    <1> DEFINE founding == call[c].arg
    <1>1. /\ CallsOK /\ Described(view) /\ UNCHANGED <<view, past>>
          /\ server \in [accounts : SUBSET Emails, founded : Seq(Founding)]
        BY DEF OnboardingInv, OnboardingTyped, ServeBusiness
    <1>2. call[c].op = "create" /\ call[c].step = "sent" /\ founding \in Founding
        BY DEF OnboardingInv, OnboardingTyped, ServeBusiness, Stands, Busy
    <1>3. Launching(c) /\ Account(c) = founding.owner
        BY <1>2 DEF Launching, Account, Stands
    <1>4. /\ founding.owner \in server.accounts /\ founding.name = past.meant[founding.owner]
          /\ \A i \in DOMAIN server.founded : server.founded[i].owner # founding.owner
          /\ \A d \in Calls : Launching(d) /\ Account(d) = founding.owner => d = c
        BY <1>3 DEF OnboardingInv, LaunchesAreApart
    <1>5. /\ CallsOK' /\ \A e \in Calls \ {c} : call'[e] = call[e]
          /\ call'[c] = [step |-> "served", op |-> call[c].op, arg |-> call[c].arg, data |-> Nil]
        BY <1>1, AnswerEffect DEF ServeBusiness
    <1> HIDE DEF founding
    <1>6. server' = [server EXCEPT !.founded = Append(server.founded, founding)]
        BY DEF ServeBusiness, founding
    <1>7. /\ Append(server.founded, founding) \in Seq(Founding)
          /\ DOMAIN Append(server.founded, founding) = DOMAIN server.founded \cup {Len(server.founded) + 1}
          /\ Len(server.founded) + 1 \notin DOMAIN server.founded
          /\ Append(server.founded, founding)[Len(server.founded) + 1] = founding
          /\ \A i \in DOMAIN server.founded : Append(server.founded, founding)[i] = server.founded[i]
        BY <1>1, <1>2
    <1> DEFINE new == Append(server.founded, founding)
    <1> HIDE DEF new
    <1>8. /\ server' \in [accounts : SUBSET Emails, founded : Seq(Founding)]
          /\ server'.accounts = server.accounts /\ server'.founded = new
        BY <1>1, <1>6, <1>7 DEF new
    <1>9. ~Launching(c)' /\ \A e \in Calls \ {c} : Launching(e)' =>
              /\ Launching(e) /\ Account(e)' = Account(e) /\ call'[e] = call[e]
              /\ Stands(e, "login", "served")' => Stands(e, "login", "served")
        BY <1>2, <1>5 DEF Launching, Account, Stands
    <1>a. OnboardingTyped'
        <2>1. \A e \in Calls : /\ call'[e].arg = call[e].arg /\ call'[e].op = call[e].op
                               /\ call'[e].step # "free" => call[e].step # "free"
            BY <1>2, <1>5
        <2>2. (\A e \in Calls : Busy(e, "register")' \/ Busy(e, "login")' => call'[e].arg \in Launch)
              /\ \A e \in Calls : Busy(e, "create")' => call'[e].arg \in Founding
            BY <2>1 DEF OnboardingInv, OnboardingTyped, Busy
        <2>3. page' = "onboarding" /\ past' \in [meant : [Emails -> Names \cup {Nil}]] /\ Described(view)'
            BY <1>1 DEF OnboardingInv, OnboardingTyped, Described
        <2> QED BY <1>5, <1>8, <2>2, <2>3 DEF OnboardingTyped
    <1>b. LaunchesAreApart'
        BY <1>1, <1>4, <1>7, <1>8, <1>9 DEF OnboardingInv, LaunchesAreApart, new
    <1>c. FoundedOnce'
        BY <1>1, <1>4, <1>7, <1>8 DEF OnboardingInv, FoundedOnce, new
    <1> QED BY <1>a, <1>b, <1>c DEF OnboardingInv

LEMMA HandlerGoesOn ==
    ASSUME OnboardingInv, UNCHANGED page, NEW c \in Calls,
           ReceiveRegister(c) \/ ReceiveTokens(c) \/ ReceiveCreate(c)
    PROVE  OnboardingInv'
    <1>1. CallsOK /\ Described(view) /\ UNCHANGED <<view, server, past>>
        BY DEF OnboardingInv, OnboardingTyped, ReceiveRegister, ReceiveTokens, ReceiveCreate, Keep
    <1>2. CASE ReceiveRegister(c)
        <2>1. call[c].op = "register" /\ call[c].step = "served" /\ call[c].arg \in Launch
            BY <1>2 DEF OnboardingInv, OnboardingTyped, ReceiveRegister, Stands, Busy
        <2>2. /\ CallsOK' /\ call'[c] = Request("login", call[c].arg)
              /\ \A e \in Calls \ {c} : call'[e] = call[e]
            BY <1>1, <1>2, ThenEffect DEF ReceiveRegister
        <2>3. /\ Launching(c) /\ Account(c)' = Account(c) /\ call'[c].arg = call[c].arg
              /\ ~Stands(c, "login", "served")' /\ ~Busy(c, "create")'
            BY <2>1, <2>2 DEF Launching, Account, Stands, Request, Busy
        <2> QED BY <1>1, <2>1, <2>2, <2>3, OneLaunchGoesOn
    <1>3. CASE ReceiveTokens(c)
        <2> DEFINE arg == [owner |-> call[c].data, name |-> call[c].arg.name]
        <2>1. call[c].op = "login" /\ call[c].step = "served" /\ call[c].arg \in Launch
            BY <1>3 DEF OnboardingInv, OnboardingTyped, ReceiveTokens, Stands, Busy
        <2>2. Launching(c) /\ call[c].data = call[c].arg.email /\ Account(c) = call[c].arg.email
            BY <2>1 DEF OnboardingInv, LaunchesAreApart, Launching, Stands, Account
        <2>3. arg \in Founding /\ arg.owner = Account(c) /\ arg.name = call[c].arg.name
            BY <2>1, <2>2 DEF Launch, Founding
        <2>4. Then(c, "create", arg)
            BY <1>3 DEF ReceiveTokens
        <2> HIDE DEF arg
        <2>5. /\ CallsOK' /\ call'[c] = Request("create", arg)
              /\ \A e \in Calls \ {c} : call'[e] = call[e]
            BY <1>1, <2>4, ThenEffect
        <2>6. /\ Account(c)' = Account(c) /\ call'[c].arg = arg /\ ~Stands(c, "login", "served")'
              /\ ~Busy(c, "register")' /\ ~Busy(c, "login")'
            BY <2>3, <2>5 DEF Account, Stands, Request, Busy
        <2> QED BY <1>1, <2>2, <2>3, <2>5, <2>6, OneLaunchGoesOn
    <1>4. CASE ReceiveCreate(c)
        <2>1. /\ CallsOK' /\ call'[c] = Request("session", Nil)
              /\ \A e \in Calls \ {c} : call'[e] = call[e]
            BY <1>1, <1>4, ThenEffect DEF ReceiveCreate
        <2>2. ~Launching(c)' /\ ~Busy(c, "register")' /\ ~Busy(c, "login")' /\ ~Busy(c, "create")'
            BY <2>1 DEF Launching, Stands, Request, Busy
        <2> QED BY <1>1, <2>1, <2>2, OneLaunchEnds
    <1> QED BY <1>2, <1>3, <1>4

LEMMA LaunchEnds ==
    ASSUME OnboardingInv, UNCHANGED page, NEW c \in Calls,
           \/ ServeSession(c) \/ DropAnswer(c) \/ ReceiveSession(c) \/ FailLaunch(c) \/ LoseCall(c)
    PROVE  OnboardingInv'
    <1>1. CallsOK /\ Described(view) /\ UNCHANGED <<server, past>>
        BY DEF OnboardingInv, OnboardingTyped, ServeSession, DropAnswer, ReceiveSession, FailLaunch, LoseCall, Keep
    <1>2. CASE ServeSession(c)
        <2>1. call[c].op = "session" /\ Answer(c, Nil) /\ UNCHANGED view
            BY <1>2 DEF ServeSession, Stands, Keep
        <2>2. /\ CallsOK' /\ \A e \in Calls \ {c} : call'[e] = call[e]
              /\ call'[c] = [step |-> "served", op |-> call[c].op, arg |-> call[c].arg, data |-> Nil]
            BY <1>1, <2>1, AnswerEffect
        <2>3. ~Launching(c)' /\ ~Busy(c, "register")' /\ ~Busy(c, "login")' /\ ~Busy(c, "create")'
            BY <2>1, <2>2 DEF Launching, Stands, Busy
        <2> QED BY <1>1, <2>1, <2>2, <2>3, OneLaunchEnds
    <1>3. CASE DropAnswer(c) \/ ReceiveSession(c) \/ FailLaunch(c)
        <2>1. Described(view')
            <3>1. CASE DropAnswer(c)
                BY <1>1, <3>1 DEF DropAnswer, Described, OnboardingView
            <3>2. CASE ReceiveSession(c)
                <4> DEFINE mid == [view EXCEPT !.left = TRUE]
                <4>1. Described(mid)
                    BY <1>1 DEF Described, OnboardingView
                <4>2. view' = [mid EXCEPT !.isSubmitting = FALSE]
                    BY <3>2 DEF ReceiveSession
                <4> HIDE DEF mid
                <4> QED BY <4>1, <4>2 DEF Described, OnboardingView
            <3>3. CASE FailLaunch(c)
                BY <1>1, <3>3 DEF FailLaunch, Described, OnboardingView
            <3> QED BY <1>3, <3>1, <3>2, <3>3
        <2>2. End(c)
            BY <1>3 DEF DropAnswer, ReceiveSession, FailLaunch
        <2>3. CallsOK' /\ call'[c] = Free /\ \A e \in Calls \ {c} : call'[e] = call[e]
            BY <1>1, <2>2, EndEffect
        <2>4. ~Launching(c)' /\ ~Busy(c, "register")' /\ ~Busy(c, "login")' /\ ~Busy(c, "create")'
            BY <2>3 DEF Launching, Stands, Busy, Free
        <2> QED BY <1>1, <2>1, <2>3, <2>4, OneLaunchEnds
    <1>4. CASE LoseCall(c)
        <2>1. Lose(c) /\ UNCHANGED view
            BY <1>4 DEF LoseCall, Keep
        <2>2. /\ CallsOK' /\ \A e \in Calls \ {c} : call'[e] = call[e]
              /\ call[c].step \in {"sent", "served"}
              /\ call'[c] = [step |-> "failed", op |-> call[c].op, arg |-> call[c].arg, data |-> Nil]
            BY <1>1, <2>1, LoseEffect
        <2>3. /\ ~Launching(c)' /\ call'[c].arg = call[c].arg
              /\ Busy(c, "register")' \/ Busy(c, "login")' => Busy(c, "register") \/ Busy(c, "login")
              /\ Busy(c, "create")' => Busy(c, "create")
            BY <2>2 DEF Launching, Stands, Busy
        <2>4. /\ Busy(c, "register") \/ Busy(c, "login") => call[c].arg \in Launch
              /\ Busy(c, "create") => call[c].arg \in Founding
            BY DEF OnboardingInv, OnboardingTyped
        <2> QED BY <1>1, <2>1, <2>2, <2>3, <2>4, OneLaunchEnds
    <1> QED BY <1>2, <1>3, <1>4

LEMMA OnboardingStep == OnboardingInv /\ [OnboardingNext]_webVars => OnboardingInv'
    <1> SUFFICES ASSUME OnboardingInv, [OnboardingNext]_webVars PROVE OnboardingInv'
        OBVIOUS
    <1>1. CASE UNCHANGED webVars
        <2>1. UNCHANGED <<page, call, view, server, past>>
            BY <1>1 DEF webVars
        <2>2. CallsOK' /\ Described(view')
            BY <2>1, SameCalls DEF OnboardingInv, OnboardingTyped
        <2> QED BY <2>1, <2>2, LaunchesStay
                DEF OnboardingInv, OnboardingTyped, LaunchesAreApart, Busy, Launching, Account, Stands
    <1>2. CASE OnboardingNext
        <2>1. UNCHANGED page
            BY <1>2 DEF OnboardingNext
        <2>2. ASSUME NEW c \in Calls, LaunchAnswers(c) PROVE OnboardingInv'
            BY <2>1, <2>2, ServeRegisterKeeps, ServeLoginKeeps, ServeBusinessKeeps, HandlerGoesOn, LaunchEnds
                DEF LaunchAnswers
        <2> QED BY <1>2, <2>1, <2>2, FormsKeep, LaunchEnds DEF OnboardingNext
    <1> QED BY <1>1, <1>2

\* An account has one business at most, the one it was registered to launch, whatever
\* answers were lost, for any number of accounts and of requests under way
\* (onboarding/page.tsx: a launch goes on only from a registration that was answered).
THEOREM OneBusinessOfAnOwner == OnboardingSpec => []OwnerHasOneBusiness
    <1>1. OnboardingInv => OwnerHasOneBusiness
        BY DEF OnboardingInv, FoundedOnce, OwnerHasOneBusiness
    <1> QED BY <1>1, OnboardingInitInv, OnboardingStep, PTL DEF OnboardingSpec

(***************************************************************************)
(* The visits                                                              *)
(*                                                                         *)
(* Unless two requests wrote at once, a status that was chosen or a        *)
(* cancellation that was allowed is still one that the visit can take; so  *)
(* a completed visit stays completed, and whatever was shown, opened or    *)
(* asked for because the visit was completed, is still about one.          *)
(***************************************************************************)
Completed == past.raced \/ server.status = "COMPLETED"

Writes(r, op) == r.op = op /\ r.step = "sent" /\ r.data = "read"
OfCompleted(r) == r.step # "free" /\ (r.op = "review" \/ (r.step = "served" /\ r.data = "COMPLETED"))
ShowsCompleted(v) == v.shown = "COMPLETED" \/ v.at = "review"
Tells(r) == r.op \in {"list", "detail", "cancel"} /\ r.step = "served" => r.data \in VisitStatuses

VisitTyped ==
    /\ page = "visits" /\ CallsOK /\ view \in VisitView
    /\ server \in [status : VisitStatuses, over : BOOLEAN, reviews : Nat, edit : VisitStatuses \cup {Nil}]
    /\ past \in [raced : BOOLEAN]
    /\ \A c \in Calls : Tells(call[c])

OneWriter == ~past.raced =>
    /\ server.edit # Nil => /\ server.edit \in AppointmentTransitions[server.status]
                            /\ \A c \in Calls : ~Writes(call[c], "cancel")
    /\ \A c \in Calls : Writes(call[c], "cancel") =>
          server.status \notin Final /\ \A d \in Calls : Writes(call[d], "cancel") => d = c
    /\ \A c \in Calls : Writes(call[c], "review") =>
          server.reviews = 0 /\ \A d \in Calls : Writes(call[d], "review") => d = c

CompletedStays ==
    /\ server.reviews > 0 => Completed
    /\ ShowsCompleted(view) => Completed
    /\ \A c \in Calls : OfCompleted(call[c]) => Completed

VisitInv == VisitTyped /\ OneWriter /\ CompletedStays /\ (past.raced \/ server.reviews <= 1)

LEMMA VisitInitInv == VisitInit => VisitInv
    <1> SUFFICES ASSUME VisitInit PROVE VisitInv
        OBVIOUS
    <1>1. CallsOK /\ \E c \in Calls : call[c] = Request("list", "here") /\ \A e \in Calls \ {c} : call[e] = Free
        BY MountEffect DEF VisitInit
    <1>2. \A c \in Calls : Tells(call[c]) /\ ~OfCompleted(call[c])
        BY <1>1 DEF Tells, OfCompleted, Request, Free
    <1>3. \A c \in Calls : ~Writes(call[c], "cancel") /\ ~Writes(call[c], "review")
        BY <1>1, VisitPagesAssumption DEF Writes, Request, Free
    <1>4. /\ view = OpenedAt("list") /\ past = [raced |-> FALSE]
          /\ server \in [status : {"PENDING", "CONFIRMED"}, over : {FALSE}, reviews : {0}, edit : {Nil}]
        BY DEF VisitInit
    <1>5. view \in VisitView /\ ~ShowsCompleted(view)
        BY <1>4, VisitPagesAssumption DEF OpenedAt, VisitView, Places, ShowsCompleted, VisitStatuses
    <1>s. server \in [status : VisitStatuses, over : BOOLEAN, reviews : Nat, edit : VisitStatuses \cup {Nil}]
        <2>s. server.status \in VisitStatuses
            BY <1>4 DEF VisitStatuses
        <2>o. server.over \in BOOLEAN
            BY <1>4
        <2>r. server.reviews \in Nat
            BY <1>4
        <2>e. server.edit \in VisitStatuses \cup {Nil}
            BY <1>4
        <2>1. /\ server.status \in VisitStatuses /\ server.over \in BOOLEAN /\ server.reviews \in Nat
              /\ server.edit \in VisitStatuses \cup {Nil}
            BY <2>s, <2>o, <2>r, <2>e
        <2>2. server = [status |-> server.status, over |-> server.over, reviews |-> server.reviews, edit |-> server.edit]
            BY <1>4
        <2> QED BY <2>1, <2>2
    <1>p. past \in [raced : BOOLEAN] /\ page = "visits"
        BY <1>4 DEF VisitInit
    <1>6. VisitTyped
        BY <1>1, <1>2, <1>5, <1>s, <1>p DEF VisitTyped
    <1>7. OneWriter /\ CompletedStays /\ server.reviews <= 1
        BY <1>2, <1>3, <1>4, <1>5 DEF OneWriter, CompletedStays
    <1> QED BY <1>6, <1>7 DEF VisitInv

\* From a final status nothing is chosen, and only statuses are.
LEMMA FinalIsFinal ==
    ASSUME NEW s \in VisitStatuses
    PROVE  /\ AppointmentTransitions[s] \subseteq VisitStatuses
           /\ AppointmentTransitions[s] # {} => s \notin Final
    BY DEF AppointmentTransitions, VisitStatuses, Final

\* Steps of the pages, which leave the rows and start no write.
LEMMA VisitPageKeeps ==
    ASSUME VisitInv, UNCHANGED <<page, server, past>>, CallsOK', view' \in VisitView,
           ShowsCompleted(view') => Completed,
           \A e \in Calls : Tells(call'[e]) /\ (OfCompleted(call'[e]) => Completed),
           \A e \in Calls : Writes(call'[e], "cancel") => Writes(call[e], "cancel"),
           \A e \in Calls : Writes(call'[e], "review") => Writes(call[e], "review")
    PROVE  VisitInv'
    <1>1. VisitTyped'
        BY DEF VisitInv, VisitTyped
    <1>2. OneWriter'
        BY DEF VisitInv, OneWriter
    <1>3. CompletedStays'
        BY DEF VisitInv, CompletedStays, Completed
    <1> QED BY <1>1, <1>2, <1>3 DEF VisitInv

\* In particular steps of one request, to one that has read nothing.
LEMMA OneVisitCallKeeps ==
    ASSUME VisitInv, UNCHANGED <<page, server, past>>, CallsOK', view' \in VisitView,
           ShowsCompleted(view') => Completed, NEW c \in Calls,
           \A e \in Calls \ {c} : call'[e] = call[e],
           Tells(call'[c]), OfCompleted(call'[c]) => Completed,
           ~Writes(call'[c], "cancel"), ~Writes(call'[c], "review")
    PROVE  VisitInv'
    <1>1. \A e \in Calls : Tells(call'[e]) /\ (OfCompleted(call'[e]) => Completed)
        BY DEF VisitInv, VisitTyped, CompletedStays
    <1> QED BY <1>1, VisitPageKeeps

LEMMA ShowVisitKeeps ==
    ASSUME VisitInv, UNCHANGED page, NEW state \in VisitView, Show(state), ShowsCompleted(state) => Completed
    PROVE  VisitInv'
    <1>1. UNCHANGED <<call, server, past>> /\ view' = state
        BY DEF Show
    <1>2. CallsOK'
        BY <1>1, SameCalls DEF VisitInv, VisitTyped
    <1>3. \A e \in Calls : Tells(call'[e]) /\ (OfCompleted(call'[e]) => Completed)
        BY <1>1 DEF VisitInv, VisitTyped, CompletedStays
    <1> QED BY <1>1, <1>2, <1>3, VisitPageKeeps

\* A link drops what the old page waited for, and asks for what the new one shows.
LEMMA GoKeeps ==
    ASSUME VisitInv, UNCHANGED page, NEW c \in Calls, NEW place \in Places, Go(c, place),
           place = "review" => Completed
    PROVE  VisitInv'
    <1>1. CallsOK /\ UNCHANGED <<server, past>> /\ view' = OpenedAt(place)
        BY DEF Go, VisitInv, VisitTyped
    <1> DEFINE left(r) == IF r = Free THEN Free ELSE [r EXCEPT !.arg = "left"]
    <1> DEFINE new == IF place = "review" THEN Free ELSE Request(place, "here")
    <1>2. ASSUME NEW e \in Calls
          PROVE  /\ IsRequest(left(call[e]))
                 /\ left(call[e]).step = call[e].step /\ left(call[e]).op = call[e].op
                 /\ left(call[e]).data = call[e].data
        <2>1. PICK s, o, a, d : call[e] = [step |-> s, op |-> o, arg |-> a, data |-> d]
            BY <1>1 DEF CallsOK, IsRequest
        <2>2. [call[e] EXCEPT !.arg = "left"] = [step |-> s, op |-> o, arg |-> "left", data |-> d]
            BY <2>1
        <2>3. IsRequest([step |-> s, op |-> o, arg |-> "left", data |-> d])
            BY DEF IsRequest
        <2> QED BY <2>1, <2>2, <2>3, FreeIsRequest
    <1>3. call' = [e \in Calls |-> IF e = c THEN new ELSE left(call[e])]
        BY DEF Go, Left
    <1>4. IsRequest(new) /\ Tells(new) /\ ~OfCompleted(new) /\ ~Writes(new, "cancel") /\ ~Writes(new, "review")
        <2>1. CASE place = "review"
            BY <2>1, FreeIsRequest, VisitPagesAssumption DEF Tells, OfCompleted, Writes, Free
        <2>2. CASE place # "review"
            BY <2>2, RequestIsRequest, VisitPagesAssumption DEF Tells, OfCompleted, Writes, Request, Places
        <2> QED BY <2>1, <2>2
    <1> HIDE DEF new, left
    <1>5. call'[c] = new /\ \A e \in Calls \ {c} : call'[e] = left(call[e])
        BY <1>3
    <1>6. CallsOK'
        <2>1. \A e \in Calls : IsRequest(call'[e])
            BY <1>2, <1>4, <1>5
        <2>2. call' = [e \in Calls |-> call'[e]]
            BY <1>3
        <2> QED BY <2>1, <2>2 DEF CallsOK, IsRequest
    <1>7. view' \in VisitView /\ (ShowsCompleted(view') => Completed)
        BY <1>1, VisitPagesAssumption DEF OpenedAt, VisitView, ShowsCompleted, VisitStatuses
    <1>8. \A e \in Calls : Tells(call'[e]) /\ (OfCompleted(call'[e]) => Completed)
        BY <1>2, <1>4, <1>5 DEF VisitInv, VisitTyped, CompletedStays, Tells, OfCompleted
    <1>9. /\ \A e \in Calls : Writes(call'[e], "cancel") => Writes(call[e], "cancel")
          /\ \A e \in Calls : Writes(call'[e], "review") => Writes(call[e], "review")
        BY <1>2, <1>4, <1>5 DEF Writes
    <1> QED BY <1>1, <1>6, <1>7, <1>8, <1>9, VisitPageKeeps

\* What the controls of a page leave of what it shows.
SeenLess(w, v) == w \in VisitView /\ (ShowsCompleted(w) => ShowsCompleted(v))

LEMMA VisitViewFields ==
    ASSUME NEW v \in VisitView
    PROVE  /\ \A x \in {"upcoming", "past"} : SeenLess([v EXCEPT !.tab = x], v)
           /\ \A x \in BOOLEAN : SeenLess([v EXCEPT !.dialog = x], v)
           /\ \A x \in BOOLEAN : SeenLess([v EXCEPT !.cancelling = x], v)
           /\ \A x \in BOOLEAN : SeenLess([v EXCEPT !.rated = x], v)
           /\ \A x \in BOOLEAN : SeenLess([v EXCEPT !.submitting = x], v)
           /\ \A x \in VisitStatuses :
                  LET w == [v EXCEPT !.shown = x] IN
                  w \in VisitView /\ (ShowsCompleted(w) => ShowsCompleted(v) \/ x = "COMPLETED")
    <1> USE DEF SeenLess, VisitView, ShowsCompleted
    <1>1. \A x \in {"upcoming", "past"} : SeenLess([v EXCEPT !.tab = x], v)
        OBVIOUS
    <1>2. \A x \in BOOLEAN : SeenLess([v EXCEPT !.dialog = x], v)
        OBVIOUS
    <1>3. \A x \in BOOLEAN : SeenLess([v EXCEPT !.cancelling = x], v)
        OBVIOUS
    <1>4. \A x \in BOOLEAN : SeenLess([v EXCEPT !.rated = x], v)
        OBVIOUS
    <1>5. \A x \in BOOLEAN : SeenLess([v EXCEPT !.submitting = x], v)
        OBVIOUS
    <1>6. \A x \in VisitStatuses :
              LET w == [v EXCEPT !.shown = x] IN
              w \in VisitView /\ (ShowsCompleted(w) => ShowsCompleted(v) \/ x = "COMPLETED")
        OBVIOUS
    <1> HIDE DEF SeenLess, VisitView, ShowsCompleted
    <1> QED BY <1>1, <1>2, <1>3, <1>4, <1>5, <1>6

LEMMA SendVisitKeeps ==
    ASSUME VisitInv, UNCHANGED <<page, server, past>>, NEW c \in Calls, NEW op \in {"cancel", "review"},
           Send(c, op, "here"), op = "review" => Completed,
           SeenLess(view', view)
    PROVE  VisitInv'
    <1>1. /\ CallsOK' /\ call'[c] = Request(op, "here")
          /\ \A e \in Calls \ {c} : call'[e] = call[e]
        BY SendEffect DEF VisitInv, VisitTyped
    <1>2. /\ Tells(call'[c]) /\ (OfCompleted(call'[c]) => Completed)
          /\ ~Writes(call'[c], "cancel") /\ ~Writes(call'[c], "review")
        BY <1>1, VisitPagesAssumption DEF Tells, OfCompleted, Writes, Request
    <1>3. ShowsCompleted(view') => Completed
        BY DEF VisitInv, CompletedStays, SeenLess
    <1> QED BY <1>1, <1>2, <1>3, OneVisitCallKeeps DEF SeenLess

LEMMA VisitPagesKeep ==
    ASSUME VisitInv, UNCHANGED page, NEW c \in Calls, BookingsPage(c) \/ BookingDetailPage(c) \/ ReviewPage(c)
    PROVE  VisitInv'
    <1>v. view \in VisitView /\ (ShowsCompleted(view) => Completed)
        BY DEF VisitInv, VisitTyped, CompletedStays
    <1>g. ASSUME NEW place \in Places, Link(c, place), place = "review" => Completed PROVE VisitInv'
        BY <1>g, GoKeeps DEF Link
    <1>1. CASE BookingsPage(c)
        BY <1>1, <1>v, <1>g, VisitViewFields, ShowVisitKeeps DEF BookingsPage, Places, SeenLess
    <1>2. CASE BookingDetailPage(c)
        <2>1. CASE Link(c, "list") \/ (view.shown = "COMPLETED" /\ Link(c, "review"))
            BY <1>v, <1>g, <2>1 DEF Places, ShowsCompleted
        <2>2. ASSUME NEW x \in BOOLEAN, Show([view EXCEPT !.dialog = x]) PROVE VisitInv'
            BY <1>v, <2>2, VisitViewFields, ShowVisitKeeps DEF SeenLess
        <2>3. CASE HandleCancel(c)
            <3>1. /\ Send(c, "cancel", "here") /\ UNCHANGED <<server, past>>
                  /\ SeenLess(view', view)
                BY <1>v, <2>3, VisitViewFields DEF HandleCancel
            <3> QED BY <3>1, SendVisitKeeps
        <2> QED BY <1>2, <2>1, <2>2, <2>3 DEF BookingDetailPage, CancelDialog
    <1>3. CASE ReviewPage(c)
        <2>1. Completed
            BY <1>3, <1>v DEF ReviewPage, ShowsCompleted
        <2>2. CASE Show([view EXCEPT !.rated = TRUE])
            BY <1>v, <2>2, VisitViewFields, ShowVisitKeeps DEF SeenLess
        <2>3. CASE HandleSubmit(c)
            <3>1. /\ Send(c, "review", "here") /\ UNCHANGED <<server, past>>
                  /\ SeenLess(view', view)
                BY <1>v, <2>3, VisitViewFields DEF HandleSubmit
            <3> QED BY <2>1, <3>1, SendVisitKeeps
        <2>4. CASE Link(c, "list")
            BY <1>g, <2>4 DEF Places
        <2> QED BY <1>3, <2>2, <2>3, <2>4 DEF ReviewPage
    <1> QED BY <1>1, <1>2, <1>3

\* Two writers at once: of what is left to show, all is granted.
LEMMA RacedIsGranted ==
    ASSUME VisitInv, UNCHANGED page, VisitTyped', past'.raced
    PROVE  VisitInv'
    BY DEF VisitInv, OneWriter, CompletedStays, Completed

\* One request has its row read, and the rest stays.
LEMMA ReadByKeeps ==
    ASSUME VisitInv, UNCHANGED page, NEW c \in Calls, NEW op \in {"cancel", "review"}, Asks(c, op),
           NEW raced \in BOOLEAN, ReadBy(c, raced),
           ~raced /\ ~past.raced => \A e \in Calls : ~Writes(call[e], op),
           op = "cancel" /\ ~raced /\ ~past.raced => server.edit = Nil /\ server.status \notin Final,
           op = "review" => server.reviews = 0
    PROVE  VisitInv'
    <1>1. /\ CallsOK /\ UNCHANGED <<view, server>> /\ past' = [past EXCEPT !.raced = past.raced \/ raced]
          /\ call' = [call EXCEPT ![c].data = "read"] /\ past \in [raced : BOOLEAN]
        BY DEF ReadBy, VisitInv, VisitTyped
    <1>2. call[c].op = op /\ call[c].step = "sent"
        BY DEF Asks, Stands
    <1> DEFINE r == [step |-> call[c].step, op |-> call[c].op, arg |-> call[c].arg, data |-> "read"]
    <1>3. call' = [call EXCEPT ![c] = r]
        <2>1. PICK s, o, a, d : call[c] = [step |-> s, op |-> o, arg |-> a, data |-> d]
            BY <1>1 DEF CallsOK, IsRequest
        <2>2. [call[c] EXCEPT !.data = "read"] = r
            BY <2>1
        <2> QED BY <1>1, <2>2 DEF CallsOK
    <1>4. CallsOK' /\ call'[c] = r /\ \A e \in Calls \ {c} : call'[e] = call[e]
        <2>1. IsRequest(r)
            BY DEF IsRequest
        <2> HIDE DEF r
        <2> QED BY <1>1, <1>3, <2>1, OneCall
    <1>5. past' \in [raced : BOOLEAN] /\ past'.raced = (past.raced \/ raced)
        BY <1>1
    <1>6. VisitTyped'
        BY <1>1, <1>2, <1>4, <1>5 DEF VisitInv, VisitTyped, Tells
    <1>7. CASE past'.raced
        BY <1>6, <1>7, RacedIsGranted
    <1>8. CASE ~past'.raced
        <2>1. ~past.raced /\ ~raced
            BY <1>5, <1>8
        <2>2. OneWriter'
            BY <1>1, <1>2, <1>4, <2>1 DEF VisitInv, OneWriter, Writes
        <2>3. OfCompleted(call'[c]) <=> OfCompleted(call[c])
            BY <1>2, <1>4 DEF OfCompleted
        <2>4. CompletedStays'
            BY <1>1, <1>4, <1>5, <2>1, <2>3 DEF VisitInv, CompletedStays, Completed
        <2> QED BY <1>1, <1>6, <2>1, <2>2, <2>4 DEF VisitInv
    <1> QED BY <1>7, <1>8

LEMMA RefuseVisitKeeps ==
    ASSUME VisitInv, UNCHANGED page, NEW c \in Calls, call[c].step = "sent", Refuse(c), Keep
    PROVE  VisitInv'
    <1>1. /\ CallsOK /\ UNCHANGED <<view, server, past>> /\ view \in VisitView
          /\ (ShowsCompleted(view) => Completed) /\ (OfCompleted(call[c]) => Completed)
        BY DEF Keep, VisitInv, VisitTyped, CompletedStays
    <1>2. /\ CallsOK' /\ \A e \in Calls \ {c} : call'[e] = call[e]
          /\ call'[c] = [step |-> "failed", op |-> call[c].op, arg |-> call[c].arg, data |-> call[c].data]
        BY <1>1, RefuseEffect
    <1>3. /\ Tells(call'[c]) /\ (OfCompleted(call'[c]) => Completed)
          /\ ~Writes(call'[c], "cancel") /\ ~Writes(call'[c], "review")
        BY <1>1, <1>2 DEF Tells, OfCompleted, Writes
    <1> QED BY <1>1, <1>2, <1>3, OneVisitCallKeeps

LEMMA ReadVisitKeeps ==
    ASSUME VisitInv, UNCHANGED page, NEW c \in Calls, ReadCancel(c) \/ ReadReviews(c)
    PROVE  VisitInv'
    <1>1. CASE ReadCancel(c)
        <2> DEFINE raced == server.edit # Nil \/ Writing("cancel") # {}
        <2>1. Asks(c, "cancel") /\ call[c].step = "sent"
            BY <1>1 DEF ReadCancel, Asks, Stands
        <2>2. CASE server.status \in Final
            BY <1>1, <2>1, <2>2, RefuseVisitKeeps DEF ReadCancel
        <2>3. CASE server.status \notin Final
            <3>1. ReadBy(c, raced)
                BY <1>1, <2>3 DEF ReadCancel
            <3>2. ~raced => server.edit = Nil /\ \A e \in Calls : ~Writes(call[e], "cancel")
                BY DEF Writing, Writes, Stands
            <3>3. raced \in BOOLEAN
                OBVIOUS
            <3> HIDE DEF raced
            <3> QED BY <2>1, <2>3, <3>1, <3>2, <3>3, ReadByKeeps
        <2> QED BY <2>2, <2>3
    <1>2. CASE ReadReviews(c)
        <2> DEFINE raced == Writing("review") # {}
        <2>1. Asks(c, "review") /\ call[c].step = "sent" /\ server.reviews \in Nat
            BY <1>2 DEF ReadReviews, Asks, Stands, VisitInv, VisitTyped
        <2>2. CASE server.reviews > 0
            BY <1>2, <2>1, <2>2, RefuseVisitKeeps DEF ReadReviews
        <2>3. CASE ~(server.reviews > 0)
            <3>1. ReadBy(c, raced) /\ server.reviews = 0
                BY <1>2, <2>1, <2>3 DEF ReadReviews
            <3>2. ~raced => \A e \in Calls : ~Writes(call[e], "review")
                BY DEF Writing, Writes, Stands
            <3>3. raced \in BOOLEAN
                OBVIOUS
            <3> HIDE DEF raced
            <3> QED BY <2>1, <3>1, <3>2, <3>3, ReadByKeeps
        <2> QED BY <2>2, <2>3
    <1> QED BY <1>1, <1>2

\* Of two writers that did not race, a cancellation is of a visit that is not
\* completed, so nothing was shown or asked for because it is; and a review is the
\* first one of a visit that is.
LEMMA WriteVisitKeeps ==
    ASSUME VisitInv, UNCHANGED page, NEW c \in Calls, WriteCancel(c) \/ WriteReview(c)
    PROVE  VisitInv'
    <1>1. /\ CallsOK /\ UNCHANGED <<view, past>> /\ view \in VisitView
          /\ server \in [status : VisitStatuses, over : BOOLEAN, reviews : Nat, edit : VisitStatuses \cup {Nil}]
        BY DEF WriteCancel, WriteReview, VisitInv, VisitTyped
    <1>2. CASE WriteCancel(c)
        <2>1. Writes(call[c], "cancel") /\ Answer(c, "CANCELLED")
            BY <1>2 DEF WriteCancel, Writing, Writes, Stands
        <2>2. /\ CallsOK' /\ \A e \in Calls \ {c} : call'[e] = call[e]
              /\ call'[c] = [step |-> "served", op |-> call[c].op, arg |-> call[c].arg, data |-> "CANCELLED"]
            BY <1>1, <2>1, AnswerEffect
        <2>3. /\ server' \in [status : VisitStatuses, over : BOOLEAN, reviews : Nat, edit : VisitStatuses \cup {Nil}]
              /\ server'.status = "CANCELLED" /\ server'.edit = server.edit /\ server'.reviews = server.reviews
            BY <1>1, <1>2 DEF WriteCancel, VisitStatuses
        <2>4. /\ Tells(call'[c]) /\ ~OfCompleted(call'[c])
              /\ ~Writes(call'[c], "cancel") /\ ~Writes(call'[c], "review")
            BY <2>1, <2>2 DEF Tells, OfCompleted, Writes, VisitStatuses
        <2>5. VisitTyped'
            BY <1>1, <2>2, <2>3, <2>4 DEF VisitInv, VisitTyped
        <2>6. CASE past.raced
            BY <1>1, <2>5, <2>6, RacedIsGranted
        <2>7. CASE ~past.raced
            <3>1. /\ server.status \notin Final /\ server.edit = Nil
                  /\ \A e \in Calls \ {c} : ~Writes(call[e], "cancel")
                BY <2>1, <2>7 DEF VisitInv, OneWriter
            <3>2. ~Completed
                BY <2>7, <3>1 DEF Completed, Final
            <3>3. OneWriter'
                BY <1>1, <2>2, <2>3, <2>4, <2>7, <3>1 DEF VisitInv, OneWriter
            <3>4. CompletedStays'
                BY <1>1, <2>2, <2>3, <2>4, <3>2 DEF VisitInv, CompletedStays
            <3> QED BY <2>3, <2>5, <2>7, <3>3, <3>4 DEF VisitInv
        <2> QED BY <2>6, <2>7
    <1>3. CASE WriteReview(c)
        <2>1. Writes(call[c], "review") /\ Answer(c, Nil)
            BY <1>3 DEF WriteReview, Writing, Writes, Stands
        <2>2. /\ CallsOK' /\ \A e \in Calls \ {c} : call'[e] = call[e]
              /\ call'[c] = [step |-> "served", op |-> call[c].op, arg |-> call[c].arg, data |-> Nil]
            BY <1>1, <2>1, AnswerEffect
        <2>3. /\ server' \in [status : VisitStatuses, over : BOOLEAN, reviews : Nat, edit : VisitStatuses \cup {Nil}]
              /\ server'.status = server.status /\ server'.edit = server.edit
              /\ server'.reviews = server.reviews + 1
            BY <1>1, <1>3 DEF WriteReview
        <2>4. /\ Tells(call'[c]) /\ Completed
              /\ ~Writes(call'[c], "cancel") /\ ~Writes(call'[c], "review")
            BY <2>1, <2>2 DEF Tells, OfCompleted, Writes, VisitInv, CompletedStays
        <2>5. VisitTyped'
            BY <1>1, <2>2, <2>3, <2>4 DEF VisitInv, VisitTyped
        <2>6. ~past.raced => server.reviews = 0 /\ \A e \in Calls \ {c} : ~Writes(call[e], "review")
            BY <2>1 DEF VisitInv, OneWriter
        <2>7. OneWriter'
            BY <1>1, <2>2, <2>3, <2>4, <2>6 DEF VisitInv, OneWriter
        <2>8. CompletedStays'
            BY <1>1, <2>2, <2>3, <2>4 DEF VisitInv, CompletedStays, Completed
        <2>9. past'.raced \/ server'.reviews <= 1
            BY <1>1, <2>3, <2>6
        <2> QED BY <2>5, <2>7, <2>8, <2>9 DEF VisitInv
    <1> QED BY <1>2, <1>3

\* The business, and the clock.
LEMMA BusinessKeeps ==
    ASSUME VisitInv, UNCHANGED page, ReadUpdate \/ WriteUpdate \/ TimePasses
    PROVE  VisitInv'
    <1>1. /\ CallsOK /\ UNCHANGED <<view, call>> /\ past \in [raced : BOOLEAN]
          /\ server \in [status : VisitStatuses, over : BOOLEAN, reviews : Nat, edit : VisitStatuses \cup {Nil}]
        BY DEF ReadUpdate, WriteUpdate, TimePasses, VisitInv, VisitTyped
    <1>2. CallsOK'
        BY <1>1, SameCalls
    <1>3. CASE ReadUpdate
        <2>1. PICK s \in AppointmentTransitions[server.status] :
                  server.edit = Nil /\ server' = [server EXCEPT !.edit = s]
            BY <1>3 DEF ReadUpdate
        <2>2. s \in VisitStatuses /\ server.status \notin Final
            BY <1>1, <2>1, FinalIsFinal
        <2>3. /\ server' \in [status : VisitStatuses, over : BOOLEAN, reviews : Nat, edit : VisitStatuses \cup {Nil}]
              /\ server'.status = server.status /\ server'.edit = s /\ server'.reviews = server.reviews
            BY <1>1, <2>1, <2>2
        <2>4. /\ past' \in [raced : BOOLEAN]
              /\ past'.raced = (past.raced \/ Writing("cancel") # {})
            BY <1>1, <1>3 DEF ReadUpdate
        <2>5. VisitTyped'
            BY <1>1, <1>2, <2>3, <2>4 DEF VisitInv, VisitTyped
        <2>6. CASE past'.raced
            BY <2>5, <2>6, RacedIsGranted
        <2>7. CASE ~past'.raced
            <3>1. ~past.raced /\ \A e \in Calls : ~Writes(call[e], "cancel")
                BY <2>4, <2>7 DEF Writing, Writes, Stands
            <3>2. OneWriter'
                BY <1>1, <2>1, <2>3, <3>1 DEF VisitInv, OneWriter
            <3>3. CompletedStays'
                BY <1>1, <2>3, <2>7, <3>1 DEF VisitInv, CompletedStays, Completed
            <3> QED BY <2>3, <2>5, <3>1, <3>2, <3>3 DEF VisitInv
        <2> QED BY <2>6, <2>7
    <1>4. CASE WriteUpdate
        <2> DEFINE mid == [server EXCEPT !.status = server.edit]
        <2>1. UNCHANGED past /\ server.edit # Nil /\ server' = [mid EXCEPT !.edit = Nil]
            BY <1>4 DEF WriteUpdate
        <2>2. /\ mid \in [status : VisitStatuses, over : BOOLEAN, reviews : Nat, edit : VisitStatuses \cup {Nil}]
              /\ mid.reviews = server.reviews
            BY <1>1, <2>1
        <2> HIDE DEF mid
        <2>3. /\ server' \in [status : VisitStatuses, over : BOOLEAN, reviews : Nat, edit : VisitStatuses \cup {Nil}]
              /\ server'.edit = Nil /\ server'.reviews = server.reviews
            BY <2>1, <2>2
        <2>4. VisitTyped'
            BY <1>1, <1>2, <2>1, <2>3 DEF VisitInv, VisitTyped
        <2>5. CASE past.raced
            BY <2>1, <2>4, <2>5, RacedIsGranted
        <2>6. CASE ~past.raced
            <3>1. server.status \notin Final /\ \A e \in Calls : ~Writes(call[e], "cancel")
                <4>1. AppointmentTransitions[server.status] # {} /\ \A e \in Calls : ~Writes(call[e], "cancel")
                    BY <2>1, <2>6 DEF VisitInv, OneWriter
                <4> QED BY <1>1, <4>1, FinalIsFinal
            <3>2. ~Completed
                BY <2>6, <3>1 DEF Completed, Final
            <3>3. OneWriter'
                BY <1>1, <2>1, <2>3, <2>6, <3>1 DEF VisitInv, OneWriter
            <3>4. CompletedStays'
                BY <1>1, <2>3, <3>2 DEF VisitInv, CompletedStays
            <3> QED BY <2>1, <2>3, <2>4, <2>6, <3>3, <3>4 DEF VisitInv
        <2> QED BY <2>5, <2>6
    <1>5. CASE TimePasses
        <2>1. /\ UNCHANGED past
              /\ server' \in [status : VisitStatuses, over : BOOLEAN, reviews : Nat, edit : VisitStatuses \cup {Nil}]
              /\ server'.status = server.status /\ server'.edit = server.edit /\ server'.reviews = server.reviews
            BY <1>1, <1>5 DEF TimePasses
        <2>2. VisitTyped'
            BY <1>1, <1>2, <2>1 DEF VisitInv, VisitTyped
        <2>3. OneWriter' /\ CompletedStays'
            BY <1>1, <2>1 DEF VisitInv, OneWriter, CompletedStays, Completed
        <2> QED BY <2>1, <2>2, <2>3 DEF VisitInv
    <1> QED BY <1>3, <1>4, <1>5

\* What is answered is the status as it is.
LEMMA ServeVisitKeeps ==
    ASSUME VisitInv, UNCHANGED page, NEW c \in Calls, ServeShow(c) \/ LoseCall(c)
    PROVE  VisitInv'
    <1>1. /\ CallsOK /\ UNCHANGED <<view, server, past>> /\ view \in VisitView /\ server.status \in VisitStatuses
          /\ (ShowsCompleted(view) => Completed) /\ (OfCompleted(call[c]) => Completed)
        BY DEF ServeShow, LoseCall, Keep, VisitInv, VisitTyped, CompletedStays
    <1>2. CASE ServeShow(c)
        <2>1. call[c].op \in {"list", "detail"} /\ Answer(c, server.status)
            BY <1>2 DEF ServeShow, Stands
        <2>2. /\ CallsOK' /\ \A e \in Calls \ {c} : call'[e] = call[e]
              /\ call'[c] = [step |-> "served", op |-> call[c].op, arg |-> call[c].arg, data |-> server.status]
            BY <1>1, <2>1, AnswerEffect
        <2>3. /\ Tells(call'[c]) /\ (OfCompleted(call'[c]) => Completed)
              /\ ~Writes(call'[c], "cancel") /\ ~Writes(call'[c], "review")
            BY <1>1, <2>1, <2>2 DEF Tells, OfCompleted, Writes, Completed
        <2> QED BY <1>1, <2>2, <2>3, OneVisitCallKeeps
    <1>3. CASE LoseCall(c)
        <2>1. /\ CallsOK' /\ \A e \in Calls \ {c} : call'[e] = call[e]
              /\ call[c].step \in {"sent", "served"}
              /\ call'[c] = [step |-> "failed", op |-> call[c].op, arg |-> call[c].arg, data |-> Nil]
            BY <1>1, <1>3, LoseEffect DEF LoseCall
        <2>2. /\ Tells(call'[c]) /\ (OfCompleted(call'[c]) => Completed)
              /\ ~Writes(call'[c], "cancel") /\ ~Writes(call'[c], "review")
            BY <1>1, <2>1 DEF Tells, OfCompleted, Writes
        <2> QED BY <1>1, <2>1, <2>2, OneVisitCallKeeps
    <1> QED BY <1>2, <1>3

LEMMA SettleKeeps ==
    ASSUME VisitInv, UNCHANGED page, NEW c \in Calls, NEW state \in VisitView, Settle(c, state),
           ShowsCompleted(state) => Completed
    PROVE  VisitInv'
    <1>1. /\ CallsOK /\ UNCHANGED <<server, past>> /\ End(c)
          /\ view' \in VisitView /\ (ShowsCompleted(view') => Completed)
        BY DEF Settle, VisitInv, VisitTyped, CompletedStays
    <1>2. CallsOK' /\ call'[c] = Free /\ \A e \in Calls \ {c} : call'[e] = call[e]
        BY <1>1, EndEffect
    <1>3. /\ Tells(call'[c]) /\ (OfCompleted(call'[c]) => Completed)
          /\ ~Writes(call'[c], "cancel") /\ ~Writes(call'[c], "review")
        BY <1>2 DEF Tells, OfCompleted, Writes, Free
    <1> QED BY <1>1, <1>2, <1>3, OneVisitCallKeeps

\* What a page is told.
LEMMA ReceiveVisitKeeps ==
    ASSUME VisitInv, UNCHANGED page, NEW c \in Calls,
           \/ ReceiveShow(c) \/ FailDetail(c) \/ FailShow(c) \/ ReceiveCancel(c) \/ FailCancel(c)
           \/ ReceiveReview(c) \/ FailReview(c)
    PROVE  VisitInv'
    <1>v. view \in VisitView /\ (ShowsCompleted(view) => Completed)
        BY DEF VisitInv, VisitTyped, CompletedStays
    <1>t. call[c].op \in {"list", "detail", "cancel"} /\ call[c].step = "served" =>
              call[c].data \in VisitStatuses /\ (call[c].data = "COMPLETED" => Completed)
        BY DEF VisitInv, VisitTyped, CompletedStays, Tells, OfCompleted
    <1>1. CASE ReceiveShow(c)
        <2> DEFINE state == [view EXCEPT !.shown = call[c].data]
        <2>1. Settle(c, state) /\ call[c].op \in {"list", "detail"} /\ call[c].step = "served"
            BY <1>1 DEF ReceiveShow, Stands
        <2>2. state \in VisitView /\ (ShowsCompleted(state) => Completed)
            BY <1>v, <1>t, <2>1, VisitViewFields
        <2> HIDE DEF state
        <2> QED BY <2>1, <2>2, SettleKeeps
    <1>2. CASE FailDetail(c) \/ ReceiveReview(c)
        BY <1>2, GoKeeps DEF FailDetail, ReceiveReview, Places
    <1>3. CASE FailShow(c)
        BY <1>3, <1>v, SettleKeeps DEF FailShow
    <1>4. CASE ReceiveCancel(c)
        <2> DEFINE told == [view EXCEPT !.shown = call[c].data]
        <2> DEFINE closed == [told EXCEPT !.dialog = FALSE]
        <2> DEFINE state == [closed EXCEPT !.cancelling = FALSE]
        <2>1. Settle(c, state) /\ call[c].op = "cancel" /\ call[c].step = "served"
            BY <1>4 DEF ReceiveCancel, Stands
        <2>2. told \in VisitView /\ (ShowsCompleted(told) => Completed)
            BY <1>v, <1>t, <2>1, VisitViewFields
        <2> HIDE DEF told
        <2>3. closed \in VisitView /\ (ShowsCompleted(closed) => Completed)
            BY <2>2, VisitViewFields DEF SeenLess
        <2> HIDE DEF closed
        <2>4. state \in VisitView /\ (ShowsCompleted(state) => Completed)
            BY <2>3, VisitViewFields DEF SeenLess
        <2> HIDE DEF state
        <2> QED BY <2>1, <2>4, SettleKeeps
    <1>5. CASE FailCancel(c)
        <2> DEFINE state == [view EXCEPT !.cancelling = FALSE]
        <2>1. Settle(c, state)
            BY <1>5 DEF FailCancel
        <2>2. state \in VisitView /\ (ShowsCompleted(state) => Completed)
            BY <1>v, VisitViewFields DEF SeenLess
        <2> HIDE DEF state
        <2> QED BY <2>1, <2>2, SettleKeeps
    <1>6. CASE FailReview(c)
        <2> DEFINE state == [view EXCEPT !.submitting = FALSE]
        <2>1. Settle(c, state)
            BY <1>6 DEF FailReview
        <2>2. state \in VisitView /\ (ShowsCompleted(state) => Completed)
            BY <1>v, VisitViewFields DEF SeenLess
        <2> HIDE DEF state
        <2> QED BY <2>1, <2>2, SettleKeeps
    <1> QED BY <1>1, <1>2, <1>3, <1>4, <1>5, <1>6

LEMMA VisitStep == VisitInv /\ [VisitNext]_webVars => VisitInv'
    <1> SUFFICES ASSUME VisitInv, [VisitNext]_webVars PROVE VisitInv'
        OBVIOUS
    <1>1. CASE UNCHANGED webVars
        <2>1. UNCHANGED <<page, call, view, server, past>>
            BY <1>1 DEF webVars
        <2>2. CallsOK'
            BY <2>1, SameCalls DEF VisitInv, VisitTyped
        <2>3. view' \in VisitView /\ (ShowsCompleted(view') => Completed)
            BY <2>1 DEF VisitInv, VisitTyped, CompletedStays
        <2>4. \A e \in Calls : Tells(call'[e]) /\ (OfCompleted(call'[e]) => Completed)
            BY <2>1 DEF VisitInv, VisitTyped, CompletedStays
        <2> QED BY <2>1, <2>2, <2>3, <2>4, VisitPageKeeps
    <1>2. CASE VisitNext
        <2>1. UNCHANGED page
            BY <1>2 DEF VisitNext
        <2>2. ASSUME NEW c \in Calls, VisitAnswers(c) PROVE VisitInv'
            BY <2>1, <2>2, ServeVisitKeeps, ReadVisitKeeps, WriteVisitKeeps, ReceiveVisitKeeps DEF VisitAnswers
        <2> QED
            BY <1>2, <2>1, <2>2, BusinessKeeps, VisitPagesKeep, ServeVisitKeeps DEF VisitNext
    <1> QED BY <1>1, <1>2

\* Unless two requests wrote at once, a visit has one review at most, and a reviewed one
\* stays completed, for any number of requests under way and of reviews
\* (booking_service.py: the checks before a cancellation; review/page.tsx: no check).
THEOREM ReviewsAreOfCompletedVisits == VisitSpec => []ReviewedOnceAndCompleted
    <1>1. VisitInv => ReviewedOnceAndCompleted
        BY DEF VisitInv, VisitTyped, CompletedStays, Completed, ReviewedOnceAndCompleted
    <1> QED BY <1>1, VisitInitInv, VisitStep, PTL DEF VisitSpec

(***************************************************************************)
(* The inventory                                                           *)
(***************************************************************************)
RoomChanges == {"create", "move"}
RoomInv == page = "inventory" /\ ListPage /\ UpToDate(call, past, view, Matching(view.key), RoomChanges)

LEMMA RoomInitInv == RoomInit => RoomInv
    <1> SUFFICES ASSUME RoomInit PROVE RoomInv
        OBVIOUS
    <1>1. page = "inventory" /\ MountList(AllProducts) /\ view.key = AllProducts /\ HasFields(view, {"key", "rows", "loading"})
        BY DEF RoomInit, HasFields
    <1> QED BY <1>1, MountedIsUpToDate DEF RoomInv

\* A list of the same products, for the same filters.
LEMMA RoomStays ==
    ASSUME RoomInv, UNCHANGED <<page, server>>, ListPage', view'.key = view.key,
           UpToDate(call', past', view', Matching(view.key), RoomChanges)
    PROVE  RoomInv'
    BY DEF RoomInv, Matching, pieces, filed

LEMMA RoomShowKeeps ==
    ASSUME RoomInv, UNCHANGED page, NEW state, Show(state), HasFields(state, {"key", "rows", "loading"}),
           state.key = view.key, state.rows = view.rows
    PROVE  RoomInv'
    <1>1. view' = state /\ UNCHANGED server
        BY DEF Show
    <1>2. ListPage' /\ UpToDate(call', past', view', Matching(view.key), RoomChanges)
        BY ShowKeepsTheList DEF RoomInv
    <1> QED BY <1>1, <1>2, RoomStays

LEMMA RoomClicksKeep ==
    ASSUME RoomInv, UNCHANGED page,
           \/ OpenAddProduct \/ \E a \in Articles : Adjust(a)
           \/ \E c \in Calls : AddProductModal(c) \/ AdjustModal(c)
    PROVE  RoomInv'
    <1>1. HasFields(view, {"key", "rows", "loading"})
        BY DEF RoomInv, ListPage
    <1>2. ASSUME NEW b \in BOOLEAN, Show([view EXCEPT !.adding = b]) PROVE RoomInv'
        BY <1>1, <1>2, RoomShowKeeps DEF HasFields
    <1>3. ASSUME NEW b \in BOOLEAN, Show([view EXCEPT !.adjusting = b]) PROVE RoomInv'
        BY <1>1, <1>3, RoomShowKeeps DEF HasFields
    <1>4. ASSUME NEW a \in Articles, Show([view EXCEPT !.adjusting = TRUE, !.selected = a]) PROVE RoomInv'
        BY <1>1, <1>4, RoomShowKeeps DEF HasFields
    <1>5. ASSUME NEW c \in Calls, NEW op, NEW arg, op # "list", Send(c, op, arg), Keep PROVE RoomInv'
        <2>1. UNCHANGED <<view, server, past>>
            BY <1>5 DEF Keep
        <2>2. ListPage' /\ UpToDate(call', past', view', Matching(view.key), RoomChanges)
            BY <1>5, <2>1, SendKeepsTheList DEF RoomInv, ListPage
        <2> QED BY <2>1, <2>2, RoomStays
    <1> QED
        BY Zenon, <1>2, <1>3, <1>4, <1>5 DEF OpenAddProduct, Adjust, AddProductModal, AdjustModal

LEMMA RoomLoadsKeep ==
    ASSUME RoomInv, UNCHANGED page, NEW c \in Calls,
           \/ \E filter \in Filters : FilterBar(c, filter)
           \/ ReceiveProduct(c) \/ ReceiveMovement(c)
    PROVE  RoomInv'
    <1>1. ListPage /\ HasFields(view, {"key", "rows", "loading"})
        BY DEF RoomInv, ListPage
    <1>2. CASE \E filter \in Filters : FilterBar(c, filter)
        <2>1. PICK filter \in Filters : LoadList(c, [view EXCEPT !.key = filter])
            BY <1>2 DEF FilterBar
        <2>2. HasFields([view EXCEPT !.key = filter], {"key", "rows", "loading"})
            BY <1>1 DEF HasFields
        <2> QED BY <1>1, <2>1, <2>2, LoadListKeeps DEF RoomInv
    <1>3. CASE ReceiveProduct(c)
        <2>1. /\ Reload(c, call[c].arg.key, [view EXCEPT !.adding = FALSE]) /\ call[c].op # "list"
              /\ HasFields([view EXCEPT !.adding = FALSE], {"key", "rows", "loading"})
            BY <1>1, <1>3 DEF ReceiveProduct, Stands, HasFields
        <2> QED BY <1>1, <2>1, ReloadKeeps DEF RoomInv
    <1>4. CASE ReceiveMovement(c)
        <2>1. /\ Reload(c, call[c].arg.key, [view EXCEPT !.adjusting = FALSE, !.selected = Nil]) /\ call[c].op # "list"
              /\ HasFields([view EXCEPT !.adjusting = FALSE, !.selected = Nil], {"key", "rows", "loading"})
            BY <1>1, <1>4 DEF ReceiveMovement, Stands, HasFields
        <2> QED BY <1>1, <2>1, ReloadKeeps DEF RoomInv
    <1> QED BY <1>2, <1>3, <1>4

LEMMA RoomServesKeep ==
    ASSUME RoomInv, UNCHANGED page, NEW c \in Calls, ServeProduct(c) \/ ServeMovement(c)
    PROVE  RoomInv'
    <1>1. ASSUME call[c].op \in RoomChanges, Answer(c, Nil), UNCHANGED <<view, past>> PROVE RoomInv'
        BY <1>1, ChangeIsUpToDate DEF RoomInv, RoomChanges
    <1>2. CASE ServeProduct(c)
        BY <1>1, <1>2 DEF ServeProduct, Stands, RoomChanges
    <1>3. CASE ServeMovement(c)
        <2>1. Stands(c, "move", "sent") /\ UNCHANGED <<view, past>> /\ call[c].op \in RoomChanges
            BY <1>3 DEF ServeMovement, Stands, RoomChanges
        <2>2. Answer(c, Nil) \/ (Refuse(c) /\ UNCHANGED server)
            BY <1>3 DEF ServeMovement
        <2>3. CASE Refuse(c) /\ UNCHANGED server
            <3>1. ListPage' /\ UpToDate(call', past', view', Matching(view.key), RoomChanges)
                BY <2>1, <2>3, RefuseKeepsTheList DEF RoomInv
            <3> QED BY <2>1, <2>3, <3>1, RoomStays
        <2> QED BY <1>1, <2>1, <2>2, <2>3
    <1> QED BY <1>2, <1>3

LEMMA RoomListKeeps ==
    ASSUME RoomInv, UNCHANGED page, NEW c \in Calls,
           \/ AnswerList(c, Matching(call[c].arg)) \/ ReceiveList(c) \/ FailList(c, view.rows)
           \/ FailChange(c, "create", view) \/ FailChange(c, "move", view) \/ LoseInList(c)
    PROVE  RoomInv'
    <1>1. "list" \notin RoomChanges
        BY DEF RoomChanges
    <1>2. Loading(c, Matching(call[c].arg))
        BY DEF Loading
    <1>3. /\ ListPage /\ UpToDate(call, past, view, Matching(view.key), RoomChanges)
          /\ call[c].arg = view.key => Matching(call[c].arg) = Matching(view.key)
        BY DEF RoomInv
    <1>4. /\ ListPage' /\ UpToDate(call', past', view', Matching(view.key), RoomChanges)
          /\ view'.key = view.key /\ UNCHANGED server
        BY <1>1, <1>2, <1>3, LoadingKeepsTheList, Zenon
    <1> QED BY <1>4, RoomStays

LEMMA RoomStep == RoomInv /\ [RoomNext]_webVars => RoomInv'
    <1> SUFFICES ASSUME RoomInv, [RoomNext]_webVars PROVE RoomInv'
        OBVIOUS
    <1>1. CASE UNCHANGED webVars
        <2>1. UNCHANGED <<page, call, view, server, past>>
            BY <1>1 DEF webVars
        <2>2. ListPage' /\ UpToDate(call', past', view', Matching(view.key), RoomChanges)
            BY <2>1, NothingChangesTheList DEF RoomInv
        <2> QED BY <2>1, <2>2, RoomStays
    <1>2. CASE RoomNext
        <2>1. UNCHANGED page
            BY <1>2 DEF RoomNext
        <2>2. ASSUME NEW c \in Calls, RoomAnswers(c) \/ LoseInList(c) PROVE RoomInv'
            BY <2>1, <2>2, RoomLoadsKeep, RoomServesKeep, RoomListKeeps DEF RoomAnswers
        <2> QED BY <1>2, <2>1, <2>2, RoomClicksKeep, RoomLoadsKeep DEF RoomNext
    <1> QED BY <1>1, <1>2

(***************************************************************************)
(* The memberships                                                         *)
(***************************************************************************)
MembershipInv ==
    /\ page = "memberships" /\ ListPage
    /\ HasFields(server, {"plans"}) /\ DOMAIN server = {"plans", "subscribers"} /\ DOMAIN view.rows = DOMAIN server
    /\ UpToDate(call, past, view, server, {"plan"})

LEMMA MembershipInitInv == MembershipInit => MembershipInv
    <1> SUFFICES ASSUME MembershipInit PROVE MembershipInv
        OBVIOUS
    <1>1. /\ page = "memberships" /\ MountList(Nil) /\ view.key = Nil /\ HasFields(view, {"key", "rows", "loading"})
          /\ DOMAIN view.rows = {"plans", "subscribers"}
        BY DEF MembershipInit, HasFields
    <1>2. HasFields(server, {"plans"}) /\ DOMAIN server = {"plans", "subscribers"}
        BY DEF MembershipInit, HasFields
    <1> QED BY <1>1, <1>2, MountedIsUpToDate DEF MembershipInv

LEMMA MembershipStays ==
    ASSUME MembershipInv, UNCHANGED <<page, server>>, ListPage', DOMAIN view'.rows = DOMAIN view.rows,
           UpToDate(call', past', view', server, {"plan"})
    PROVE  MembershipInv'
    BY DEF MembershipInv

LEMMA MembershipClicksKeep ==
    ASSUME MembershipInv, UNCHANGED page, MembershipHeader \/ EnrollModal \/ \E c \in Calls : CreatePlanModal(c)
    PROVE  MembershipInv'
    <1>1. HasFields(view, {"key", "rows", "loading"})
        BY DEF MembershipInv, ListPage
    <1>2. ASSUME NEW state, Show(state), HasFields(state, {"key", "rows", "loading"}),
                 state.key = view.key, state.rows = view.rows
          PROVE  MembershipInv'
        <2>1. view' = state /\ UNCHANGED server
            BY <1>2 DEF Show
        <2>2. ListPage' /\ UpToDate(call', past', view', server, {"plan"})
            BY <1>2, ShowKeepsTheList DEF MembershipInv
        <2> QED BY <1>2, <2>1, <2>2, MembershipStays
    <1>3. ASSUME NEW tab, Show([view EXCEPT !.tab = tab]) PROVE MembershipInv'
        BY <1>1, <1>2, <1>3 DEF HasFields
    <1>4. ASSUME NEW b \in BOOLEAN, Show([view EXCEPT !.adding = b]) PROVE MembershipInv'
        BY <1>1, <1>2, <1>4 DEF HasFields
    <1>5. ASSUME NEW b \in BOOLEAN, Show([view EXCEPT !.enrolling = b]) PROVE MembershipInv'
        BY <1>1, <1>2, <1>5 DEF HasFields
    <1>6. ASSUME Show([view EXCEPT !.named = TRUE]) PROVE MembershipInv'
        BY <1>1, <1>2, <1>6 DEF HasFields
    <1>7. ASSUME NEW c \in Calls, Send(c, "plan", Nil), Keep PROVE MembershipInv'
        <2>1. UNCHANGED <<view, server, past>>
            BY <1>7 DEF Keep
        <2>2. ListPage' /\ UpToDate(call', past', view', server, {"plan"})
            BY <1>7, <2>1, SendKeepsTheList DEF MembershipInv, ListPage
        <2> QED BY <2>1, <2>2, MembershipStays
    <1> QED
        BY <1>3, <1>4, <1>5, <1>6, <1>7 DEF MembershipHeader, EnrollModal, CreatePlanModal

LEMMA MembershipAnswersKeep ==
    ASSUME MembershipInv, UNCHANGED page, NEW c \in Calls, MembershipAnswers(c) \/ LoseInList(c)
    PROVE  MembershipInv'
    <1>1. /\ ListPage /\ HasFields(view, {"key", "rows", "loading"}) /\ "list" \notin {"plan"}
          /\ server = [k \in DOMAIN server |-> server[k]] /\ DOMAIN view.rows = DOMAIN server
        BY DEF MembershipInv, ListPage, HasFields
    <1>2. CASE AnswerParts(c, server)
        <2>1. ListPage' /\ UpToDate(call', past', view', server, {"plan"}) /\ UNCHANGED <<view, server>>
            BY <1>1, <1>2, AnswerPartsKeeps DEF MembershipInv, AnswerParts
        <2> QED BY <2>1, MembershipStays
    <1>3. CASE ReceiveParts(c)
        <2>1. ListPage' /\ UpToDate(call', past', view', server, {"plan"}) /\ DOMAIN view'.rows = DOMAIN server /\ UNCHANGED server
            BY <1>1, <1>3, ReceivePartsKeeps DEF MembershipInv
        <2> QED BY <1>1, <2>1, MembershipStays
    <1>4. CASE FailList(c, view.rows)
        <2>1. /\ ListPage' /\ UpToDate(call', past', view', server, {"plan"})
              /\ view' = [view EXCEPT !.rows = view.rows, !.loading = FALSE]
            BY <1>1, <1>4, FailListKeeps
        <2>2. view'.rows = view.rows /\ UNCHANGED server
            BY <1>1, <1>4, <2>1 DEF HasFields, FailList
        <2> QED BY <2>1, <2>2, MembershipStays
    <1>5. CASE ServePlan(c)
        <2>1. PICK plan : server' = [server EXCEPT !.plans = server.plans \cup {plan}]
            BY <1>5 DEF ServePlan
        <2>2. HasFields(server', {"plans"}) /\ DOMAIN server' = DOMAIN server
            BY <2>1 DEF MembershipInv, HasFields
        <2>3. call[c].op = "plan" /\ Answer(c, Nil) /\ UNCHANGED <<view, past>>
            BY <1>5 DEF ServePlan, Stands
        <2>4. ListPage' /\ UpToDate(call', past', view', server', {"plan"})
            BY <1>1, <2>3, ChangeIsUpToDate
        <2> QED BY <2>2, <2>3, <2>4 DEF MembershipInv
    <1>6. CASE ReceivePlan(c)
        <2>1. /\ Reload(c, Nil, [view EXCEPT !.adding = FALSE]) /\ call[c].op # "list" /\ UNCHANGED server
              /\ HasFields([view EXCEPT !.adding = FALSE], {"key", "rows", "loading"})
              /\ [view EXCEPT !.adding = FALSE].rows = view.rows
            BY <1>1, <1>6 DEF ReceivePlan, Stands, HasFields, Reload
        <2>2. /\ ListPage' /\ UpToDate(call', past', view', server, {"plan"})
              /\ view'.rows = [view EXCEPT !.adding = FALSE].rows
            BY <1>1, <2>1, ReloadKeeps
        <2> QED BY <2>1, <2>2, MembershipStays
    <1>7. CASE FailChange(c, "plan", view)
        <2>1. ListPage' /\ UpToDate(call', past', view', server, {"plan"}) /\ UNCHANGED <<view, server>>
            BY <1>1, <1>7, FailChangeKeeps DEF MembershipInv
        <2> QED BY <2>1, MembershipStays
    <1>8. CASE LoseInList(c)
        <2>1. ListPage' /\ UpToDate(call', past', view', server, {"plan"}) /\ UNCHANGED <<view, server>>
            BY <1>1, <1>8, LoseInListKeeps
        <2> QED BY <2>1, MembershipStays
    <1> QED BY <1>2, <1>3, <1>4, <1>5, <1>6, <1>7, <1>8 DEF MembershipAnswers

LEMMA MembershipStep == MembershipInv /\ [MembershipNext]_webVars => MembershipInv'
    <1> SUFFICES ASSUME MembershipInv, [MembershipNext]_webVars PROVE MembershipInv'
        OBVIOUS
    <1>1. CASE UNCHANGED webVars
        <2>1. UNCHANGED <<page, call, view, server, past>>
            BY <1>1 DEF webVars
        <2>2. ListPage' /\ UpToDate(call', past', view', server, {"plan"})
            BY <2>1, NothingChangesTheList DEF MembershipInv
        <2> QED BY <2>1, <2>2, MembershipStays
    <1>2. CASE MembershipNext
        BY <1>2, MembershipClicksKeep, MembershipAnswersKeep DEF MembershipNext
    <1> QED BY <1>1, <1>2

(***************************************************************************)
(* The search of the customer app                                          *)
(***************************************************************************)
ExploreInv == page = "explore" /\ ListPage /\ UpToDate(call, past, view, Found(view.key), {})

LEMMA ExploreInitInv == ExploreInit => ExploreInv
    <1> SUFFICES ASSUME ExploreInit PROVE ExploreInv
        OBVIOUS
    <1>1. PICK key \in Searches : MountList(key) /\ view = [key |-> key, rows |-> {}, loading |-> TRUE]
        BY DEF ExploreInit
    <1>2. view.key = key /\ HasFields(view, {"key", "rows", "loading"}) /\ page = "explore"
        BY <1>1 DEF ExploreInit, HasFields
    <1> QED BY <1>1, <1>2, MountedIsUpToDate DEF ExploreInv

LEMMA ExploreListKeeps ==
    ASSUME ExploreInv, NEW c \in Calls, FetchBusinesses(c) \/ LoseInList(c)
    PROVE  /\ ListPage' /\ UpToDate(call', past', view', Found(view.key), {})
           /\ view'.key = view.key /\ UNCHANGED server
    <1>1. Loading(c, Found(call[c].arg))
        BY DEF FetchBusinesses, Loading
    <1> DEFINE changers == {}
    <1>2. /\ ListPage /\ UpToDate(call, past, view, Found(view.key), changers) /\ "list" \notin changers
          /\ call[c].arg = view.key => Found(call[c].arg) = Found(view.key)
        BY DEF ExploreInv
    <1> HIDE DEF changers
    <1>3. /\ ListPage' /\ UpToDate(call', past', view', Found(view.key), changers)
          /\ view'.key = view.key /\ UNCHANGED server
        BY <1>1, <1>2, LoadingKeepsTheList, Zenon
    <1> QED BY <1>3 DEF changers

LEMMA ExploreStep == ExploreInv /\ [ExploreNext]_webVars => ExploreInv'
    <1> SUFFICES ASSUME ExploreInv, [ExploreNext]_webVars PROVE ExploreInv'
        OBVIOUS
    <1>1. ListPage /\ HasFields(view, {"key", "rows", "loading"})
        BY DEF ExploreInv, ListPage
    <1>2. ASSUME UNCHANGED <<page, server>>, ListPage', view'.key = view.key,
                 UpToDate(call', past', view', Found(view.key), {})
          PROVE  ExploreInv'
        BY <1>2 DEF ExploreInv, Found
    <1>3. CASE UNCHANGED webVars
        <2>1. UNCHANGED <<page, call, view, server, past>>
            BY <1>3 DEF webVars
        <2>2. ListPage' /\ UpToDate(call', past', view', Found(view.key), {})
            BY <2>1, NothingChangesTheList DEF ExploreInv
        <2> QED BY <1>2, <2>1, <2>2
    <1>4. CASE ExploreNext
        <2>1. PICK c \in Calls : ExploreForm(c) \/ CategoryPills(c) \/ FetchBusinesses(c) \/ LoseInList(c)
            BY <1>4 DEF ExploreNext
        <2>2. UNCHANGED page
            BY <1>4 DEF ExploreNext
        <2>3. CASE FetchBusinesses(c) \/ LoseInList(c)
            BY <1>2, <2>2, <2>3, ExploreListKeeps
        <2>4. CASE ExploreForm(c) \/ CategoryPills(c)
            <3>1. \/ \E key : LoadList(c, [view EXCEPT !.key = key])
                  \/ LoadList(c, view)
                BY <2>4 DEF ExploreForm, CategoryPills, SetKey
            <3>2. ASSUME NEW state, LoadList(c, state), HasFields(state, {"key", "rows", "loading"}) PROVE ExploreInv'
                BY <1>1, <2>2, <3>2, LoadListKeeps DEF ExploreInv
            <3>3. \A key : HasFields([view EXCEPT !.key = key], {"key", "rows", "loading"})
                BY <1>1 DEF HasFields
            <3> QED BY <1>1, <3>1, <3>2, <3>3
        <2> QED BY <2>1, <2>3, <2>4
    <1> QED BY <1>3, <1>4

(***************************************************************************)
(* The calendar                                                            *)
(***************************************************************************)
CalendarInv ==
    /\ page = "calendar" /\ ListPage
    /\ UpToDate(call, past, view, CalendarRows(view.key), {})

LEMMA CalendarInitInv == CalendarInit => CalendarInv
    <1> SUFFICES ASSUME CalendarInit PROVE CalendarInv
        OBVIOUS
    <1>1. page = "calendar" /\ MountList(Today) /\ view.key = Today /\ HasFields(view, {"key", "rows", "loading"})
        BY DEF CalendarInit, HasFields
    <1> QED BY <1>1, MountedIsUpToDate DEF CalendarInv

LEMMA CalendarStep == CalendarInv /\ [CalendarNext]_webVars => CalendarInv'
    <1> SUFFICES ASSUME CalendarInv, [CalendarNext]_webVars PROVE CalendarInv'
        OBVIOUS
    <1>1. ListPage /\ HasFields(view, {"key", "rows", "loading"})
        BY DEF CalendarInv, ListPage
    <1>2. ASSUME UNCHANGED <<page, server>>, ListPage', view'.key = view.key,
                 UpToDate(call', past', view', CalendarRows(view.key), {})
          PROVE  CalendarInv'
        BY <1>2 DEF CalendarInv, CalendarRows, Between, booked
    <1>3. CASE UNCHANGED webVars
        <2>1. UNCHANGED <<page, call, view, server, past>>
            BY <1>3 DEF webVars
        <2>2. ListPage' /\ UpToDate(call', past', view', CalendarRows(view.key), {})
            BY <2>1, NothingChangesTheList DEF CalendarInv
        <2> QED BY <1>2, <2>1, <2>2
    <1>4. CASE CalendarNext /\ BookElsewhere
        <2>1. past' = [past EXCEPT !.mixed = TRUE] /\ UNCHANGED <<page, call, view>>
            BY <1>4 DEF CalendarNext, BookElsewhere
        <2>2. HasFields(past', {"loads", "mixed"}) /\ past'.loads = past.loads /\ past'.mixed = TRUE
            BY <1>1, <2>1 DEF ListPage, HasFields
        <2>3. Under("list")' = Under("list") /\ CallsOK'
            BY <1>1, <2>1 DEF Under, Busy, ListPage, CallsOK, IsRequest
        <2> QED BY <1>1, <2>1, <2>2, <2>3 DEF CalendarInv, ListPage, UpToDate
    <1>5. ASSUME NEW c \in Calls, UNCHANGED page,
                 AnswerList(c, CalendarRows(call[c].arg)) \/ ReceiveList(c) \/ FailList(c, view.rows) \/ LoseInList(c)
          PROVE  CalendarInv'
        <2>1. Loading(c, CalendarRows(call[c].arg))
            BY <1>5 DEF Loading
        <2> DEFINE changers == {}
        <2>3. /\ ListPage /\ UpToDate(call, past, view, CalendarRows(view.key), changers) /\ "list" \notin changers
              /\ call[c].arg = view.key => CalendarRows(call[c].arg) = CalendarRows(view.key)
            BY DEF CalendarInv
        <2> HIDE DEF changers
        <2>2. /\ ListPage' /\ UpToDate(call', past', view', CalendarRows(view.key), changers)
              /\ view'.key = view.key /\ UNCHANGED server
            BY <2>1, <2>3, LoadingKeepsTheList, Zenon
        <2> QED BY <1>2, <1>5, <2>2 DEF changers
    <1>6. ASSUME NEW c \in Calls, UNCHANGED page, CalendarHeader(c) PROVE CalendarInv'
        <2>1. \/ \E v : LoadList(c, [view EXCEPT !.key = [view.key EXCEPT !.view = v]])
              \/ \E date : LoadList(c, [view EXCEPT !.key = [view.key EXCEPT !.date = date]])
            BY <1>6 DEF CalendarHeader, Navigate
        <2>2. PICK key : LoadList(c, [view EXCEPT !.key = key])
            BY <2>1
        <2>3. HasFields([view EXCEPT !.key = key], {"key", "rows", "loading"})
            BY <1>1 DEF HasFields
        <2> QED BY <1>1, <1>6, <2>2, <2>3, LoadListKeeps DEF CalendarInv
    <1> QED BY <1>3, <1>4, <1>5, <1>6 DEF CalendarNext

(***************************************************************************)
(* The gift cards                                                          *)
(*                                                                         *)
(* As for the loads: the last lookup under way asks for the last code, and *)
(* with none under way the panel shows what it was answered.  Cards are    *)
(* issued, never withdrawn, so an answer stays true.                       *)
(***************************************************************************)
DeskShape ==
    /\ page = "gift-cards" /\ ListPage
    /\ HasFields(view, {"key", "rows", "loading", "lookup"})
    /\ HasFields(past, {"loads", "mixed", "checks", "asked"})
    /\ HasFields(server, {"issued", "dead"})

DeskChecks ==
    /\ IsQueueOf(past.checks, Under("check"))
    /\ \A c \in Calls : Busy(c, "check") /\ call[c].step = "served" => call[c].data = call[c].arg /\ Valid(call[c].arg)
    /\ ~past.mixed =>
          /\ past.checks = <<>> => view.lookup = Nil \/ (view.lookup = past.asked /\ Valid(past.asked))
          /\ past.checks # <<>> => call[Newest(past.checks)].arg = past.asked

DeskInv == DeskShape /\ DeskChecks /\ UpToDate(call, past, view, issued, {"issue"})

LEMMA DeskInitInv == DeskInit => DeskInv
    <1> SUFFICES ASSUME DeskInit PROVE DeskInv
        OBVIOUS
    <1>0. \E c \in Calls :
              /\ call = [d \in Calls |-> IF d = c THEN Request("list", Nil) ELSE Free]
              /\ past = [loads |-> <<c>>, mixed |-> FALSE, checks |-> <<>>, asked |-> Nil]
        BY Zenon DEF DeskInit
    <1>1. PICK c \in Calls :
              /\ call = [d \in Calls |-> IF d = c THEN Request("list", Nil) ELSE Free]
              /\ past = [loads |-> <<c>>, mixed |-> FALSE, checks |-> <<>>, asked |-> Nil]
        BY <1>0, Zenon
    <1>2. /\ page = "gift-cards" /\ view.lookup = Nil /\ view.key = Nil
          /\ HasFields(view, {"key", "rows", "loading", "lookup"}) /\ HasFields(server, {"issued", "dead"})
          /\ HasFields(view, {"key", "rows", "loading"})
        <2>1. server \in [issued : SUBSET Codes, dead : SUBSET Codes]
            BY DEF DeskInit
        <2>2. page = "gift-cards" /\ view = [key |-> Nil, rows |-> {}, loading |-> TRUE, issuing |-> FALSE, searchCode |-> Nil, lookup |-> Nil]
            BY Zenon DEF DeskInit
        <2> QED BY <2>1, <2>2 DEF HasFields
    <1>3. CallsOK /\ call[c] = Request("list", Nil) /\ \A d \in Calls \ {c} : call[d] = Free
        BY <1>1, FreeIsRequest, RequestIsRequest DEF CallsOK
    <1>4. Under("list") = {c} /\ Under("check") = {} /\ \A d \in Calls : ~Busy(d, "check")
        BY <1>3 DEF Under, Busy, Request, Free
    <1>5. /\ IsQueueOf(past.loads, Under("list")) /\ past.loads # <<>> /\ Newest(past.loads) = c
          /\ past.checks = <<>> /\ IsQueueOf(past.checks, Under("check")) /\ ~past.mixed
        BY <1>1, <1>4, QueueOfOne, QueueOfNone
    <1>6. HasFields(past, {"loads", "mixed", "checks", "asked"}) /\ HasFields(past, {"loads", "mixed"}) /\ past.mixed \in BOOLEAN
        BY <1>1 DEF HasFields
    <1>7. DeskShape
        BY <1>2, <1>3, <1>5, <1>6 DEF DeskShape, ListPage
    <1>8. DeskChecks
        BY <1>2, <1>4, <1>5 DEF DeskChecks
    <1>9. UpToDate(call, past, view, issued, {"issue"})
        BY <1>2, <1>3, <1>5 DEF UpToDate, Request
    <1> QED BY <1>7, <1>8, <1>9 DEF DeskInv

\* Steps that leave the lookups under way.
LEMMA ChecksStay ==
    ASSUME DeskInv, HasFields(past', {"loads", "mixed", "checks", "asked"}),
           past'.checks = past.checks, past'.asked = past.asked, past.mixed => past'.mixed, view'.lookup = view.lookup,
           \A e \in Calls : Busy(e, "check")' <=> Busy(e, "check"),
           \A e \in Calls : Busy(e, "check")' =>
               /\ call'[e].arg = call[e].arg
               /\ call'[e].step = "served" => call'[e] = call[e] \/ (call'[e].data = call'[e].arg /\ Valid(call'[e].arg)),
           server'.dead = server.dead, server.issued \subseteq server'.issued
    PROVE  DeskChecks'
    <1>1. Under("check")' = Under("check")
        BY DEF Under
    <1>2. \A code : Valid(code) => Valid(code)'
        BY DEF Valid, issued
    <1>3. IsQueueOf(past.checks, Under("check"))
        BY DEF DeskInv, DeskChecks
    <1>4. ASSUME NEW e \in Calls, Busy(e, "check")', call'[e].step = "served"
          PROVE  call'[e].data = call'[e].arg /\ Valid(call'[e].arg)
        BY <1>4 DEF DeskInv, DeskChecks
    <1>5. ASSUME NEW e \in Calls, Busy(e, "check")', call'[e].step = "served"
          PROVE  call'[e].data = call'[e].arg /\ call'[e].arg \in server'.issued \ server'.dead
        BY <1>4, <1>5 DEF Valid, issued
    <1>6. past.checks # <<>> => call'[Newest(past.checks)].arg = call[Newest(past.checks)].arg
        <2>1. past.checks # <<>> => Newest(past.checks) \in Calls /\ Busy(Newest(past.checks), "check")
            BY <1>3, NewestIsListed DEF Under
        <2> QED BY <2>1
    <1>7. ASSUME ~past'.mixed
          PROVE  /\ past'.checks = <<>> => view'.lookup = Nil \/ (view'.lookup = past'.asked /\ past'.asked \in server'.issued \ server'.dead)
                 /\ past'.checks # <<>> => call'[Newest(past'.checks)].arg = past'.asked
        BY <1>6, <1>7 DEF DeskInv, DeskChecks, Valid, issued
    <1> QED BY <1>1, <1>3, <1>5, <1>7 DEF DeskChecks, Valid, issued

LEMMA DeskClicksKeep ==
    ASSUME DeskInv, UNCHANGED page, NEW state, Show(state), HasFields(state, {"key", "rows", "loading", "lookup"}),
           state.key = view.key, state.rows = view.rows, state.lookup = view.lookup
    PROVE  DeskInv'
    <1>1. view' = state /\ UNCHANGED <<call, server, past>> /\ HasFields(state, {"key", "rows", "loading"})
        BY DEF Show, HasFields
    <1>2. ListPage' /\ UpToDate(call', past', view', issued, {"issue"})
        BY <1>1, ShowKeepsTheList DEF DeskInv, DeskShape
    <1>3. DeskChecks'
        BY <1>1, ChecksStay DEF DeskInv, DeskShape, Busy
    <1> QED BY <1>1, <1>2, <1>3 DEF DeskInv, DeskShape, issued

\* The list of the cards, their issue, and requests that are lost.
LEMMA DeskListKeeps ==
    ASSUME DeskInv, UNCHANGED page, NEW c \in Calls,
           \/ Send(c, "issue", Nil) /\ Keep
           \/ AnswerList(c, issued) \/ ReceiveList(c) \/ FailList(c, view.rows)
           \/ ServeIssue(c) \/ ReceiveIssue(c) \/ FailChange(c, "issue", view) \/ LoseInList(c)
    PROVE  DeskInv'
    <1>1. /\ ListPage /\ HasFields(view, {"key", "rows", "loading", "lookup"}) /\ HasFields(view, {"key", "rows", "loading"})
          /\ HasFields(past, {"loads", "mixed", "checks", "asked"}) /\ "list" \notin {"issue"}
          /\ UpToDate(call, past, view, issued, {"issue"}) /\ HasFields(server, {"issued", "dead"})
        BY DEF DeskInv, DeskShape, HasFields
    <1>2. ASSUME ListPage', UpToDate(call', past', view', server'.issued, {"issue"}),
                 HasFields(view', {"key", "rows", "loading", "lookup"}), view'.lookup = view.lookup,
                 HasFields(past', {"loads", "mixed", "checks", "asked"}), HasFields(server', {"issued", "dead"}),
                 past'.checks = past.checks, past'.asked = past.asked, past.mixed => past'.mixed,
                 \A e \in Calls \ {c} : call'[e] = call[e], ~Busy(c, "check"), ~Busy(c, "check")',
                 server'.dead = server.dead, server.issued \subseteq server'.issued
          PROVE  DeskInv'
        <2>1. /\ \A e \in Calls : Busy(e, "check")' <=> Busy(e, "check")
              /\ \A e \in Calls : Busy(e, "check")' => call'[e] = call[e]
            <3>1. \A e \in Calls \ {c} : Busy(e, "check")' <=> Busy(e, "check")
                BY <1>2 DEF Busy
            <3> QED BY <1>2, <3>1
        <2>2. DeskChecks'
            BY <1>2, <2>1, ChecksStay
        <2> QED BY <1>2, <2>2 DEF DeskInv, DeskShape, issued
    <1>3. CASE Send(c, "issue", Nil) /\ Keep
        <2>1. UNCHANGED <<view, server, past>>
            BY <1>3 DEF Keep
        <2>2. /\ ListPage' /\ UpToDate(call', past', view', issued, {"issue"})
              /\ call[c] = Free /\ call'[c] = Request("issue", Nil) /\ \A e \in Calls \ {c} : call'[e] = call[e]
            BY <1>1, <1>3, <2>1, SendKeepsTheList DEF ListPage
        <2>3. ~Busy(c, "check") /\ ~Busy(c, "check")'
            BY <2>2 DEF Busy, Free, Request
        <2> QED BY <1>1, <1>2, <2>1, <2>2, <2>3 DEF issued
    <1>4. CASE AnswerList(c, issued)
        <2>1. UNCHANGED <<view, server, past>> /\ call[c].op = "list"
            BY <1>4 DEF AnswerList, Keep, Stands
        <2>2. /\ ListPage' /\ UpToDate(call', past', view', issued, {"issue"}) /\ \A e \in Calls \ {c} : call'[e] = call[e]
              /\ call'[c] = [step |-> "served", op |-> "list", arg |-> call[c].arg, data |-> issued]
            BY <1>1, <1>4, AnswerListKeeps
        <2>3. ~Busy(c, "check") /\ ~Busy(c, "check")'
            BY <2>1, <2>2 DEF Busy
        <2> QED BY <1>1, <1>2, <2>1, <2>2, <2>3 DEF issued
    <1>5. CASE ReceiveList(c)
        <2>1. /\ UNCHANGED server /\ call[c].op = "list"
              /\ past' = [past EXCEPT !.loads = Without(past.loads, c), !.mixed = past.mixed \/ Head(past.loads) # c]
            BY <1>5 DEF ReceiveList, ReceiveRows, SettleList, Stands
        <2>2. /\ ListPage' /\ UpToDate(call', past', view', issued, {"issue"}) /\ call'[c] = Free
              /\ \A e \in Calls \ {c} : call'[e] = call[e]
            BY <1>1, <1>5, ReceiveRowsKeeps DEF ReceiveList
        <2>x. view' = [view EXCEPT !.rows = call[c].data, !.loading = FALSE]
            BY <1>5 DEF ReceiveList, ReceiveRows
        <2>3. ~Busy(c, "check") /\ ~Busy(c, "check")'
            BY <2>1, <2>2 DEF Busy, Free
        <2>4. HasFields(view', {"key", "rows", "loading", "lookup"}) /\ view'.lookup = view.lookup
            BY <1>1, <2>x DEF HasFields
        <2>5. /\ HasFields(past', {"loads", "mixed", "checks", "asked"}) /\ past'.checks = past.checks
              /\ past'.asked = past.asked /\ past'.mixed = (past.mixed \/ Head(past.loads) # c)
            BY <1>1, <2>1 DEF HasFields, ListPage
        <2> QED BY <1>1, <1>2, <2>1, <2>2, <2>3, <2>4, <2>5 DEF issued
    <1>6. CASE FailList(c, view.rows)
        <2>1. /\ UNCHANGED server /\ call[c].op = "list" /\ view' = [view EXCEPT !.rows = view.rows, !.loading = FALSE]
              /\ past' = [past EXCEPT !.loads = Without(past.loads, c), !.mixed = TRUE]
            BY <1>6 DEF FailList, Stands
        <2>2. /\ ListPage' /\ UpToDate(call', past', view', issued, {"issue"}) /\ call'[c] = Free
              /\ \A e \in Calls \ {c} : call'[e] = call[e]
            BY <1>1, <1>6, FailListKeeps
        <2>3. ~Busy(c, "check") /\ ~Busy(c, "check")'
            BY <2>1, <2>2 DEF Busy, Free
        <2>4. HasFields(view', {"key", "rows", "loading", "lookup"}) /\ view'.lookup = view.lookup
            BY <1>1, <2>1 DEF HasFields
        <2>5. /\ HasFields(past', {"loads", "mixed", "checks", "asked"}) /\ past'.checks = past.checks
              /\ past'.asked = past.asked /\ past'.mixed = TRUE
            BY <1>1, <2>1 DEF HasFields
        <2> QED BY <1>1, <1>2, <2>1, <2>2, <2>3, <2>4, <2>5 DEF issued
    <1>7. CASE ServeIssue(c)
        <2>1. PICK code : server' = [server EXCEPT !.issued = server.issued \cup {code}]
            BY <1>7 DEF ServeIssue, issued
        <2>2. call[c].op = "issue" /\ Answer(c, Nil) /\ UNCHANGED <<view, past>>
            BY <1>7 DEF ServeIssue, Stands
        <2>3. /\ ListPage' /\ UpToDate(call', past', view', server'.issued, {"issue"}) /\ \A e \in Calls \ {c} : call'[e] = call[e]
              /\ call'[c] = [step |-> "served", op |-> call[c].op, arg |-> call[c].arg, data |-> Nil]
            BY <1>1, <2>2, ChangeIsUpToDate
        <2>4. ~Busy(c, "check") /\ ~Busy(c, "check")'
            BY <2>2, <2>3 DEF Busy
        <2>5. HasFields(server', {"issued", "dead"}) /\ server'.dead = server.dead /\ server'.issued = server.issued \cup {code}
            BY <1>1, <2>1 DEF HasFields
        <2> QED BY <1>1, <1>2, <2>2, <2>3, <2>4, <2>5
    <1>8. CASE ReceiveIssue(c)
        <2> DEFINE state == [view EXCEPT !.issuing = FALSE]
        <2>1. /\ HasFields(state, {"key", "rows", "loading", "lookup"}) /\ HasFields(state, {"key", "rows", "loading"})
              /\ state.lookup = view.lookup
            BY <1>1 DEF HasFields
        <2>2. Reload(c, Nil, state) /\ call[c].op = "issue"
            BY <1>8 DEF ReceiveIssue, Stands
        <2> HIDE DEF state
        <2>3. /\ UNCHANGED server /\ view' = [state EXCEPT !.loading = TRUE]
              /\ past' = [past EXCEPT !.loads = Append(past.loads, c), !.mixed = past.mixed \/ Nil # state.key]
            BY <2>2 DEF Reload
        <2>4. /\ ListPage' /\ UpToDate(call', past', view', issued, {"issue"}) /\ call'[c] = Request("list", Nil)
              /\ \A e \in Calls \ {c} : call'[e] = call[e]
            BY <1>1, <2>1, <2>2, ReloadKeeps
        <2>5. ~Busy(c, "check") /\ ~Busy(c, "check")'
            BY <2>2, <2>4 DEF Busy, Request
        <2>6. HasFields(view', {"key", "rows", "loading", "lookup"}) /\ view'.lookup = view.lookup
            BY <2>1, <2>3 DEF HasFields
        <2>7. /\ HasFields(past', {"loads", "mixed", "checks", "asked"}) /\ past'.checks = past.checks
              /\ past'.asked = past.asked /\ past'.mixed = (past.mixed \/ Nil # state.key)
            BY <1>1, <2>3 DEF HasFields, ListPage
        <2> QED BY <1>1, <1>2, <2>3, <2>4, <2>5, <2>6, <2>7 DEF issued
    <1>9. CASE FailChange(c, "issue", view)
        <2>1. call[c].op = "issue"
            BY <1>9 DEF FailChange, Stands
        <2>2. /\ ListPage' /\ UpToDate(call', past', view', issued, {"issue"}) /\ UNCHANGED <<view, server, past>>
              /\ call'[c] = Free /\ \A e \in Calls \ {c} : call'[e] = call[e]
            BY <1>1, <1>9, FailChangeKeeps
        <2>3. ~Busy(c, "check") /\ ~Busy(c, "check")'
            BY <2>1, <2>2 DEF Busy, Free
        <2> QED BY <1>1, <1>2, <2>2, <2>3 DEF issued
    <1>a. CASE LoseInList(c)
        <2>1. past' = [past EXCEPT !.mixed = TRUE]
            BY <1>a DEF LoseInList
        <2>2. /\ ListPage' /\ UpToDate(call', past', view', issued, {"issue"}) /\ UNCHANGED <<view, server>>
              /\ \A e \in Calls \ {c} : call'[e] = call[e]
              /\ call[c].step \in {"sent", "served"}
              /\ call'[c] = [step |-> "failed", op |-> call[c].op, arg |-> call[c].arg, data |-> Nil]
            BY <1>1, <1>a, LoseInListKeeps
        <2>3. \A e \in Calls : (Busy(e, "check")' <=> Busy(e, "check")) /\ call'[e].arg = call[e].arg
                               /\ (call'[e].step = "served" => call'[e] = call[e])
            BY <2>2 DEF Busy
        <2>4. HasFields(past', {"loads", "mixed", "checks", "asked"}) /\ past'.checks = past.checks
              /\ past'.asked = past.asked /\ past'.mixed = TRUE
            BY <1>1, <2>1 DEF HasFields
        <2>5. DeskChecks'
            BY <2>2, <2>3, <2>4, ChecksStay
        <2> QED BY <1>1, <2>2, <2>4, <2>5 DEF DeskInv, DeskShape, issued
    <1> QED BY <1>3, <1>4, <1>5, <1>6, <1>7, <1>8, <1>9, <1>a

LEMMA CheckStarts ==
    ASSUME DeskInv, UNCHANGED page, NEW c \in Calls, HandleCheckBalance(c)
    PROVE  DeskInv'
    <1>1. /\ ListPage /\ HasFields(view, {"key", "rows", "loading", "lookup"}) /\ HasFields(view, {"key", "rows", "loading"})
          /\ HasFields(past, {"loads", "mixed", "checks", "asked"})
          /\ UpToDate(call, past, view, issued, {"issue"}) /\ HasFields(server, {"issued", "dead"})
          /\ IsQueueOf(past.checks, Under("check"))
        BY DEF DeskInv, DeskShape, DeskChecks, HasFields
    <1>2. /\ Send(c, "check", view.searchCode) /\ UNCHANGED <<view, server>>
          /\ past' = [past EXCEPT !.checks = Append(past.checks, c), !.asked = view.searchCode]
        BY DEF HandleCheckBalance
    <1>3. /\ HasFields(past', {"loads", "mixed", "checks", "asked"}) /\ HasFields(past', {"loads", "mixed"})
          /\ past'.loads = past.loads /\ past'.mixed = past.mixed /\ past'.mixed \in BOOLEAN
          /\ past'.checks = Append(past.checks, c) /\ past'.asked = view.searchCode
        BY <1>1, <1>2 DEF HasFields, ListPage
    <1>4. /\ ListPage' /\ UpToDate(call', past', view', issued, {"issue"})
          /\ call[c] = Free /\ call'[c] = Request("check", view.searchCode) /\ \A e \in Calls \ {c} : call'[e] = call[e]
        <2>1. /\ "check" # "list" /\ view'.key = view.key /\ view'.rows = view.rows /\ HasFields(view', {"key", "rows", "loading"})
              /\ HasFields(past', {"loads", "mixed"}) /\ past'.loads = past.loads /\ past'.mixed \in BOOLEAN /\ (past.mixed => past'.mixed)
              /\ Send(c, "check", view.searchCode) /\ ListPage /\ UpToDate(call, past, view, issued, {"issue"})
            BY <1>1, <1>2, <1>3
        <2> QED BY <2>1, Zenon, SendKeepsTheList
    <1>5. /\ ~Busy(c, "check") /\ Busy(c, "check")' /\ call'[c].step = "sent" /\ call'[c].arg = view.searchCode
          /\ \A e \in Calls \ {c} : Busy(e, "check")' <=> Busy(e, "check")
        BY <1>4 DEF Busy, Free, Request
    <1>6. c \in Calls \ Under("check") /\ Under("check")' = Under("check") \cup {c}
        <2>1. c \notin Under("check") /\ Under("check") \subseteq Calls /\ Under("check")' \subseteq Calls
            BY <1>5 DEF Under
        <2>2. \A e \in Calls : e \in Under("check")' <=> e \in Under("check") \cup {c}
            BY <1>5 DEF Under
        <2> QED BY <2>1, <2>2
    <1>7. /\ IsQueueOf(Append(past.checks, c), Under("check") \cup {c})
          /\ Append(past.checks, c) # <<>> /\ Newest(Append(past.checks, c)) = c
        BY <1>1, <1>6, QueueGrows
    <1>8. IsQueueOf(past'.checks, Under("check")') /\ past'.checks # <<>> /\ Newest(past'.checks) = c
        BY <1>3, <1>6, <1>7
    <1>9. \A e \in Calls : Busy(e, "check")' /\ call'[e].step = "served" =>
              call'[e].data = call'[e].arg /\ call'[e].arg \in server'.issued \ server'.dead
        <2>1. \A e \in Calls : Busy(e, "check")' /\ call'[e].step = "served" => Busy(e, "check") /\ call'[e] = call[e]
            BY <1>4, <1>5
        <2>2. \A e \in Calls : Busy(e, "check") /\ call[e].step = "served" =>
                  call[e].data = call[e].arg /\ call[e].arg \in server.issued \ server.dead
            BY DEF DeskInv, DeskChecks, Valid, issued
        <2> QED BY <1>2, <2>1, <2>2
    <1>a. DeskChecks'
        BY <1>3, <1>5, <1>8, <1>9 DEF DeskChecks, Valid, issued
    <1> QED BY <1>1, <1>2, <1>3, <1>4, <1>a DEF DeskInv, DeskShape, issued

LEMMA ChecksKeep ==
    ASSUME DeskInv, UNCHANGED page, NEW c \in Calls, ServeCheck(c) \/ ReceiveCheck(c) \/ FailCheck(c)
    PROVE  DeskInv'
    <1>1. /\ ListPage /\ HasFields(view, {"key", "rows", "loading", "lookup"}) /\ HasFields(view, {"key", "rows", "loading"})
          /\ HasFields(past, {"loads", "mixed", "checks", "asked"}) /\ HasFields(past, {"loads", "mixed"})
          /\ UpToDate(call, past, view, issued, {"issue"}) /\ HasFields(server, {"issued", "dead"}) /\ CallsOK
          /\ IsQueueOf(past.checks, Under("check")) /\ past.mixed \in BOOLEAN
        BY DEF DeskInv, DeskShape, DeskChecks, HasFields, ListPage
    <1>2. CASE ServeCheck(c)
        <2>1. /\ call[c].op = "check" /\ call[c].step = "sent" /\ UNCHANGED <<view, server, past>>
              /\ IF Valid(call[c].arg) THEN Answer(c, call[c].arg) ELSE Refuse(c)
            BY <1>2 DEF ServeCheck, Stands, Keep
        <2>2. /\ CallsOK' /\ \A e \in Calls \ {c} : call'[e] = call[e]
              /\ call'[c].op = "check" /\ call'[c].arg = call[c].arg /\ call'[c].step \in {"served", "failed"}
              /\ call'[c].step = "served" => call'[c].data = call[c].arg /\ Valid(call[c].arg)
            <3>1. CASE Valid(call[c].arg)
                <4>1. Answer(c, call[c].arg)
                    BY <2>1, <3>1
                <4>2. /\ CallsOK' /\ \A e \in Calls \ {c} : call'[e] = call[e]
                      /\ call'[c] = [step |-> "served", op |-> call[c].op, arg |-> call[c].arg, data |-> call[c].arg]
                    BY <1>1, <4>1, AnswerEffect
                <4> QED BY <2>1, <3>1, <4>2
            <3>2. CASE ~Valid(call[c].arg)
                <4>1. Refuse(c)
                    BY <2>1, <3>2
                <4>2. /\ CallsOK' /\ \A e \in Calls \ {c} : call'[e] = call[e]
                      /\ call'[c] = [step |-> "failed", op |-> call[c].op, arg |-> call[c].arg, data |-> call[c].data]
                    BY <1>1, <4>1, RefuseEffect
                <4> QED BY <2>1, <4>2
            <3> QED BY <3>1, <3>2
        <2>3. ~Busy(c, "list") /\ ~Busy(c, "list")' /\ \A e \in Calls : Busy(e, "check")' <=> Busy(e, "check")
            BY <2>1, <2>2 DEF Busy
        <2>4. ListPage' /\ UpToDate(call', past', view', issued, {"issue"})
            BY <1>1, <2>1, <2>2, <2>3, OtherKeepsTheList
        <2>5. \A e \in Calls : Busy(e, "check")' =>
                  /\ call'[e].arg = call[e].arg
                  /\ call'[e].step = "served" => call'[e] = call[e] \/ (call'[e].data = call'[e].arg /\ Valid(call'[e].arg))
            BY <2>2
        <2>6. DeskChecks'
            BY <1>1, <2>1, <2>3, <2>5, ChecksStay
        <2> QED BY <1>1, <2>1, <2>4, <2>6 DEF DeskInv, DeskShape, issued
    <1>3. ASSUME NEW lookup, SettleCheck(c, lookup), call[c].op = "check", call[c].step # "free",
                 ~past.mixed => lookup = Nil \/ (lookup = call[c].arg /\ Valid(lookup))
          PROVE  DeskInv'
        <2>1. /\ view' = [view EXCEPT !.lookup = lookup] /\ End(c) /\ UNCHANGED server
              /\ past' = [past EXCEPT !.checks = Without(past.checks, c), !.mixed = past.mixed \/ Head(past.checks) # c]
            BY <1>3 DEF SettleCheck
        <2>2. /\ HasFields(view', {"key", "rows", "loading", "lookup"}) /\ HasFields(view', {"key", "rows", "loading"})
              /\ view'.key = view.key /\ view'.rows = view.rows /\ view'.lookup = lookup
            BY <1>1, <2>1 DEF HasFields
        <2>3. /\ HasFields(past', {"loads", "mixed", "checks", "asked"}) /\ HasFields(past', {"loads", "mixed"})
              /\ past'.loads = past.loads /\ past'.asked = past.asked /\ past'.checks = Without(past.checks, c)
              /\ past'.mixed = (past.mixed \/ Head(past.checks) # c)
            BY <1>1, <2>1 DEF HasFields
        <2>4. CallsOK' /\ call'[c] = Free /\ \A e \in Calls \ {c} : call'[e] = call[e]
            BY <1>1, <2>1, EndEffect
        <2>5. /\ ~Busy(c, "list") /\ ~Busy(c, "list")' /\ Busy(c, "check") /\ ~Busy(c, "check")'
              /\ \A e \in Calls \ {c} : Busy(e, "check")' <=> Busy(e, "check")
            BY <1>3, <2>4 DEF Busy, Free
        <2>m. past'.mixed \in BOOLEAN /\ (past.mixed => past'.mixed)
            BY <1>1, <2>3
        <2>6. ListPage' /\ UpToDate(call', past', view', issued, {"issue"})
            BY <1>1, <1>3, <2>2, <2>3, <2>4, <2>5, <2>m, OtherKeepsTheList
        <2>7. c \in Under("check") /\ Under("check")' = Under("check") \ {c}
            BY <2>5 DEF Under
        <2>8. /\ IsQueueOf(Without(past.checks, c), Under("check") \ {c}) /\ past.checks # <<>>
              /\ Without(past.checks, c) = <<>> => Newest(past.checks) = c
              /\ Without(past.checks, c) # <<>> /\ (Newest(past.checks) # c \/ Head(past.checks) = c) =>
                     Newest(Without(past.checks, c)) = Newest(past.checks)
            BY <1>1, <2>7, QueueShrinks
        <2>9. IsQueueOf(past'.checks, Under("check")')
            BY <2>3, <2>7, <2>8
        <2>a. \A e \in Calls : Busy(e, "check")' /\ call'[e].step = "served" =>
                  call'[e].data = call'[e].arg /\ call'[e].arg \in server'.issued \ server'.dead
            <3>1. \A e \in Calls : Busy(e, "check")' /\ call'[e].step = "served" => Busy(e, "check") /\ call'[e] = call[e]
                BY <2>4, <2>5
            <3>2. \A e \in Calls : Busy(e, "check") /\ call[e].step = "served" =>
                      call[e].data = call[e].arg /\ call[e].arg \in server.issued \ server.dead
                BY DEF DeskInv, DeskChecks, Valid, issued
            <3> QED BY <2>1, <3>1, <3>2
        <2>b. ASSUME ~past'.mixed
              PROVE  /\ past'.checks = <<>> => view'.lookup = Nil \/ (view'.lookup = past'.asked /\ past'.asked \in server'.issued \ server'.dead)
                     /\ past'.checks # <<>> => call'[Newest(past'.checks)].arg = past'.asked
            <3>1. ~past.mixed /\ Head(past.checks) = c
                BY <2>3, <2>b
            <3>2. call[Newest(past.checks)].arg = past.asked
                BY <2>8, <3>1 DEF DeskInv, DeskChecks
            <3>3. CASE past'.checks = <<>>
                <4>1. call[c].arg = past.asked
                    BY <2>3, <2>8, <3>2, <3>3
                <4> QED BY <1>3, <2>1, <2>2, <2>3, <3>1, <3>3, <4>1 DEF Valid, issued
            <3>4. CASE past'.checks # <<>>
                <4>1. Newest(past'.checks) = Newest(past.checks)
                    BY <2>3, <2>8, <3>1, <3>4
                <4>2. Newest(past'.checks) \in Calls \ {c}
                    BY <2>3, <2>8, <3>4, NewestIsListed DEF Under
                <4> QED BY <2>3, <2>4, <3>2, <3>4, <4>1, <4>2
            <3> QED BY <3>3, <3>4
        <2>c. DeskChecks'
            BY <2>9, <2>a, <2>b DEF DeskChecks, Valid, issued
        <2> QED BY <1>1, <2>1, <2>2, <2>3, <2>6, <2>c DEF DeskInv, DeskShape, issued
    <1>4. CASE ReceiveCheck(c)
        <2>1. SettleCheck(c, call[c].data) /\ call[c].op = "check" /\ call[c].step = "served"
            BY <1>4 DEF ReceiveCheck, Stands
        <2>2. call[c].data = call[c].arg /\ Valid(call[c].data)
            BY <2>1 DEF DeskInv, DeskChecks, Busy
        <2> QED BY <1>3, <2>1, <2>2
    <1>5. CASE FailCheck(c)
        BY <1>3, <1>5 DEF FailCheck, Stands
    <1> QED BY <1>2, <1>4, <1>5

LEMMA DeskStep == DeskInv /\ [DeskNext]_webVars => DeskInv'
    <1> SUFFICES ASSUME DeskInv, [DeskNext]_webVars PROVE DeskInv'
        OBVIOUS
    <1>v. HasFields(view, {"key", "rows", "loading", "lookup"})
        BY DEF DeskInv, DeskShape
    <1>1. CASE UNCHANGED webVars
        <2>1. UNCHANGED page /\ Show(view)
            BY <1>1 DEF webVars, Show
        <2> QED BY <1>v, <2>1, DeskClicksKeep
    <1>2. CASE DeskNext
        <2>1. UNCHANGED page
            BY <1>2 DEF DeskNext
        <2>2. ASSUME NEW b \in BOOLEAN, Show([view EXCEPT !.issuing = b]) PROVE DeskInv'
            BY <1>v, <2>1, <2>2, DeskClicksKeep DEF HasFields
        <2>3. ASSUME NEW code \in Codes, Show([view EXCEPT !.searchCode = code]) PROVE DeskInv'
            BY <1>v, <2>1, <2>3, DeskClicksKeep DEF HasFields
        <2>4. ASSUME NEW c \in Calls, IssueModal(c) PROVE DeskInv'
            BY <2>1, <2>2, <2>4, DeskListKeeps DEF IssueModal
        <2>5. ASSUME NEW c \in Calls, LookupWidget(c) PROVE DeskInv'
            BY <2>1, <2>3, <2>5, CheckStarts DEF LookupWidget
        <2>6. ASSUME NEW c \in Calls, DeskAnswers(c) \/ LoseInList(c) PROVE DeskInv'
            BY <2>1, <2>6, DeskListKeeps, ChecksKeep DEF DeskAnswers
        <2> QED BY <1>2, <2>2, <2>4, <2>5, <2>6 DEF DeskNext, DeskHeader
    <1> QED BY <1>1, <1>2

(***************************************************************************)
(* The payments                                                            *)
(*                                                                         *)
(* While nothing is mixed up there is one refund under way at most, and it *)
(* is of the payment whose button is disabled.                             *)
(***************************************************************************)
OneRefund ==
    ~past.mixed => \A c \in Calls : Busy(c, "refund") =>
        call[c].arg.payment = view.refunding /\ \A d \in Calls : Busy(d, "refund") => c = d

PaymentsInv ==
    /\ page = "payments" /\ ListPage /\ HasFields(view, {"key", "rows", "loading", "refunding"})
    /\ UpToDate(call, past, view, status, {"refund"})
    /\ OneRefund

LEMMA PaymentsInitInv == PaymentsInit => PaymentsInv
    <1> SUFFICES ASSUME PaymentsInit PROVE PaymentsInv
        OBVIOUS
    <1>1. /\ page = "payments" /\ MountList(Nil) /\ view.key = Nil /\ HasFields(view, {"key", "rows", "loading"})
          /\ HasFields(view, {"key", "rows", "loading", "refunding"})
        BY DEF PaymentsInit, HasFields
    <1>2. ListPage /\ UpToDate(call, past, view, status, {"refund"})
        BY <1>1, MountedIsUpToDate
    <1>3. \A c \in Calls : ~Busy(c, "refund")
        BY <1>1 DEF MountList, Busy, Request, Free
    <1> QED BY <1>1, <1>2, <1>3 DEF PaymentsInv, OneRefund

\* Steps that start no refund.
LEMMA RefundsStay ==
    ASSUME PaymentsInv, UNCHANGED page, ListPage', UpToDate(call', past', view', server', {"refund"}),
           HasFields(view', {"key", "rows", "loading", "refunding"}),
           ~past'.mixed => ~past.mixed,
           ~past'.mixed => \A e \in Calls : Busy(e, "refund")' =>
               Busy(e, "refund") /\ call'[e].arg = call[e].arg /\ view'.refunding = view.refunding
    PROVE  PaymentsInv'
    BY DEF PaymentsInv, OneRefund, status

LEMMA RefundsAnswersKeep ==
    ASSUME PaymentsInv, UNCHANGED page, NEW c \in Calls, PaymentsAnswers(c) \/ LoseInList(c)
    PROVE  PaymentsInv'
    <1>1. /\ ListPage /\ HasFields(view, {"key", "rows", "loading", "refunding"}) /\ HasFields(view, {"key", "rows", "loading"})
          /\ UpToDate(call, past, view, status, {"refund"}) /\ "list" \notin {"refund"} /\ "refund" # "list"
        BY DEF PaymentsInv, ListPage
    <1> DEFINE idle == [view EXCEPT !.refunding = Nil]
    <1>2. /\ HasFields(idle, {"key", "rows", "loading", "refunding"}) /\ HasFields(idle, {"key", "rows", "loading"})
          /\ idle.key = view.key /\ idle.rows = view.rows
        BY <1>1 DEF HasFields
    <1> HIDE DEF idle
    <1>3. ASSUME Busy(c, "refund"), ~past.mixed, NEW e \in Calls \ {c} PROVE ~Busy(e, "refund")
        BY <1>3 DEF PaymentsInv, OneRefund
    <1>4. CASE AnswerList(c, status)
        <2>1. UNCHANGED <<view, server, past>> /\ call[c].op = "list"
            BY <1>4 DEF AnswerList, Keep, Stands
        <2>2. /\ ListPage' /\ UpToDate(call', past', view', status, {"refund"}) /\ \A e \in Calls \ {c} : call'[e] = call[e]
              /\ call'[c] = [step |-> "served", op |-> "list", arg |-> call[c].arg, data |-> status]
            BY <1>1, <1>4, AnswerListKeeps
        <2>3. \A e \in Calls : Busy(e, "refund")' => Busy(e, "refund") /\ call'[e] = call[e]
            BY <2>2 DEF Busy
        <2> QED BY <1>1, <2>1, <2>2, <2>3, RefundsStay DEF status
    <1>5. CASE ReceiveList(c)
        <2>1. /\ ListPage' /\ UpToDate(call', past', view', status, {"refund"}) /\ call'[c] = Free
              /\ \A e \in Calls \ {c} : call'[e] = call[e]
              /\ view' = [view EXCEPT !.rows = call[c].data, !.loading = FALSE]
            BY <1>1, <1>5, ReceiveRowsKeeps DEF ReceiveList
        <2>2. HasFields(view', {"key", "rows", "loading", "refunding"}) /\ view'.refunding = view.refunding
            BY <1>1, <2>1 DEF HasFields
        <2>3. UNCHANGED server /\ (~past'.mixed => ~past.mixed)
            <3>1. past' = [past EXCEPT !.loads = Without(past.loads, c), !.mixed = past.mixed \/ Head(past.loads) # c]
                BY <1>5 DEF ReceiveList, ReceiveRows, SettleList
            <3> QED
                BY <1>1, <1>5, <3>1 DEF ReceiveList, ReceiveRows, SettleList, ListPage, HasFields
        <2>4. \A e \in Calls : Busy(e, "refund")' => Busy(e, "refund") /\ call'[e] = call[e]
            BY <2>1 DEF Busy, Free
        <2> QED BY <2>1, <2>2, <2>3, <2>4, RefundsStay DEF status
    <1>6. CASE FailList(c, [p \in {} |-> Nil])
        <2> DEFINE none == [p \in {} |-> Nil]
        <2>0. FailList(c, none)
            BY <1>6
        <2> HIDE DEF none
        <2>1. /\ ListPage' /\ UpToDate(call', past', view', status, {"refund"})
              /\ view' = [view EXCEPT !.rows = none, !.loading = FALSE]
            BY <1>1, <2>0, FailListKeeps
        <2>2. HasFields(view', {"key", "rows", "loading", "refunding"})
            BY <1>1, <2>1 DEF HasFields
        <2>3. UNCHANGED server /\ past'.mixed
            <3>1. past' = [past EXCEPT !.loads = Without(past.loads, c), !.mixed = TRUE]
                BY <2>0 DEF FailList
            <3> QED BY <1>1, <2>0, <3>1 DEF FailList, ListPage, HasFields
        <2> QED BY <2>1, <2>2, <2>3, RefundsStay DEF status
    <1>7. CASE ServeRefund(c)
        <2>1. /\ call[c].op = "refund" /\ call[c].step = "sent" /\ UNCHANGED <<view, past>>
              /\ Answer(c, Nil) \/ (UNCHANGED server /\ Refuse(c))
            BY <1>7 DEF ServeRefund, Stands
        <2>2. CASE Answer(c, Nil)
            <3>1. /\ ListPage' /\ UpToDate(call', past', view', server', {"refund"}) /\ \A e \in Calls \ {c} : call'[e] = call[e]
                  /\ call'[c] = [step |-> "served", op |-> call[c].op, arg |-> call[c].arg, data |-> Nil]
                BY <1>1, <2>1, <2>2, ChangeIsUpToDate
            <3>2. \A e \in Calls : Busy(e, "refund")' => Busy(e, "refund") /\ call'[e].arg = call[e].arg
                BY <2>1, <3>1 DEF Busy
            <3> QED BY <1>1, <2>1, <3>1, <3>2, RefundsStay
        <2>3. CASE UNCHANGED server /\ Refuse(c)
            <3>1. /\ ListPage' /\ UpToDate(call', past', view', status, {"refund"}) /\ \A e \in Calls \ {c} : call'[e] = call[e]
                  /\ call'[c] = [step |-> "failed", op |-> "refund", arg |-> call[c].arg, data |-> call[c].data]
                BY <1>1, <2>1, <2>3, RefuseKeepsTheList DEF Stands
            <3>2. \A e \in Calls : Busy(e, "refund")' => Busy(e, "refund") /\ call'[e].arg = call[e].arg
                BY <2>1, <3>1 DEF Busy
            <3> QED BY <1>1, <2>1, <2>3, <3>1, <3>2, RefundsStay DEF status
        <2> QED BY <2>1, <2>2, <2>3
    <1>8. ASSUME Busy(c, "refund"), UNCHANGED server, ListPage', UpToDate(call', past', view', status, {"refund"}),
                 HasFields(view', {"key", "rows", "loading", "refunding"}), ~past'.mixed => ~past.mixed,
                 ~Busy(c, "refund")', \A e \in Calls \ {c} : call'[e] = call[e]
          PROVE  PaymentsInv'
        <2>1. ~past'.mixed => \A e \in Calls : ~Busy(e, "refund")'
            BY <1>3, <1>8 DEF Busy
        <2> QED BY <1>8, <2>1, RefundsStay DEF status
    <1>9. CASE ReceiveRefund(c)
        <2>1. Reload(c, Nil, idle) /\ call[c].op = "refund" /\ call[c].step = "served"
            BY <1>9 DEF ReceiveRefund, Stands, idle
        <2>2. /\ UNCHANGED server /\ view' = [idle EXCEPT !.loading = TRUE]
              /\ past' = [past EXCEPT !.loads = Append(past.loads, c), !.mixed = past.mixed \/ Nil # idle.key]
            BY <2>1 DEF Reload
        <2>3. /\ ListPage' /\ UpToDate(call', past', view', status, {"refund"}) /\ call'[c] = Request("list", Nil)
              /\ \A e \in Calls \ {c} : call'[e] = call[e]
            BY <1>1, <1>2, <2>1, ReloadKeeps
        <2>4. HasFields(view', {"key", "rows", "loading", "refunding"})
            BY <1>2, <2>2 DEF HasFields
        <2>5. ~past'.mixed => ~past.mixed
            BY <1>1, <2>2 DEF HasFields, ListPage
        <2>6. Busy(c, "refund") /\ ~Busy(c, "refund")'
            BY <2>1, <2>3 DEF Busy, Request
        <2> QED BY <1>8, <2>2, <2>3, <2>4, <2>5, <2>6
    <1>a. CASE FailChange(c, "refund", idle)
        <2>1. /\ ListPage' /\ UpToDate(call', past', view', status, {"refund"}) /\ view' = idle /\ UNCHANGED <<server, past>>
              /\ call'[c] = Free /\ \A e \in Calls \ {c} : call'[e] = call[e]
            BY <1>1, <1>2, <1>a, FailChangeKeeps
        <2>2. Busy(c, "refund") /\ ~Busy(c, "refund")'
            BY <1>a, <2>1 DEF Busy, Free, FailChange, Stands
        <2> QED BY <1>2, <1>8, <2>1, <2>2
    <1>b. CASE LoseInList(c)
        <2>1. ListPage' /\ UpToDate(call', past', view', status, {"refund"}) /\ UNCHANGED <<view, server>>
            BY <1>1, <1>b, LoseInListKeeps
        <2>2. past'.mixed
            BY <1>1, <1>b DEF LoseInList, ListPage, HasFields
        <2> QED BY <1>1, <2>1, <2>2, RefundsStay DEF status
    <1> QED BY <1>4, <1>5, <1>6, <1>7, <1>9, <1>a, <1>b DEF PaymentsAnswers, idle

LEMMA RefundStarts ==
    ASSUME PaymentsInv, UNCHANGED page, NEW c \in Calls, NEW p \in Receipts, HandleRefund(c, p)
    PROVE  PaymentsInv'
    <1>1. /\ ListPage /\ HasFields(view, {"key", "rows", "loading", "refunding"}) /\ UpToDate(call, past, view, status, {"refund"})
          /\ HasFields(past, {"loads", "mixed"}) /\ past.mixed \in BOOLEAN /\ "refund" # "list"
        BY DEF PaymentsInv, ListPage
    <1>2. /\ view.refunding # p /\ Send(c, "refund", [payment |-> p]) /\ UNCHANGED server
          /\ view' = [view EXCEPT !.refunding = p]
          /\ past' = [past EXCEPT !.mixed = past.mixed \/ \E d \in Pending("refund") : call[d].arg.payment # p]
        BY DEF HandleRefund, Table
    <1>3. /\ HasFields(view', {"key", "rows", "loading", "refunding"}) /\ HasFields(view', {"key", "rows", "loading"})
          /\ view'.key = view.key /\ view'.rows = view.rows /\ view'.refunding = p
        BY <1>1, <1>2 DEF HasFields
    <1>4. /\ HasFields(past', {"loads", "mixed"}) /\ past'.loads = past.loads /\ past'.mixed \in BOOLEAN
          /\ (past.mixed => past'.mixed) /\ ((\E d \in Pending("refund") : call[d].arg.payment # p) => past'.mixed)
        BY <1>1, <1>2 DEF HasFields
    <1>5. /\ ListPage' /\ UpToDate(call', past', view', status, {"refund"})
          /\ call[c] = Free /\ call'[c] = Request("refund", [payment |-> p]) /\ \A e \in Calls \ {c} : call'[e] = call[e]
        <2>1. Send(c, "refund", [payment |-> p])
            BY <1>2
        <2> QED BY <1>1, <1>3, <1>4, <2>1, SendKeepsTheList
    <1>6. call'[c].arg.payment = p
        BY <1>5 DEF Request
    <1>7. ~past'.mixed => \A e \in Calls \ {c} : ~Busy(e, "refund")'
        <2> SUFFICES ASSUME ~past'.mixed, NEW e \in Calls \ {c}, Busy(e, "refund")' PROVE FALSE
            OBVIOUS
        <2>1. Busy(e, "refund") /\ e \in Pending("refund")
            BY <1>5 DEF Busy, Pending
        <2>2. call[e].arg.payment = view.refunding
            BY <1>4, <2>1 DEF PaymentsInv, OneRefund
        <2> QED BY <1>2, <1>4, <2>1, <2>2
    <1>8. OneRefund'
        BY <1>3, <1>6, <1>7 DEF OneRefund
    <1> QED BY <1>2, <1>3, <1>5, <1>8 DEF PaymentsInv, status

LEMMA PaymentsStep == PaymentsInv /\ [PaymentsNext]_webVars => PaymentsInv'
    <1> SUFFICES ASSUME PaymentsInv, [PaymentsNext]_webVars PROVE PaymentsInv'
        OBVIOUS
    <1>1. CASE UNCHANGED webVars
        <2>1. UNCHANGED <<page, call, view, server, past>>
            BY <1>1 DEF webVars
        <2>2. ListPage' /\ UpToDate(call', past', view', status, {"refund"})
            BY <2>1, NothingChangesTheList DEF PaymentsInv
        <2> QED BY <2>1, <2>2 DEF PaymentsInv, OneRefund, Busy, status
    <1>2. CASE PaymentsNext
        BY <1>2, RefundStarts, RefundsAnswersKeep DEF PaymentsNext
    <1> QED BY <1>1, <1>2

(***************************************************************************)
(* The reviews                                                             *)
(*                                                                         *)
(* Whatever holds a reply, the rows, an answer, the form or a request,     *)
(* holds the one that was typed for the review it is filed under.          *)
(***************************************************************************)
ReplyFields == {"key", "rows", "loading", "rating", "filter", "replying", "text", "submitting"}
OwnReplies(rows) ==
    /\ rows = [p \in DOMAIN rows |-> rows[p]] /\ DOMAIN rows \subseteq Posts
    /\ \A p \in DOMAIN rows : rows[p] \in {p, Nil}

OwnReplyOf(r) ==
    /\ r.step # "free" /\ r.op = "reply" => r.arg.post \in Posts /\ r.arg.text = r.arg.post
    /\ r.op = "list" /\ r.step = "served" => OwnReplies(r.data)

ReplyInv ==
    /\ page = "reviews" /\ ListPage /\ HasFields(view, ReplyFields)
    /\ UpToDate(call, past, view, reply, {"reply"})
    /\ HasFields(server, {"rated", "reply"}) /\ OwnReplies(reply) /\ DOMAIN reply = Posts
    /\ OwnReplies(view.rows) /\ view.text \in {view.replying, Nil}
    /\ \A c \in Calls : OwnReplyOf(call[c])

LEMMA ReplyInitInv == ReplyInit => ReplyInv
    <1> SUFFICES ASSUME ReplyInit PROVE ReplyInv
        OBVIOUS
    <1>1. /\ page = "reviews" /\ MountList(Nil) /\ view.key = Nil /\ HasFields(view, {"key", "rows", "loading"})
          /\ HasFields(view, ReplyFields) /\ view.text = Nil /\ view.rows = [p \in {} |-> Nil]
          /\ HasFields(server, {"rated", "reply"})
        BY DEF ReplyInit, HasFields, ReplyFields
    <1>2. PICK old \in SUBSET Posts : reply = [p \in Posts |-> IF p \in old THEN p ELSE Nil]
        BY DEF ReplyInit, reply
    <1>3. ListPage /\ UpToDate(call, past, view, reply, {"reply"})
        BY <1>1, MountedIsUpToDate
    <1>4. \A c \in Calls : call[c] \in {Request("list", Nil), Free}
        BY <1>1 DEF MountList
    <1>5. \A c \in Calls : OwnReplyOf(call[c])
        BY <1>4 DEF OwnReplyOf, Request, Free
    <1>6. OwnReplies(view.rows) /\ OwnReplies(reply) /\ DOMAIN reply = Posts
        BY <1>1, <1>2 DEF OwnReplies
    <1> QED BY <1>1, <1>3, <1>5, <1>6 DEF ReplyInv

\* Steps that store no reply.
LEMMA RepliesStay ==
    ASSUME ReplyInv, UNCHANGED <<page, server>>, ListPage', UpToDate(call', past', view', reply, {"reply"}),
           HasFields(view', ReplyFields), OwnReplies(view'.rows), view'.text \in {view'.replying, Nil},
           \A e \in Calls : OwnReplyOf(call'[e])
    PROVE  ReplyInv'
    BY DEF ReplyInv, OwnReplies, OwnReplyOf, reply

LEMMA ReplyClicksKeep ==
    ASSUME ReplyInv, UNCHANGED page, FilterTabs \/ \E c \in Calls : ReviewsList(c)
    PROVE  ReplyInv'
    <1>1. /\ HasFields(view, ReplyFields) /\ ListPage /\ UpToDate(call, past, view, reply, {"reply"})
          /\ OwnReplies(view.rows) /\ view.text \in {view.replying, Nil} /\ \A e \in Calls : OwnReplyOf(call[e])
        BY DEF ReplyInv
    <1>2. ASSUME NEW state, Show(state), HasFields(state, ReplyFields), state.key = view.key, state.rows = view.rows,
                 state.text \in {state.replying, Nil}
          PROVE  ReplyInv'
        <2>1. view' = state /\ UNCHANGED <<call, server, past>> /\ HasFields(state, {"key", "rows", "loading"})
            BY <1>2 DEF Show, HasFields, ReplyFields
        <2>2. ListPage' /\ UpToDate(call', past', view', reply, {"reply"})
            BY <1>1, <1>2, <2>1, ShowKeepsTheList
        <2> QED BY <1>1, <1>2, <2>1, <2>2, RepliesStay
    <1>3. ASSUME NEW r, Show([view EXCEPT !.rating = r]) PROVE ReplyInv'
        <2> DEFINE state == [view EXCEPT !.rating = r]
        <2>1. /\ HasFields(state, ReplyFields) /\ state.key = view.key /\ state.rows = view.rows
              /\ state.text = view.text /\ state.replying = view.replying
            BY <1>1 DEF HasFields, ReplyFields
        <2> HIDE DEF state
        <2> QED BY <1>1, <1>2, <1>3, <2>1 DEF state
    <1>4. ASSUME NEW filter, Show([view EXCEPT !.filter = filter]) PROVE ReplyInv'
        <2> DEFINE state == [view EXCEPT !.filter = filter]
        <2>1. /\ HasFields(state, ReplyFields) /\ state.key = view.key /\ state.rows = view.rows
              /\ state.text = view.text /\ state.replying = view.replying
            BY <1>1 DEF HasFields, ReplyFields
        <2> HIDE DEF state
        <2> QED BY <1>1, <1>2, <1>4, <2>1 DEF state
    <1>5. ASSUME NEW text, text \in {view.replying, Nil}, Show([view EXCEPT !.text = text]) PROVE ReplyInv'
        <2> DEFINE state == [view EXCEPT !.text = text]
        <2>1. /\ HasFields(state, ReplyFields) /\ state.key = view.key /\ state.rows = view.rows
              /\ state.text = text /\ state.replying = view.replying
            BY <1>1 DEF HasFields, ReplyFields
        <2> HIDE DEF state
        <2> QED BY <1>2, <1>5, <2>1 DEF state
    <1>6. ASSUME NEW p, NEW text, text \in {p, Nil}, Show([view EXCEPT !.replying = p, !.text = text]) PROVE ReplyInv'
        <2> DEFINE state == [view EXCEPT !.replying = p, !.text = text]
        <2>1. /\ HasFields(state, ReplyFields) /\ state.key = view.key /\ state.rows = view.rows
              /\ state.text = text /\ state.replying = p
            BY <1>1 DEF HasFields, ReplyFields
        <2> HIDE DEF state
        <2> QED BY <1>2, <1>6, <2>1 DEF state
    <1>7. ASSUME NEW p \in Posts, HandleStartReply(p) PROVE ReplyInv'
        <2>1. p \in DOMAIN view.rows /\ Show([view EXCEPT !.replying = p, !.text = view.rows[p]])
            BY <1>7 DEF HandleStartReply, FilteredReviews
        <2>2. view.rows[p] \in {p, Nil}
            BY <1>1, <2>1 DEF OwnReplies
        <2> QED BY <1>6, <2>1, <2>2
    <1>8. ASSUME NEW c \in Calls, HandleSubmitReply(c) PROVE ReplyInv'
        <2> DEFINE arg == [post |-> view.replying, text |-> view.text]
        <2>1. /\ view.replying \in DOMAIN view.rows /\ view.text # Nil /\ Send(c, "reply", arg)
              /\ view' = [view EXCEPT !.submitting = TRUE] /\ UNCHANGED <<server, past>>
            BY <1>8 DEF HandleSubmitReply, FormShown, FilteredReviews
        <2>2. arg.post \in Posts /\ arg.text = arg.post
            BY <1>1, <2>1 DEF OwnReplies
        <2> HIDE DEF arg
        <2>3. /\ HasFields(view', ReplyFields) /\ view'.key = view.key /\ view'.rows = view.rows
              /\ view'.text = view.text /\ view'.replying = view.replying /\ HasFields(view', {"key", "rows", "loading"})
            BY <1>1, <2>1 DEF HasFields, ReplyFields
        <2>4. /\ HasFields(past', {"loads", "mixed"}) /\ past'.loads = past.loads /\ past'.mixed \in BOOLEAN
              /\ "reply" # "list" /\ (past.mixed => past'.mixed)
            BY <1>1, <2>1 DEF ListPage
        <2>5. /\ ListPage' /\ UpToDate(call', past', view', reply, {"reply"})
              /\ call'[c] = Request("reply", arg) /\ \A e \in Calls \ {c} : call'[e] = call[e]
            <3>1. ListPage /\ UpToDate(call, past, view, reply, {"reply"}) /\ Send(c, "reply", arg)
                BY <1>1, <2>1
            <3> QED BY <2>3, <2>4, <3>1, Zenon, SendKeepsTheList
        <2>6. OwnReplyOf(call'[c])
            BY <2>2, <2>5 DEF OwnReplyOf, Request
        <2> QED BY <1>1, <1>8, <2>1, <2>3, <2>5, <2>6, RepliesStay
    <1>9. FilterTabs => ReplyInv'
        BY <1>3, <1>4 DEF FilterTabs, RatingFilter
    <1>a. ASSUME NEW c \in Calls, ReviewsList(c) PROVE ReplyInv'
        BY <1>5, <1>6, <1>7, <1>8, <1>a DEF ReviewsList, HandleCancelReply
    <1> QED BY <1>9, <1>a

LEMMA ReplyAnswersKeep ==
    ASSUME ReplyInv, UNCHANGED page, NEW c \in Calls, ReplyAnswers(c) \/ LoseInList(c)
    PROVE  ReplyInv'
    <1>1. /\ HasFields(view, ReplyFields) /\ ListPage /\ UpToDate(call, past, view, reply, {"reply"})
          /\ OwnReplies(view.rows) /\ view.text \in {view.replying, Nil} /\ \A e \in Calls : OwnReplyOf(call[e])
          /\ "list" \notin {"reply"} /\ "reply" # "list" /\ OwnReplies(reply)
        BY DEF ReplyInv
    <1>f. HasFields(view, {"key", "rows", "loading"})
        BY <1>1 DEF ListPage
    <1> DEFINE idle == [view EXCEPT !.submitting = FALSE]
               closed == [view EXCEPT !.replying = Nil, !.text = Nil, !.submitting = FALSE]
    <1>2. /\ HasFields(idle, ReplyFields) /\ HasFields(idle, {"key", "rows", "loading"}) /\ idle.key = view.key /\ idle.rows = view.rows
          /\ idle.text = view.text /\ idle.replying = view.replying
        BY <1>1 DEF HasFields, ReplyFields
    <1>3. /\ HasFields(closed, ReplyFields) /\ HasFields(closed, {"key", "rows", "loading"}) /\ closed.key = view.key
          /\ closed.rows = view.rows /\ closed.text = Nil
        BY <1>1 DEF HasFields, ReplyFields
    <1> HIDE DEF idle, closed
    <1>4. CASE AnswerList(c, reply)
        <2>1. UNCHANGED <<view, server, past>>
            BY <1>4 DEF AnswerList, Keep
        <2>2. /\ ListPage' /\ UpToDate(call', past', view', reply, {"reply"}) /\ \A e \in Calls \ {c} : call'[e] = call[e]
              /\ call'[c] = [step |-> "served", op |-> "list", arg |-> call[c].arg, data |-> reply]
            BY <1>1, <1>4, AnswerListKeeps
        <2>3. OwnReplyOf(call'[c])
            BY <1>1, <2>2 DEF OwnReplyOf
        <2> QED BY <1>1, <2>1, <2>2, <2>3, RepliesStay
    <1>5. ASSUME NEW shown, OwnReplies(shown), view' = [view EXCEPT !.rows = shown, !.loading = FALSE], UNCHANGED server,
                 ListPage', UpToDate(call', past', view', reply, {"reply"}), call'[c] = Free, \A e \in Calls \ {c} : call'[e] = call[e]
          PROVE  ReplyInv'
        <2>1. /\ HasFields(view', ReplyFields) /\ view'.rows = shown /\ view'.text = view.text /\ view'.replying = view.replying
            BY <1>1, <1>5 DEF HasFields, ReplyFields
        <2>2. OwnReplyOf(Free)
            BY DEF OwnReplyOf, Free
        <2> QED BY <1>1, <1>5, <2>1, <2>2, RepliesStay
    <1>6. CASE ReceiveList(c)
        <2>1. /\ ListPage' /\ UpToDate(call', past', view', reply, {"reply"}) /\ call'[c] = Free
              /\ \A e \in Calls \ {c} : call'[e] = call[e]
              /\ view' = [view EXCEPT !.rows = call[c].data, !.loading = FALSE]
            BY Zenon, <1>1, <1>6, ReceiveRowsKeeps DEF ReceiveList
        <2>2. UNCHANGED server /\ call[c].op = "list" /\ call[c].step = "served"
            BY <1>6 DEF ReceiveList, ReceiveRows, SettleList, Stands
        <2>3. OwnReplies(call[c].data)
            BY <1>1, <2>2 DEF OwnReplyOf
        <2> QED BY <1>5, <2>1, <2>2, <2>3
    <1>7. CASE FailList(c, view.rows)
        <2>1. /\ ListPage' /\ UpToDate(call', past', view', reply, {"reply"}) /\ call'[c] = Free
              /\ \A e \in Calls \ {c} : call'[e] = call[e]
              /\ view' = [view EXCEPT !.rows = view.rows, !.loading = FALSE]
            BY <1>1, <1>7, FailListKeeps
        <2>2. UNCHANGED server
            BY <1>7 DEF FailList
        <2> QED BY <1>1, <1>5, <2>1, <2>2
    <1>8. CASE ServeReply(c)
        <2> DEFINE r == call[c].arg.post
        <2>1. /\ call[c].op = "reply" /\ call[c].step = "sent" /\ UNCHANGED <<view, past>> /\ Answer(c, Nil)
              /\ server' = [server EXCEPT !.reply[r] = call[c].arg.text]
            BY <1>8 DEF ServeReply, Stands
        <2>2. r \in Posts /\ call[c].arg.text = r
            BY <1>1, <2>1 DEF OwnReplyOf
        <2>3. HasFields(server', {"rated", "reply"}) /\ server'.reply = [server.reply EXCEPT ![r] = r]
            BY <2>1, <2>2 DEF ReplyInv, HasFields
        <2>4. server'.reply = [p \in Posts |-> IF p = r THEN r ELSE server.reply[p]]
            BY <2>2, <2>3 DEF ReplyInv, OwnReplies, reply
        <2>5. OwnReplies(server'.reply) /\ DOMAIN server'.reply = Posts
            BY <2>4 DEF ReplyInv, OwnReplies, reply
        <2>6. /\ ListPage' /\ UpToDate(call', past', view', server'.reply, {"reply"}) /\ \A e \in Calls \ {c} : call'[e] = call[e]
              /\ call'[c] = [step |-> "served", op |-> call[c].op, arg |-> call[c].arg, data |-> Nil]
            BY <1>1, <2>1, ChangeIsUpToDate
        <2>7. \A e \in Calls : OwnReplyOf(call'[e])
            BY <1>1, <2>1, <2>2, <2>6 DEF OwnReplyOf
        <2> QED
            BY <1>1, <2>1, <2>3, <2>5, <2>6, <2>7 DEF ReplyInv, OwnReplies, OwnReplyOf, reply
    <1>9. CASE ReceiveReply(c)
        <2>1. Reload(c, Nil, closed) /\ call[c].op = "reply"
            BY <1>9 DEF ReceiveReply, Stands, closed
        <2>2. UNCHANGED server /\ view' = [closed EXCEPT !.loading = TRUE]
            BY <2>1 DEF Reload
        <2>3. /\ ListPage' /\ UpToDate(call', past', view', reply, {"reply"}) /\ call'[c] = Request("list", Nil)
              /\ \A e \in Calls \ {c} : call'[e] = call[e]
            BY <1>1, <1>3, <2>1, ReloadKeeps
        <2>4. HasFields(view', ReplyFields) /\ view'.rows = closed.rows /\ view'.text = Nil
            BY <1>3, <2>2 DEF HasFields, ReplyFields
        <2>5. OwnReplyOf(Request("list", Nil))
            BY DEF OwnReplyOf, Request
        <2> QED BY <1>1, <1>3, <2>2, <2>3, <2>4, <2>5, RepliesStay
    <1>a. CASE FailChange(c, "reply", idle)
        <2>1. /\ ListPage' /\ UpToDate(call', past', view', reply, {"reply"}) /\ view' = idle /\ UNCHANGED <<server, past>>
              /\ call'[c] = Free /\ \A e \in Calls \ {c} : call'[e] = call[e]
            BY <1>1, <1>2, <1>a, FailChangeKeeps
        <2>2. OwnReplyOf(Free)
            BY DEF OwnReplyOf, Free
        <2> QED BY <1>1, <1>2, <2>1, <2>2, RepliesStay
    <1>b. CASE LoseInList(c)
        <2>1. /\ ListPage' /\ UpToDate(call', past', view', reply, {"reply"}) /\ UNCHANGED <<view, server>>
              /\ \A e \in Calls \ {c} : call'[e] = call[e] /\ call[c].step \in {"sent", "served"}
              /\ call'[c] = [step |-> "failed", op |-> call[c].op, arg |-> call[c].arg, data |-> Nil]
            BY <1>1, <1>b, LoseInListKeeps
        <2>2. OwnReplyOf(call'[c])
            <3>1. call[c].step \in {"sent", "served"} /\ OwnReplyOf(call[c])
                BY <1>1, <1>b, LoseInListKeeps
            <3> QED BY <2>1, <3>1 DEF OwnReplyOf
        <2> QED BY <1>1, <2>1, <2>2, RepliesStay
    <1> QED BY <1>4, <1>6, <1>7, <1>8, <1>9, <1>a, <1>b DEF ReplyAnswers, idle

LEMMA ReplyStep == ReplyInv /\ [ReplyNext]_webVars => ReplyInv'
    <1> SUFFICES ASSUME ReplyInv, [ReplyNext]_webVars PROVE ReplyInv'
        OBVIOUS
    <1>1. CASE UNCHANGED webVars
        <2>1. UNCHANGED <<page, call, view, server, past>>
            BY <1>1 DEF webVars
        <2>2. ListPage' /\ UpToDate(call', past', view', reply, {"reply"})
            BY <2>1, NothingChangesTheList DEF ReplyInv
        <2> QED BY <2>1, <2>2, RepliesStay DEF ReplyInv
    <1>2. CASE ReplyNext
        BY <1>2, ReplyClicksKeep, ReplyAnswersKeep DEF ReplyNext
    <1> QED BY <1>1, <1>2

(***************************************************************************)
(* The services and the staff                                              *)
(*                                                                         *)
(* Whatever holds an entry, the rows, an answer, the dialog or a request,  *)
(* holds the fields of the entry it is filed under.                        *)
(***************************************************************************)
EditorFields == {"key", "rows", "loading", "modal", "editing", "form", "submitting"}
EditorChanges == {"save", "delete"}

OwnRows(rows) ==
    /\ rows = [e \in DOMAIN rows |-> rows[e]] /\ DOMAIN rows \subseteq Entries
    /\ \A e \in DOMAIN rows : rows[e] \in Content /\ rows[e].of = e

OwnForm(entry, form) == entry \in Entries \cup {Nil} /\ form \in DialogForms /\ form.of = entry

OwnSave(r) ==
    /\ r.step # "free" /\ r.op = "save" => OwnForm(r.arg.entry, r.arg.form)
    /\ r.op = "list" /\ r.step = "served" => OwnRows(r.data)

EditorInv ==
    /\ ListPage /\ HasFields(view, EditorFields) /\ UpToDate(call, past, view, entries, EditorChanges)
    /\ HasFields(server, {"rows", "gone"}) /\ OwnRows(entries)
    /\ OwnRows(view.rows) /\ OwnForm(view.editing, view.form)
    /\ \A c \in Calls : OwnSave(call[c])

LEMMA EditorInitInv == EditorInit => EditorInv
    <1> SUFFICES ASSUME EditorInit PROVE EditorInv
        OBVIOUS
    <1>1. /\ MountList(Nil) /\ view.key = Nil /\ HasFields(view, {"key", "rows", "loading"}) /\ HasFields(view, EditorFields)
          /\ view.editing = Nil /\ view.form = Blank /\ view.rows = [e \in {} |-> Nil] /\ HasFields(server, {"rows", "gone"})
        BY DEF EditorInit, HasFields, EditorFields
    <1>2. PICK have \in SUBSET Entries : entries = [e \in have |-> [of |-> e, edited |-> FALSE]]
        BY DEF EditorInit, entries
    <1>3. ListPage /\ UpToDate(call, past, view, entries, EditorChanges)
        BY <1>1, MountedIsUpToDate
    <1>4. \A c \in Calls : call[c] \in {Request("list", Nil), Free}
        BY <1>1 DEF MountList
    <1>5. \A c \in Calls : OwnSave(call[c])
        BY <1>4 DEF OwnSave, Request, Free
    <1>6. OwnRows(view.rows) /\ OwnRows(entries)
        BY <1>1, <1>2 DEF OwnRows, Content
    <1>7. OwnForm(view.editing, view.form)
        BY <1>1 DEF OwnForm, DialogForms, Blank
    <1> QED BY <1>1, <1>3, <1>5, <1>6, <1>7 DEF EditorInv

\* Steps that store no entry.
LEMMA EntriesStay ==
    ASSUME EditorInv, UNCHANGED server, ListPage', UpToDate(call', past', view', entries, EditorChanges),
           HasFields(view', EditorFields), OwnRows(view'.rows), OwnForm(view'.editing, view'.form),
           \A e \in Calls : OwnSave(call'[e])
    PROVE  EditorInv'
    BY DEF EditorInv, OwnRows, OwnForm, OwnSave, entries

LEMMA EditorShows ==
    ASSUME EditorInv, NEW state, Show(state), HasFields(state, EditorFields), state.key = view.key, state.rows = view.rows,
           OwnForm(state.editing, state.form)
    PROVE  EditorInv'
    <1>1. view' = state /\ UNCHANGED <<call, server, past>> /\ HasFields(state, {"key", "rows", "loading"})
        BY DEF Show, HasFields, EditorFields
    <1>2. ListPage' /\ UpToDate(call', past', view', entries, EditorChanges)
        BY <1>1, ShowKeepsTheList DEF EditorInv
    <1> QED BY <1>1, <1>2, EntriesStay DEF EditorInv

LEMMA EditorSends ==
    ASSUME EditorInv, NEW c \in Calls, NEW op \in EditorChanges, NEW arg, Send(c, op, arg), OwnSave(Request(op, arg)),
           UNCHANGED <<server, past>>, HasFields(view', EditorFields), view'.key = view.key, view'.rows = view.rows,
           view'.editing = view.editing, view'.form = view.form
    PROVE  EditorInv'
    <1>1. /\ ListPage /\ UpToDate(call, past, view, entries, EditorChanges) /\ op # "list"
          /\ HasFields(past', {"loads", "mixed"}) /\ past'.loads = past.loads /\ past'.mixed \in BOOLEAN /\ (past.mixed => past'.mixed)
        BY DEF EditorInv, ListPage, EditorChanges
    <1>2. HasFields(view', {"key", "rows", "loading"})
        BY DEF HasFields, EditorFields
    <1>3. /\ ListPage' /\ UpToDate(call', past', view', entries, EditorChanges)
          /\ call'[c] = Request(op, arg) /\ \A e \in Calls \ {c} : call'[e] = call[e]
        BY <1>1, <1>2, Zenon, SendKeepsTheList
    <1> QED BY <1>3, EntriesStay DEF EditorInv

LEMMA EditorClicksKeep ==
    ASSUME EditorInv,
           \/ ServicesOpenCreate \/ StaffOpenCreate
           \/ \E c \in Calls : ServicesList(c) \/ StaffList(c) \/ ServicesModal(c) \/ StaffModal(c)
    PROVE  EditorInv'
    <1>1. HasFields(view, EditorFields) /\ OwnRows(view.rows) /\ OwnForm(view.editing, view.form)
        BY DEF EditorInv
    <1>2. ASSUME NEW entry, NEW form, OwnForm(entry, form), OpenDialog(entry, form) PROVE EditorInv'
        <2> DEFINE state == [view EXCEPT !.modal = TRUE, !.editing = entry, !.form = form, !.submitting = FALSE]
        <2>1. Show(state)
            BY <1>2 DEF OpenDialog
        <2>2. /\ HasFields(state, EditorFields) /\ state.key = view.key /\ state.rows = view.rows
              /\ state.editing = entry /\ state.form = form
            BY <1>1 DEF HasFields, EditorFields
        <2> HIDE DEF state
        <2> QED BY <1>2, <2>1, <2>2, EditorShows
    <1>3. ASSUME NEW e \in Entries, Listed(e), OpenDialog(e, view.rows[e]) PROVE EditorInv'
        <2>1. OwnForm(e, view.rows[e])
            BY <1>1, <1>3 DEF Listed, OwnRows, OwnForm, Content, DialogForms
        <2> QED BY <1>2, <1>3, <2>1
    <1>4. CASE ServicesOpenCreate
        <2>1. OwnForm(Nil, Blank)
            BY DEF OwnForm, Blank, DialogForms
        <2> QED BY <1>2, <1>4, <2>1 DEF ServicesOpenCreate
    <1>5. CASE StaffOpenCreate
        <2>1. PICK form \in {Blank, [view.form EXCEPT !.of = Nil]} : OpenDialog(Nil, form)
            BY <1>5 DEF StaffOpenCreate
        <2>2. Blank \in DialogForms /\ Blank.of = Nil
            BY DEF Blank, DialogForms
        <2>3. [view.form EXCEPT !.of = Nil] \in DialogForms /\ [view.form EXCEPT !.of = Nil].of = Nil
            <3>1. view.form \in DialogForms
                BY <1>1 DEF OwnForm
            <3> QED BY <3>1 DEF DialogForms
        <2>4. OwnForm(Nil, form)
            BY <2>1, <2>2, <2>3 DEF OwnForm
        <2> QED BY <1>2, <2>1, <2>4
    <1>6. CASE TypeInForm
        <2> DEFINE form == [view.form EXCEPT !.edited = TRUE]
                   state == [view EXCEPT !.form = form]
        <2>1. Show(state)
            BY <1>6 DEF TypeInForm
        <2>2. OwnForm(view.editing, form)
            BY <1>1 DEF OwnForm, DialogForms
        <2> HIDE DEF form
        <2>3. /\ HasFields(state, EditorFields) /\ state.key = view.key /\ state.rows = view.rows
              /\ state.editing = view.editing /\ state.form = form
            BY <1>1 DEF HasFields, EditorFields
        <2> HIDE DEF state
        <2> QED BY <2>1, <2>2, <2>3, EditorShows
    <1>7. CASE CloseDialog
        <2> DEFINE state == [view EXCEPT !.modal = FALSE]
        <2>1. Show(state)
            BY <1>7 DEF CloseDialog
        <2>2. /\ HasFields(state, EditorFields) /\ state.key = view.key /\ state.rows = view.rows
              /\ state.editing = view.editing /\ state.form = view.form
            BY <1>1 DEF HasFields, EditorFields
        <2> HIDE DEF state
        <2> QED BY <1>1, <2>1, <2>2, EditorShows
    <1>8. ASSUME NEW c \in Calls, SubmitForm(c) PROVE EditorInv'
        <2> DEFINE arg == [entry |-> view.editing, form |-> view.form]
        <2>1. Send(c, "save", arg) /\ view' = [view EXCEPT !.submitting = TRUE] /\ UNCHANGED <<server, past>>
            BY <1>8 DEF SubmitForm
        <2>2. OwnSave(Request("save", arg))
            BY <1>1 DEF OwnSave, Request
        <2> HIDE DEF arg
        <2>3. /\ HasFields(view', EditorFields) /\ view'.key = view.key /\ view'.rows = view.rows
              /\ view'.editing = view.editing /\ view'.form = view.form
            BY <1>1, <2>1 DEF HasFields, EditorFields
        <2> QED BY <2>1, <2>2, <2>3, EditorSends DEF EditorChanges
    <1>9. ASSUME NEW c \in Calls, NEW e \in Entries, SendDelete(c, e) PROVE EditorInv'
        <2>1. Send(c, "delete", [entry |-> e]) /\ UNCHANGED <<view, server, past>>
            BY <1>9 DEF SendDelete, Keep
        <2>2. OwnSave(Request("delete", [entry |-> e]))
            BY DEF OwnSave, Request
        <2> QED BY <1>1, <2>1, <2>2, EditorSends DEF EditorChanges
    <1>a. ASSUME NEW c \in Calls, ServicesList(c) \/ StaffList(c) PROVE EditorInv'
        BY <1>3, <1>9, <1>a DEF ServicesList, StaffList, ServicesOpenEdit, StaffOpenEdit
    <1>b. ASSUME NEW c \in Calls, ServicesModal(c) \/ StaffModal(c) PROVE EditorInv'
        BY <1>6, <1>7, <1>8, <1>b DEF ServicesModal, StaffModal
    <1> QED BY <1>4, <1>5, <1>a, <1>b

\* The list, for either page.
LEMMA EditorListKeeps ==
    ASSUME EditorInv, NEW c \in Calls, AnswerList(c, entries) \/ ReceiveList(c) \/ FailList(c, view.rows) \/ LoseInList(c)
    PROVE  EditorInv'
    <1>1. /\ ListPage /\ HasFields(view, EditorFields) /\ UpToDate(call, past, view, entries, EditorChanges)
          /\ OwnRows(entries) /\ OwnRows(view.rows) /\ OwnForm(view.editing, view.form) /\ \A e \in Calls : OwnSave(call[e])
          /\ "list" \notin EditorChanges
        BY DEF EditorInv, EditorChanges
    <1>2. CASE AnswerList(c, entries)
        <2>1. UNCHANGED <<view, server, past>>
            BY <1>2 DEF AnswerList, Keep
        <2>2. /\ ListPage' /\ UpToDate(call', past', view', entries, EditorChanges) /\ \A e \in Calls \ {c} : call'[e] = call[e]
              /\ call'[c] = [step |-> "served", op |-> "list", arg |-> call[c].arg, data |-> entries]
            BY <1>1, <1>2, AnswerListKeeps
        <2>3. OwnSave(call'[c])
            BY <1>1, <2>2 DEF OwnSave
        <2> QED BY <1>1, <2>1, <2>2, <2>3, EntriesStay
    <1>3. ASSUME NEW shown, OwnRows(shown), view' = [view EXCEPT !.rows = shown, !.loading = FALSE], UNCHANGED server,
                 ListPage', UpToDate(call', past', view', entries, EditorChanges), call'[c] = Free, \A e \in Calls \ {c} : call'[e] = call[e]
          PROVE  EditorInv'
        <2>1. HasFields(view', EditorFields) /\ view'.rows = shown /\ view'.editing = view.editing /\ view'.form = view.form
            BY <1>1, <1>3 DEF HasFields, EditorFields
        <2>2. OwnSave(Free)
            BY DEF OwnSave, Free
        <2> QED BY <1>1, <1>3, <2>1, <2>2, EntriesStay
    <1>4. CASE ReceiveList(c)
        <2>1. /\ ListPage' /\ UpToDate(call', past', view', entries, EditorChanges) /\ call'[c] = Free
              /\ \A e \in Calls \ {c} : call'[e] = call[e]
              /\ view' = [view EXCEPT !.rows = call[c].data, !.loading = FALSE]
            BY <1>1, <1>4, ReceiveRowsKeeps DEF ReceiveList
        <2>2. UNCHANGED server /\ call[c].op = "list" /\ call[c].step = "served"
            BY <1>4 DEF ReceiveList, ReceiveRows, SettleList, Stands
        <2>3. OwnRows(call[c].data)
            BY <1>1, <2>2 DEF OwnSave
        <2> QED BY <1>3, <2>1, <2>2, <2>3
    <1>5. CASE FailList(c, view.rows)
        <2>1. /\ ListPage' /\ UpToDate(call', past', view', entries, EditorChanges) /\ call'[c] = Free
              /\ \A e \in Calls \ {c} : call'[e] = call[e]
              /\ view' = [view EXCEPT !.rows = view.rows, !.loading = FALSE]
            BY <1>1, <1>5, FailListKeeps
        <2>2. UNCHANGED server
            BY <1>5 DEF FailList
        <2> QED BY <1>1, <1>3, <2>1, <2>2
    <1>6. CASE LoseInList(c)
        <2>1. /\ ListPage' /\ UpToDate(call', past', view', entries, EditorChanges) /\ UNCHANGED <<view, server>>
              /\ call[c].step \in {"sent", "served"} /\ \A e \in Calls \ {c} : call'[e] = call[e]
            BY <1>1, <1>6, LoseInListKeeps
        <2>2. call'[c] = [step |-> "failed", op |-> call[c].op, arg |-> call[c].arg, data |-> Nil]
            BY <1>1, <1>6, LoseInListKeeps
        <2>3. OwnSave(call'[c])
            BY <1>1, <2>1, <2>2 DEF OwnSave
        <2> QED BY <1>1, <2>1, <2>3, EntriesStay
    <1> QED BY <1>2, <1>4, <1>5, <1>6

\* The server: a change is stored under the id it was sent for.
LEMMA EditorServesKeep ==
    ASSUME EditorInv, NEW c \in Calls, ServeCreate(c) \/ ServeUpdate(c) \/ ServeDelete(c) \/ RefuseStaff(c)
    PROVE  EditorInv'
    <1>1. /\ ListPage /\ HasFields(view, EditorFields) /\ UpToDate(call, past, view, entries, EditorChanges)
          /\ OwnRows(entries) /\ OwnRows(view.rows) /\ OwnForm(view.editing, view.form) /\ \A e \in Calls : OwnSave(call[e])
          /\ "list" \notin EditorChanges /\ HasFields(server, {"rows", "gone"})
        BY DEF EditorInv, EditorChanges
    <1>2. /\ UNCHANGED <<view, past>> /\ call[c].op \in EditorChanges /\ call[c].step = "sent"
          /\ Answer(c, Nil) \/ (UNCHANGED server /\ Refuse(c))
        BY DEF ServeCreate, ServeUpdate, ServeDelete, RefuseStaff, Keep, Stands, EditorChanges
    <1>3. CASE UNCHANGED server /\ Refuse(c)
        <2> DEFINE op == call[c].op
        <2>1. op # "list" /\ Stands(c, op, "sent")
            BY <1>2 DEF Stands, EditorChanges
        <2> HIDE DEF op
        <2>2. /\ ListPage' /\ UpToDate(call', past', view', entries, EditorChanges) /\ \A e \in Calls \ {c} : call'[e] = call[e]
              /\ call'[c] = [step |-> "failed", op |-> op, arg |-> call[c].arg, data |-> call[c].data]
            BY <1>1, <1>2, <1>3, <2>1, RefuseKeepsTheList
        <2>3. OwnSave(call'[c])
            BY <1>1, <1>2, <2>2 DEF OwnSave, op
        <2> QED BY <1>1, <1>2, <1>3, <2>2, <2>3, EntriesStay
    <1>4. ASSUME Answer(c, Nil), HasFields(server', {"rows", "gone"}), OwnRows(server'.rows) PROVE EditorInv'
        <2>1. /\ ListPage' /\ UpToDate(call', past', view', server'.rows, EditorChanges) /\ \A e \in Calls \ {c} : call'[e] = call[e]
              /\ call'[c] = [step |-> "served", op |-> call[c].op, arg |-> call[c].arg, data |-> Nil]
            BY <1>1, <1>2, <1>4, ChangeIsUpToDate
        <2>2. OwnSave(call'[c])
            BY <1>1, <1>2, <2>1 DEF OwnSave, EditorChanges
        <2> QED
            BY <1>1, <1>2, <1>4, <2>1, <2>2 DEF EditorInv, OwnRows, OwnForm, OwnSave, entries
    <1>5. CASE ServeCreate(c)
        <2> DEFINE edited == call[c].arg.form.edited
        <2>1. PICK e \in Entries : server' = [server EXCEPT !.rows =
                  [f \in DOMAIN entries \cup {e} |-> IF f = e THEN [of |-> e, edited |-> edited] ELSE entries[f]]]
            BY <1>5 DEF ServeCreate
        <2>2. edited \in BOOLEAN
            BY <1>1, <1>2, <1>5 DEF ServeCreate, Stands, OwnSave, OwnForm, DialogForms
        <2> DEFINE rows == [f \in DOMAIN entries \cup {e} |-> IF f = e THEN [of |-> e, edited |-> edited] ELSE entries[f]]
        <2>3. OwnRows(rows)
            <3> HIDE DEF edited
            <3> QED BY <1>1, <2>2 DEF OwnRows, Content
        <2>4. server' = [server EXCEPT !.rows = rows]
            BY <2>1
        <2> HIDE DEF rows
        <2>5. HasFields(server', {"rows", "gone"}) /\ server'.rows = rows
            BY <1>1, <2>4 DEF HasFields
        <2> QED BY <1>4, <1>5, <2>3, <2>5 DEF ServeCreate
    <1>6. CASE ServeUpdate(c) /\ call[c].arg.entry \in DOMAIN entries
        <2> DEFINE e == call[c].arg.entry
                   form == call[c].arg.form
        <2>1. server' = [server EXCEPT !.rows = [entries EXCEPT ![e] = form]] /\ Answer(c, Nil)
            BY <1>6 DEF ServeUpdate, entries
        <2>2. e \in DOMAIN entries /\ form \in Content /\ form.of = e
            BY <1>1, <1>2, <1>6 DEF ServeUpdate, Stands, OwnSave, OwnForm, DialogForms, Content, OwnRows
        <2> HIDE DEF e, form
        <2>3. OwnRows([entries EXCEPT ![e] = form])
            BY <1>1, <2>2 DEF OwnRows
        <2>4. HasFields(server', {"rows", "gone"}) /\ server'.rows = [entries EXCEPT ![e] = form]
            BY <1>1, <2>1 DEF HasFields
        <2> QED BY <1>4, <2>1, <2>3, <2>4
    <1>7. CASE ServeUpdate(c) /\ call[c].arg.entry \notin DOMAIN entries
        BY <1>3, <1>7 DEF ServeUpdate
    <1>8. CASE ServeDelete(c) /\ call[c].arg.entry \in DOMAIN entries
        <2> DEFINE e == call[c].arg.entry
                   rows == [f \in DOMAIN entries \ {e} |-> entries[f]]
        <2>1. server' = [rows |-> rows, gone |-> server.gone \cup {e}] /\ Answer(c, Nil)
            BY <1>8 DEF ServeDelete
        <2>2. OwnRows(rows)
            BY <1>1 DEF OwnRows
        <2> HIDE DEF rows, e
        <2>3. HasFields(server', {"rows", "gone"}) /\ server'.rows = rows
            BY <2>1 DEF HasFields
        <2> QED BY <1>4, <2>1, <2>2, <2>3
    <1>9. CASE ServeDelete(c) /\ call[c].arg.entry \notin DOMAIN entries
        BY <1>3, <1>9 DEF ServeDelete
    <1>a. CASE RefuseStaff(c)
        BY <1>3, <1>a DEF RefuseStaff, Keep
    <1> QED BY <1>5, <1>6, <1>7, <1>8, <1>9, <1>a

LEMMA EditorSettles ==
    ASSUME EditorInv, NEW c \in Calls, ServicesSettle(c) \/ StaffSettle(c)
    PROVE  EditorInv'
    <1>1. /\ ListPage /\ HasFields(view, EditorFields) /\ UpToDate(call, past, view, entries, EditorChanges)
          /\ OwnRows(view.rows) /\ OwnForm(view.editing, view.form) /\ \A e \in Calls : OwnSave(call[e])
        BY DEF EditorInv
    <1>2. ASSUME NEW state, Reload(c, Nil, state), call[c].op # "list", HasFields(state, EditorFields),
                 state.rows = view.rows, state.editing = view.editing, state.form = view.form
          PROVE  EditorInv'
        <2>1. UNCHANGED server /\ view' = [state EXCEPT !.loading = TRUE]
            BY <1>2 DEF Reload
        <2>2. HasFields(state, {"key", "rows", "loading"})
            BY <1>2 DEF HasFields, EditorFields
        <2>3. /\ ListPage' /\ UpToDate(call', past', view', entries, EditorChanges) /\ call'[c] = Request("list", Nil)
              /\ \A e \in Calls \ {c} : call'[e] = call[e]
            BY <1>1, <1>2, <2>2, ReloadKeeps
        <2>4. /\ HasFields(view', EditorFields) /\ view'.rows = view.rows /\ view'.editing = view.editing /\ view'.form = view.form
            BY <1>2, <2>1 DEF HasFields, EditorFields
        <2>5. OwnSave(Request("list", Nil))
            BY DEF OwnSave, Request
        <2> QED BY <1>1, <2>1, <2>3, <2>4, <2>5, EntriesStay
    <1>3. ASSUME NEW op, op # "list", NEW state, FailChange(c, op, state), HasFields(state, EditorFields), state.key = view.key,
                 state.rows = view.rows, state.editing = view.editing, state.form = view.form
          PROVE  EditorInv'
        <2>1. HasFields(state, {"key", "rows", "loading"})
            BY <1>3 DEF HasFields, EditorFields
        <2>2. /\ ListPage' /\ UpToDate(call', past', view', entries, EditorChanges) /\ view' = state /\ UNCHANGED server
              /\ call'[c] = Free /\ \A e \in Calls \ {c} : call'[e] = call[e]
            BY <1>1, <1>3, <2>1, FailChangeKeeps
        <2>3. OwnSave(Free)
            BY DEF OwnSave, Free
        <2> QED BY <1>1, <1>3, <2>2, <2>3, EntriesStay
    <1> DEFINE closed == [view EXCEPT !.modal = FALSE, !.submitting = FALSE]
               idle == [view EXCEPT !.submitting = FALSE]
    <1>4. /\ HasFields(closed, EditorFields) /\ closed.rows = view.rows /\ closed.editing = view.editing /\ closed.form = view.form
          /\ HasFields(idle, EditorFields) /\ idle.rows = view.rows /\ idle.editing = view.editing /\ idle.form = view.form
          /\ idle.key = view.key
        BY <1>1 DEF HasFields, EditorFields
    <1>5. \/ call[c].op = "save" /\ Reload(c, Nil, closed)
          \/ call[c].op = "delete" /\ Reload(c, Nil, view)
          \/ FailChange(c, "save", idle) \/ FailChange(c, "delete", view)
        BY DEF ServicesSettle, StaffSettle, ReceiveSaved, Stands
    <1> HIDE DEF closed, idle
    <1> QED BY <1>1, <1>2, <1>3, <1>4, <1>5

LEMMA EditorStays == ASSUME EditorInv, UNCHANGED webVars PROVE EditorInv'
    <1>1. UNCHANGED <<call, view, server, past>>
        BY DEF webVars
    <1>2. ListPage' /\ UpToDate(call', past', view', entries, EditorChanges)
        BY <1>1, NothingChangesTheList DEF EditorInv
    <1> QED BY <1>1, <1>2, EntriesStay DEF EditorInv

LEMMA ServicesPageStep == EditorInv /\ [ServicesNext]_webVars => EditorInv'
    <1> SUFFICES ASSUME EditorInv, [ServicesNext]_webVars PROVE EditorInv'
        OBVIOUS
    <1>1. ASSUME NEW c \in Calls, ServicesAnswers(c) PROVE EditorInv'
        BY <1>1, EditorListKeeps, EditorServesKeep DEF ServicesAnswers
    <1> QED
        BY <1>1, EditorStays, EditorClicksKeep, EditorListKeeps, EditorSettles DEF ServicesNext

LEMMA StaffPageStep == EditorInv /\ [StaffNext]_webVars => EditorInv'
    <1> SUFFICES ASSUME EditorInv, [StaffNext]_webVars PROVE EditorInv'
        OBVIOUS
    <1>1. ASSUME NEW c \in Calls, StaffAnswers(c) PROVE EditorInv'
        BY <1>1, EditorListKeeps, EditorServesKeep DEF StaffAnswers
    <1> QED
        BY <1>1, EditorStays, EditorClicksKeep, EditorListKeeps, EditorSettles DEF StaffNext

(***************************************************************************)
(* The customers                                                           *)
(*                                                                         *)
(* While nothing is mixed up, the notes that are being saved are those of  *)
(* the customer whose panel is open, and whatever holds notes holds them   *)
(* for the customer they were typed about.                                 *)
(***************************************************************************)
NotesFields == {"key", "rows", "loading", "total", "selected", "editNotes", "saving"}
OwnNotes(rows) == \A client \in DOMAIN rows \cap Clients : rows[client] \in {client, Nil}

ClientsOK ==
    /\ notes = [client \in Clients |-> notes[client]]
    /\ view.selected # Nil => view.selected.id \in Clients
    /\ \A c \in Calls : Busy(c, "notes") => call[c].arg.client \in Clients

NotesHeld ==
    ~past.mixed =>
        /\ \A client \in Clients : notes[client] \in {client, Nil}
        /\ OwnNotes(view.rows) /\ (view.editNotes # Nil => view.editNotes = view.selected.id)
        /\ \A c \in Calls :
              /\ Busy(c, "notes") => call[c].arg.notes \in {call[c].arg.client, Nil} /\ call[c].arg.client = view.selected.id
              /\ call[c].op = "list" /\ call[c].step = "served" => OwnNotes(call[c].data)

NotesInv ==
    /\ page = "customers" /\ ListPage /\ HasFields(view, NotesFields)
    /\ UpToDate(call, past, view, PageRows(view.key), {"notes"})
    /\ ClientsOK /\ NotesHeld

LEMMA NotesInitInv == NotesInit => NotesInv
    <1> SUFFICES ASSUME NotesInit PROVE NotesInv
        OBVIOUS
    <1>1. /\ page = "customers" /\ MountList(FirstList) /\ view.key = FirstList /\ HasFields(view, {"key", "rows", "loading"})
          /\ HasFields(view, NotesFields) /\ view.selected = Nil /\ view.editNotes = Nil /\ view.rows = [c \in {} |-> Nil]
        BY DEF NotesInit, HasFields, NotesFields
    <1>2. PICK noted \in SUBSET Clients : notes = [c \in Clients |-> IF c \in noted THEN c ELSE Nil]
        BY DEF NotesInit, notes
    <1>3. ListPage /\ UpToDate(call, past, view, PageRows(view.key), {"notes"})
        BY <1>1, MountedIsUpToDate
    <1>4. \A c \in Calls : call[c] \in {Request("list", FirstList), Free}
        BY <1>1 DEF MountList
    <1>5. \A c \in Calls : ~Busy(c, "notes") /\ call[c].step # "served"
        BY <1>4 DEF Busy, Request, Free
    <1>6. ClientsOK /\ NotesHeld
        BY <1>1, <1>2, <1>5 DEF ClientsOK, NotesHeld, OwnNotes
    <1> QED BY <1>1, <1>3, <1>6 DEF NotesInv

\* Steps that store no notes.
LEMMA NotesStay ==
    ASSUME NotesInv, UNCHANGED <<page, server>>, ListPage', UpToDate(call', past', view', PageRows(view'.key), {"notes"}),
           HasFields(view', NotesFields), view'.selected # Nil => view'.selected.id \in Clients,
           \A e \in Calls : Busy(e, "notes")' => call'[e].arg.client \in Clients,
           ~past'.mixed =>
               /\ ~past.mixed /\ OwnNotes(view'.rows) /\ (view'.editNotes # Nil => view'.editNotes = view'.selected.id)
               /\ \A e \in Calls :
                     /\ Busy(e, "notes")' => call'[e].arg.notes \in {call'[e].arg.client, Nil}
                                             /\ call'[e].arg.client = view'.selected.id
                     /\ call'[e].op = "list" /\ call'[e].step = "served" => OwnNotes(call'[e].data)
    PROVE  NotesInv'
    <1>1. UpToDate(call, past, view, PageRows(view.key), {"notes"})'
        BY DEF PageRows, OnPage, notes
    <1>2. ClientsOK'
        BY DEF NotesInv, ClientsOK, notes
    <1>3. NotesHeld'
        BY DEF NotesInv, NotesHeld, OwnNotes, notes
    <1> QED BY <1>1, <1>2, <1>3 DEF NotesInv

LEMMA NotesLoads ==
    ASSUME NotesInv, UNCHANGED page, NEW c \in Calls, NEW key, LoadList(c, [view EXCEPT !.key = key])
    PROVE  NotesInv'
    <1> DEFINE state == [view EXCEPT !.key = key]
    <1>1. HasFields(view, NotesFields) /\ ListPage
        BY DEF NotesInv
    <1>2. /\ HasFields(state, NotesFields) /\ HasFields(state, {"key", "rows", "loading"}) /\ state.key = key /\ state.rows = view.rows
          /\ state.selected = view.selected /\ state.editNotes = view.editNotes
        BY <1>1 DEF HasFields, NotesFields
    <1>3. LoadList(c, state)
        OBVIOUS
    <1> HIDE DEF state
    <1>4. /\ ListPage' /\ UpToDate(call', past', view', PageRows(key), {"notes"})
          /\ call'[c] = Request("list", key) /\ \A e \in Calls \ {c} : call'[e] = call[e]
          /\ view' = [state EXCEPT !.loading = TRUE]
        BY <1>1, <1>2, <1>3, LoadListKeeps
    <1>5. /\ HasFields(view', NotesFields) /\ view'.key = key /\ view'.rows = view.rows /\ view'.selected = view.selected
          /\ view'.editNotes = view.editNotes
        BY <1>2, <1>4 DEF HasFields, NotesFields
    <1>6. UNCHANGED server /\ past' = [past EXCEPT !.loads = Append(past.loads, c)]
        BY <1>3 DEF LoadList
    <1>7. past'.mixed = past.mixed
        BY <1>1, <1>6 DEF ListPage, HasFields
    <1>8. ~Busy(c, "notes")' /\ call'[c].step # "served"
        BY <1>4 DEF Busy, Request
    <1>9. \A e \in Calls : Busy(e, "notes")' => Busy(e, "notes") /\ call'[e] = call[e]
        BY <1>4, <1>8 DEF Busy
    <1>a. \A e \in Calls : call'[e].step = "served" => call'[e] = call[e]
        BY <1>4, <1>8
    <1> QED
        BY <1>4, <1>5, <1>6, <1>7, <1>9, <1>a, NotesStay DEF NotesInv, ClientsOK, NotesHeld

LEMMA PanelOpens ==
    ASSUME NotesInv, UNCHANGED page, NEW client \in Clients, OpenCustomer(client)
    PROVE  NotesInv'
    <1>1. HasFields(view, NotesFields) /\ ListPage /\ UpToDate(call, past, view, PageRows(view.key), {"notes"})
        BY DEF NotesInv
    <1> DEFINE selected == [id |-> client, notes |-> view.rows[client]]
    <1>2. /\ client \in DOMAIN view.rows /\ UNCHANGED <<call, server>>
          /\ view' = [view EXCEPT !.selected = selected, !.editNotes = view.rows[client]]
          /\ past' = [past EXCEPT !.mixed = past.mixed \/ Pending("notes") # {}]
        BY DEF OpenCustomer
    <1>3. selected.id = client
        OBVIOUS
    <1> HIDE DEF selected
    <1>4. /\ HasFields(view', NotesFields) /\ view'.key = view.key /\ view'.rows = view.rows /\ view'.selected = selected
          /\ view'.editNotes = view.rows[client] /\ HasFields(view', {"key", "rows", "loading"})
        BY <1>1, <1>2 DEF HasFields, NotesFields
    <1>5. /\ HasFields(past', {"loads", "mixed"}) /\ past'.loads = past.loads /\ past'.mixed = (past.mixed \/ Pending("notes") # {})
          /\ past'.mixed \in BOOLEAN
        BY <1>1, <1>2 DEF ListPage, HasFields
    <1>6. CallsOK' /\ \A e \in Calls : (Busy(e, "list")' <=> Busy(e, "list")) /\ call'[e] = call[e]
        BY <1>1, <1>2 DEF ListPage, CallsOK, IsRequest, Busy
    <1>7. ListPage' /\ UpToDate(call', past', view', PageRows(view.key), {"notes"})
        BY <1>1, <1>4, <1>5, <1>6, ListStays
    <1>8. \A e \in Calls : Busy(e, "notes")' => Busy(e, "notes") /\ e \in Pending("notes")
        BY <1>2 DEF Busy, Pending
    <1>9. ~past'.mixed => ~past.mixed /\ view.rows[client] \in {client, Nil} /\ \A e \in Calls : ~Busy(e, "notes")'
        BY <1>2, <1>5, <1>8 DEF NotesInv, NotesHeld, OwnNotes
    <1> QED
        BY <1>2, <1>3, <1>4, <1>6, <1>7, <1>8, <1>9, NotesStay DEF NotesInv, ClientsOK, NotesHeld

LEMMA PanelKeeps ==
    ASSUME NotesInv, UNCHANGED page, NEW c \in Calls, DetailPanel(c)
    PROVE  NotesInv'
    <1>1. HasFields(view, NotesFields) /\ ListPage /\ UpToDate(call, past, view, PageRows(view.key), {"notes"})
        BY DEF NotesInv
    <1>2. ASSUME NEW text \in {view.selected.id, Nil}, Show([view EXCEPT !.editNotes = text]) PROVE NotesInv'
        <2> DEFINE state == [view EXCEPT !.editNotes = text]
        <2>1. /\ HasFields(state, NotesFields) /\ HasFields(state, {"key", "rows", "loading"}) /\ state.key = view.key
              /\ state.rows = view.rows /\ state.selected = view.selected /\ state.editNotes = text
            BY <1>1 DEF HasFields, NotesFields
        <2>2. Show(state)
            BY <1>2
        <2> HIDE DEF state
        <2>3. view' = state /\ UNCHANGED <<call, server, past>>
            BY <2>2 DEF Show
        <2>4. ListPage' /\ UpToDate(call', past', view', PageRows(view.key), {"notes"})
            BY <1>1, <2>1, <2>2, ShowKeepsTheList
        <2> QED
            BY <1>2, <2>1, <2>3, <2>4, NotesStay DEF NotesInv, ClientsOK, NotesHeld, Busy
    <1>3. CASE SaveNotes(c)
        <2> DEFINE arg == [client |-> view.selected.id, notes |-> view.editNotes, key |-> view.key]
        <2>1. /\ view.selected # Nil /\ Send(c, "notes", arg) /\ UNCHANGED <<server, past>>
              /\ view' = [view EXCEPT !.saving = TRUE]
            BY <1>3 DEF SaveNotes
        <2>2. arg.client = view.selected.id /\ arg.notes = view.editNotes
            OBVIOUS
        <2> HIDE DEF arg
        <2>3. /\ HasFields(view', NotesFields) /\ view'.key = view.key /\ view'.rows = view.rows /\ view'.selected = view.selected
              /\ view'.editNotes = view.editNotes /\ HasFields(view', {"key", "rows", "loading"})
            BY <1>1, <2>1 DEF HasFields, NotesFields
        <2>4. /\ HasFields(past', {"loads", "mixed"}) /\ past'.loads = past.loads /\ past'.mixed \in BOOLEAN
              /\ (past.mixed => past'.mixed) /\ "notes" # "list"
            BY <1>1, <2>1 DEF ListPage
        <2>5. /\ ListPage' /\ UpToDate(call', past', view', PageRows(view.key), {"notes"})
              /\ call'[c] = Request("notes", arg) /\ \A e \in Calls \ {c} : call'[e] = call[e]
            <3>1. ListPage /\ UpToDate(call, past, view, PageRows(view.key), {"notes"}) /\ Send(c, "notes", arg)
                BY <1>1, <2>1
            <3> QED BY <2>3, <2>4, <3>1, Zenon, SendKeepsTheList
        <2>6. call'[c].arg = arg /\ call'[c].step # "served"
            BY <2>5 DEF Request
        <2>7. \A e \in Calls \ {c} : Busy(e, "notes")' => Busy(e, "notes") /\ call'[e] = call[e]
            BY <2>5 DEF Busy
        <2>8. arg.client \in Clients
            BY <2>1, <2>2 DEF NotesInv, ClientsOK
        <2>9. \A e \in Calls : Busy(e, "notes")' => call'[e].arg.client \in Clients
            BY <2>6, <2>7, <2>8 DEF NotesInv, ClientsOK
        <2>a. ASSUME ~past'.mixed
              PROVE  /\ ~past.mixed /\ OwnNotes(view'.rows) /\ (view'.editNotes # Nil => view'.editNotes = view'.selected.id)
                     /\ \A e \in Calls :
                           /\ Busy(e, "notes")' => call'[e].arg.notes \in {call'[e].arg.client, Nil}
                                                   /\ call'[e].arg.client = view'.selected.id
                           /\ call'[e].op = "list" /\ call'[e].step = "served" => OwnNotes(call'[e].data)
            <3>1. ~past.mixed /\ OwnNotes(view'.rows) /\ (view'.editNotes # Nil => view'.editNotes = view'.selected.id)
                BY <2>1, <2>3, <2>a DEF NotesInv, NotesHeld
            <3>2. \A e \in Calls : Busy(e, "notes")' => call'[e].arg.notes \in {call'[e].arg.client, Nil}
                                                        /\ call'[e].arg.client = view'.selected.id
                BY <2>2, <2>3, <2>6, <2>7, <3>1 DEF NotesInv, NotesHeld
            <3>3. \A e \in Calls : call'[e].op = "list" /\ call'[e].step = "served" => OwnNotes(call'[e].data)
                BY <2>5, <2>6, <3>1 DEF NotesInv, NotesHeld
            <3> QED BY <3>1, <3>2, <3>3
        <2> QED BY <2>1, <2>3, <2>5, <2>9, <2>a, NotesStay DEF NotesInv, ClientsOK
    <1> QED BY <1>2, <1>3 DEF DetailPanel

\* The loads of the list, and requests that end in a failure.
LEMMA ClientsListKeeps ==
    ASSUME NotesInv, UNCHANGED page, NEW c \in Calls,
           \/ AnswerList(c, PageRows(call[c].arg)) \/ ReceiveClients(c) \/ FailList(c, [d \in {} |-> Nil])
           \/ FailChange(c, "notes", [view EXCEPT !.saving = FALSE]) \/ LoseInList(c)
    PROVE  NotesInv'
    <1>1. /\ HasFields(view, NotesFields) /\ ListPage /\ UpToDate(call, past, view, PageRows(view.key), {"notes"})
          /\ "list" \notin {"notes"} /\ "notes" # "list"
        BY DEF NotesInv
    <1>f. HasFields(view, {"key", "rows", "loading"})
        BY <1>1 DEF ListPage
    <1>2. ASSUME UNCHANGED server, ListPage', UpToDate(call', past', view', PageRows(view.key), {"notes"}), HasFields(view', NotesFields),
                 view'.key = view.key, view'.selected = view.selected, view'.editNotes = view.editNotes,
                 \A e \in Calls \ {c} : call'[e] = call[e],
                 Busy(c, "notes")' => Busy(c, "notes") /\ call'[c].arg = call[c].arg,
                 ~past'.mixed => ~past.mixed /\ OwnNotes(view'.rows),
                 ~past'.mixed => (call'[c].op = "list" /\ call'[c].step = "served" => OwnNotes(call'[c].data))
          PROVE  NotesInv'
        <2>1. \A e \in Calls : Busy(e, "notes")' => Busy(e, "notes") /\ call'[e].arg = call[e].arg
            BY <1>2 DEF Busy
        <2>2. ~past'.mixed => \A e \in Calls : call'[e].op = "list" /\ call'[e].step = "served" => OwnNotes(call'[e].data)
            BY <1>2 DEF NotesInv, NotesHeld
        <2>3. ~past'.mixed => \A e \in Calls : Busy(e, "notes")' => call'[e].arg.notes \in {call'[e].arg.client, Nil}
                                                                    /\ call'[e].arg.client = view'.selected.id
            BY <1>2, <2>1 DEF NotesInv, NotesHeld
        <2>4. ~past'.mixed => (view'.editNotes # Nil => view'.editNotes = view'.selected.id)
            BY <1>2 DEF NotesInv, NotesHeld
        <2>5. \A e \in Calls : Busy(e, "notes")' => call'[e].arg.client \in Clients
            BY <2>1 DEF NotesInv, ClientsOK
        <2> QED BY <1>2, <2>2, <2>3, <2>4, <2>5, NotesStay DEF NotesInv, ClientsOK
    <1>3. CASE AnswerList(c, PageRows(call[c].arg))
        <2> DEFINE data == PageRows(call[c].arg)
        <2>1. UNCHANGED <<view, server, past>> /\ call[c].op = "list"
            BY <1>3 DEF AnswerList, Keep, Stands
        <2>2. ~past.mixed => OwnNotes(data) /\ OwnNotes(view.rows)
            BY DEF NotesInv, NotesHeld, OwnNotes, PageRows
        <2>3. call[c].arg = view.key => data = PageRows(view.key)
            OBVIOUS
        <2> HIDE DEF data
        <2>4. AnswerList(c, data)
            BY <1>3 DEF data
        <2>5. /\ ListPage' /\ UpToDate(call', past', view', PageRows(view.key), {"notes"}) /\ \A e \in Calls \ {c} : call'[e] = call[e]
              /\ call'[c] = [step |-> "served", op |-> "list", arg |-> call[c].arg, data |-> data]
            BY <1>1, <2>3, <2>4, AnswerListKeeps
        <2>6. ~Busy(c, "notes")' /\ call'[c].data = data
            BY <2>5 DEF Busy
        <2> QED BY <1>1, <1>2, <2>1, <2>2, <2>5, <2>6
    <1>4. CASE ReceiveClients(c)
        <2>1. /\ Stands(c, "list", "served") /\ SettleList(c) /\ UNCHANGED server
              /\ view' = [view EXCEPT !.rows = call[c].data, !.total = Len(Visitors), !.loading = FALSE]
              /\ past' = [past EXCEPT !.loads = Without(past.loads, c), !.mixed = past.mixed \/ Head(past.loads) # c]
            BY <1>4 DEF ReceiveClients, SettleList
        <2>2. /\ HasFields(view', NotesFields) /\ HasFields(view', {"key", "rows", "loading"}) /\ view'.key = view.key
              /\ view'.rows = call[c].data /\ view'.selected = view.selected /\ view'.editNotes = view.editNotes
            BY <1>1, <2>1 DEF HasFields, NotesFields
        <2>3. /\ ListPage' /\ UpToDate(call', past', view', PageRows(view.key), {"notes"})
              /\ call'[c] = Free /\ \A e \in Calls \ {c} : call'[e] = call[e]
            BY <1>1, <2>1, <2>2, SettleListKeeps
        <2>4. ~past'.mixed => ~past.mixed
            BY <1>1, <2>1 DEF ListPage, HasFields
        <2>5. ~past.mixed => OwnNotes(call[c].data)
            BY <2>1 DEF Stands, NotesInv, NotesHeld
        <2>6. ~Busy(c, "notes")' /\ call'[c].step # "served"
            BY <2>3 DEF Busy, Free
        <2> QED BY <1>2, <2>1, <2>2, <2>3, <2>4, <2>5, <2>6
    <1>5. CASE FailList(c, [d \in {} |-> Nil])
        <2> DEFINE none == [d \in {} |-> Nil]
        <2>0. FailList(c, none)
            BY <1>5
        <2> HIDE DEF none
        <2>1. /\ ListPage' /\ UpToDate(call', past', view', PageRows(view.key), {"notes"}) /\ call'[c] = Free
              /\ \A e \in Calls \ {c} : call'[e] = call[e]
              /\ view' = [view EXCEPT !.rows = none, !.loading = FALSE]
            BY <1>1, <2>0, FailListKeeps
        <2>2. /\ HasFields(view', NotesFields) /\ view'.key = view.key /\ view'.selected = view.selected /\ view'.editNotes = view.editNotes
            BY <1>1, <2>1 DEF HasFields, NotesFields
        <2>3. UNCHANGED server /\ past'.mixed
            <3>1. past' = [past EXCEPT !.loads = Without(past.loads, c), !.mixed = TRUE]
                BY <2>0 DEF FailList
            <3> QED BY <1>1, <2>0, <3>1 DEF FailList, ListPage, HasFields
        <2>4. ~Busy(c, "notes")'
            BY <2>1 DEF Busy, Free
        <2> QED BY <1>2, <2>1, <2>2, <2>3, <2>4
    <1>6. CASE FailChange(c, "notes", [view EXCEPT !.saving = FALSE])
        <2> DEFINE state == [view EXCEPT !.saving = FALSE]
        <2>1. /\ HasFields(state, NotesFields) /\ HasFields(state, {"key", "rows", "loading"}) /\ state.key = view.key
              /\ state.rows = view.rows /\ state.selected = view.selected /\ state.editNotes = view.editNotes
            BY <1>1 DEF HasFields, NotesFields
        <2>2. FailChange(c, "notes", state)
            BY <1>6
        <2> HIDE DEF state
        <2>3. /\ ListPage' /\ UpToDate(call', past', view', PageRows(view.key), {"notes"}) /\ view' = state /\ UNCHANGED <<server, past>>
              /\ call'[c] = Free /\ \A e \in Calls \ {c} : call'[e] = call[e]
            BY <1>1, <2>1, <2>2, FailChangeKeeps
        <2>4. ~Busy(c, "notes")' /\ call'[c].step # "served"
            BY <2>3 DEF Busy, Free
        <2>5. ~past.mixed => OwnNotes(view.rows)
            BY DEF NotesInv, NotesHeld
        <2> QED BY <1>2, <2>1, <2>3, <2>4, <2>5
    <1>7. CASE LoseInList(c)
        <2>1. /\ ListPage' /\ UpToDate(call', past', view', PageRows(view.key), {"notes"}) /\ UNCHANGED <<view, server>>
              /\ call[c].step \in {"sent", "served"} /\ \A e \in Calls \ {c} : call'[e] = call[e]
            BY <1>1, <1>7, LoseInListKeeps
        <2>2. call'[c] = [step |-> "failed", op |-> call[c].op, arg |-> call[c].arg, data |-> Nil]
            BY <1>1, <1>7, LoseInListKeeps
        <2>3. past'.mixed
            BY <1>1, <1>7 DEF LoseInList, ListPage, HasFields
        <2>4. Busy(c, "notes")' => Busy(c, "notes") /\ call'[c].arg = call[c].arg
            BY <2>1, <2>2 DEF Busy
        <2> QED BY <1>1, <1>2, <2>1, <2>3, <2>4
    <1> QED BY <1>3, <1>4, <1>5, <1>6, <1>7

LEMMA NotesAreStored ==
    ASSUME NotesInv, UNCHANGED page, NEW c \in Calls, ServeNotes(c)
    PROVE  NotesInv'
    <1>1. HasFields(view, NotesFields) /\ ListPage /\ "list" \notin {"notes"}
        BY DEF NotesInv
    <1> DEFINE client == call[c].arg.client
               text == call[c].arg.notes
    <1>2. /\ call[c].op = "notes" /\ call[c].step = "sent" /\ UNCHANGED <<view, past>> /\ Answer(c, Nil)
          /\ server' = IF text = Nil THEN server ELSE [server EXCEPT ![client] = text]
        BY DEF ServeNotes, Stands
    <1>3. Busy(c, "notes") /\ client \in Clients /\ (~past.mixed => text \in {client, Nil})
        BY <1>2 DEF Busy, NotesInv, ClientsOK, NotesHeld
    <1> HIDE DEF client, text
    <1>4. /\ server' = [d \in Clients |-> server'[d]]
          /\ ~past.mixed => \A d \in Clients : server'[d] \in {d, Nil}
        BY <1>2, <1>3 DEF NotesInv, ClientsOK, NotesHeld, notes
    <1>5. /\ ListPage' /\ UpToDate(call', past', view', PageRows(view.key)', {"notes"}) /\ \A e \in Calls \ {c} : call'[e] = call[e]
          /\ call'[c] = [step |-> "served", op |-> call[c].op, arg |-> call[c].arg, data |-> Nil]
        BY <1>1, <1>2, ChangeIsUpToDate
    <1>6. /\ \A e \in Calls : Busy(e, "notes")' => Busy(e, "notes") /\ call'[e].arg = call[e].arg
          /\ \A e \in Calls : call'[e].op = "list" => call'[e] = call[e]
        BY <1>2, <1>5 DEF Busy
    <1>7. ClientsOK'
        BY <1>2, <1>4, <1>6 DEF NotesInv, ClientsOK, notes
    <1>8. ~past.mixed => OwnNotes(view.rows) /\ \A e \in Calls : call[e].op = "list" /\ call[e].step = "served" => OwnNotes(call[e].data)
        BY DEF NotesInv, NotesHeld
    <1>9. ~past.mixed => \A e \in Calls : call'[e].op = "list" /\ call'[e].step = "served" => OwnNotes(call'[e].data)
        BY <1>6, <1>8
    <1>a. ~past.mixed => \A e \in Calls : Busy(e, "notes")' => call'[e].arg.notes \in {call'[e].arg.client, Nil}
                                                               /\ call'[e].arg.client = view.selected.id
        BY <1>6 DEF NotesInv, NotesHeld
    <1>b. NotesHeld'
        BY <1>2, <1>4, <1>8, <1>9, <1>a DEF NotesInv, NotesHeld, OwnNotes, notes
    <1> QED BY <1>1, <1>2, <1>5, <1>7, <1>b DEF NotesInv

LEMMA NotesAreSaved ==
    ASSUME NotesInv, UNCHANGED page, NEW c \in Calls, ReceiveNotes(c)
    PROVE  NotesInv'
    <1>1. HasFields(view, NotesFields) /\ ListPage
        BY DEF NotesInv
    <1> DEFINE selected == [id |-> call[c].arg.client, notes |-> call[c].arg.notes]
               state == [view EXCEPT !.selected = selected, !.saving = FALSE]
               key == call[c].arg.key
    <1>2. call[c].op = "notes" /\ call[c].step = "served" /\ Reload(c, key, state)
        BY DEF ReceiveNotes, Stands
    <1>3. Busy(c, "notes") /\ call[c].arg.client \in Clients /\ (~past.mixed => call[c].arg.client = view.selected.id)
        BY <1>2 DEF Busy, NotesInv, ClientsOK, NotesHeld
    <1>4. selected.id = call[c].arg.client
        OBVIOUS
    <1> HIDE DEF selected, key
    <1>5. /\ HasFields(state, NotesFields) /\ HasFields(state, {"key", "rows", "loading"}) /\ state.key = view.key /\ state.rows = view.rows
          /\ state.selected = selected /\ state.editNotes = view.editNotes
        BY <1>1 DEF HasFields, NotesFields
    <1> HIDE DEF state
    <1>6. /\ UNCHANGED server /\ view' = [state EXCEPT !.loading = TRUE]
          /\ past' = [past EXCEPT !.loads = Append(past.loads, c), !.mixed = past.mixed \/ key # state.key]
        BY <1>2 DEF Reload
    <1>7. /\ ListPage' /\ UpToDate(call', past', view', PageRows(view.key), {"notes"}) /\ call'[c] = Request("list", key)
          /\ \A e \in Calls \ {c} : call'[e] = call[e]
        BY <1>1, <1>2, <1>5, ReloadKeeps
    <1>8. /\ HasFields(view', NotesFields) /\ view'.key = view.key /\ view'.rows = view.rows /\ view'.selected = selected
          /\ view'.editNotes = view.editNotes
        BY <1>5, <1>6 DEF HasFields, NotesFields
    <1>9. ~past'.mixed => ~past.mixed
        BY <1>1, <1>6 DEF ListPage, HasFields
    <1>a. ~Busy(c, "notes")' /\ call'[c].step # "served"
        BY <1>7 DEF Busy, Request
    <1>b. /\ \A e \in Calls : Busy(e, "notes")' => Busy(e, "notes") /\ call'[e] = call[e]
          /\ \A e \in Calls : call'[e].step = "served" => call'[e] = call[e]
        BY <1>7, <1>a DEF Busy
    <1>c. \A e \in Calls : Busy(e, "notes")' => call'[e].arg.client \in Clients
        BY <1>b DEF NotesInv, ClientsOK
    <1>d. ~past'.mixed => selected.id = view.selected.id
        BY <1>3, <1>4, <1>9
    <1>e. ~past'.mixed =>
              /\ ~past.mixed /\ OwnNotes(view'.rows) /\ (view'.editNotes # Nil => view'.editNotes = view'.selected.id)
              /\ \A e \in Calls :
                    /\ Busy(e, "notes")' => call'[e].arg.notes \in {call'[e].arg.client, Nil}
                                            /\ call'[e].arg.client = view'.selected.id
                    /\ call'[e].op = "list" /\ call'[e].step = "served" => OwnNotes(call'[e].data)
        BY <1>8, <1>9, <1>b, <1>d DEF NotesInv, NotesHeld
    <1> QED BY <1>3, <1>4, <1>6, <1>7, <1>8, <1>c, <1>e, NotesStay

LEMMA NotesStep == NotesInv /\ [NotesNext]_webVars => NotesInv'
    <1> SUFFICES ASSUME NotesInv, [NotesNext]_webVars PROVE NotesInv'
        OBVIOUS
    <1>1. CASE UNCHANGED webVars
        <2>1. UNCHANGED <<page, call, view, server, past>>
            BY <1>1 DEF webVars
        <2>2. ListPage' /\ UpToDate(call', past', view', PageRows(view.key), {"notes"})
            BY <2>1, NothingChangesTheList DEF NotesInv
        <2> QED BY <2>1, <2>2, NotesStay DEF NotesInv, ClientsOK, NotesHeld, Busy
    <1>2. CASE NotesNext
        <2>1. UNCHANGED page
            BY <1>2 DEF NotesNext
        <2>2. ASSUME NEW c \in Calls, NEW q \in Queries \cup {Nil}, SearchBox(c, q) PROVE NotesInv'
            BY <2>1, <2>2, NotesLoads DEF SearchBox
        <2>3. ASSUME NEW c \in Calls, Pagination(c) PROVE NotesInv'
            <3>1. \E number : LoadList(c, [view EXCEPT !.key = [view.key EXCEPT !.page = number]])
                BY <2>3 DEF Pagination
            <3> QED BY <2>1, <3>1, NotesLoads
        <2>4. ASSUME NEW c \in Calls, NotesAnswers(c) \/ LoseInList(c) PROVE NotesInv'
            BY <2>1, <2>4, ClientsListKeeps, NotesAreStored, NotesAreSaved DEF NotesAnswers
        <2> QED BY <1>2, <2>1, <2>2, <2>3, <2>4, PanelOpens, PanelKeeps DEF NotesNext
    <1> QED BY <1>1, <1>2

(***************************************************************************)
(* The lists and their dialogs                                             *)
(*                                                                         *)
(* Whichever list page is mounted keeps what was proved of it above, and   *)
(* no step leaves the page.                                                *)
(***************************************************************************)
ListsInv ==
    /\ page = "inventory" => RoomInv
    /\ page = "memberships" => MembershipInv
    /\ page = "gift-cards" => DeskInv
    /\ page \in {"services", "staff"} => EditorInv
    /\ page = "calendar" => CalendarInv
    /\ page = "payments" => PaymentsInv
    /\ page = "reviews" => ReplyInv
    /\ page = "customers" => NotesInv
    /\ page = "explore" => ExploreInv

LEMMA ListsInitInv == SiteInit => ListsInv
    <1> SUFFICES ASSUME SiteInit PROVE ListsInv
        OBVIOUS
    <1>1. CASE ListsInit
        <2>1. CASE RoomInit
            BY <2>1, RoomInitInv DEF RoomInit, ListsInv
        <2>2. CASE MembershipInit
            BY <2>2, MembershipInitInv DEF MembershipInit, ListsInv
        <2>3. CASE DeskInit
            BY <2>3, DeskInitInv DEF DeskInv, DeskShape, ListsInv
        <2>4. CASE ServicesInit \/ StaffInit
            BY <2>4, EditorInitInv DEF ServicesInit, StaffInit, ListsInv
        <2>5. CASE CalendarInit
            BY <2>5, CalendarInitInv DEF CalendarInit, ListsInv
        <2>6. CASE PaymentsInit
            BY <2>6, PaymentsInitInv DEF PaymentsInit, ListsInv
        <2>7. CASE ReplyInit
            BY <2>7, ReplyInitInv DEF ReplyInit, ListsInv
        <2>8. CASE NotesInit
            BY <2>8, NotesInitInv DEF NotesInit, ListsInv
        <2> QED BY <1>1, <2>1, <2>2, <2>3, <2>4, <2>5, <2>6, <2>7, <2>8 DEF ListsInit
    <1>2. CASE ExploreInit
        BY <1>2, ExploreInitInv DEF ExploreInit, ListsInv
    <1>3. ASSUME page \in {"book", "visits", "profile", "verification", "onboarding"} PROVE ListsInv
        BY <1>3 DEF ListsInv
    <1>4. CASE BookInit \/ VisitInit \/ ProfileInit \/ VerificationInit \/ OnboardingInit
        <2>1. page \in {"book", "visits", "profile", "verification", "onboarding"}
            BY <1>4 DEF BookInit, VisitInit, ProfileInit, VerificationInit, OnboardingInit
        <2> QED BY <1>3, <2>1
    <1> QED BY <1>1, <1>2, <1>4 DEF SiteInit

\* Only the page that is mounted moves, and it stays.
LEMMA OnePageMoves ==
    ASSUME [SiteNext]_webVars
    PROVE  /\ UNCHANGED page
           /\ page = "inventory" => [RoomNext]_webVars
           /\ page = "memberships" => [MembershipNext]_webVars
           /\ page = "gift-cards" => [DeskNext]_webVars
           /\ page = "services" => [ServicesNext]_webVars
           /\ page = "staff" => [StaffNext]_webVars
           /\ page = "calendar" => [CalendarNext]_webVars
           /\ page = "payments" => [PaymentsNext]_webVars
           /\ page = "reviews" => [ReplyNext]_webVars
           /\ page = "customers" => [NotesNext]_webVars
           /\ page = "explore" => [ExploreNext]_webVars
           /\ page = "book" => [BookNext]_webVars
           /\ page = "profile" => [ProfileNext]_webVars
           /\ page = "visits" => [VisitNext]_webVars
           /\ page = "verification" => [VerificationNext]_webVars
           /\ page = "onboarding" => [OnboardingNext]_webVars
    <1>1. /\ RoomNext => page = "inventory" /\ UNCHANGED page
          /\ MembershipNext => page = "memberships" /\ UNCHANGED page
          /\ DeskNext => page = "gift-cards" /\ UNCHANGED page
          /\ ServicesNext => page = "services" /\ UNCHANGED page
          /\ StaffNext => page = "staff" /\ UNCHANGED page
        BY DEF RoomNext, MembershipNext, DeskNext, ServicesNext, StaffNext
    <1>2. /\ CalendarNext => page = "calendar" /\ UNCHANGED page
          /\ PaymentsNext => page = "payments" /\ UNCHANGED page
          /\ ReplyNext => page = "reviews" /\ UNCHANGED page
          /\ NotesNext => page = "customers" /\ UNCHANGED page
          /\ ExploreNext => page = "explore" /\ UNCHANGED page
        BY DEF CalendarNext, PaymentsNext, ReplyNext, NotesNext, ExploreNext
    <1>3. /\ BookNext => page = "book" /\ UNCHANGED page
          /\ ProfileNext => page = "profile" /\ UNCHANGED page
          /\ VisitNext => page = "visits" /\ UNCHANGED page
          /\ VerificationNext => page = "verification" /\ UNCHANGED page
          /\ OnboardingNext => page = "onboarding" /\ UNCHANGED page
        BY DEF BookNext, ProfileNext, VisitNext, VerificationNext, OnboardingNext
    <1>4. UNCHANGED webVars => UNCHANGED page
        BY DEF webVars
    <1> QED BY <1>1, <1>2, <1>3, <1>4 DEF SiteNext, ListsNext


LEMMA ListsStep == ListsInv /\ [SiteNext]_webVars => ListsInv'
    <1> SUFFICES ASSUME ListsInv, [SiteNext]_webVars PROVE ListsInv'
        OBVIOUS
    <1>1. /\ page = "inventory" => RoomInv'
          /\ page = "memberships" => MembershipInv'
          /\ page = "gift-cards" => DeskInv'
        BY OnePageMoves, RoomStep, MembershipStep, DeskStep DEF ListsInv
    <1>2. page \in {"services", "staff"} => EditorInv'
        BY OnePageMoves, ServicesPageStep, StaffPageStep DEF ListsInv
    <1>3. /\ page = "calendar" => CalendarInv'
          /\ page = "payments" => PaymentsInv'
          /\ page = "reviews" => ReplyInv'
        BY OnePageMoves, CalendarStep, PaymentsStep, ReplyStep DEF ListsInv
    <1>4. /\ page = "customers" => NotesInv'
          /\ page = "explore" => ExploreInv'
        BY OnePageMoves, NotesStep, ExploreStep DEF ListsInv
    <1> QED BY OnePageMoves, <1>1, <1>2, <1>3, <1>4 DEF ListsInv

LEMMA GridIsCurrent == page = "calendar" /\ CalendarInv => GridShowsEachDay
    <1> SUFFICES ASSUME CalendarInv, NEW d \in DOMAIN Grid
                 PROVE  /\ \A r \in Grid[d] : r.date = d
                        /\ ~past.mixed /\ Quiet => \A a \in Appointments : booked[a] = d => [id |-> a, date |-> d] \in Grid[d]
        BY DEF GridShowsEachDay
    <1>1. d \in Columns(view.key) /\ Grid[d] = {r \in view.rows : r.date = d}
        BY DEF Grid, GetDayAppts
    <1>2. ~past.mixed /\ Quiet => view.rows = CalendarRows(view.key)
        BY UpToDateIsCurrent DEF CalendarInv, Current
    <1>3. ASSUME view.rows = CalendarRows(view.key), NEW a \in Appointments, booked[a] = d PROVE [id |-> a, date |-> d] \in Grid[d]
        BY <1>1, <1>3 DEF CalendarRows, Between
    <1> QED BY <1>1, <1>2, <1>3

\* What the list pages show is what the server finds for the filter, the search or
\* the date that is set: for any number of requests under way, in whatever order
\* they are answered, with the exceptions that ListsAreCurrent names.
THEOREM ListsAreCurrentAlways == SiteSpec => []ListsAreCurrent
    <1>1. ListsInv => ListsAreCurrent
        <2> SUFFICES ASSUME ListsInv PROVE ListsAreCurrent
            OBVIOUS
        <2>1. InventoryIsCurrent
            BY UpToDateIsCurrent DEF ListsInv, RoomInv, InventoryIsCurrent
        <2>2. MembershipsAreCurrent
            BY UpToDateIsCurrent DEF ListsInv, MembershipInv, MembershipsAreCurrent
        <2>3. GiftCardsAreCurrent
            BY UpToDateIsCurrent DEF ListsInv, DeskInv, DeskShape, GiftCardsAreCurrent
        <2>4. ServicesAreCurrent /\ (page = "staff" => Current(entries))
            BY UpToDateIsCurrent DEF ListsInv, EditorInv, ServicesAreCurrent
        <2>5. StaffAreCurrent
            BY <2>4 DEF ListsInv, EditorInv, OwnRows, StaffAreCurrent, KeepsIdentity
        <2>6. ResultsAreOfTheSearch
            BY UpToDateIsCurrent DEF ListsInv, ExploreInv, ResultsAreOfTheSearch
        <2>7. GridShowsEachDay
            BY GridIsCurrent DEF ListsInv, GridShowsEachDay
        <2>8. LookupAnswersTheLastQuestion
            BY DEF ListsInv, DeskInv, DeskChecks, LookupAnswersTheLastQuestion
        <2>9. EachPaymentIsRefundedOnce
            <3>1. page = "payments" => Current(status)
                BY UpToDateIsCurrent DEF ListsInv, PaymentsInv
            <3>2. page = "payments" /\ ~past.mixed => \A c, d \in Pending("refund") : c = d
                BY DEF ListsInv, PaymentsInv, OneRefund, Pending, Busy
            <3> QED BY <3>1, <3>2 DEF EachPaymentIsRefundedOnce
        <2> QED
            BY <2>1, <2>2, <2>3, <2>4, <2>5, <2>6, <2>7, <2>8, <2>9 DEF ListsAreCurrent
    <1> QED BY <1>1, ListsInitInv, ListsStep, PTL DEF SiteSpec

\* A service, a public reply and the notes about a customer are stored for the row
\* whose dialog, form or panel they were typed in, whatever was opened, filtered
\* away or answered late meanwhile.
THEOREM DialogsKeepToTheirRowAlways == SiteSpec => []DialogsKeepToTheirRow
    <1>1. ListsInv => DialogsKeepToTheirRow
        <2> SUFFICES ASSUME ListsInv PROVE DialogsKeepToTheirRow
            OBVIOUS
        <2>1. ServicesKeepTheirIdentity
            BY DEF ListsInv, EditorInv, OwnRows, ServicesKeepTheirIdentity, KeepsIdentity
        <2>2. RepliesStayWithTheirReview
            <3>1. page = "reviews" => Current(reply)
                BY UpToDateIsCurrent DEF ListsInv, ReplyInv
            <3>2. page = "reviews" => \A p \in Posts : reply[p] \in {p, Nil}
                BY DEF ListsInv, ReplyInv, OwnReplies
            <3> QED BY <3>1, <3>2 DEF RepliesStayWithTheirReview
        <2>3. NotesStayWithTheirClient
            <3>1. page = "customers" => Current(PageRows(view.key))
                BY UpToDateIsCurrent DEF ListsInv, NotesInv
            <3>2. page = "customers" /\ ~past.mixed => \A client \in Clients : notes[client] \in {client, Nil}
                BY DEF ListsInv, NotesInv, NotesHeld
            <3> QED BY <3>1, <3>2 DEF NotesStayWithTheirClient
        <2> QED BY <2>1, <2>2, <2>3 DEF DialogsKeepToTheirRow
    <1> QED BY <1>1, ListsInitInv, ListsStep, PTL DEF SiteSpec

(***************************************************************************)
(* The types of the list pages                                             *)
(***************************************************************************)
RoomArgs == [list |-> Filters, create |-> NewProducts, move |-> Movements]
RoomResults == [list |-> PieceRows, create |-> {Nil}, move |-> {Nil}]
RoomServer == [pieces : PieceRows, filed : [Articles -> Categories]]
RoomTypes == PageTyped(RoomArgs, RoomResults, RoomView, RoomServer)

LEMMA RoomKinds ==
    /\ DOMAIN RoomArgs = {"list", "create", "move"}
    /\ RoomArgs["list"] = Filters /\ RoomArgs["create"] = NewProducts /\ RoomArgs["move"] = Movements
    /\ RoomResults["list"] = PieceRows /\ RoomResults["create"] = {Nil} /\ RoomResults["move"] = {Nil}
    BY DEF RoomArgs, RoomResults

LEMMA PieceRowsOf ==
    ASSUME NEW listed \in SUBSET Articles, NEW rows \in [listed -> 0 .. MaxPieces]
    PROVE  rows \in PieceRows
    BY DEF PieceRows

LEMMA MatchingIsTyped ==
    ASSUME server \in RoomServer, NEW filter
    PROVE  Matching(filter) \in PieceRows
    <1>1. pieces \in PieceRows
        BY DEF RoomServer, pieces
    <1>2. PICK listed \in SUBSET Articles : pieces \in [listed -> 0 .. MaxPieces]
        BY <1>1 DEF PieceRows
    <1> DEFINE match == {b \in DOMAIN pieces : (filter.low => pieces[b] <= LowMark) /\ (filter.category # Nil => filed[b] = filter.category)}
    <1>3. match \in SUBSET Articles /\ match \subseteq listed
        BY <1>2
    <1>4. Matching(filter) = [a \in match |-> pieces[a]]
        BY DEF Matching
    <1> HIDE DEF match
    <1>5. [a \in match |-> pieces[a]] \in [match -> 0 .. MaxPieces]
        BY <1>2, <1>3
    <1> QED BY <1>3, <1>4, <1>5, PieceRowsOf

LEMMA ServeMovementTyped ==
    ASSUME RoomTypes, NEW c \in Calls, ServeMovement(c)
    PROVE  RoomTypes'
    <1>0. Typed(RoomArgs, RoomResults) /\ server \in RoomServer /\ Stands(c, "move", "sent") /\ UNCHANGED <<view, past>>
        BY DEF RoomTypes, PageTyped, ListTyped, ServeMovement
    <1>1. call[c].arg \in Movements
        BY <1>0, ArgsAndData, RoomKinds
    <1> DEFINE a == call[c].arg.article
               after == pieces[a] + call[c].arg.change
    <1>2. pieces \in PieceRows /\ server = [pieces |-> pieces, filed |-> filed] /\ filed \in [Articles -> Categories]
        BY <1>0 DEF RoomServer, pieces, filed
    <1>3. PICK listed \in SUBSET Articles : pieces \in [listed -> 0 .. MaxPieces]
        BY <1>2 DEF PieceRows
    <1>4. CASE Refuse(c) /\ UNCHANGED server
        BY <1>0, <1>4, RoomKinds, ServeTyped DEF RoomTypes
    <1>5. CASE /\ ~(after < 0) /\ after <= MaxPieces /\ Answer(c, Nil)
               /\ server' = [server EXCEPT !.pieces[a] = after]
        <2>1. call[c].arg.change \in Int
            BY <1>1 DEF Movements
        <2>2. a \in listed => after \in 0 .. MaxPieces
            BY <1>3, <1>5, <2>1, StockRoomAssumption
        <2> HIDE DEF after, a
        <2>3. [pieces EXCEPT ![a] = after] \in [listed -> 0 .. MaxPieces]
            BY <1>3, <2>2
        <2>4. [pieces EXCEPT ![a] = after] \in PieceRows
            BY <2>3, PieceRowsOf
        <2>5. server' = [pieces |-> [pieces EXCEPT ![a] = after], filed |-> filed]
            BY <1>2, <1>5 DEF pieces
        <2>6. server' \in RoomServer
            BY <1>2, <2>4, <2>5 DEF RoomServer
        <2> QED BY <1>0, <1>5, <2>6, RoomKinds, ServeTyped DEF RoomTypes
    <1> QED BY <1>4, <1>5 DEF ServeMovement

LEMMA ServeProductTyped ==
    ASSUME RoomTypes, NEW c \in Calls, ServeProduct(c)
    PROVE  RoomTypes'
    <1>0. Typed(RoomArgs, RoomResults) /\ server \in RoomServer /\ Stands(c, "create", "sent") /\ Answer(c, Nil) /\ UNCHANGED <<view, past>>
        BY DEF RoomTypes, PageTyped, ListTyped, ServeProduct
    <1>1. call[c].arg \in NewProducts
        BY <1>0, ArgsAndData, RoomKinds
    <1>2. pieces \in PieceRows /\ filed \in [Articles -> Categories]
        BY <1>0 DEF RoomServer, pieces, filed
    <1>3. PICK listed \in SUBSET Articles : pieces \in [listed -> 0 .. MaxPieces]
        BY <1>2 DEF PieceRows
    <1>4. PICK a \in Articles :
              server' = [pieces |-> [b \in DOMAIN pieces \cup {a} |-> IF b = a THEN call[c].arg.quantity ELSE pieces[b]],
                         filed |-> [filed EXCEPT ![a] = call[c].arg.category]]
        BY DEF ServeProduct
    <1>5. [b \in listed \cup {a} |-> IF b = a THEN call[c].arg.quantity ELSE pieces[b]] \in [listed \cup {a} -> 0 .. MaxPieces]
        BY <1>1, <1>3 DEF NewProducts
    <1>6. [b \in listed \cup {a} |-> IF b = a THEN call[c].arg.quantity ELSE pieces[b]] \in PieceRows
        BY <1>5, PieceRowsOf
    <1>7. [filed EXCEPT ![a] = call[c].arg.category] \in [Articles -> Categories]
        BY <1>1, <1>2 DEF NewProducts
    <1>8. server' \in RoomServer
        BY <1>3, <1>4, <1>6, <1>7 DEF RoomServer
    <1> QED BY <1>0, <1>8, RoomKinds, ServeTyped DEF RoomTypes

LEMMA RoomTypesStep ==
    ASSUME RoomTypes, [RoomNext]_webVars
    PROVE  RoomTypes'
    <1> USE DEF RoomTypes
    <1>0. view \in RoomView /\ server \in RoomServer /\ ListTyped(RoomArgs, RoomResults) /\ Typed(RoomArgs, RoomResults)
        BY DEF PageTyped, ListTyped
    <1>1. CASE UNCHANGED webVars
        BY <1>0, <1>1, PageStays, ListStillTyped DEF webVars
    <1>2. ASSUME NEW state \in RoomView, Show(state) PROVE RoomTypes'
        BY <1>2, ShowTyped
    <1>3. ASSUME NEW a \in BOOLEAN, NEW b \in BOOLEAN, NEW s \in Articles \cup {Nil}
          PROVE  /\ [view EXCEPT !.adding = a] \in RoomView /\ [view EXCEPT !.adjusting = b] \in RoomView
                 /\ [view EXCEPT !.adjusting = b, !.selected = s] \in RoomView
        BY <1>0 DEF RoomView
    <1>4. OpenAddProduct \/ (\E a \in Articles : Adjust(a)) => RoomTypes'
        BY Zenon, <1>2, <1>3 DEF OpenAddProduct, Adjust
    <1>5. ASSUME NEW c \in Calls, NEW filter \in Filters, FilterBar(c, filter) PROVE RoomTypes'
        <2> DEFINE state == [view EXCEPT !.key = filter]
        <2>1. LoadList(c, state) /\ state.key = filter /\ [state EXCEPT !.loading = TRUE] \in RoomView
            BY <1>0, <1>5 DEF FilterBar, RoomView
        <2> HIDE DEF state
        <2> QED BY <2>1, RoomKinds, LoadPageTyped
    <1>6. ASSUME NEW c \in Calls, AddProductModal(c) PROVE RoomTypes'
        <2>1. CASE Show([view EXCEPT !.adding = FALSE])
            BY <1>2, <1>3, <2>1
        <2>2. CASE (\E category \in Categories, quantity \in 0 .. MaxPieces :
                       Send(c, "create", [category |-> category, quantity |-> quantity, key |-> view.key])) /\ Keep
            <3>1. PICK category \in Categories, quantity \in 0 .. MaxPieces :
                       Send(c, "create", [category |-> category, quantity |-> quantity, key |-> view.key])
                BY <2>2
            <3>2. [category |-> category, quantity |-> quantity, key |-> view.key] \in RoomArgs["create"] /\ "create" \in DOMAIN RoomArgs
                BY <1>0, RoomKinds DEF NewProducts, RoomView
            <3> QED BY <1>0, <2>2, <3>1, <3>2, AskTyped DEF Keep
        <2> QED BY <1>6, <2>1, <2>2 DEF AddProductModal
    <1>7. ASSUME NEW c \in Calls, AdjustModal(c) PROVE RoomTypes'
        <2>1. CASE Show([view EXCEPT !.adjusting = FALSE])
            BY <1>2, <1>3, <2>1
        <2>2. CASE (\E change \in {-1, 1} :
                       Send(c, "move", [article |-> view.selected, change |-> change, key |-> view.key])) /\ Keep
            <3>1. PICK change \in {-1, 1} : Send(c, "move", [article |-> view.selected, change |-> change, key |-> view.key])
                BY <2>2
            <3>2. view.selected \in Articles
                BY <1>0, <1>7 DEF AdjustModal, RoomView
            <3>3. [article |-> view.selected, change |-> change, key |-> view.key] \in RoomArgs["move"] /\ "move" \in DOMAIN RoomArgs
                BY <1>0, <3>2, RoomKinds DEF Movements, RoomView
            <3> QED BY <1>0, <2>2, <3>1, <3>3, AskTyped DEF Keep
        <2> QED BY <1>7, <2>1, <2>2 DEF AdjustModal
    <1>8. ASSUME NEW c \in Calls, AnswerList(c, Matching(call[c].arg)) \/ ReceiveList(c) \/ FailList(c, view.rows) \/ LoseInList(c)
          PROVE  RoomTypes'
        <2>1. Matching(call[c].arg) \in RoomResults["list"]
            BY <1>0, MatchingIsTyped, RoomKinds
        <2>2. \A rows \in PieceRows : [view EXCEPT !.rows = rows, !.loading = FALSE] \in RoomView
            BY <1>0 DEF RoomView
        <2>3. view.rows \in PieceRows
            BY <1>0 DEF RoomView
        <2> QED BY Zenon, <1>8, <2>1, <2>2, <2>3, RoomKinds, ListPageTyped
    <1>9. ASSUME NEW c \in Calls, ReceiveProduct(c) \/ ReceiveMovement(c) PROVE RoomTypes'
        <2>1. call[c].arg.key \in RoomArgs["list"]
            <3>1. CASE Stands(c, "create", "served")
                <4>1. call[c].arg \in NewProducts
                    BY <1>0, <3>1, ArgsAndData, RoomKinds
                <4> QED BY <4>1, RoomKinds DEF NewProducts
            <3>2. CASE Stands(c, "move", "served")
                <4>1. call[c].arg \in Movements
                    BY <1>0, <3>2, ArgsAndData, RoomKinds
                <4> QED BY <4>1, RoomKinds DEF Movements
            <3> QED BY <1>9, <3>1, <3>2 DEF ReceiveProduct, ReceiveMovement
        <2>2. ASSUME NEW state \in RoomView, Reload(c, call[c].arg.key, state) PROVE RoomTypes'
            <3>1. [state EXCEPT !.loading = TRUE] \in RoomView /\ "list" \in DOMAIN RoomArgs
                BY RoomKinds DEF RoomView
            <3> QED BY <2>1, <2>2, <3>1, LoadPageTyped
        <2> QED BY <1>3, <1>9, <2>2 DEF ReceiveProduct, ReceiveMovement
    <1>a. ASSUME NEW c \in Calls, FailChange(c, "create", view) \/ FailChange(c, "move", view) PROVE RoomTypes'
        BY <1>0, <1>a, FailChangeTyped
    <1> QED
        BY <1>1, <1>4, <1>5, <1>6, <1>7, <1>8, <1>9, <1>a, ServeProductTyped, ServeMovementTyped DEF RoomNext, RoomAnswers

LEMMA RoomIsTyped ==
    /\ RoomInit => RoomTypes
    /\ RoomTypes => RoomTypeOK
    <1>1. ASSUME RoomInit PROVE RoomTypes
        <2>1. ListTyped(RoomArgs, RoomResults)
            <3>1. AllProducts \in RoomArgs["list"] /\ "list" \in DOMAIN RoomArgs
                BY RoomKinds DEF AllProducts, Filters
            <3> QED BY <1>1, <3>1, MountListTyped DEF RoomInit
        <2>2. server \in RoomServer
            <3>1. PICK have \in SUBSET Articles : server \in [pieces : [have -> 0 .. MaxPieces], filed : [Articles -> Categories]]
                BY <1>1 DEF RoomInit
            <3> QED BY <3>1, PieceRowsOf DEF RoomServer
        <2>3. view \in RoomView
            <3>1. [a \in {} |-> 0] \in [{} -> 0 .. MaxPieces]
                OBVIOUS
            <3>2. [a \in {} |-> 0] \in PieceRows
                BY <3>1, PieceRowsOf
            <3> QED BY <1>1, <3>2 DEF RoomInit, RoomView, AllProducts, Filters
        <2> QED BY <2>1, <2>2, <2>3 DEF RoomTypes, PageTyped
    <1>2. ASSUME RoomTypes PROVE RoomTypeOK
        <2> DEFINE public == [list |-> PieceRows, create |-> {}, move |-> {}]
        <2>1. \A op \in DOMAIN RoomArgs : RoomResults[op] \subseteq public[op] \cup {Nil}
            BY RoomKinds
        <2>2. (\A c \in Calls : IsCall(call[c], RoomArgs, public)) /\ view \in RoomView /\ server \in RoomServer /\ past \in ListPast
            BY <1>2, <2>1, PageTypes DEF RoomTypes
        <2> QED BY <2>2 DEF RoomTypeOK, RoomArgs, RoomServer, pieces, filed
    <1> QED BY <1>1, <1>2

(***************************************************************************)
(* The types of the memberships                                            *)
(***************************************************************************)
MembershipArgs == [list |-> {Nil}, plan |-> {Nil}]
MembershipResults == [list |-> PartsOf(MembershipLists), plan |-> {Nil}]
MembershipTypes == PageTyped(MembershipArgs, MembershipResults, MembershipView, MembershipLists)

LEMMA MembershipKinds ==
    /\ DOMAIN MembershipArgs = {"list", "plan"} /\ MembershipArgs["list"] = {Nil} /\ MembershipArgs["plan"] = {Nil}
    /\ MembershipResults["list"] = PartsOf(MembershipLists) /\ MembershipResults["plan"] = {Nil}
    BY DEF MembershipArgs, MembershipResults

\* The plans and the members, both of them or one.
LEMMA MembershipRowsAreTyped ==
    ASSUME NEW rows \in MembershipLists, NEW data \in PartsOf(MembershipLists)
    PROVE  [k \in DOMAIN rows |-> IF k \in DOMAIN data THEN data[k] ELSE rows[k]] \in MembershipLists
    <1> DEFINE new == [k \in DOMAIN rows |-> IF k \in DOMAIN data THEN data[k] ELSE rows[k]]
    <1>0. PICK r \in MembershipLists : \E part \in SUBSET DOMAIN r : data = [k \in part |-> r[k]]
        BY DEF PartsOf
    <1>1. PICK part \in SUBSET DOMAIN r : data = [k \in part |-> r[k]]
        BY <1>0
    <1>2. \A k \in DOMAIN data : data[k] = r[k]
        BY <1>1
    <1>3. /\ DOMAIN rows = {"plans", "subscribers"}
          /\ rows["plans"] \in SUBSET Plans /\ rows["subscribers"] \in SUBSET Members
          /\ r["plans"] \in SUBSET Plans /\ r["subscribers"] \in SUBSET Members
        BY DEF MembershipLists
    <1>4. new["plans"] \in SUBSET Plans /\ new["subscribers"] \in SUBSET Members
        BY <1>2, <1>3
    <1>5. new = [plans |-> new["plans"], subscribers |-> new["subscribers"]]
        BY <1>3
    <1> QED BY <1>4, <1>5 DEF MembershipLists

LEMMA MembershipTypesStep ==
    ASSUME MembershipTypes, [MembershipNext]_webVars
    PROVE  MembershipTypes'
    <1> USE DEF MembershipTypes
    <1>0. /\ view \in MembershipView /\ server \in MembershipLists /\ view.rows \in MembershipLists
          /\ ListTyped(MembershipArgs, MembershipResults) /\ Typed(MembershipArgs, MembershipResults)
          /\ Nil \in MembershipArgs["list"] /\ Nil \in MembershipArgs["plan"] /\ Nil \in MembershipResults["plan"]
          /\ "list" \in DOMAIN MembershipArgs /\ "plan" \in DOMAIN MembershipArgs
        BY MembershipKinds DEF PageTyped, ListTyped, MembershipView
    <1>1. CASE UNCHANGED webVars
        BY <1>0, <1>1, PageStays, ListStillTyped DEF webVars
    <1>2. ASSUME NEW state \in MembershipView, Show(state) PROVE MembershipTypes'
        BY <1>2, ShowTyped
    <1>3. ASSUME NEW b \in BOOLEAN, NEW tab \in MemberTab
          PROVE  /\ [view EXCEPT !.adding = b] \in MembershipView /\ [view EXCEPT !.enrolling = b] \in MembershipView
                 /\ [view EXCEPT !.named = b] \in MembershipView /\ [view EXCEPT !.tab = tab] \in MembershipView
        BY <1>0 DEF MembershipView
    <1>4. MembershipHeader \/ EnrollModal => MembershipTypes'
        BY <1>2, <1>3 DEF MembershipHeader, EnrollModal, MemberTab
    <1>5. ASSUME NEW c \in Calls, CreatePlanModal(c) PROVE MembershipTypes'
        <2>1. CASE Send(c, "plan", Nil) /\ Keep
            BY <1>0, <2>1, AskTyped DEF Keep
        <2> QED BY <1>2, <1>3, <1>5, <2>1 DEF CreatePlanModal, MemberTab
    <1>6. ASSUME NEW c \in Calls, ServePlan(c) PROVE MembershipTypes'
        <2>1. server' \in MembershipLists
            BY <1>0, <1>6 DEF ServePlan, MembershipLists
        <2> QED BY <1>0, <1>6, <2>1, ServeTyped DEF ServePlan
    <1>7. ASSUME NEW c \in Calls, AnswerParts(c, server) PROVE MembershipTypes'
        <2>1. \A part \in SUBSET DOMAIN server : [k \in part |-> server[k]] \in MembershipResults["list"]
            BY <1>0, PartIsOf, MembershipKinds
        <2>2. ListTyped(MembershipArgs, MembershipResults)'
            BY <1>0, <1>7, <2>1, AnswerPartsTyped
        <2> QED BY <1>0, <1>7, <2>2, PageStays DEF AnswerParts
    <1>8. ASSUME NEW rows \in MembershipLists PROVE [view EXCEPT !.rows = rows, !.loading = FALSE] \in MembershipView
        BY <1>0 DEF MembershipView
    <1>9. ASSUME NEW c \in Calls, ReceiveParts(c) PROVE MembershipTypes'
        <2> DEFINE rows == [k \in DOMAIN view.rows |-> IF k \in DOMAIN call[c].data THEN call[c].data[k] ELSE view.rows[k]]
        <2>1. ReceiveRows(c, rows) /\ Stands(c, "list", "served")
            BY <1>9 DEF ReceiveParts, ReceiveRows
        <2>2. call[c].data \in PartsOf(MembershipLists)
            BY <1>0, <2>1, ArgsAndData, MembershipKinds
        <2>3. rows \in MembershipLists
            BY <1>0, <2>2, MembershipRowsAreTyped
        <2> HIDE DEF rows
        <2>4. view' \in MembershipView /\ UNCHANGED server
            BY <1>8, <2>1, <2>3 DEF ReceiveRows, SettleList
        <2>5. ListTyped(MembershipArgs, MembershipResults)'
            BY <1>0, <2>1, SettleTyped
        <2> QED BY <1>0, <2>4, <2>5, PageStays
    <1>a. ASSUME NEW c \in Calls, FailList(c, view.rows) \/ LoseInList(c) PROVE MembershipTypes'
        <2>1. view' \in MembershipView /\ UNCHANGED server
            BY <1>0, <1>8, <1>a DEF FailList, LoseInList
        <2>2. ListTyped(MembershipArgs, MembershipResults)'
            BY <1>0, <1>a, SettleTyped, LoseInListTyped
        <2> QED BY <1>0, <2>1, <2>2, PageStays
    <1>b. ASSUME NEW c \in Calls, ReceivePlan(c) \/ FailChange(c, "plan", view) PROVE MembershipTypes'
        <2>1. ASSUME NEW state \in MembershipView PROVE [state EXCEPT !.loading = TRUE] \in MembershipView
            BY DEF MembershipView
        <2> QED
            BY <1>0, <1>3, <1>b, <2>1, LoadPageTyped, FailChangeTyped DEF ReceivePlan, MemberTab
    <1> QED
        BY <1>1, <1>4, <1>5, <1>6, <1>7, <1>9, <1>a, <1>b DEF MembershipNext, MembershipAnswers

LEMMA MembershipIsTyped ==
    /\ MembershipInit => MembershipTypes
    /\ MembershipTypes => MembershipTypeOK
    <1>1. ASSUME MembershipInit PROVE MembershipTypes
        <2>1. ListTyped(MembershipArgs, MembershipResults)
            BY <1>1, MountListTyped, MembershipKinds DEF MembershipInit
        <2>2. server \in MembershipLists /\ view \in MembershipView
            BY <1>1 DEF MembershipInit, MembershipLists, MembershipView, MemberTab
        <2> QED BY <2>1, <2>2 DEF MembershipTypes, PageTyped
    <1>2. ASSUME MembershipTypes PROVE MembershipTypeOK
        <2> DEFINE public == [list |-> PartsOf(MembershipLists), plan |-> {}]
        <2>1. \A op \in DOMAIN MembershipArgs : MembershipResults[op] \subseteq public[op] \cup {Nil}
            BY MembershipKinds
        <2>2. /\ \A c \in Calls : IsCall(call[c], MembershipArgs, public)
              /\ view \in MembershipView /\ server \in MembershipLists /\ past \in ListPast
            BY <1>2, <2>1, PageTypes DEF MembershipTypes
        <2> QED BY <2>2 DEF MembershipTypeOK, MembershipArgs
    <1> QED BY <1>1, <1>2

(***************************************************************************)
(* The types of the search, the calendar and the payments                  *)
(***************************************************************************)
ExploreArgs == [list |-> Searches]
ExploreResults == [list |-> SUBSET Shops]
ExploreView == [key : Searches, rows : SUBSET Shops, loading : BOOLEAN]
ExploreTypes == PageTyped(ExploreArgs, ExploreResults, ExploreView, [Shops -> [words : Words, category : Kinds]])

LEMMA ExploreKinds ==
    DOMAIN ExploreArgs = {"list"} /\ ExploreArgs["list"] = Searches /\ ExploreResults["list"] = SUBSET Shops
    BY DEF ExploreArgs, ExploreResults

LEMMA ExploreTypesStep ==
    ASSUME ExploreTypes, [ExploreNext]_webVars
    PROVE  ExploreTypes'
    <1> USE DEF ExploreTypes
    <1>0. /\ view \in ExploreView /\ server \in [Shops -> [words : Words, category : Kinds]]
          /\ ListTyped(ExploreArgs, ExploreResults)
        BY DEF PageTyped
    <1>1. CASE UNCHANGED webVars
        BY <1>0, <1>1, PageStays, ListStillTyped DEF webVars
    <1>2. ASSUME NEW c \in Calls, NEW key \in Searches, LoadList(c, [view EXCEPT !.key = key]) PROVE ExploreTypes'
        <2> DEFINE state == [view EXCEPT !.key = key]
        <2>1. state.key = key /\ [state EXCEPT !.loading = TRUE] \in ExploreView
            BY <1>0 DEF ExploreView
        <2>2. LoadList(c, state)
            BY <1>2
        <2> HIDE DEF state
        <2> QED BY <2>1, <2>2, ExploreKinds, LoadPageTyped
    <1>3. ASSUME NEW c \in Calls, LoadList(c, view) PROVE ExploreTypes'
        <2>1. [view EXCEPT !.loading = TRUE] \in ExploreView /\ view.key \in Searches
            BY <1>0 DEF ExploreView
        <2> QED BY <1>3, <2>1, ExploreKinds, LoadPageTyped
    <1>4. ASSUME NEW c \in Calls, ExploreForm(c) \/ CategoryPills(c) PROVE ExploreTypes'
        <2>1. /\ \A words \in Words \cup {Nil} : [view.key EXCEPT !.words = words] \in Searches
              /\ \A city \in Cities \cup {Nil} : [view.key EXCEPT !.city = city] \in Searches
              /\ \A category \in Kinds \cup {Nil} : [view.key EXCEPT !.category = category] \in Searches
            BY <1>0 DEF ExploreView, Searches
        <2> QED BY <1>2, <1>3, <1>4, <2>1 DEF ExploreForm, CategoryPills, SetKey
    <1>5. ASSUME NEW c \in Calls, FetchBusinesses(c) \/ LoseInList(c) PROVE ExploreTypes'
        <2>1. Found(call[c].arg) \in ExploreResults["list"]
            BY ExploreKinds DEF Found
        <2>2. \A rows \in SUBSET Shops : [view EXCEPT !.rows = rows, !.loading = FALSE] \in ExploreView
            BY <1>0 DEF ExploreView
        <2>3. {} \in SUBSET Shops
            OBVIOUS
        <2>4. AnswerList(c, Found(call[c].arg)) \/ ReceiveList(c) \/ FailList(c, {}) \/ LoseInList(c)
            BY <1>5 DEF FetchBusinesses
        <2> QED BY Zenon, <2>1, <2>2, <2>3, <2>4, ExploreKinds, ListPageTyped
    <1> QED BY <1>1, <1>4, <1>5 DEF ExploreNext

LEMMA ExploreIsTyped ==
    /\ ExploreInit => ExploreTypes
    /\ ExploreTypes => ExploreTypeOK
    <1>1. ASSUME ExploreInit PROVE ExploreTypes
        <2>1. PICK key \in Searches : view = [key |-> key, rows |-> {}, loading |-> TRUE] /\ MountList(key)
            BY <1>1 DEF ExploreInit
        <2>2. ListTyped(ExploreArgs, ExploreResults)
            BY <2>1, MountListTyped, ExploreKinds
        <2>3. view \in ExploreView
            BY <2>1 DEF ExploreView
        <2> QED BY <1>1, <2>2, <2>3 DEF ExploreTypes, PageTyped, ExploreInit
    <1>2. ASSUME ExploreTypes PROVE ExploreTypeOK
        <2>1. \A op \in DOMAIN ExploreArgs : ExploreResults[op] \subseteq ExploreResults[op] \cup {Nil}
            OBVIOUS
        <2>2. /\ \A c \in Calls : IsCall(call[c], ExploreArgs, ExploreResults)
              /\ view \in ExploreView /\ server \in [Shops -> [words : Words, category : Kinds]] /\ past \in ListPast
            BY <1>2, <2>1, PageTypes DEF ExploreTypes
        <2> QED BY <2>2 DEF ExploreTypeOK, ExploreArgs, ExploreResults, ExploreView
    <1> QED BY <1>1, <1>2

CalendarArgs == [list |-> CalendarKeys]
CalendarResults == [list |-> SUBSET Cells]
CalendarView == [key : CalendarKeys, rows : SUBSET Cells, loading : BOOLEAN]
CalendarTypes == PageTyped(CalendarArgs, CalendarResults, CalendarView, [Appointments -> Dates \cup {Nil}])

LEMMA CalendarKinds ==
    DOMAIN CalendarArgs = {"list"} /\ CalendarArgs["list"] = CalendarKeys /\ CalendarResults["list"] = SUBSET Cells
    BY DEF CalendarArgs, CalendarResults

\* A column is a date, so a cell has the date that its appointment is booked for.
LEMMA CalendarRowsAreTyped ==
    ASSUME server \in [Appointments -> Dates \cup {Nil}], NEW key \in CalendarKeys
    PROVE  CalendarRows(key) \in SUBSET Cells
    <1>1. Columns(key) \subseteq Dates
        BY DEF Columns, CalendarKeys, WeekOf
    <1>2. \A a \in Between(key) : a \in Appointments /\ booked[a] \in Dates
        BY <1>1 DEF Between
    <1> QED BY <1>2 DEF CalendarRows, Cells

LEMMA CalendarTypesStep ==
    ASSUME CalendarTypes, [CalendarNext]_webVars
    PROVE  CalendarTypes'
    <1> USE DEF CalendarTypes
    <1>0. /\ view \in CalendarView /\ server \in [Appointments -> Dates \cup {Nil}]
          /\ ListTyped(CalendarArgs, CalendarResults) /\ Typed(CalendarArgs, CalendarResults)
        BY DEF PageTyped, ListTyped
    <1>1. CASE UNCHANGED webVars
        BY <1>0, <1>1, PageStays, ListStillTyped DEF webVars
    <1>2. ASSUME NEW c \in Calls, NEW key \in CalendarKeys, NEW state, state.key = key,
                 [state EXCEPT !.loading = TRUE] \in CalendarView, LoadList(c, state)
          PROVE  CalendarTypes'
        BY <1>2, CalendarKinds, LoadPageTyped
    <1>3. ASSUME NEW c \in Calls, NEW date \in Dates, LoadList(c, [view EXCEPT !.key.date = date]) PROVE CalendarTypes'
        <2> DEFINE state == [view EXCEPT !.key.date = date]
        <2>1. state.key \in CalendarKeys /\ [state EXCEPT !.loading = TRUE] \in CalendarView
            BY <1>0 DEF CalendarView, CalendarKeys
        <2>2. LoadList(c, state)
            BY <1>3
        <2> HIDE DEF state
        <2> QED BY <1>2, <2>1, <2>2
    <1>4. ASSUME NEW c \in Calls, NEW v \in {"day", "week"}, LoadList(c, [view EXCEPT !.key.view = v]) PROVE CalendarTypes'
        <2> DEFINE state == [view EXCEPT !.key.view = v]
        <2>1. state.key \in CalendarKeys /\ [state EXCEPT !.loading = TRUE] \in CalendarView
            BY <1>0 DEF CalendarView, CalendarKeys
        <2>2. LoadList(c, state)
            BY <1>4
        <2> HIDE DEF state
        <2> QED BY <1>2, <2>1, <2>2
    <1>5. ASSUME NEW c \in Calls, CalendarHeader(c) PROVE CalendarTypes'
        <2>1. Today.date \in Dates
            BY CalendarAssumption DEF Today, Dates
        <2> QED BY <1>3, <1>4, <1>5, <2>1 DEF CalendarHeader, Navigate
    <1>6. ASSUME NEW c \in Calls,
                 AnswerList(c, CalendarRows(call[c].arg)) \/ ReceiveList(c) \/ FailList(c, view.rows) \/ LoseInList(c)
          PROVE  CalendarTypes'
        <2>1. \A rows \in SUBSET Cells : [view EXCEPT !.rows = rows, !.loading = FALSE] \in CalendarView
            BY <1>0 DEF CalendarView
        <2>2. view.rows \in SUBSET Cells
            BY <1>0 DEF CalendarView
        <2>3. CASE AnswerList(c, CalendarRows(call[c].arg))
            <3>1. Stands(c, "list", "sent") /\ "sent" # "free"
                BY <2>3 DEF AnswerList
            <3>2. call[c].arg \in CalendarKeys
                BY <1>0, <3>1, ArgsAndData, CalendarKinds
            <3>3. CalendarRows(call[c].arg) \in CalendarResults["list"]
                BY <1>0, <3>2, CalendarRowsAreTyped, CalendarKinds
            <3> QED BY Zenon, <2>1, <2>2, <2>3, <3>3, CalendarKinds, ListPageTyped
        <2>4. CASE ReceiveList(c) \/ FailList(c, view.rows) \/ LoseInList(c)
            <3>1. AnswerList(c, {}) \/ ReceiveList(c) \/ FailList(c, view.rows) \/ LoseInList(c)
                BY <2>4
            <3>2. {} \in CalendarResults["list"] /\ "list" \in DOMAIN CalendarArgs
                BY CalendarKinds
            <3> QED BY Zenon, <2>1, <2>2, <3>1, <3>2, CalendarKinds, ListPageTyped
        <2> QED BY <1>6, <2>3, <2>4
    <1>7. ASSUME BookElsewhere PROVE CalendarTypes'
        <2>1. server' \in [Appointments -> Dates \cup {Nil}] /\ UNCHANGED <<call, view>> /\ past' = [past EXCEPT !.mixed = TRUE]
            BY <1>0, <1>7 DEF BookElsewhere, booked
        <2>2. past' \in ListPast
            BY <1>0, <2>1 DEF ListTyped, ListPast
        <2>3. Typed(CalendarArgs, CalendarResults)'
            BY <1>0, <2>1, StillTyped
        <2> QED BY <1>0, <2>1, <2>2, <2>3, PageStays DEF ListTyped, ListPast
    <1> QED BY <1>1, <1>5, <1>6, <1>7 DEF CalendarNext

LEMMA CalendarIsTyped ==
    /\ CalendarInit => CalendarTypes
    /\ CalendarTypes => CalendarTypeOK
    <1>1. ASSUME CalendarInit PROVE CalendarTypes
        <2>1. Today \in CalendarKeys
            BY CalendarAssumption DEF Today, CalendarKeys, Dates
        <2>2. ListTyped(CalendarArgs, CalendarResults)
            BY <1>1, <2>1, MountListTyped, CalendarKinds DEF CalendarInit
        <2>3. view \in CalendarView
            BY <1>1, <2>1 DEF CalendarInit, CalendarView
        <2> QED BY <1>1, <2>2, <2>3 DEF CalendarTypes, PageTyped, CalendarInit
    <1>2. ASSUME CalendarTypes PROVE CalendarTypeOK
        <2>1. \A op \in DOMAIN CalendarArgs : CalendarResults[op] \subseteq CalendarResults[op] \cup {Nil}
            OBVIOUS
        <2>2. /\ \A c \in Calls : IsCall(call[c], CalendarArgs, CalendarResults)
              /\ view \in CalendarView /\ server \in [Appointments -> Dates \cup {Nil}] /\ past \in ListPast
            BY <1>2, <2>1, PageTypes DEF CalendarTypes
        <2> QED
            BY <2>2 DEF CalendarTypeOK, CalendarArgs, CalendarResults, CalendarView, booked
    <1> QED BY <1>1, <1>2

PaymentsArgs == [list |-> {Nil}, refund |-> [payment : Receipts]]
PaymentsResults == [list |-> SheetRows, refund |-> {Nil}]
PaymentsView == [key : {Nil}, rows : SheetRows, loading : BOOLEAN, refunding : Receipts \cup {Nil}]
PaymentsTypes == PageTyped(PaymentsArgs, PaymentsResults, PaymentsView, [Receipts -> PaymentStatuses])

LEMMA PaymentsKinds ==
    /\ DOMAIN PaymentsArgs = {"list", "refund"} /\ PaymentsArgs["list"] = {Nil} /\ PaymentsArgs["refund"] = [payment : Receipts]
    /\ PaymentsResults["list"] = SheetRows /\ PaymentsResults["refund"] = {Nil}
    /\ [p \in {} |-> Nil] \in SheetRows /\ [Receipts -> PaymentStatuses] \subseteq SheetRows
    BY DEF PaymentsArgs, PaymentsResults, SheetRows

LEMMA PaymentsTypesStep ==
    ASSUME PaymentsTypes, [PaymentsNext]_webVars
    PROVE  PaymentsTypes'
    <1> USE DEF PaymentsTypes
    <1>0. /\ view \in PaymentsView /\ server \in [Receipts -> PaymentStatuses]
          /\ ListTyped(PaymentsArgs, PaymentsResults) /\ Typed(PaymentsArgs, PaymentsResults)
        BY DEF PageTyped, ListTyped
    <1>1. CASE UNCHANGED webVars
        BY <1>0, <1>1, PageStays, ListStillTyped DEF webVars
    <1>2. ASSUME NEW c \in Calls, NEW p \in Receipts, HandleRefund(c, p) PROVE PaymentsTypes'
        <2>1. [payment |-> p] \in PaymentsArgs["refund"] /\ "refund" \in DOMAIN PaymentsArgs
            BY PaymentsKinds
        <2>2. Send(c, "refund", [payment |-> p])
            BY <1>2 DEF HandleRefund
        <2>3. Typed(PaymentsArgs, PaymentsResults)'
            BY <1>0, <2>1, <2>2, SendTyped
        <2>4. past' \in ListPast /\ view' \in PaymentsView /\ UNCHANGED server
            BY <1>0, <1>2 DEF HandleRefund, ListTyped, ListPast, PaymentsView
        <2> QED BY <1>0, <2>3, <2>4, PageStays DEF ListTyped, ListPast
    <1>3. ASSUME NEW c \in Calls, ServeRefund(c) PROVE PaymentsTypes'
        <2>1. server' \in [Receipts -> PaymentStatuses]
            BY <1>0, <1>3 DEF ServeRefund, PaymentStatuses
        <2>2. (Answer(c, Nil) \/ Refuse(c)) /\ Stands(c, "refund", "sent") /\ UNCHANGED <<view, past>>
            BY <1>3 DEF ServeRefund
        <2>3. Nil \in PaymentsResults["refund"]
            BY PaymentsKinds
        <2> QED BY <2>1, <2>2, <2>3, ServeTyped
    <1>4. ASSUME NEW c \in Calls, AnswerList(c, status) \/ ReceiveList(c) \/ FailList(c, [p \in {} |-> Nil]) \/ LoseInList(c)
          PROVE  PaymentsTypes'
        <2>1. \A rows \in SheetRows : [view EXCEPT !.rows = rows, !.loading = FALSE] \in PaymentsView
            BY <1>0 DEF PaymentsView
        <2>2. status \in PaymentsResults["list"]
            BY <1>0, PaymentsKinds DEF status
        <2> QED BY Zenon, <1>4, <2>1, <2>2, PaymentsKinds, ListPageTyped
    <1>5. ASSUME NEW c \in Calls, ReceiveRefund(c) \/ FailChange(c, "refund", [view EXCEPT !.refunding = Nil]) PROVE PaymentsTypes'
        <2> DEFINE state == [view EXCEPT !.refunding = Nil]
        <2>1. state \in PaymentsView /\ [state EXCEPT !.loading = TRUE] \in PaymentsView
            BY <1>0 DEF PaymentsView
        <2>2. Reload(c, Nil, state) \/ FailChange(c, "refund", state)
            BY <1>5 DEF ReceiveRefund
        <2> HIDE DEF state
        <2> QED BY <2>1, <2>2, PaymentsKinds, LoadPageTyped, FailChangeTyped
    <1> QED BY <1>1, <1>2, <1>3, <1>4, <1>5 DEF PaymentsNext, PaymentsAnswers

LEMMA PaymentsIsTyped ==
    /\ PaymentsInit => PaymentsTypes
    /\ PaymentsTypes => PaymentsTypeOK
    <1>1. ASSUME PaymentsInit PROVE PaymentsTypes
        <2>1. ListTyped(PaymentsArgs, PaymentsResults)
            BY <1>1, MountListTyped, PaymentsKinds DEF PaymentsInit
        <2>2. view \in PaymentsView
            BY <1>1, PaymentsKinds DEF PaymentsInit, PaymentsView
        <2> QED BY <1>1, <2>1, <2>2 DEF PaymentsTypes, PageTyped, PaymentsInit
    <1>2. ASSUME PaymentsTypes PROVE PaymentsTypeOK
        <2> DEFINE public == [list |-> SheetRows, refund |-> {}]
        <2>1. \A op \in DOMAIN PaymentsArgs : PaymentsResults[op] \subseteq public[op] \cup {Nil}
            BY PaymentsKinds
        <2>2. /\ \A c \in Calls : IsCall(call[c], PaymentsArgs, public)
              /\ view \in PaymentsView /\ server \in [Receipts -> PaymentStatuses] /\ past \in ListPast
            BY <1>2, <2>1, PageTypes DEF PaymentsTypes
        <2> QED BY <2>2 DEF PaymentsTypeOK, PaymentsArgs, PaymentsView
    <1> QED BY <1>1, <1>2

(***************************************************************************)
(* The types of the reviews                                                *)
(***************************************************************************)
ReplyArgs == [list |-> {Nil}, reply |-> [post : Posts, text : Posts]]
ReplyResults == [list |-> PostRows, reply |-> {Nil}]
ReplyServer == [rated : [Posts -> Ratings], reply : [Posts -> Replies]]
ReplyTypes == PageTyped(ReplyArgs, ReplyResults, DeskOfReplies, ReplyServer)

LEMMA ReplyKinds ==
    /\ DOMAIN ReplyArgs = {"list", "reply"} /\ ReplyArgs["list"] = {Nil} /\ ReplyArgs["reply"] = [post : Posts, text : Posts]
    /\ ReplyResults["list"] = PostRows /\ ReplyResults["reply"] = {Nil}
    /\ [p \in {} |-> Nil] \in PostRows /\ [Posts -> Replies] \subseteq PostRows
    BY DEF ReplyArgs, ReplyResults, PostRows

\* What the page may become.
LEMMA ReplyViewFields ==
    ASSUME NEW v \in DeskOfReplies
    PROVE  /\ \A x \in Ratings \cup {Nil} : [v EXCEPT !.rating = x] \in DeskOfReplies
           /\ \A x \in {"all", "unreplied", "replied"} : [v EXCEPT !.filter = x] \in DeskOfReplies
           /\ \A x \in Posts \cup {Nil}, y \in Replies : [v EXCEPT !.replying = x, !.text = y] \in DeskOfReplies
           /\ \A x \in Replies : [v EXCEPT !.text = x] \in DeskOfReplies
           /\ \A x \in BOOLEAN : [v EXCEPT !.submitting = x] \in DeskOfReplies
           /\ [v EXCEPT !.replying = Nil, !.text = Nil, !.submitting = FALSE] \in DeskOfReplies
           /\ \A x \in PostRows : [v EXCEPT !.rows = x, !.loading = FALSE] \in DeskOfReplies
           /\ [v EXCEPT !.loading = TRUE] \in DeskOfReplies
    BY Zenon DEF DeskOfReplies, Replies

LEMMA ReplyTypesStep ==
    ASSUME ReplyTypes, [ReplyNext]_webVars
    PROVE  ReplyTypes'
    <1> USE DEF ReplyTypes
    <1>0. /\ view \in DeskOfReplies /\ server \in ReplyServer /\ view.rows \in PostRows /\ view.text \in Replies /\ view.rating \in Ratings \cup {Nil}
          /\ ListTyped(ReplyArgs, ReplyResults) /\ Typed(ReplyArgs, ReplyResults)
        BY DEF PageTyped, ListTyped, DeskOfReplies
    <1>1. CASE UNCHANGED webVars
        BY <1>0, <1>1, PageStays, ListStillTyped DEF webVars
    <1>2. ASSUME NEW state \in DeskOfReplies, Show(state) PROVE ReplyTypes'
        BY <1>2, ShowTyped
    <1>3. FilterTabs => ReplyTypes'
        BY Zenon, <1>0, <1>2, ReplyViewFields DEF FilterTabs, RatingFilter
    \* Who is shown is listed, with the reply there is.
    <1>4. \A p \in FilteredReviews : p \in Posts /\ view.rows[p] \in Replies
        BY <1>0 DEF FilteredReviews, PostRows
    <1>5. ASSUME NEW c \in Calls, ReviewsList(c) PROVE ReplyTypes'
        <2>1. ASSUME NEW p \in Posts, HandleStartReply(p) PROVE ReplyTypes'
            BY Zenon, <1>0, <1>2, <1>4, <2>1, ReplyViewFields DEF HandleStartReply
        <2>2. CASE FormShown /\ \E text \in {view.replying, Nil} : Show([view EXCEPT !.text = text])
            <3>1. view.replying \in Replies /\ Nil \in Replies
                BY <1>4, <2>2 DEF FormShown, Replies
            <3> QED BY Zenon, <1>0, <1>2, <2>2, <3>1, ReplyViewFields
        <2>3. CASE HandleCancelReply
            <3>1. Nil \in Replies
                BY DEF Replies
            <3> QED BY Zenon, <1>0, <1>2, <2>3, <3>1, ReplyViewFields DEF HandleCancelReply
        <2>4. CASE HandleSubmitReply(c)
            <3>1. view.replying \in Posts /\ view.text \in Posts
                BY <1>0, <1>4, <2>4 DEF HandleSubmitReply, FormShown, Replies
            <3>2. [post |-> view.replying, text |-> view.text] \in ReplyArgs["reply"] /\ "reply" \in DOMAIN ReplyArgs
                BY <3>1, ReplyKinds
            <3>3. view' \in DeskOfReplies
                BY Zenon, <1>0, <2>4, ReplyViewFields DEF HandleSubmitReply
            <3> QED BY <2>4, <3>2, <3>3, AskTyped DEF HandleSubmitReply
        <2> QED BY <1>5, <2>1, <2>2, <2>3, <2>4 DEF ReviewsList
    <1>6. ASSUME NEW c \in Calls, ServeReply(c) PROVE ReplyTypes'
        <2>1. Stands(c, "reply", "sent") /\ "sent" # "free" /\ Answer(c, Nil) /\ UNCHANGED <<view, past>>
            BY <1>6 DEF ServeReply
        <2>2. call[c].arg.post \in Posts /\ call[c].arg.text \in Posts
            <3>1. call[c].arg \in ReplyArgs["reply"]
                BY <1>0, <2>1, ArgsAndData
            <3> QED BY <3>1, ReplyKinds
        <2>3. server' \in ReplyServer
            BY <1>0, <1>6, <2>2 DEF ServeReply, ReplyServer, Replies
        <2>4. Nil \in ReplyResults["reply"]
            BY ReplyKinds
        <2> QED BY <2>1, <2>3, <2>4, ServeTyped
    <1>7. ASSUME NEW c \in Calls, AnswerList(c, reply) \/ ReceiveList(c) \/ FailList(c, view.rows) \/ LoseInList(c)
          PROVE  ReplyTypes'
        <2>1. reply \in ReplyResults["list"]
            BY <1>0, ReplyKinds DEF reply, ReplyServer
        <2> QED BY Zenon, <1>0, <1>7, <2>1, ReplyKinds, ReplyViewFields, ListPageTyped
    <1>8. ASSUME NEW c \in Calls, ReceiveReply(c) PROVE ReplyTypes'
        <2> DEFINE state == [view EXCEPT !.replying = Nil, !.text = Nil, !.submitting = FALSE]
        <2>1. Reload(c, Nil, state) /\ state \in DeskOfReplies
            BY Zenon, <1>0, <1>8, ReplyViewFields DEF ReceiveReply
        <2> HIDE DEF state
        <2>2. [state EXCEPT !.loading = TRUE] \in DeskOfReplies
            BY Zenon, <2>1, ReplyViewFields
        <2> QED BY <2>1, <2>2, ReplyKinds, LoadPageTyped
    <1>9. ASSUME NEW c \in Calls, FailChange(c, "reply", [view EXCEPT !.submitting = FALSE]) PROVE ReplyTypes'
        BY Zenon, <1>0, <1>9, ReplyViewFields, FailChangeTyped
    <1> QED BY <1>1, <1>3, <1>5, <1>6, <1>7, <1>8, <1>9 DEF ReplyNext, ReplyAnswers

LEMMA ReplyIsTyped ==
    /\ ReplyInit => ReplyTypes
    /\ ReplyTypes => ReplyTypeOK
    <1>1. ASSUME ReplyInit PROVE ReplyTypes
        <2>1. ListTyped(ReplyArgs, ReplyResults)
            BY <1>1, MountListTyped, ReplyKinds DEF ReplyInit
        <2>2. view \in DeskOfReplies
            BY <1>1, ReplyKinds DEF ReplyInit, DeskOfReplies, Replies
        <2>3. server \in ReplyServer
            BY <1>1 DEF ReplyInit, ReplyServer, Replies
        <2> QED BY <2>1, <2>2, <2>3 DEF ReplyTypes, PageTyped
    <1>2. ASSUME ReplyTypes PROVE ReplyTypeOK
        <2> DEFINE public == [list |-> PostRows, reply |-> {}]
        <2>1. \A op \in DOMAIN ReplyArgs : ReplyResults[op] \subseteq public[op] \cup {Nil}
            BY ReplyKinds
        <2>2. /\ \A c \in Calls : IsCall(call[c], ReplyArgs, public)
              /\ view \in DeskOfReplies /\ server \in ReplyServer /\ past \in ListPast
            BY <1>2, <2>1, PageTypes DEF ReplyTypes
        <2> QED BY <2>2 DEF ReplyTypeOK, ReplyArgs, ReplyServer
    <1> QED BY <1>1, <1>2

(***************************************************************************)
(* The types of the customers                                              *)
(***************************************************************************)
NotesArgs == [list |-> Lists, notes |-> [client : Clients, notes : Notes, key : Lists]]
NotesResults == [list |-> NoteRows, notes |-> {Nil}]
NotesTypes == PageTyped(NotesArgs, NotesResults, NotesView, [Clients -> Notes])

LEMMA NotesKinds ==
    /\ DOMAIN NotesArgs = {"list", "notes"} /\ NotesArgs["list"] = Lists
    /\ NotesArgs["notes"] = [client : Clients, notes : Notes, key : Lists]
    /\ NotesResults["list"] = NoteRows /\ NotesResults["notes"] = {Nil}
    BY DEF NotesArgs, NotesResults

LEMMA NoteRowsOf ==
    ASSUME NEW found \in SUBSET Clients, NEW rows \in [found -> Notes]
    PROVE  rows \in NoteRows
    BY DEF NoteRows

LEMMA NobodyFound == [c \in {} |-> Nil] \in NoteRows
    <1>1. [c \in {} |-> Nil] \in [{} -> Notes]
        OBVIOUS
    <1> QED BY <1>1, NoteRowsOf

\* Every page of every search is one of a list.
LEMMA PagesOfLists ==
    /\ \A q \in Queries \cup {Nil} : [q |-> q, page |-> 1] \in Lists
    /\ \A q \in Queries \cup {Nil}, p \in Nat : 1 <= p => [q |-> q, page |-> p] \in Lists
    /\ \A key \in Lists : key = [q |-> key.q, page |-> key.page] /\ key.q \in Queries \cup {Nil} /\ key.page \in Nat
    BY DEF Lists

LEMMA OnPageIsFound ==
    ASSUME server \in [Clients -> Notes], NEW key \in Lists
    PROVE  PageRows(key) \in NoteRows
    <1>1. Visitors \in Seq(Clients)
        BY CustomerNotesAssumption
    <1>2. OnPage(key) \in SUBSET Clients
        BY <1>1 DEF OnPage
    <1> DEFINE found == OnPage(key)
    <1> HIDE DEF found
    <1>3. [c \in found |-> server[c]] \in [found -> Notes]
        BY <1>2 DEF found
    <1> QED BY <1>2, <1>3, NoteRowsOf DEF PageRows, notes, found

\* What the page may become.
LEMMA NotesViewFields ==
    ASSUME NEW v \in NotesView
    PROVE  /\ \A x \in Notes : [v EXCEPT !.editNotes = x] \in NotesView
           /\ \A x \in BOOLEAN : [v EXCEPT !.saving = x] \in NotesView
           /\ \A x \in Clients, y \in Notes :
                 /\ [v EXCEPT !.selected = [id |-> x, notes |-> y], !.editNotes = y] \in NotesView
                 /\ [v EXCEPT !.selected = [id |-> x, notes |-> y], !.saving = FALSE] \in NotesView
           /\ \A x \in NoteRows : [v EXCEPT !.rows = x, !.loading = FALSE] \in NotesView
           /\ \A x \in NoteRows, y \in Nat : [v EXCEPT !.rows = x, !.total = y, !.loading = FALSE] \in NotesView
           /\ [v EXCEPT !.loading = TRUE] \in NotesView
    BY DEF NotesView

LEMMA NotesTypesStep ==
    ASSUME NotesTypes, [NotesNext]_webVars
    PROVE  NotesTypes'
    <1> USE DEF NotesTypes
    <1>0. /\ view \in NotesView /\ server \in [Clients -> Notes] /\ view.key \in Lists /\ view.rows \in NoteRows
          /\ view.editNotes \in Notes /\ view.selected \in [id : Clients, notes : Notes] \cup {Nil} /\ Nil \in Notes
          /\ ListTyped(NotesArgs, NotesResults) /\ Typed(NotesArgs, NotesResults) /\ past \in ListPast
        BY DEF PageTyped, ListTyped, NotesView, Notes
    <1>1. CASE UNCHANGED webVars
        BY <1>0, <1>1, PageStays, ListStillTyped DEF webVars
    <1>2. ASSUME NEW state \in NotesView, Show(state) PROVE NotesTypes'
        BY <1>2, ShowTyped
    <1>3. ASSUME NEW c \in Calls, NEW key \in Lists, LoadList(c, [view EXCEPT !.key = key]) PROVE NotesTypes'
        <2> DEFINE state == [view EXCEPT !.key = key]
        <2>1. state.key = key /\ [state EXCEPT !.loading = TRUE] \in NotesView
            BY <1>0 DEF NotesView
        <2>2. LoadList(c, state)
            BY <1>3
        <2> HIDE DEF state
        <2> QED BY <2>1, <2>2, NotesKinds, LoadPageTyped
    <1>4. ASSUME NEW c \in Calls, NEW q \in Queries \cup {Nil}, SearchBox(c, q) PROVE NotesTypes'
        BY <1>3, <1>4, PagesOfLists DEF SearchBox
    <1>5. ASSUME NEW c \in Calls, Pagination(c) PROVE NotesTypes'
        <2> DEFINE key == view.key
                   at(p) == [q |-> key.q, page |-> p]
        <2>1. key = [q |-> key.q, page |-> key.page] /\ key.q \in Queries \cup {Nil} /\ key.page \in Nat
            BY <1>0, PagesOfLists
        <2>2. key.page > 1 => at(key.page - 1) \in Lists
            BY <2>1, PagesOfLists
        <2>3. at(key.page + 1) \in Lists
            BY <2>1, PagesOfLists
        <2>4. \A p : [view EXCEPT !.key.page = p] = [view EXCEPT !.key = at(p)]
            BY <1>0, <2>1 DEF NotesView
        <2>5. CASE key.page > 1 /\ LoadList(c, [view EXCEPT !.key.page = key.page - 1])
            <3>1. LoadList(c, [view EXCEPT !.key = at(key.page - 1)])
                BY <2>4, <2>5
            <3> QED BY <1>3, <2>2, <2>5, <3>1
        <2>6. CASE LoadList(c, [view EXCEPT !.key.page = key.page + 1])
            <3>1. LoadList(c, [view EXCEPT !.key = at(key.page + 1)])
                BY <2>4, <2>6
            <3> QED BY <1>3, <2>3, <2>6, <3>1
        <2> QED BY <1>5, <2>5, <2>6 DEF Pagination
    <1>6. ASSUME NEW client \in Clients, OpenCustomer(client) PROVE NotesTypes'
        <2>1. view.rows[client] \in Notes
            BY <1>0, <1>6 DEF OpenCustomer, NoteRows
        <2>2. view' \in NotesView /\ UNCHANGED <<call, server>>
            BY Zenon, <1>0, <1>6, <2>1, NotesViewFields DEF OpenCustomer
        <2>3. past' \in ListPast
            BY <1>0, <1>6 DEF OpenCustomer, ListPast
        <2>4. Typed(NotesArgs, NotesResults)'
            BY <1>0, <2>2, StillTyped
        <2> QED BY <1>0, <2>2, <2>3, <2>4, PageStays DEF ListTyped, ListPast
    <1>7. ASSUME NEW c \in Calls, DetailPanel(c) PROVE NotesTypes'
        <2>1. view.selected # Nil => view.selected.id \in Clients /\ view.selected.id \in Notes
            BY <1>0 DEF Notes
        <2>2. CASE SaveNotes(c)
            <3>1. /\ [client |-> view.selected.id, notes |-> view.editNotes, key |-> view.key] \in NotesArgs["notes"]
                  /\ "notes" \in DOMAIN NotesArgs
                BY <1>0, <2>1, <2>2, NotesKinds DEF SaveNotes
            <3>2. view' \in NotesView
                BY Zenon, <1>0, <2>2, NotesViewFields DEF SaveNotes
            <3> QED BY <2>2, <3>1, <3>2, AskTyped DEF SaveNotes
        <2> QED BY Zenon, <1>0, <1>2, <1>7, <2>1, <2>2, NotesViewFields DEF DetailPanel
    <1>8. ASSUME NEW c \in Calls, ServeNotes(c) \/ ReceiveNotes(c) PROVE NotesTypes'
        <2>1. PICK step \in {"sent", "served"} : Stands(c, "notes", step) /\ step # "free"
            BY <1>8 DEF ServeNotes, ReceiveNotes
        <2>2. call[c].arg.client \in Clients /\ call[c].arg.notes \in Notes /\ call[c].arg.key \in Lists
            <3>1. call[c].arg \in NotesArgs["notes"]
                BY <1>0, <2>1, ArgsAndData
            <3> QED BY <3>1, NotesKinds
        <2>3. CASE ServeNotes(c)
            <3>1. server' \in [Clients -> Notes]
                BY <1>0, <2>2, <2>3 DEF ServeNotes
            <3>2. Nil \in NotesResults["notes"]
                BY NotesKinds
            <3> QED BY <2>3, <3>1, <3>2, ServeTyped DEF ServeNotes
        <2>4. CASE ReceiveNotes(c)
            <3> DEFINE state == [view EXCEPT !.selected = [id |-> call[c].arg.client, notes |-> call[c].arg.notes], !.saving = FALSE]
            <3>1. Reload(c, call[c].arg.key, state) /\ state \in NotesView
                BY Zenon, <1>0, <2>2, <2>4, NotesViewFields DEF ReceiveNotes
            <3> HIDE DEF state
            <3>2. [state EXCEPT !.loading = TRUE] \in NotesView
                BY Zenon, <3>1, NotesViewFields
            <3> QED BY <2>2, <3>1, <3>2, NotesKinds, LoadPageTyped
        <2> QED BY <1>8, <2>3, <2>4
    <1>9. ASSUME NEW c \in Calls, AnswerList(c, PageRows(call[c].arg)) PROVE NotesTypes'
        <2>1. Stands(c, "list", "sent") /\ "sent" # "free"
            BY <1>9 DEF AnswerList
        <2>2. call[c].arg \in Lists
            BY <1>0, <2>1, ArgsAndData, NotesKinds
        <2>3. PageRows(call[c].arg) \in NotesResults["list"]
            BY <1>0, <2>2, OnPageIsFound, NotesKinds
        <2> QED BY Zenon, <1>0, <1>9, <2>3, NotesKinds, NotesViewFields, ListPageTyped
    <1>a. ASSUME NEW c \in Calls, FailList(c, [d \in {} |-> Nil]) \/ LoseInList(c) PROVE NotesTypes'
        <2>1. [d \in {} |-> Nil] \in NotesResults["list"] /\ [d \in {} |-> Nil] \in NoteRows
            BY NobodyFound, NotesKinds
        <2> QED BY Zenon, <1>0, <1>a, <2>1, NotesKinds, NotesViewFields, ListPageTyped
    <1>b. ASSUME NEW c \in Calls, ReceiveClients(c) PROVE NotesTypes'
        <2>1. Stands(c, "list", "served") /\ "served" # "free" /\ SettleList(c)
            BY <1>b DEF ReceiveClients
        <2>2. call[c].data \in NoteRows /\ call[c].arg \in Lists
            BY <1>0, <2>1, ArgsAndData, NotesKinds
        <2>3. Len(Visitors) \in Nat
            BY CustomerNotesAssumption
        <2>4. view' \in NotesView /\ UNCHANGED server
            BY Zenon, <1>0, <1>b, <2>2, <2>3, NotesViewFields DEF ReceiveClients, SettleList
        <2>5. Typed(NotesArgs, NotesResults)'
            BY <1>0, <2>1, EndTyped DEF SettleList
        <2>6. past' \in ListPast
            <3>1. past' = [past EXCEPT !.loads = Without(past.loads, c), !.mixed = past.mixed \/ Head(past.loads) # c]
                BY <2>1 DEF SettleList
            <3>2. (past.mixed \/ Head(past.loads) # c) \in BOOLEAN
                OBVIOUS
            <3> QED BY Zenon, <1>0, <3>1, <3>2, HistoryIsTyped
        <2> QED BY <1>0, <2>4, <2>5, <2>6, PageStays DEF ListTyped, ListPast
    <1>c. ASSUME NEW c \in Calls, FailChange(c, "notes", [view EXCEPT !.saving = FALSE]) PROVE NotesTypes'
        BY Zenon, <1>0, <1>c, NotesViewFields, FailChangeTyped
    <1> QED
        BY <1>1, <1>4, <1>5, <1>6, <1>7, <1>8, <1>9, <1>a, <1>b, <1>c DEF NotesNext, NotesAnswers

LEMMA NotesIsTyped ==
    /\ NotesInit => NotesTypes
    /\ NotesTypes => NotesTypeOK
    <1>1. ASSUME NotesInit PROVE NotesTypes
        <2>0. FirstList \in Lists
            BY PagesOfLists DEF FirstList
        <2>1. ListTyped(NotesArgs, NotesResults)
            BY <1>1, <2>0, MountListTyped, NotesKinds DEF NotesInit
        <2>2. view \in NotesView
            BY <1>1, <2>0, NobodyFound DEF NotesInit, NotesView, Notes
        <2>3. server \in [Clients -> Notes]
            BY <1>1 DEF NotesInit, Notes
        <2> QED BY <2>1, <2>2, <2>3 DEF NotesTypes, PageTyped
    <1>2. ASSUME NotesTypes PROVE NotesTypeOK
        <2> DEFINE public == [list |-> NoteRows, notes |-> {}]
        <2>1. \A op \in DOMAIN NotesArgs : NotesResults[op] \subseteq public[op] \cup {Nil}
            BY NotesKinds
        <2>2. /\ \A c \in Calls : IsCall(call[c], NotesArgs, public)
              /\ view \in NotesView /\ server \in [Clients -> Notes] /\ past \in ListPast
            BY <1>2, <2>1, PageTypes DEF NotesTypes
        <2> QED BY <2>2 DEF NotesTypeOK, NotesArgs, notes
    <1> QED BY <1>1, <1>2

(***************************************************************************)
(* The types of the gift cards                                             *)
(***************************************************************************)
DeskArgs == [list |-> {Nil}, issue |-> {Nil}, check |-> Codes]
DeskResults == [list |-> SUBSET Codes, issue |-> {Nil}, check |-> Codes]
DeskServer == [issued : SUBSET Codes, dead : SUBSET Codes]
DeskPast == [loads : Seq(Calls), mixed : BOOLEAN, checks : Seq(Calls), asked : Codes \cup {Nil}]
DeskTypes == Typed(DeskArgs, DeskResults) /\ view \in DeskView /\ server \in DeskServer /\ past \in DeskPast

LEMMA DeskKinds ==
    /\ DOMAIN DeskArgs = {"list", "issue", "check"}
    /\ DeskArgs["list"] = {Nil} /\ DeskArgs["issue"] = {Nil} /\ DeskArgs["check"] = Codes
    /\ DeskResults["list"] = SUBSET Codes /\ DeskResults["issue"] = {Nil} /\ DeskResults["check"] = Codes
    BY DEF DeskArgs, DeskResults

LEMMA DeskTypesStay ==
    ASSUME view' \in DeskView, server' \in DeskServer, past' \in DeskPast, Typed(DeskArgs, DeskResults)'
    PROVE  DeskTypes'
    BY DEF DeskTypes, Typed, CallAllowed

\* What the page and its history may become.
LEMMA DeskFields ==
    ASSUME NEW v \in DeskView, NEW old \in DeskPast, NEW c \in Calls
    PROVE  /\ \A x \in BOOLEAN : [v EXCEPT !.issuing = x] \in DeskView
           /\ \A x \in Codes : [v EXCEPT !.searchCode = x] \in DeskView
           /\ \A x \in Codes \cup {Nil} : [v EXCEPT !.lookup = x] \in DeskView
           /\ \A x \in SUBSET Codes : [v EXCEPT !.rows = x, !.loading = FALSE] \in DeskView
           /\ [v EXCEPT !.loading = TRUE] \in DeskView
           /\ \A m \in BOOLEAN :
                 /\ [old EXCEPT !.mixed = m] \in DeskPast
                 /\ [old EXCEPT !.loads = Append(old.loads, c), !.mixed = m] \in DeskPast
                 /\ [old EXCEPT !.loads = Without(old.loads, c), !.mixed = m] \in DeskPast
                 /\ [old EXCEPT !.checks = Without(old.checks, c), !.mixed = m] \in DeskPast
           /\ \A x \in Codes : [old EXCEPT !.checks = Append(old.checks, c), !.asked = x] \in DeskPast
    <1>1. old.loads \in Seq(Calls) /\ old.checks \in Seq(Calls)
        BY DEF DeskPast
    <1>2. \A queue \in Seq(Calls) : Append(queue, c) \in Seq(Calls) /\ Without(queue, c) \in Seq(Calls)
        BY WithoutIsAQueue
    <1>3. \A l \in Seq(Calls), m \in BOOLEAN :
              [old EXCEPT !.loads = l, !.mixed = m] \in DeskPast /\ [old EXCEPT !.checks = l, !.mixed = m] \in DeskPast
        BY DEF DeskPast
    <1>4. \A l \in Seq(Calls), x \in Codes : [old EXCEPT !.checks = l, !.asked = x] \in DeskPast
        BY DEF DeskPast
    <1>5. \A m \in BOOLEAN : [old EXCEPT !.mixed = m] \in DeskPast
        BY DEF DeskPast
    <1>6. /\ \A x \in BOOLEAN : [v EXCEPT !.issuing = x] \in DeskView
          /\ \A x \in Codes : [v EXCEPT !.searchCode = x] \in DeskView
          /\ \A x \in Codes \cup {Nil} : [v EXCEPT !.lookup = x] \in DeskView
          /\ \A x \in SUBSET Codes : [v EXCEPT !.rows = x, !.loading = FALSE] \in DeskView
          /\ [v EXCEPT !.loading = TRUE] \in DeskView
        BY Zenon DEF DeskView
    <1> QED BY Zenon, <1>1, <1>2, <1>3, <1>4, <1>5, <1>6

LEMMA DeskTypesStep ==
    ASSUME DeskTypes, [DeskNext]_webVars
    PROVE  DeskTypes'
    <1>0. Typed(DeskArgs, DeskResults) /\ view \in DeskView /\ server \in DeskServer /\ past \in DeskPast /\ view.rows \in SUBSET Codes
        BY DEF DeskTypes, DeskView
    <1>1. CASE UNCHANGED webVars
        BY <1>0, <1>1, StillTyped, DeskTypesStay DEF webVars
    <1>2. ASSUME NEW state \in DeskView, Show(state) PROVE DeskTypes'
        BY <1>0, <1>2, StillTyped, DeskTypesStay DEF Show
    <1>3. DeskHeader => DeskTypes'
        <2>1. [view EXCEPT !.issuing = TRUE] \in DeskView
            BY <1>0 DEF DeskView
        <2> QED BY <1>2, <2>1 DEF DeskHeader
    <1>4. ASSUME NEW c \in Calls, NEW op \in DOMAIN DeskArgs, NEW arg \in DeskArgs[op], Send(c, op, arg) \/ Then(c, op, arg),
                 view' \in DeskView, past' \in DeskPast, UNCHANGED server
          PROVE  DeskTypes'
        BY <1>0, <1>4, SendTyped, DeskTypesStay
    <1>5. ASSUME NEW c \in Calls, IssueModal(c) \/ LookupWidget(c) PROVE DeskTypes'
        <2>1. CASE Send(c, "issue", Nil) /\ Keep
            BY <1>0, <1>4, <2>1, DeskKinds DEF Keep
        <2>2. CASE HandleCheckBalance(c)
            <3>1. view.searchCode \in Codes
                BY <1>0, <2>2 DEF HandleCheckBalance, DeskView
            <3>2. past' \in DeskPast
                BY Zenon, <1>0, <2>2, <3>1, DeskFields DEF HandleCheckBalance
            <3> QED BY <1>0, <1>4, <2>2, <3>1, <3>2, DeskKinds DEF HandleCheckBalance
        <2> QED
            BY Zenon, <1>0, <1>2, <1>5, <2>1, <2>2, DeskFields DEF IssueModal, LookupWidget
    <1>6. ASSUME NEW c \in Calls, NEW op, Stands(c, op, "sent"), NEW data, op \in DOMAIN DeskArgs => data \in DeskResults[op],
                 Answer(c, data) \/ Refuse(c), server' \in DeskServer, UNCHANGED <<view, past>>
          PROVE  DeskTypes'
        <2>1. Typed(DeskArgs, DeskResults)'
            BY <1>0, <1>6, AnswerTyped, RefuseTyped
        <2> QED BY <1>0, <1>6, <2>1, DeskTypesStay
    <1>7. ASSUME NEW c \in Calls, ServeIssue(c) PROVE DeskTypes'
        <2>1. server' \in DeskServer
            BY <1>0, <1>7 DEF ServeIssue, DeskServer
        <2> QED BY <1>6, <1>7, <2>1, DeskKinds DEF ServeIssue
    <1>8. ASSUME NEW c \in Calls, ServeCheck(c) PROVE DeskTypes'
        <2>1. Stands(c, "check", "sent") /\ "sent" # "free" /\ (Answer(c, call[c].arg) \/ Refuse(c)) /\ Keep
            BY <1>8 DEF ServeCheck
        <2>2. call[c].arg \in Codes
            BY <1>0, <2>1, ArgsAndData, DeskKinds
        <2> QED BY <1>0, <1>6, <2>1, <2>2, DeskKinds DEF Keep
    <1>9. ASSUME NEW c \in Calls, AnswerList(c, issued) PROVE DeskTypes'
        <2>1. issued \in SUBSET Codes
            BY <1>0 DEF issued, DeskServer
        <2> QED BY <1>0, <1>6, <1>9, <2>1, DeskKinds DEF AnswerList, Keep
    <1>a. ASSUME NEW c \in Calls, End(c), view' \in DeskView, past' \in DeskPast, UNCHANGED server PROVE DeskTypes'
        BY <1>0, <1>a, EndTyped, DeskTypesStay
    <1>b. ASSUME NEW c \in Calls, ReceiveList(c) PROVE DeskTypes'
        <2>1. /\ Stands(c, "list", "served") /\ "served" # "free" /\ End(c) /\ UNCHANGED server
              /\ view' = [view EXCEPT !.rows = call[c].data, !.loading = FALSE]
              /\ past' = [past EXCEPT !.loads = Without(past.loads, c), !.mixed = past.mixed \/ Head(past.loads) # c]
            BY <1>b DEF ReceiveList, ReceiveRows, SettleList
        <2>2. call[c].data \in SUBSET Codes
            BY <1>0, <2>1, ArgsAndData, DeskKinds
        <2>3. view' \in DeskView
            BY Zenon, <1>0, <2>1, <2>2, DeskFields
        <2>4. past' \in DeskPast
            <3>1. (past.mixed \/ Head(past.loads) # c) \in BOOLEAN
                OBVIOUS
            <3> QED BY Zenon, <1>0, <2>1, <3>1, DeskFields
        <2> QED BY <1>a, <2>1, <2>3, <2>4
    <1>c. ASSUME NEW c \in Calls, FailList(c, view.rows) \/ FailChange(c, "issue", view) PROVE DeskTypes'
        <2>1. CASE FailList(c, view.rows)
            <3>1. view' \in DeskView /\ past' \in DeskPast
                BY Zenon, <1>0, <2>1, DeskFields DEF FailList
            <3> QED BY <1>a, <2>1, <3>1 DEF FailList
        <2>2. CASE FailChange(c, "issue", view)
            BY <1>0, <1>a, <2>2 DEF FailChange
        <2> QED BY <1>c, <2>1, <2>2
    <1>d. ASSUME NEW c \in Calls, LoseInList(c) PROVE DeskTypes'
        <2>1. Lose(c) /\ past' \in DeskPast /\ UNCHANGED <<view, server>>
            BY Zenon, <1>0, <1>d, DeskFields DEF LoseInList
        <2> QED BY <1>0, <2>1, LoseTyped, DeskTypesStay
    <1>e. ASSUME NEW c \in Calls, ReceiveIssue(c) PROVE DeskTypes'
        <2> DEFINE state == [view EXCEPT !.issuing = FALSE]
        <2>1. state \in DeskView /\ Reload(c, Nil, state)
            BY Zenon, <1>0, <1>e, DeskFields DEF ReceiveIssue
        <2> HIDE DEF state
        <2>2. /\ Then(c, "list", Nil) /\ UNCHANGED server /\ view' = [state EXCEPT !.loading = TRUE]
              /\ past' = [past EXCEPT !.loads = Append(past.loads, c), !.mixed = past.mixed \/ Nil # state.key]
            BY <2>1 DEF Reload
        <2>3. view' \in DeskView
            BY Zenon, <1>0, <2>1, <2>2, DeskFields
        <2>4. past' \in DeskPast
            <3>1. (past.mixed \/ Nil # state.key) \in BOOLEAN
                OBVIOUS
            <3> QED BY Zenon, <1>0, <2>2, <3>1, DeskFields
        <2> QED BY <1>4, <2>2, <2>3, <2>4, DeskKinds
    <1>f. ASSUME NEW c \in Calls, ReceiveCheck(c) \/ FailCheck(c) PROVE DeskTypes'
        <2>1. PICK code \in Codes \cup {Nil} : SettleCheck(c, code)
            <3>1. CASE ReceiveCheck(c)
                <4>1. Stands(c, "check", "served") /\ "served" # "free"
                    BY <3>1 DEF ReceiveCheck
                <4>2. call[c].data \in Codes
                    BY <1>0, <4>1, ArgsAndData, DeskKinds
                <4> QED BY <3>1, <4>2 DEF ReceiveCheck
            <3> QED BY <1>f, <3>1 DEF FailCheck
        <2>2. view' \in DeskView /\ End(c) /\ UNCHANGED server
            BY Zenon, <1>0, <2>1, DeskFields DEF SettleCheck
        <2>3. past' \in DeskPast
            <3>1. (past.mixed \/ Head(past.checks) # c) \in BOOLEAN
                OBVIOUS
            <3>2. past' = [past EXCEPT !.checks = Without(past.checks, c), !.mixed = past.mixed \/ Head(past.checks) # c]
                BY <2>1 DEF SettleCheck
            <3> QED BY Zenon, <1>0, <3>1, <3>2, DeskFields
        <2> QED BY <1>a, <2>2, <2>3
    <1> QED
        BY <1>1, <1>3, <1>5, <1>7, <1>8, <1>9, <1>b, <1>c, <1>d, <1>e, <1>f DEF DeskNext, DeskAnswers

LEMMA DeskIsTyped ==
    /\ DeskInit => DeskTypes
    /\ DeskTypes => DeskTypeOK
    <1>1. ASSUME DeskInit PROVE DeskTypes
        <2>1. PICK c \in Calls :
                  /\ call = [d \in Calls |-> IF d = c THEN Request("list", Nil) ELSE Free]
                  /\ past = [loads |-> <<c>>, mixed |-> FALSE, checks |-> <<>>, asked |-> Nil]
            BY <1>1, Zenon DEF DeskInit
        <2>2. Mount(Request("list", Nil)) /\ past \in DeskPast
            BY <2>1 DEF Mount, DeskPast
        <2>3. Typed(DeskArgs, DeskResults)
            BY <2>2, MountTyped, DeskKinds
        <2>4. view \in DeskView /\ server \in DeskServer
            BY <1>1 DEF DeskInit, DeskView, DeskServer
        <2> QED BY <2>2, <2>3, <2>4 DEF DeskTypes
    <1>2. ASSUME DeskTypes PROVE DeskTypeOK
        <2> DEFINE public == [list |-> SUBSET Codes, issue |-> {}, check |-> Codes]
        <2>1. \A op \in DOMAIN DeskArgs : DeskResults[op] \subseteq public[op] \cup {Nil}
            BY DeskKinds
        <2>2. \A c \in Calls : IsCall(call[c], DeskArgs, public)
            BY <1>2, <2>1, TypedIsCall DEF DeskTypes
        <2> QED BY <1>2, <2>2 DEF DeskTypeOK, DeskArgs, DeskTypes, DeskServer, DeskPast
    <1> QED BY <1>1, <1>2

(***************************************************************************)
(* The types of the services and the staff                                 *)
(***************************************************************************)
EditorArgs ==
    [list |-> {Nil}, save |-> [entry : Entries \cup {Nil}, form : DialogForms], delete |-> [entry : Entries]]
EditorResults == [list |-> EntryRows, save |-> {Nil}, delete |-> {Nil}]
EditorServer == [rows : EntryRows, gone : SUBSET Entries]
EditorTypes == PageTyped(EditorArgs, EditorResults, EditorView, EditorServer)

LEMMA EditorKinds ==
    /\ DOMAIN EditorArgs = {"list", "save", "delete"} /\ EditorArgs["list"] = {Nil}
    /\ EditorArgs["save"] = [entry : Entries \cup {Nil}, form : DialogForms] /\ EditorArgs["delete"] = [entry : Entries]
    /\ EditorResults["list"] = EntryRows /\ EditorResults["save"] = {Nil} /\ EditorResults["delete"] = {Nil}
    BY DEF EditorArgs, EditorResults

LEMMA EntryRowsOf ==
    ASSUME NEW have \in SUBSET Entries, NEW rows \in [have -> Content]
    PROVE  rows \in EntryRows
    BY DEF EntryRows

LEMMA OfEntryRows ==
    ASSUME NEW rows \in EntryRows
    PROVE  /\ DOMAIN rows \in SUBSET Entries /\ rows \in [DOMAIN rows -> Content]
           /\ \A e \in DOMAIN rows : rows[e] \in Content /\ rows[e] \in DialogForms
    <1>1. PICK have \in SUBSET Entries : rows \in [have -> Content]
        BY DEF EntryRows
    <1>2. Content \subseteq DialogForms
        BY DEF Content, DialogForms
    <1> QED BY <1>1, <1>2

\* What the page may become.
LEMMA EditorViewFields ==
    ASSUME NEW v \in EditorView
    PROVE  /\ \A e \in Entries \cup {Nil}, f \in DialogForms :
                  [v EXCEPT !.modal = TRUE, !.editing = e, !.form = f, !.submitting = FALSE] \in EditorView
           /\ [v EXCEPT !.form.edited = TRUE] \in EditorView
           /\ \A x \in BOOLEAN : [v EXCEPT !.modal = x] \in EditorView /\ [v EXCEPT !.submitting = x] \in EditorView
           /\ [v EXCEPT !.modal = FALSE, !.submitting = FALSE] \in EditorView
           /\ \A x \in EntryRows : [v EXCEPT !.rows = x, !.loading = FALSE] \in EditorView
           /\ [v EXCEPT !.loading = TRUE] \in EditorView
    <1>1. v.form \in DialogForms /\ [v.form EXCEPT !.edited = TRUE] \in DialogForms
        BY DEF EditorView, DialogForms
    <1>2. [v EXCEPT !.form.edited = TRUE] = [v EXCEPT !.form = [v.form EXCEPT !.edited = TRUE]]
        BY DEF EditorView
    <1>3. \A f \in DialogForms : [v EXCEPT !.form = f] \in EditorView
        BY DEF EditorView
    <1>4. /\ \A e \in Entries \cup {Nil}, f \in DialogForms :
                 [v EXCEPT !.modal = TRUE, !.editing = e, !.form = f, !.submitting = FALSE] \in EditorView
          /\ \A x \in BOOLEAN : [v EXCEPT !.modal = x] \in EditorView /\ [v EXCEPT !.submitting = x] \in EditorView
          /\ [v EXCEPT !.modal = FALSE, !.submitting = FALSE] \in EditorView
          /\ \A x \in EntryRows : [v EXCEPT !.rows = x, !.loading = FALSE] \in EditorView
          /\ [v EXCEPT !.loading = TRUE] \in EditorView
        BY Zenon DEF EditorView
    <1> QED BY Zenon, <1>1, <1>2, <1>3, <1>4

LEMMA EditorClicksTyped ==
    ASSUME EditorTypes,
           \/ ServicesOpenCreate \/ StaffOpenCreate
           \/ \E c \in Calls : ServicesList(c) \/ StaffList(c) \/ ServicesModal(c) \/ StaffModal(c)
    PROVE  EditorTypes'
    <1> USE DEF EditorTypes
    <1>0. view \in EditorView /\ view.rows \in EntryRows /\ view.form \in DialogForms /\ view.editing \in Entries \cup {Nil}
        BY DEF PageTyped, EditorView
    <1>1. ASSUME NEW state \in EditorView, Show(state) PROVE EditorTypes'
        BY <1>1, ShowTyped
    <1>2. ASSUME NEW e \in Entries \cup {Nil}, NEW f \in DialogForms, OpenDialog(e, f) PROVE EditorTypes'
        BY Zenon, <1>0, <1>1, <1>2, EditorViewFields DEF OpenDialog
    <1>3. Blank \in DialogForms /\ [view.form EXCEPT !.of = Nil] \in DialogForms
        BY <1>0 DEF Blank, DialogForms
    <1>4. ServicesOpenCreate \/ StaffOpenCreate => EditorTypes'
        BY <1>2, <1>3 DEF ServicesOpenCreate, StaffOpenCreate
    <1>5. ASSUME NEW e \in Entries, ServicesOpenEdit(e) \/ StaffOpenEdit(e) PROVE EditorTypes'
        <2>1. view.rows[e] \in DialogForms
            BY <1>0, <1>5, OfEntryRows DEF ServicesOpenEdit, StaffOpenEdit, Listed
        <2> QED BY <1>2, <1>5, <2>1 DEF ServicesOpenEdit, StaffOpenEdit
    <1>6. ASSUME NEW c \in Calls, NEW e \in Entries, SendDelete(c, e) PROVE EditorTypes'
        <2>1. [entry |-> e] \in EditorArgs["delete"] /\ "delete" \in DOMAIN EditorArgs
            BY EditorKinds
        <2> QED BY <1>0, <1>6, <2>1, AskTyped DEF SendDelete, Keep
    <1>7. ASSUME NEW c \in Calls, SubmitForm(c) PROVE EditorTypes'
        <2>1. [entry |-> view.editing, form |-> view.form] \in EditorArgs["save"] /\ "save" \in DOMAIN EditorArgs
            BY <1>0, EditorKinds
        <2>2. view' \in EditorView
            BY Zenon, <1>0, <1>7, EditorViewFields DEF SubmitForm
        <2> QED BY <1>7, <2>1, <2>2, AskTyped DEF SubmitForm
    <1>8. TypeInForm \/ CloseDialog => EditorTypes'
        BY Zenon, <1>0, <1>1, EditorViewFields DEF TypeInForm, CloseDialog
    <1> QED
        BY <1>4, <1>5, <1>6, <1>7, <1>8 DEF ServicesList, StaffList, ServicesModal, StaffModal

\* Of a saved form, the entry is the one that is saved.
LEMMA EditorServesTyped ==
    ASSUME EditorTypes, EditorInv, NEW c \in Calls,
           ServeCreate(c) \/ ServeUpdate(c) \/ ServeDelete(c) \/ RefuseStaff(c)
    PROVE  EditorTypes'
    <1> USE DEF EditorTypes
    <1>0. /\ server = [rows |-> entries, gone |-> server.gone] /\ entries \in EntryRows /\ server.gone \in SUBSET Entries
          /\ server \in EditorServer /\ Typed(EditorArgs, EditorResults)
        BY DEF PageTyped, ListTyped, EditorServer, entries
    <1>1. DOMAIN entries \in SUBSET Entries /\ \A e \in DOMAIN entries : entries[e] \in Content
        BY <1>0, OfEntryRows
    <1>2. Nil \in EditorResults["save"] /\ Nil \in EditorResults["delete"]
        BY EditorKinds
    <1>3. ASSUME NEW rows \in EntryRows, NEW gone \in SUBSET Entries PROVE [rows |-> rows, gone |-> gone] \in EditorServer
        BY DEF EditorServer
    <1>4. ASSUME Stands(c, "save", "sent")
          PROVE  /\ call[c].arg.entry \in Entries \cup {Nil} /\ call[c].arg.form \in DialogForms
                 /\ call[c].arg.form.of = call[c].arg.entry
        BY <1>4 DEF Stands, EditorInv, OwnSave, OwnForm
    <1>5. CASE ServeCreate(c)
        <2>1. PICK e \in Entries : server' = [server EXCEPT !.rows = [f \in DOMAIN entries \cup {e} |->
                                       IF f = e THEN [of |-> e, edited |-> call[c].arg.form.edited] ELSE entries[f]]]
            BY <1>5 DEF ServeCreate
        <2>2. [of |-> e, edited |-> call[c].arg.form.edited] \in Content
            BY <1>4, <1>5 DEF ServeCreate, DialogForms, Content
        <2> DEFINE rows == [f \in DOMAIN entries \cup {e} |->
                                IF f = e THEN [of |-> e, edited |-> call[c].arg.form.edited] ELSE entries[f]]
        <2>3. rows \in [DOMAIN entries \cup {e} -> Content]
            BY <1>1, <2>2
        <2> HIDE DEF rows
        <2>4. rows \in EntryRows
            BY <1>1, <2>3, EntryRowsOf
        <2>5. server' = [rows |-> rows, gone |-> server.gone]
            BY <1>0, <2>1 DEF rows
        <2>6. server' \in EditorServer
            BY <1>0, <1>3, <2>4, <2>5
        <2> QED BY <1>2, <1>5, <2>6, ServeTyped DEF ServeCreate
    <1>6. CASE ServeUpdate(c)
        <2>0. Stands(c, "save", "sent") /\ (Answer(c, Nil) \/ Refuse(c)) /\ UNCHANGED <<view, past>>
            BY <1>6 DEF ServeUpdate
        <2>1. CASE UNCHANGED server
            BY <1>0, <1>2, <2>0, <2>1, ServeTyped
        <2>2. CASE /\ call[c].arg.entry \in DOMAIN entries
                   /\ server' = [server EXCEPT !.rows[call[c].arg.entry] = call[c].arg.form]
            <3>1. call[c].arg.form \in Content
                BY <1>1, <1>4, <2>0, <2>2 DEF DialogForms, Content
            <3> DEFINE rows == [entries EXCEPT ![call[c].arg.entry] = call[c].arg.form]
            <3>2. entries \in [DOMAIN entries -> Content]
                BY <1>0, OfEntryRows
            <3>3. rows \in [DOMAIN entries -> Content]
                BY <3>1, <3>2
            <3> HIDE DEF rows
            <3>4. rows \in EntryRows
                BY <1>1, <3>3, EntryRowsOf
            <3>5. server' = [rows |-> rows, gone |-> server.gone]
                BY <1>0, <2>2 DEF rows, entries
            <3>6. server' \in EditorServer
                BY <1>0, <1>3, <3>4, <3>5
            <3> QED BY <1>2, <2>0, <3>6, ServeTyped
        <2> QED BY <1>6, <2>1, <2>2 DEF ServeUpdate
    <1>7. CASE ServeDelete(c)
        <2>0. /\ Stands(c, "delete", "sent") /\ "sent" # "free" /\ (Answer(c, Nil) \/ Refuse(c)) /\ UNCHANGED <<view, past>>
            BY <1>7 DEF ServeDelete
        <2>1. CASE UNCHANGED server
            BY <1>0, <1>2, <2>0, <2>1, ServeTyped
        <2> DEFINE e == call[c].arg.entry
                   rows == [f \in DOMAIN entries \ {e} |-> entries[f]]
        <2>2. CASE server' = [rows |-> rows, gone |-> server.gone \cup {e}]
            <3>1. call[c].arg \in EditorArgs["delete"]
                BY <1>0, <2>0, ArgsAndData
            <3>2. e \in Entries
                BY <3>1, EditorKinds
            <3>3. rows \in [DOMAIN entries \ {e} -> Content]
                BY <1>1
            <3> HIDE DEF rows, e
            <3>4. rows \in EntryRows
                BY <1>1, <3>3, EntryRowsOf
            <3>5. server' \in EditorServer
                BY <1>0, <1>3, <2>2, <3>2, <3>4
            <3> QED BY <1>2, <2>0, <3>5, ServeTyped
        <2> QED BY <1>7, <2>1, <2>2 DEF ServeDelete
    <1>8. CASE RefuseStaff(c)
        BY <1>0, <1>2, <1>8, ServeTyped DEF RefuseStaff, Keep
    <1> QED BY <1>5, <1>6, <1>7, <1>8

LEMMA EditorAnswersTyped ==
    ASSUME EditorTypes, NEW c \in Calls,
           \/ AnswerList(c, entries) \/ ReceiveList(c) \/ FailList(c, view.rows) \/ LoseInList(c)
           \/ ServicesSettle(c) \/ StaffSettle(c)
    PROVE  EditorTypes'
    <1> USE DEF EditorTypes
    <1>0. view \in EditorView /\ view.rows \in EntryRows /\ entries \in EntryRows
        BY DEF PageTyped, EditorView, EditorServer, entries
    <1>1. CASE AnswerList(c, entries) \/ ReceiveList(c) \/ FailList(c, view.rows) \/ LoseInList(c)
        BY Zenon, <1>0, <1>1, EditorKinds, EditorViewFields, ListPageTyped
    <1>2. ASSUME NEW state \in EditorView, Reload(c, Nil, state) PROVE EditorTypes'
        <2>1. [state EXCEPT !.loading = TRUE] \in EditorView
            BY Zenon, EditorViewFields
        <2> QED BY <1>2, <2>1, EditorKinds, LoadPageTyped
    <1>3. ASSUME NEW op, NEW state \in EditorView, FailChange(c, op, state) PROVE EditorTypes'
        BY <1>3, FailChangeTyped
    <1>4. /\ [view EXCEPT !.modal = FALSE, !.submitting = FALSE] \in EditorView /\ [view EXCEPT !.submitting = FALSE] \in EditorView
        BY Zenon, <1>0, EditorViewFields
    <1> QED
        BY <1>0, <1>1, <1>2, <1>3, <1>4 DEF ServicesSettle, StaffSettle, ReceiveSaved

LEMMA EditorTypesStep ==
    ASSUME EditorTypes, EditorInv, [ServicesNext \/ StaffNext]_webVars
    PROVE  EditorTypes'
    <1>1. CASE UNCHANGED webVars
        BY <1>1, PageStays, ListStillTyped DEF webVars, EditorTypes, PageTyped
    <1>2. CASE ServicesNext
        BY <1>2, EditorClicksTyped, EditorServesTyped, EditorAnswersTyped DEF ServicesNext, ServicesAnswers
    <1>3. CASE StaffNext
        BY <1>3, EditorClicksTyped, EditorServesTyped, EditorAnswersTyped DEF StaffNext, StaffAnswers
    <1> QED BY <1>1, <1>2, <1>3

LEMMA EditorIsTyped ==
    /\ EditorInit => EditorTypes
    /\ EditorTypes => EditorTypeOK
    <1>1. ASSUME EditorInit PROVE EditorTypes
        <2>1. ListTyped(EditorArgs, EditorResults)
            BY <1>1, MountListTyped, EditorKinds DEF EditorInit
        <2>2. view \in EditorView
            <3>1. [e \in {} |-> Nil] \in [{} -> Content]
                OBVIOUS
            <3>2. [e \in {} |-> Nil] \in EntryRows
                BY <3>1, EntryRowsOf
            <3> QED BY <1>1, <3>2 DEF EditorInit, EditorView, Blank, DialogForms
        <2>3. server \in EditorServer
            <3>1. PICK have \in SUBSET Entries : server = [rows |-> [e \in have |-> [of |-> e, edited |-> FALSE]], gone |-> {}]
                BY <1>1 DEF EditorInit
            <3>2. [e \in have |-> [of |-> e, edited |-> FALSE]] \in [have -> Content]
                BY DEF Content
            <3>3. [e \in have |-> [of |-> e, edited |-> FALSE]] \in EntryRows
                BY <3>2, EntryRowsOf
            <3> QED BY <3>1, <3>3 DEF EditorServer
        <2> QED BY <2>1, <2>2, <2>3 DEF EditorTypes, PageTyped
    <1>2. ASSUME EditorTypes PROVE EditorTypeOK
        <2> DEFINE public == [list |-> EntryRows, save |-> {}, delete |-> {}]
        <2>1. \A op \in DOMAIN EditorArgs : EditorResults[op] \subseteq public[op] \cup {Nil}
            BY EditorKinds
        <2>2. /\ \A c \in Calls : IsCall(call[c], EditorArgs, public)
              /\ view \in EditorView /\ server \in EditorServer /\ past \in ListPast
            BY <1>2, <2>1, PageTypes DEF EditorTypes
        <2> QED BY <2>2 DEF EditorTypeOK, EditorArgs, EditorServer, entries
    <1> QED BY <1>1, <1>2

(***************************************************************************)
(* The types of the booking page                                           *)
(*                                                                         *)
(* Past its first step a service is chosen, and a slot in the last one: so *)
(* no request is sent without.                                             *)
(***************************************************************************)
BookArgs == [load |-> {Nil}, staff |-> Treatments, slots |-> Questions, book |-> Bookings]
BookResults == [load |-> {Nil}, staff |-> {Nil}, slots |-> SUBSET Slots, book |-> {Nil}]
BookSeen ==
    {v \in BookView : /\ v.step \in {"staff", "datetime", "confirm"} => v.service # Nil
                      /\ v.step = "confirm" => v.slot # Nil}
BookPast == [preselected : Treatments \cup {Nil}, overlap : BOOLEAN]
BookTypes == Typed(BookArgs, BookResults) /\ view \in BookSeen /\ server = Nil /\ past \in BookPast

LEMMA BookKinds ==
    /\ DOMAIN BookArgs = {"load", "staff", "slots", "book"} /\ BookArgs["load"] = {Nil} /\ BookArgs["staff"] = Treatments
    /\ BookArgs["slots"] = Questions /\ BookArgs["book"] = Bookings
    /\ BookResults["load"] = {Nil} /\ BookResults["staff"] = {Nil}
    /\ BookResults["slots"] = SUBSET Slots /\ BookResults["book"] = {Nil}
    BY DEF BookArgs, BookResults

LEMMA BookTypesStay ==
    ASSUME view' \in BookSeen, server' = Nil, past' \in BookPast, Typed(BookArgs, BookResults)'
    PROVE  BookTypes'
    BY DEF BookTypes, Typed, CallAllowed

\* What the page may become.
LEMMA BookSeenFields ==
    ASSUME NEW v \in BookSeen
    PROVE  /\ v \in BookView
           /\ \A x \in BOOLEAN : [v EXCEPT !.loadingSlots = x] \in BookSeen /\ [v EXCEPT !.booking = x] \in BookSeen
           /\ \A x \in SUBSET Stylists : [v EXCEPT !.staffList = x] \in BookSeen
           /\ \A x \in (SUBSET Slots) \cup {Nil}, y \in BOOLEAN : [v EXCEPT !.availability = x, !.loadingSlots = y] \in BookSeen
           /\ \A x \in SUBSET Treatments : [v EXCEPT !.services = x] \in BookSeen
           /\ [v EXCEPT !.step = "service"] \in BookSeen /\ [v EXCEPT !.step = "left", !.booking = FALSE] \in BookSeen
           /\ \A x \in Treatments : [v EXCEPT !.service = x, !.step = "staff"] \in BookSeen
           /\ v.service # Nil => [v EXCEPT !.step = "staff"] \in BookSeen /\ [v EXCEPT !.step = "datetime"] \in BookSeen
           /\ v.service # Nil => \A x \in Stylists \cup {Nil} : [v EXCEPT !.staff = x, !.step = "datetime"] \in BookSeen
           /\ v.service # Nil /\ v.slot # Nil => [v EXCEPT !.step = "confirm"] \in BookSeen
           /\ v.step = "datetime" => \A x \in CarouselDays : [v EXCEPT !.day = x, !.slot = Nil] \in BookSeen
           /\ v.step = "datetime" => \A x \in Slots : [v EXCEPT !.slot = x] \in BookSeen
    <1>0. Nil \notin Treatments
        BY BookPageAssumption
    <1>1. v \in BookView
        BY <1>0 DEF BookSeen, BookView
    <1>2. \A x \in BOOLEAN : [v EXCEPT !.loadingSlots = x] \in BookSeen /\ [v EXCEPT !.booking = x] \in BookSeen
        BY <1>0 DEF BookSeen, BookView
    <1>3. \A x \in SUBSET Stylists : [v EXCEPT !.staffList = x] \in BookSeen
        BY <1>0 DEF BookSeen, BookView
    <1>4. \A x \in (SUBSET Slots) \cup {Nil}, y \in BOOLEAN : [v EXCEPT !.availability = x, !.loadingSlots = y] \in BookSeen
        BY <1>0 DEF BookSeen, BookView
    <1>5. \A x \in SUBSET Treatments : [v EXCEPT !.services = x] \in BookSeen
        BY <1>0 DEF BookSeen, BookView
    <1>6. [v EXCEPT !.step = "service"] \in BookSeen /\ [v EXCEPT !.step = "left", !.booking = FALSE] \in BookSeen
        BY <1>0 DEF BookSeen, BookView
    <1>7. \A x \in Treatments : [v EXCEPT !.service = x, !.step = "staff"] \in BookSeen
        BY <1>0 DEF BookSeen, BookView
    <1>8. v.service # Nil => [v EXCEPT !.step = "staff"] \in BookSeen /\ [v EXCEPT !.step = "datetime"] \in BookSeen
        BY <1>0 DEF BookSeen, BookView
    <1>9. v.service # Nil => \A x \in Stylists \cup {Nil} : [v EXCEPT !.staff = x, !.step = "datetime"] \in BookSeen
        BY <1>0 DEF BookSeen, BookView
    <1>a. v.service # Nil /\ v.slot # Nil => [v EXCEPT !.step = "confirm"] \in BookSeen
        BY <1>0 DEF BookSeen, BookView
    <1>b. v.step = "datetime" => \A x \in CarouselDays : [v EXCEPT !.day = x, !.slot = Nil] \in BookSeen
        BY <1>0 DEF BookSeen, BookView
    <1>c. v.step = "datetime" => \A x \in Slots : [v EXCEPT !.slot = x] \in BookSeen
        BY <1>0 DEF BookSeen, BookView
    <1> QED
        BY Zenon, <1>1, <1>2, <1>3, <1>4, <1>5, <1>6, <1>7, <1>8, <1>9, <1>a, <1>b, <1>c

LEMMA LoadSlotsTyped ==
    ASSUME BookTypes, NEW c \in Calls, NEW state \in BookSeen, state.service # Nil, LoadSlots(c, state)
    PROVE  BookTypes'
    <1>0. Typed(BookArgs, BookResults) /\ server = Nil /\ past \in BookPast
        BY DEF BookTypes
    <1>1. [service |-> state.service, staff |-> state.staff, day |-> state.day] \in BookArgs["slots"] /\ "slots" \in DOMAIN BookArgs
        BY BookKinds DEF Questions, BookSeen, BookView
    <1>2. /\ Send(c, "slots", [service |-> state.service, staff |-> state.staff, day |-> state.day]) /\ UNCHANGED server
          /\ view' = [state EXCEPT !.availability = Nil, !.loadingSlots = TRUE]
          /\ past' = [past EXCEPT !.overlap = past.overlap \/ Pending("slots") # {}]
        BY DEF LoadSlots
    <1>3. view' \in BookSeen
        BY Zenon, <1>2, BookSeenFields
    <1>4. past' \in BookPast
        <2>1. (past.overlap \/ Pending("slots") # {}) \in BOOLEAN
            OBVIOUS
        <2> QED BY <1>0, <1>2, <2>1 DEF BookPast
    <1>5. Typed(BookArgs, BookResults)'
        BY <1>0, <1>1, <1>2, SendTyped
    <1> QED BY <1>0, <1>2, <1>3, <1>4, <1>5, BookTypesStay

LEMMA BookTypesStep ==
    ASSUME BookTypes, [BookNext]_webVars
    PROVE  BookTypes'
    <1>0. Typed(BookArgs, BookResults) /\ view \in BookSeen /\ view \in BookView /\ server = Nil /\ past \in BookPast
        BY DEF BookTypes, BookSeen
    <1>1. CASE UNCHANGED webVars
        BY <1>0, <1>1, StillTyped, BookTypesStay DEF webVars
    <1>2. ASSUME NEW state \in BookSeen, Show(state) PROVE BookTypes'
        BY <1>0, <1>2, StillTyped, BookTypesStay DEF Show
    <1>3. ASSUME NEW c \in Calls, NEW op \in DOMAIN BookArgs, NEW arg \in BookArgs[op], Send(c, op, arg) \/ Then(c, op, arg),
                 view' \in BookSeen, UNCHANGED <<server, past>>
          PROVE  BookTypes'
        BY <1>0, <1>3, SendTyped, BookTypesStay
    <1>4. ASSUME NEW c \in Calls, End(c), view' \in BookSeen, UNCHANGED <<server, past>> PROVE BookTypes'
        BY <1>0, <1>4, EndTyped, BookTypesStay
    <1>5. view.step \in {"staff", "datetime", "confirm"} => view.service # Nil
        BY <1>0 DEF BookSeen
    <1>6. ASSUME NEW c \in Calls, ServiceStep(c) PROVE BookTypes'
        <2>1. PICK s \in view.services :
                  IF s = view.service
                  THEN Show([view EXCEPT !.step = "staff"])
                  ELSE LoadStaff(c, [view EXCEPT !.service = s, !.step = "staff"])
            BY <1>6 DEF ServiceStep
        <2>2. s \in Treatments /\ Nil \notin Treatments
            BY <1>0, BookPageAssumption DEF BookView
        <2>3. CASE s = view.service
            BY Zenon, <1>0, <1>2, <2>1, <2>2, <2>3, BookSeenFields
        <2>4. CASE s # view.service
            <3> DEFINE state == [view EXCEPT !.service = s, !.step = "staff"]
            <3>1. state \in BookSeen /\ state.service = s
                BY <1>0, <2>2, BookSeenFields DEF BookView
            <3>2. LoadStaff(c, state)
                BY <2>1, <2>4
            <3> HIDE DEF state
            <3>3. Send(c, "staff", s) /\ view' \in BookSeen /\ UNCHANGED <<server, past>>
                BY <3>1, <3>2 DEF LoadStaff
            <3> QED BY <1>3, <2>2, <3>3, BookKinds
        <2> QED BY <2>3, <2>4
    <1>7. ASSUME NEW c \in Calls, StaffStep(c) PROVE BookTypes'
        <2>1. CASE Show([view EXCEPT !.step = "service"])
            BY Zenon, <1>0, <1>2, <2>1, BookSeenFields
        <2>2. CASE \E s \in view.staffList \cup {Nil} : LoadSlots(c, [view EXCEPT !.staff = s, !.step = "datetime"])
            <3>1. PICK s \in view.staffList \cup {Nil} : LoadSlots(c, [view EXCEPT !.staff = s, !.step = "datetime"])
                BY <2>2
            <3> DEFINE state == [view EXCEPT !.staff = s, !.step = "datetime"]
            <3>2. s \in Stylists \cup {Nil}
                BY <1>0 DEF BookView
            <3>3. state \in BookSeen /\ state.service # Nil
                BY <1>0, <1>5, <1>7, <3>2, BookSeenFields DEF StaffStep, BookView
            <3>4. LoadSlots(c, state)
                BY <3>1
            <3> HIDE DEF state
            <3> QED BY <3>3, <3>4, LoadSlotsTyped
        <2> QED BY <1>7, <2>1, <2>2 DEF StaffStep
    <1>8. ASSUME NEW c \in Calls, DateTimeStep(c) PROVE BookTypes'
        <2>1. CASE Show([view EXCEPT !.step = "staff"])
            BY Zenon, <1>0, <1>2, <1>5, <1>8, <2>1, BookSeenFields DEF DateTimeStep
        <2>2. ASSUME NEW d \in CarouselDays, PickDay(c, d) PROVE BookTypes'
            <3> DEFINE state == [view EXCEPT !.day = d, !.slot = Nil]
            <3>1. state \in BookSeen /\ state.service # Nil
                BY Zenon, <1>0, <1>5, <1>8, BookSeenFields DEF DateTimeStep, BookView
            <3>2. LoadSlots(c, state)
                BY <2>2 DEF PickDay
            <3> HIDE DEF state
            <3> QED BY <3>1, <3>2, LoadSlotsTyped
        <2>3. CASE view.availability # Nil /\ \E slot \in view.availability : Show([view EXCEPT !.slot = slot])
            <3>1. view.availability \in SUBSET Slots
                BY <1>0, <2>3 DEF BookView
            <3> QED BY Zenon, <1>0, <1>2, <1>8, <2>3, <3>1, BookSeenFields DEF DateTimeStep
        <2> QED BY <1>8, <2>1, <2>2, <2>3 DEF DateTimeStep
    <1>9. ASSUME NEW c \in Calls, ConfirmStep(c) PROVE BookTypes'
        <2> DEFINE state == [view EXCEPT !.step = "datetime"]
        <2>1. state \in BookSeen /\ state.service # Nil
            BY Zenon, <1>0, <1>5, <1>9, BookSeenFields DEF ConfirmStep, BookView
        <2>2. LoadSlots(c, state)
            BY <1>9 DEF ConfirmStep
        <2> HIDE DEF state
        <2> QED BY <2>1, <2>2, LoadSlotsTyped
    <1>a. ASSUME NEW c \in Calls, ActionBar(c) PROVE BookTypes'
        <2>1. CASE view.step = "datetime" /\ view.slot # Nil /\ Show([view EXCEPT !.step = "confirm"])
            BY Zenon, <1>0, <1>2, <1>5, <2>1, BookSeenFields
        <2>2. CASE view.step = "confirm" /\ HandleBook(c)
            <3>1. view.service \in Treatments /\ view.slot \in Slots
                BY <1>0, <2>2 DEF BookSeen, BookView
            <3>2. [service |-> view.service, slot |-> view.slot] \in BookArgs["book"] /\ "book" \in DOMAIN BookArgs
                BY <3>1, BookKinds DEF Bookings
            <3>3. view' \in BookSeen
                BY Zenon, <1>0, <2>2, BookSeenFields DEF HandleBook
            <3> QED BY <1>3, <2>2, <3>2, <3>3 DEF HandleBook
        <2> QED BY <1>a, <2>1, <2>2 DEF ActionBar
    <1>b. ASSUME NEW c \in Calls, ServeRead(c) \/ ServeBooking(c) PROVE BookTypes'
        <2>1. UNCHANGED <<view, server, past>>
            BY <1>b DEF ServeRead, ServeBooking, Keep
        <2>2. ASSUME NEW op, NEW data \in BookResults[op], Stands(c, op, "sent"), Answer(c, data) \/ Refuse(c)
              PROVE  BookTypes'
            <3>1. Typed(BookArgs, BookResults)'
                BY <1>0, <2>2, AnswerTyped, RefuseTyped
            <3> QED BY <1>0, <2>1, <3>1, BookTypesStay
        <2>3. CASE Stands(c, "slots", "sent") /\ \E slots \in SUBSET SlotsFor(call[c].arg) : Answer(c, slots)
            <3>1. PICK slots \in SUBSET SlotsFor(call[c].arg) : Answer(c, slots)
                BY <2>3
            <3>2. slots \in BookResults["slots"]
                BY BookKinds DEF SlotsFor
            <3> QED BY <2>2, <2>3, <3>1, <3>2
        <2>4. CASE \E op \in {"load", "staff", "book"} : Stands(c, op, "sent") /\ (Answer(c, Nil) \/ Refuse(c))
            BY <2>2, <2>4, BookKinds
        <2> QED BY <1>b, <2>3, <2>4 DEF ServeRead, ServeBooking
    <1>c. ASSUME NEW c \in Calls, ReceiveLoad(c) PROVE BookTypes'
        <2>1. CASE view' = [view EXCEPT !.services = Treatments] /\ End(c)
            BY Zenon, <1>0, <1>4, <1>c, <2>1, BookSeenFields DEF ReceiveLoad
        <2>2. CASE /\ past.preselected # Nil /\ Then(c, "staff", past.preselected)
                   /\ view' = [[view EXCEPT !.services = Treatments] EXCEPT !.service = past.preselected, !.step = "staff"]
            <3>1. past.preselected \in Treatments
                BY <1>0, <2>2 DEF BookPast
            <3>2. view' \in BookSeen
                <4> DEFINE loaded == [view EXCEPT !.services = Treatments]
                <4>1. loaded \in BookSeen /\ view' = [loaded EXCEPT !.service = past.preselected, !.step = "staff"]
                    BY Zenon, <1>0, <2>2, BookSeenFields
                <4> HIDE DEF loaded
                <4> QED BY Zenon, <3>1, <4>1, BookSeenFields
            <3> QED BY <1>3, <1>c, <2>2, <3>1, <3>2, BookKinds DEF ReceiveLoad
        <2> QED BY <1>c, <2>1, <2>2 DEF ReceiveLoad
    <1>d. ASSUME NEW c \in Calls, ReceiveStaff(c) \/ ReceiveSlots(c) \/ ReceiveBooking(c) PROVE BookTypes'
        <2>1. CASE ReceiveStaff(c)
            <3>1. Stands(c, "staff", "served") /\ "served" # "free" /\ view' = [view EXCEPT !.staffList = Does[call[c].arg]]
                BY <2>1 DEF ReceiveStaff, Take
            <3>2. call[c].arg \in Treatments
                BY <1>0, <3>1, ArgsAndData, BookKinds
            <3>3. Does[call[c].arg] \in SUBSET Stylists
                BY <3>2, BookPageAssumption
            <3> QED
                BY Zenon, <1>0, <1>4, <2>1, <3>1, <3>3, BookSeenFields DEF ReceiveStaff, Take
        <2>2. CASE ReceiveSlots(c)
            <3>1. /\ Stands(c, "slots", "served") /\ "served" # "free"
                  /\ view' = [view EXCEPT !.availability = call[c].data, !.loadingSlots = FALSE]
                BY <2>2 DEF ReceiveSlots, Take
            <3>2. call[c].data \in SUBSET Slots
                BY <1>0, <3>1, ArgsAndData, BookKinds
            <3> QED
                BY Zenon, <1>0, <1>4, <2>2, <3>1, <3>2, BookSeenFields DEF ReceiveSlots, Take
        <2>3. CASE ReceiveBooking(c)
            BY Zenon, <1>0, <1>4, <2>3, BookSeenFields DEF ReceiveBooking, Take
        <2> QED BY <1>d, <2>1, <2>2, <2>3
    <1>e. ASSUME NEW c \in Calls, FailedBook(c) PROVE BookTypes'
        <2>1. view' \in {[view EXCEPT !.loadingSlots = FALSE], [view EXCEPT !.booking = FALSE], view}
            BY <1>e DEF FailedBook
        <2> QED BY Zenon, <1>0, <1>4, <1>e, <2>1, BookSeenFields DEF FailedBook
    <1>f. ASSUME NEW c \in Calls, LoseCall(c) PROVE BookTypes'
        BY <1>0, <1>f, LoseTyped, BookTypesStay DEF LoseCall, Keep
    <1> QED
        BY <1>1, <1>6, <1>7, <1>8, <1>9, <1>a, <1>b, <1>c, <1>d, <1>e, <1>f DEF BookNext, BookAnswers

LEMMA BookIsTyped ==
    /\ BookInit => BookTypes
    /\ BookTypes => BookTypeOK
    <1>1. ASSUME BookInit PROVE BookTypes
        <2>1. Typed(BookArgs, BookResults)
            BY <1>1, MountTyped, BookKinds DEF BookInit
        <2>2. view \in BookSeen /\ server = Nil /\ past \in BookPast
            <3>1. 1 \in CarouselDays
                BY BookPageAssumption DEF CarouselDays
            <3> QED BY <1>1, <3>1 DEF BookInit, BookSeen, BookView, BookPast
        <2> QED BY <2>1, <2>2 DEF BookTypes
    <1>2. ASSUME BookTypes PROVE BookTypeOK
        <2> DEFINE public == [load |-> {}, staff |-> {}, slots |-> SUBSET Slots, book |-> {}]
        <2>1. \A op \in DOMAIN BookArgs : BookResults[op] \subseteq public[op] \cup {Nil}
            BY BookKinds
        <2>2. \A c \in Calls : IsCall(call[c], BookArgs, public)
            BY <1>2, <2>1, TypedIsCall DEF BookTypes
        <2> QED BY <1>2, <2>2 DEF BookTypeOK, BookArgs, BookTypes, BookSeen, BookPast
    <1> QED BY <1>1, <1>2

(***************************************************************************)
(* The types of the profile                                                *)
(***************************************************************************)
ProfileArgs == [patch |-> [form : Profiles], me |-> {Nil}, password |-> [current : Passwords, new : Passwords]]
ProfileResults == [patch |-> {Nil}, me |-> Profiles, password |-> {Nil}]
ProfileTypes == Typed(ProfileArgs, ProfileResults)

LEMMA ProfileKinds ==
    /\ DOMAIN ProfileArgs = {"patch", "me", "password"} /\ ProfileArgs["patch"] = [form : Profiles] /\ ProfileArgs["me"] = {Nil}
    /\ ProfileArgs["password"] = [current : Passwords, new : Passwords]
    /\ ProfileResults["patch"] = {Nil} /\ ProfileResults["me"] = Profiles /\ ProfileResults["password"] = {Nil}
    BY DEF ProfileArgs, ProfileResults

LEMMA ProfileTypesStep ==
    ASSUME ProfileTypes, ProfileInv, [ProfileNext]_webVars
    PROVE  ProfileTypes'
    <1> USE DEF ProfileTypes
    <1>0. view \in ProfileView /\ server \in [user : Profiles, password : Passwords]
        BY DEF ProfileInv, ProfileTyped
    <1>1. CASE UNCHANGED call
        BY <1>1, StillTyped DEF Typed, CallAllowed
    <1>2. ASSUME NEW c \in Calls, NEW op \in DOMAIN ProfileArgs, NEW arg \in ProfileArgs[op], Send(c, op, arg) \/ Then(c, op, arg)
          PROVE  ProfileTypes'
        BY <1>2, SendTyped DEF Typed, CallAllowed
    <1>3. ASSUME NEW c \in Calls, NEW op \in DOMAIN ProfileArgs, NEW data \in ProfileResults[op], Stands(c, op, "sent"),
                 Answer(c, data) \/ Refuse(c)
          PROVE  ProfileTypes'
        BY <1>3, AnswerTyped, RefuseTyped DEF Typed, CallAllowed
    <1>4. ASSUME NEW c \in Calls, End(c) \/ Lose(c) PROVE ProfileTypes'
        BY <1>4, EndTyped, LoseTyped DEF Typed, CallAllowed
    <1>5. ASSUME NEW c \in Calls, OnSaveProfile(c) PROVE ProfileTypes'
        <2>1. [form |-> view.form] \in ProfileArgs["patch"]
            BY <1>0, ProfileKinds DEF ProfileView
        <2> QED BY <1>2, <1>5, <2>1, ProfileKinds DEF OnSaveProfile
    <1>6. ASSUME NEW c \in Calls, OnChangePassword(c) PROVE ProfileTypes'
        <2>1. [current |-> view.current, new |-> view.new] \in ProfileArgs["password"]
            BY <1>0, <1>6, ProfileKinds DEF ProfileView, OnChangePassword
        <2> QED BY <1>2, <1>6, <2>1, ProfileKinds DEF OnChangePassword
    <1>7. ASSUME NEW c \in Calls, ServeProfile(c) \/ ServePassword(c) \/ ServeMe(c) PROVE ProfileTypes'
        <2>1. server.user \in ProfileResults["me"]
            BY <1>0, ProfileKinds
        <2> QED
            BY <1>3, <1>7, <2>1, ProfileKinds DEF ServeProfile, ServePassword, ServeMe
    <1>8. ASSUME NEW c \in Calls, ReceiveProfile(c) PROVE ProfileTypes'
        BY <1>2, <1>8, ProfileKinds DEF ReceiveProfile
    <1>9. ASSUME NEW c \in Calls, ReceiveMe(c) \/ ReceivePassword(c) \/ FailedProfile(c) \/ LoseCall(c) PROVE ProfileTypes'
        BY <1>4, <1>9 DEF ReceiveMe, ReceivePassword, FailedProfile, LoseCall
    <1>a. ASSUME NEW c \in Calls, ProfileTab(c) \/ PasswordTab(c) PROVE ProfileTypes'
        BY <1>1, <1>5, <1>6, <1>a DEF ProfileTab, PasswordTab, TypeDetail, Show
    <1>b. ProfileTabs => UNCHANGED call
        BY DEF ProfileTabs, Show
    <1>c. UNCHANGED webVars => UNCHANGED call
        BY DEF webVars
    <1> QED
        BY <1>1, <1>7, <1>8, <1>9, <1>a, <1>b, <1>c DEF ProfileNext, ProfileAnswers

LEMMA ProfileIsTyped ==
    /\ ProfileInit => ProfileTypes
    /\ ProfileTypes /\ ProfileInv => ProfileTypeOK
    <1>1. ASSUME ProfileInit PROVE ProfileTypes
        BY <1>1, FreeIsRequest DEF ProfileInit, ProfileTypes, Typed, CallAllowed, CallsOK
    <1>2. ASSUME ProfileTypes, ProfileInv PROVE ProfileTypeOK
        <2> DEFINE public == [patch |-> {}, me |-> Profiles, password |-> {}]
        <2>1. \A op \in DOMAIN ProfileArgs : ProfileResults[op] \subseteq public[op] \cup {Nil}
            BY ProfileKinds
        <2>2. \A c \in Calls : IsCall(call[c], ProfileArgs, public)
            BY <1>2, <2>1, TypedIsCall DEF ProfileTypes
        <2> QED BY <1>2, <2>2 DEF ProfileTypeOK, ProfileArgs, ProfileInv, ProfileTyped
    <1> QED BY <1>1, <1>2

(***************************************************************************)
(* The types of the visits                                                 *)
(***************************************************************************)
VisitCalls == {"list", "detail", "cancel", "review"}
VisitArgs == [op \in VisitCalls |-> {"here", "left"}]
VisitResults == [op \in VisitCalls |-> VisitStatuses \cup {"read", Nil}]
VisitTypes == Typed(VisitArgs, VisitResults) /\ server.reviews \in 0 .. MaxReviews

LEMMA VisitTypesStay ==
    ASSUME VisitTypes, Typed(VisitArgs, VisitResults)', server'.reviews = server.reviews
    PROVE  VisitTypes'
    BY DEF VisitTypes, Typed, CallAllowed

LEMMA VisitRequestIsTyped ==
    ASSUME NEW s \in Steps, NEW o \in VisitCalls, NEW a \in {"here", "left"},
           NEW d \in VisitStatuses \cup {"read", Nil}
    PROVE  /\ IsRequest([step |-> s, op |-> o, arg |-> a, data |-> d])
           /\ CallAllowed([step |-> s, op |-> o, arg |-> a, data |-> d], VisitArgs, VisitResults)
    <1> DEFINE r == [step |-> s, op |-> o, arg |-> a, data |-> d]
    <1>1. r.step = s /\ r.op = o /\ r.arg = a /\ r.data = d /\ IsRequest(r)
        BY DEF IsRequest
    <1>2. /\ DOMAIN VisitArgs = VisitCalls /\ VisitArgs[o] = {"here", "left"}
          /\ VisitResults[o] = VisitStatuses \cup {"read", Nil}
        BY DEF VisitArgs, VisitResults
    <1> HIDE DEF r
    <1>3. CallAllowed(r, VisitArgs, VisitResults)
        BY <1>1, <1>2 DEF CallAllowed
    <1> QED BY <1>1, <1>3 DEF r

LEMMA VisitRequestFields ==
    ASSUME NEW s, NEW o, NEW a, NEW d, [step |-> s, op |-> o, arg |-> a, data |-> d] # Free,
           CallAllowed([step |-> s, op |-> o, arg |-> a, data |-> d], VisitArgs, VisitResults)
    PROVE  s \in Steps /\ o \in VisitCalls /\ a \in {"here", "left"} /\ d \in VisitStatuses \cup {"read", Nil}
    BY DEF CallAllowed, VisitArgs, VisitResults

\* A request that is left behind keeps what it is, and one that has read too.
LEMMA GoTyped ==
    ASSUME VisitTypes, NEW c \in Calls, NEW place \in Places, Go(c, place)
    PROVE  VisitTypes'
    <1> DEFINE left(r) == IF r = Free THEN Free ELSE [r EXCEPT !.arg = "left"]
    <1> DEFINE new == IF place = "review" THEN Free ELSE Request(place, "here")
    <1>0. CallsOK /\ \A e \in Calls : CallAllowed(call[e], VisitArgs, VisitResults)
        BY DEF VisitTypes, Typed
    <1>1. ASSUME NEW e \in Calls PROVE IsRequest(left(call[e])) /\ CallAllowed(left(call[e]), VisitArgs, VisitResults)
        <2>1. PICK s, o, a, d : call[e] = [step |-> s, op |-> o, arg |-> a, data |-> d]
            BY <1>0 DEF CallsOK, IsRequest
        <2>2. CASE call[e] = Free
            BY <2>2, FreeIsRequest DEF CallAllowed
        <2>3. CASE call[e] # Free
            <3>1. left(call[e]) = [step |-> s, op |-> o, arg |-> "left", data |-> d]
                BY <2>1, <2>3
            <3>2. o \in VisitCalls /\ s \in Steps /\ d \in VisitStatuses \cup {"read", Nil}
                BY <1>0, <2>1, <2>3, VisitRequestFields
            <3> HIDE DEF left
            <3> QED BY <3>1, <3>2, VisitRequestIsTyped
        <2> QED BY <2>2, <2>3
    <1>2. IsRequest(new) /\ CallAllowed(new, VisitArgs, VisitResults)
        BY FreeIsRequest, RequestIsRequest DEF CallAllowed, Request, VisitArgs, VisitResults, Places, VisitCalls, Steps
    <1>3. call' = [e \in Calls |-> IF e = c THEN new ELSE left(call[e])] /\ UNCHANGED server
        BY DEF Go, Left
    <1> HIDE DEF new, left
    <1>4. \A e \in Calls : IsRequest(call'[e]) /\ CallAllowed(call'[e], VisitArgs, VisitResults)
        BY <1>1, <1>2, <1>3
    <1>5. call' = [e \in Calls |-> call'[e]]
        BY <1>3
    <1>6. Typed(VisitArgs, VisitResults)'
        BY <1>4, <1>5 DEF Typed, CallsOK, IsRequest, CallAllowed
    <1> QED BY <1>3, <1>6, VisitTypesStay

LEMMA VisitKinds ==
    /\ DOMAIN VisitArgs = VisitCalls
    /\ \A op \in VisitCalls : VisitArgs[op] = {"here", "left"} /\ VisitResults[op] = VisitStatuses \cup {"read", Nil}
    BY DEF VisitArgs, VisitResults

LEMMA ReadByTyped ==
    ASSUME VisitTypes, NEW c \in Calls, NEW op \in VisitCalls, Stands(c, op, "sent"), NEW raced, ReadBy(c, raced)
    PROVE  VisitTypes'
    <1>1. "read" \in VisitResults[op]
        BY VisitKinds
    <1>2. Typed(VisitArgs, VisitResults)'
        BY <1>1, ReadTyped DEF VisitTypes, ReadBy
    <1> QED BY <1>2, VisitTypesStay DEF ReadBy

LEMMA VisitTypesStep ==
    ASSUME VisitTypes, VisitInv, [VisitNext]_webVars
    PROVE  VisitTypes'
    <1>0. Typed(VisitArgs, VisitResults) /\ server.status \in VisitStatuses /\ server.reviews \in 0 .. MaxReviews
        BY DEF VisitTypes, VisitInv, VisitTyped
    <1>1. CASE UNCHANGED call /\ server'.reviews = server.reviews
        BY <1>0, <1>1, StillTyped, VisitTypesStay
    <1>2. UNCHANGED webVars \/ ReadUpdate \/ WriteUpdate \/ TimePasses => UNCHANGED call /\ server'.reviews = server.reviews
        <2>1. server = [status |-> server.status, over |-> server.over, reviews |-> server.reviews, edit |-> server.edit]
            BY DEF VisitInv, VisitTyped
        <2> QED BY <2>1 DEF webVars, ReadUpdate, WriteUpdate, TimePasses
    <1>3. ASSUME NEW c \in Calls, NEW op \in VisitCalls, Send(c, op, "here"), UNCHANGED server PROVE VisitTypes'
        BY <1>0, <1>3, SendTyped, VisitTypesStay, VisitKinds
    <1>4. ASSUME NEW c \in Calls, NEW op \in VisitCalls, Stands(c, op, "sent"), NEW data \in VisitStatuses \cup {"read", Nil},
                 Answer(c, data) \/ Refuse(c)
          PROVE  Typed(VisitArgs, VisitResults)'
        BY <1>0, <1>4, AnswerTyped, RefuseTyped, VisitKinds
    <1>5. ASSUME NEW c \in Calls, End(c) \/ Lose(c), UNCHANGED server PROVE VisitTypes'
        BY <1>0, <1>5, EndTyped, LoseTyped, VisitTypesStay
    <1>6. ASSUME NEW c \in Calls, BookingsPage(c) \/ BookingDetailPage(c) \/ ReviewPage(c) PROVE VisitTypes'
        <2>1. CASE \E state : Show(state)
            BY <1>1, <2>1 DEF Show
        <2>2. CASE \E place \in Places : Go(c, place)
            BY <2>2, GoTyped
        <2>3. CASE HandleCancel(c) \/ HandleSubmit(c)
            BY <1>3, <2>3 DEF HandleCancel, HandleSubmit, VisitCalls
        <2>4. (\E state : Show(state)) \/ (\E place \in Places : Go(c, place)) \/ HandleCancel(c) \/ HandleSubmit(c)
            BY <1>6 DEF BookingsPage, BookingDetailPage, ReviewPage, CancelDialog, Link, Places
        <2> QED BY <2>1, <2>2, <2>3, <2>4
    <1>7. ASSUME NEW c \in Calls, ServeShow(c) \/ WriteCancel(c) PROVE VisitTypes'
        <2>1. Typed(VisitArgs, VisitResults)'
            BY <1>0, <1>4, <1>7 DEF ServeShow, WriteCancel, Writing, VisitCalls, VisitStatuses
        <2>2. server'.reviews = server.reviews
            <3>1. server = [status |-> server.status, over |-> server.over, reviews |-> server.reviews, edit |-> server.edit]
                BY DEF VisitInv, VisitTyped
            <3> QED BY <1>7, <3>1 DEF ServeShow, WriteCancel, Keep
        <2> QED BY <2>1, <2>2, VisitTypesStay
    <1>8. ASSUME NEW c \in Calls, WriteReview(c) PROVE VisitTypes'
        <2>1. Typed(VisitArgs, VisitResults)'
            BY <1>4, <1>8 DEF WriteReview, Writing, VisitCalls
        <2>2. server'.reviews \in 0 .. MaxReviews
            <3>1. server = [status |-> server.status, over |-> server.over, reviews |-> server.reviews, edit |-> server.edit]
                BY DEF VisitInv, VisitTyped
            <3>2. server'.reviews = server.reviews + 1 /\ server.reviews < MaxReviews
                BY <1>8, <3>1 DEF WriteReview
            <3> QED BY <1>0, <3>2, VisitPagesAssumption
        <2> QED BY <2>1, <2>2 DEF VisitTypes, Typed, CallAllowed
    <1>9. ASSUME NEW c \in Calls, ReadCancel(c) \/ ReadReviews(c) PROVE VisitTypes'
        <2>1. PICK op \in VisitCalls : Stands(c, op, "sent")
            BY <1>9 DEF ReadCancel, ReadReviews, Asks, VisitCalls
        <2>2. CASE Refuse(c) /\ Keep
            <3>1. Typed(VisitArgs, VisitResults)'
                BY <1>4, <2>1, <2>2
            <3> QED BY <2>2, <3>1, VisitTypesStay DEF Keep
        <2>3. CASE \E raced : ReadBy(c, raced)
            BY <2>1, <2>3, ReadByTyped
        <2> QED BY <1>9, <2>2, <2>3 DEF ReadCancel, ReadReviews
    <1>a. ASSUME NEW c \in Calls, ReceiveShow(c) \/ FailShow(c) \/ ReceiveCancel(c) \/ FailCancel(c) \/ FailReview(c) \/ LoseCall(c)
          PROVE  VisitTypes'
        BY <1>5, <1>a DEF ReceiveShow, FailShow, ReceiveCancel, FailCancel, FailReview, LoseCall, Settle, Keep
    <1>b. ASSUME NEW c \in Calls, FailDetail(c) \/ ReceiveReview(c) PROVE VisitTypes'
        BY <1>b, GoTyped DEF FailDetail, ReceiveReview, Places
    <1> QED
        BY <1>1, <1>2, <1>6, <1>7, <1>8, <1>9, <1>a, <1>b DEF VisitNext, VisitAnswers

LEMMA VisitIsTyped ==
    /\ VisitInit => VisitTypes
    /\ VisitTypes /\ VisitInv => VisitTypeOK
    <1>1. ASSUME VisitInit PROVE VisitTypes
        <2>1. "list" \in DOMAIN VisitArgs /\ "here" \in VisitArgs["list"]
            BY VisitKinds DEF VisitCalls
        <2>2. Typed(VisitArgs, VisitResults)
            BY <1>1, <2>1, MountTyped DEF VisitInit
        <2>3. server.reviews \in 0 .. MaxReviews
            BY <1>1, VisitPagesAssumption DEF VisitInit
        <2> QED BY <2>2, <2>3 DEF VisitTypes
    <1>2. ASSUME VisitTypes, VisitInv PROVE VisitTypeOK
        <2> DEFINE public == [op \in {"list", "detail", "cancel", "review"} |-> VisitStatuses \cup {"read"}]
        <2>1. \A op \in DOMAIN VisitArgs : VisitResults[op] \subseteq public[op] \cup {Nil}
            BY VisitKinds DEF VisitCalls
        <2>2. \A c \in Calls : IsCall(call[c], VisitArgs, public)
            BY <1>2, <2>1, TypedIsCall DEF VisitTypes
        <2>3. server \in [status : VisitStatuses, over : BOOLEAN, reviews : 0..MaxReviews, edit : VisitStatuses \cup {Nil}]
            BY <1>2 DEF VisitTypes, VisitInv, VisitTyped
        <2> QED
            BY <1>2, <2>2, <2>3 DEF VisitTypeOK, VisitArgs, VisitCalls, VisitInv, VisitTyped
    <1> QED BY <1>1, <1>2

(***************************************************************************)
(* The types of the onboarding                                             *)
(***************************************************************************)
OnboardingArgs == [register |-> Launch, login |-> Launch, create |-> Founding, session |-> {Nil}]
OnboardingResults == [register |-> {Nil}, login |-> Emails, create |-> {Nil}, session |-> {Nil}]
OnboardingTypes == Typed(OnboardingArgs, OnboardingResults)

LEMMA OnboardingKinds ==
    /\ DOMAIN OnboardingArgs = {"register", "login", "create", "session"}
    /\ OnboardingArgs["register"] = Launch /\ OnboardingResults["register"] = {Nil}
    /\ OnboardingArgs["login"] = Launch /\ OnboardingResults["login"] = Emails
    /\ OnboardingArgs["create"] = Founding /\ OnboardingResults["create"] = {Nil}
    /\ OnboardingArgs["session"] = {Nil} /\ OnboardingResults["session"] = {Nil}
    BY DEF OnboardingArgs, OnboardingResults

LEMMA OnboardingTypesStep ==
    ASSUME OnboardingTypes, OnboardingInv, [OnboardingNext]_webVars
    PROVE  OnboardingTypes'
    <1>0. Typed(OnboardingArgs, OnboardingResults) /\ Described(view)
        BY DEF OnboardingTypes, OnboardingInv, OnboardingTyped
    <1>w. Typed(OnboardingArgs, OnboardingResults)' => OnboardingTypes'
        BY DEF OnboardingTypes
    <1>1. UNCHANGED call => OnboardingTypes'
        BY <1>0, <1>w, StillTyped
    <1>2. ASSUME NEW c \in Calls, End(c) \/ Lose(c) PROVE OnboardingTypes'
        BY <1>0, <1>2, <1>w, EndTyped, LoseTyped
    <1>3. ASSUME NEW c \in Calls, NEW op \in DOMAIN OnboardingArgs, NEW arg \in OnboardingArgs[op],
                 Send(c, op, arg) \/ Then(c, op, arg)
          PROVE  OnboardingTypes'
        BY <1>0, <1>3, <1>w, SendTyped
    <1>4. ASSUME NEW c \in Calls, NEW op \in DOMAIN OnboardingArgs, Stands(c, op, "sent"),
                 NEW data \in OnboardingResults[op], Answer(c, data) \/ Refuse(c)
          PROVE  OnboardingTypes'
        BY <1>0, <1>4, <1>w, AnswerTyped, RefuseTyped
    <1>5. ASSUME NEW c \in Calls, OnStep3(c) PROVE OnboardingTypes'
        <2>1. view.accountData \in Emails /\ view.bizData \in Names
            BY <1>0, <1>5 DEF OnStep3, Described, OnboardingView
        <2>2. [email |-> view.accountData, name |-> view.bizData] \in OnboardingArgs["register"]
            BY <2>1, OnboardingKinds DEF Launch
        <2>3. Send(c, "register", [email |-> view.accountData, name |-> view.bizData])
            BY <1>5 DEF OnStep3
        <2> QED BY <1>3, <2>2, <2>3, OnboardingKinds
    <1>6. ASSUME NEW c \in Calls, ServeRegister(c) \/ ServeBusiness(c) \/ ServeSession(c) PROVE OnboardingTypes'
        BY <1>4, <1>6, OnboardingKinds DEF ServeRegister, ServeBusiness, ServeSession
    <1>7. ASSUME NEW c \in Calls, ServeLogin(c) PROVE OnboardingTypes'
        <2>1. Stands(c, "login", "sent") /\ "sent" # "free" /\ Answer(c, call[c].arg.email)
            BY <1>7 DEF ServeLogin
        <2>2. call[c].arg \in OnboardingArgs["login"]
            BY <1>0, <2>1, ArgsAndData
        <2>3. call[c].arg.email \in OnboardingResults["login"]
            BY <2>2, OnboardingKinds DEF Launch
        <2> QED BY <1>4, <2>1, <2>3, OnboardingKinds
    <1>8. ASSUME NEW c \in Calls, ReceiveRegister(c) PROVE OnboardingTypes'
        <2>1. Stands(c, "register", "served") /\ "served" # "free" /\ Then(c, "login", call[c].arg)
            BY <1>8 DEF ReceiveRegister
        <2>2. call[c].arg \in OnboardingArgs["register"]
            BY <1>0, <2>1, ArgsAndData
        <2> QED BY <1>3, <2>1, <2>2, OnboardingKinds
    <1>9. ASSUME NEW c \in Calls, ReceiveTokens(c) PROVE OnboardingTypes'
        <2>1. /\ Stands(c, "login", "served") /\ "served" # "free"
              /\ Then(c, "create", [owner |-> call[c].data, name |-> call[c].arg.name])
            BY <1>9 DEF ReceiveTokens
        <2>2. call[c].arg \in OnboardingArgs["login"] /\ call[c].data \in OnboardingResults["login"]
            BY <1>0, <2>1, ArgsAndData
        <2>3. [owner |-> call[c].data, name |-> call[c].arg.name] \in OnboardingArgs["create"]
            BY <2>2, OnboardingKinds DEF Launch, Founding
        <2> QED BY <1>3, <2>1, <2>3, OnboardingKinds
    <1>a. ASSUME NEW c \in Calls, ReceiveCreate(c) PROVE OnboardingTypes'
        BY <1>3, <1>a, OnboardingKinds DEF ReceiveCreate
    <1>b. ASSUME NEW c \in Calls, ReceiveSession(c) \/ FailLaunch(c) \/ DropAnswer(c) \/ LoseCall(c) PROVE OnboardingTypes'
        BY <1>2, <1>b DEF ReceiveSession, FailLaunch, DropAnswer, LoseCall
    <1>c. CASE UNCHANGED webVars \/ OnStep1 \/ OnStep2 \/ Back \/ LoadAgain
        BY Zenon, <1>1, <1>c DEF webVars, OnStep1, OnStep2, Back, LoadAgain, Show
    <1> QED
        BY <1>5, <1>6, <1>7, <1>8, <1>9, <1>a, <1>b, <1>c DEF OnboardingNext, LaunchAnswers

LEMMA OnboardingIsTyped ==
    /\ OnboardingInit => OnboardingTypes
    /\ OnboardingTypes /\ OnboardingInv => OnboardingTypeOK
    <1>1. ASSUME OnboardingInit PROVE OnboardingTypes
        BY <1>1, FreeIsRequest DEF OnboardingInit, OnboardingTypes, Typed, CallAllowed, CallsOK
    <1>2. ASSUME OnboardingTypes, OnboardingInv PROVE OnboardingTypeOK
        <2> DEFINE public == [register |-> {}, login |-> Emails, create |-> {}, session |-> {}]
        <2>1. \A op \in DOMAIN OnboardingArgs : OnboardingResults[op] \subseteq public[op] \cup {Nil}
            BY OnboardingKinds
        <2>2. \A c \in Calls : IsCall(call[c], OnboardingArgs, public)
            BY <1>2, <2>1, TypedIsCall DEF OnboardingTypes
        <2>3. server.accounts \subseteq Emails /\ server.founded \in Seq(Founding)
            BY <1>2 DEF OnboardingInv, OnboardingTyped
        <2> QED
            BY <1>2, <2>2, <2>3 DEF OnboardingTypeOK, OnboardingArgs, OnboardingInv, OnboardingTyped, Described
    <1> QED BY <1>1, <1>2

(***************************************************************************)
(* The types of the verification queue                                     *)
(*                                                                         *)
(* A request to decide holds the row that it has read, until it is         *)
(* answered with nothing.                                                  *)
(***************************************************************************)
QueueArgs == [list |-> {Nil}, decide |-> Decision]
QueueResults == [list |-> QueueRows, decide |-> Application \cup {Nil}]
QueuePast == [loads : Seq(Calls), mixed : BOOLEAN, raced : BOOLEAN]
QueueTypes == Typed(QueueArgs, QueueResults) /\ view \in QueueView /\ past \in QueuePast

LEMMA QueueKinds ==
    /\ DOMAIN QueueArgs = {"list", "decide"}
    /\ QueueArgs["list"] = {Nil} /\ QueueResults["list"] = QueueRows
    /\ QueueArgs["decide"] = Decision /\ QueueResults["decide"] = Application \cup {Nil}
    BY DEF QueueArgs, QueueResults

LEMMA QueueTypesStay ==
    ASSUME QueueTypes, Typed(QueueArgs, QueueResults)', view' \in QueueView, past' \in QueuePast
    PROVE  QueueTypes'
    BY DEF QueueTypes, Typed, CallAllowed

LEMMA QueueIsRows ==
    /\ row \in [Firms -> Application] => Queue \in QueueRows
    /\ [f \in {} |-> Nil] \in QueueRows
    <1> DEFINE kinds == {"APPLIED", "UNDER_REVIEW"}
    <1>1. \A fs \in SUBSET Firms : \A q : q \in [fs -> kinds] => q \in QueueRows
        BY DEF QueueRows
    <1>2. Queue \in [InQueue -> kinds] /\ InQueue \in SUBSET Firms
        BY DEF Queue, InQueue
    <1>3. [f \in {} |-> Nil] \in [{} -> kinds] /\ {} \in SUBSET Firms
        OBVIOUS
    <1> HIDE DEF kinds
    <1> QED BY <1>1, <1>2, <1>3

LEMMA QueueFields ==
    ASSUME NEW v \in QueueView, NEW old \in QueuePast
    PROVE  /\ \A x \in {"all", "APPLIED", "UNDER_REVIEW"} : [v EXCEPT !.filter = x] \in QueueView
           /\ \A f \in Firms, a \in Decisions, r \in BOOLEAN :
                 [v EXCEPT !.selected = f, !.action = a, !.reason = r] \in QueueView
           /\ \A r \in BOOLEAN : [v EXCEPT !.reason = r] \in QueueView /\ [v EXCEPT !.processing = r] \in QueueView
           /\ Closed(v) \in QueueView
           /\ \A x \in QueueRows : [v EXCEPT !.rows = x, !.loading = FALSE] \in QueueView
           /\ [v EXCEPT !.loading = TRUE] \in QueueView
           /\ \A m \in BOOLEAN :
                 /\ [old EXCEPT !.mixed = m] \in QueuePast
                 /\ [old EXCEPT !.raced = m] \in QueuePast
                 /\ \A c \in Calls : /\ [old EXCEPT !.loads = Append(old.loads, c), !.mixed = m] \in QueuePast
                                      /\ [old EXCEPT !.loads = Without(old.loads, c), !.mixed = m] \in QueuePast
    <1>1. old.loads \in Seq(Calls)
        BY DEF QueuePast
    <1>2. \A c \in Calls : Append(old.loads, c) \in Seq(Calls) /\ Without(old.loads, c) \in Seq(Calls)
        BY <1>1, WithoutIsAQueue
    <1>3. \A l \in Seq(Calls), m \in BOOLEAN : [old EXCEPT !.loads = l, !.mixed = m] \in QueuePast
        BY DEF QueuePast
    <1>4. \A m \in BOOLEAN : [old EXCEPT !.mixed = m] \in QueuePast /\ [old EXCEPT !.raced = m] \in QueuePast
        BY DEF QueuePast
    <1>5. \A x \in {"all", "APPLIED", "UNDER_REVIEW"} : [v EXCEPT !.filter = x] \in QueueView
        BY DEF QueueView
    <1>6. \A f \in Firms, a \in Decisions, r \in BOOLEAN : [v EXCEPT !.selected = f, !.action = a, !.reason = r] \in QueueView
        BY DEF QueueView
    <1>7. \A r \in BOOLEAN : [v EXCEPT !.reason = r] \in QueueView /\ [v EXCEPT !.processing = r] \in QueueView
        BY DEF QueueView
    <1>8. Closed(v) \in QueueView
        BY DEF QueueView, Closed
    <1>9. \A x \in QueueRows : [v EXCEPT !.rows = x, !.loading = FALSE] \in QueueView
        BY DEF QueueView
    <1>a. [v EXCEPT !.loading = TRUE] \in QueueView
        BY DEF QueueView
    <1> QED BY Zenon, <1>2, <1>3, <1>4, <1>5, <1>6, <1>7, <1>8, <1>9, <1>a

\* A decision that reads its row is still a request to decide.
LEMMA ReadDecisionTyped ==
    ASSUME QueueTypes, row \in [Firms -> Application], NEW c \in Calls, ReadDecision(c)
    PROVE  QueueTypes'
    <1>0. Typed(QueueArgs, QueueResults) /\ view \in QueueView /\ past \in QueuePast /\ UNCHANGED view
        BY DEF QueueTypes, ReadDecision
    <1>1. Stands(c, "decide", "sent") /\ "sent" # "free"
        BY DEF ReadDecision
    <1>2. CASE Refuse(c) /\ UNCHANGED past
        BY <1>0, <1>1, <1>2, RefuseTyped, QueueTypesStay
    <1> DEFINE f == call[c].arg.firm
    <1>3. CASE call' = [call EXCEPT ![c].data = row[f]] /\ past' = [past EXCEPT !.raced = past.raced \/ UnderDecision(f)]
        <2>1. call[c].arg \in QueueArgs["decide"]
            BY <1>0, <1>1, ArgsAndData
        <2>2. row[f] \in QueueResults["decide"]
            BY <2>1, QueueKinds DEF Decision
        <2>3. (past.raced \/ UnderDecision(f)) \in BOOLEAN
            OBVIOUS
        <2>4. past' \in QueuePast
            BY <1>0, <1>3, <2>3, QueueFields
        <2> HIDE DEF f
        <2>5. Typed(QueueArgs, QueueResults)'
            BY <1>0, <1>1, <1>3, <2>2, ReadTyped
        <2> QED BY <1>0, <2>4, <2>5, QueueTypesStay
    <1> QED BY <1>2, <1>3 DEF ReadDecision

LEMMA QueueTypesStep ==
    ASSUME QueueTypes, VerificationInv, [VerificationNext]_webVars
    PROVE  QueueTypes'
    <1>0. Typed(QueueArgs, QueueResults) /\ view \in QueueView /\ past \in QueuePast /\ row \in [Firms -> Application]
        BY DEF QueueTypes, VerificationInv, VerificationTyped, row
    <1>1. CASE UNCHANGED webVars
        BY <1>0, <1>1, StillTyped, QueueTypesStay DEF webVars
    <1>2. ASSUME NEW state \in QueueView, Show(state) PROVE QueueTypes'
        BY <1>0, <1>2, StillTyped, QueueTypesStay DEF Show
    <1>3. QueueTabs \/ ApplicationsList => QueueTypes'
        <2>1. CASE QueueTabs
            BY Zenon, <1>0, <1>2, <2>1, QueueFields DEF QueueTabs
        <2>2. CASE ApplicationsList
            <3>1. PICK f \in Filtered, action \in Decisions : Open(f, action)
                BY <2>2 DEF ApplicationsList
            <3>2. f \in Firms
                <4>1. view.rows \in QueueRows
                    BY <1>0 DEF QueueView
                <4> QED BY <3>1, <4>1 DEF QueueRows, Filtered
            <3>3. Show([view EXCEPT !.selected = f, !.action = action, !.reason = view.reason /\ action # "reject"])
                BY <3>1 DEF Open
            <3>4. (view.reason /\ action # "reject") \in BOOLEAN
                OBVIOUS
            <3>5. [view EXCEPT !.selected = f, !.action = action, !.reason = view.reason /\ action # "reject"] \in QueueView
                BY Zenon, <1>0, <3>2, <3>4, QueueFields
            <3> QED BY <1>2, <3>3, <3>5
        <2> QED BY <2>1, <2>2
    <1>4. ASSUME NEW c \in Calls, NEW op \in DOMAIN QueueArgs, NEW arg \in QueueArgs[op], Send(c, op, arg) \/ Then(c, op, arg),
                 view' \in QueueView, past' \in QueuePast
          PROVE  QueueTypes'
        BY <1>0, <1>4, SendTyped, QueueTypesStay
    <1>5. ASSUME NEW c \in Calls, ConfirmationModal(c) PROVE QueueTypes'
        <2>1. CASE HandleAction(c)
            <3>1. view.selected \in Firms /\ view.action \in Decisions
                BY <1>0, <1>5 DEF ConfirmationModal, ModalShown, QueueView
            <3>2. [firm |-> view.selected, action |-> view.action] \in QueueArgs["decide"]
                BY <3>1, QueueKinds DEF Decision
            <3>3. view' \in QueueView /\ UNCHANGED past
                BY Zenon, <1>0, <2>1, QueueFields DEF HandleAction
            <3> QED BY <1>0, <1>4, <2>1, <3>2, <3>3, QueueKinds DEF HandleAction
        <2> QED BY Zenon, <1>0, <1>2, <1>5, <2>1, QueueFields DEF ConfirmationModal
    <1>6. ASSUME NEW c \in Calls, NEW op \in DOMAIN QueueArgs, Stands(c, op, "sent"), NEW data \in QueueResults[op],
                 Answer(c, data), UNCHANGED <<view, past>>
          PROVE  QueueTypes'
        BY <1>0, <1>6, AnswerTyped, QueueTypesStay
    <1>7. ASSUME NEW c \in Calls, AnswerList(c, Queue) \/ CommitDecision(c) PROVE QueueTypes'
        <2>1. Queue \in QueueResults["list"] /\ Nil \in QueueResults["decide"]
            BY <1>0, QueueIsRows, QueueKinds
        <2>2. "list" \in DOMAIN QueueArgs /\ "decide" \in DOMAIN QueueArgs
            BY QueueKinds
        <2>3. CASE AnswerList(c, Queue)
            BY <1>6, <2>1, <2>2, <2>3 DEF AnswerList, Keep
        <2>4. CASE CommitDecision(c)
            BY <1>6, <2>1, <2>2, <2>4 DEF CommitDecision
        <2> QED BY <1>7, <2>3, <2>4
    <1>8. ASSUME NEW c \in Calls, End(c) \/ Lose(c), view' \in QueueView, past' \in QueuePast PROVE QueueTypes'
        BY <1>0, <1>8, EndTyped, LoseTyped, QueueTypesStay
    <1>9. ASSUME NEW c \in Calls, ReceiveList(c) PROVE QueueTypes'
        <2>1. Stands(c, "list", "served") /\ "served" # "free"
            BY <1>9 DEF ReceiveList, ReceiveRows
        <2>2. call[c].data \in QueueRows
            BY <1>0, <2>1, ArgsAndData, QueueKinds
        <2>3. view' \in QueueView
            BY Zenon, <1>0, <1>9, <2>2, QueueFields DEF ReceiveList, ReceiveRows
        <2>4. (past.mixed \/ Head(past.loads) # c) \in BOOLEAN
            OBVIOUS
        <2>5. past' \in QueuePast
            BY Zenon, <1>0, <1>9, <2>4, QueueFields DEF ReceiveList, ReceiveRows, SettleList
        <2> QED BY <1>8, <1>9, <2>3, <2>5 DEF ReceiveList, ReceiveRows, SettleList
    <1>a. ASSUME NEW c \in Calls, FailList(c, [f \in {} |-> Nil]) PROVE QueueTypes'
        <2> DEFINE none == [f \in {} |-> Nil]
        <2>1. none \in QueueRows
            BY QueueIsRows
        <2>2. view' = [view EXCEPT !.rows = none, !.loading = FALSE] /\ End(c)
              /\ past' = [past EXCEPT !.loads = Without(past.loads, c), !.mixed = TRUE]
            BY <1>a DEF FailList
        <2> HIDE DEF none
        <2>3. view' \in QueueView /\ past' \in QueuePast
            BY Zenon, <1>0, <2>1, <2>2, QueueFields
        <2> QED BY <1>8, <2>2, <2>3
    <1>b. ASSUME NEW c \in Calls, ReceiveDecision(c) PROVE QueueTypes'
        <2> DEFINE state == [Closed(view) EXCEPT !.processing = FALSE]
        <2>1. state \in QueueView
            <3>1. Closed(view) \in QueueView
                BY Zenon, <1>0, QueueFields
            <3> QED BY Zenon, <1>0, <3>1, QueueFields
        <2>2. Reload(c, Nil, state)
            BY <1>b DEF ReceiveDecision
        <2> HIDE DEF state
        <2>3. view' \in QueueView
            BY Zenon, <1>0, <2>1, <2>2, QueueFields DEF Reload
        <2>4. (past.mixed \/ Nil # state.key) \in BOOLEAN
            OBVIOUS
        <2>5. past' \in QueuePast
            BY Zenon, <1>0, <2>2, <2>4, QueueFields DEF Reload
        <2> QED BY <1>4, <2>2, <2>3, <2>5, QueueKinds DEF Reload
    <1>c. ASSUME NEW c \in Calls, FailChange(c, "decide", [view EXCEPT !.processing = FALSE]) \/ LoseInList(c) PROVE QueueTypes'
        BY Zenon, <1>0, <1>8, <1>c, QueueFields DEF FailChange, LoseInList
    <1>d. ASSUME UNCHANGED <<call, view>>, past' \in QueuePast PROVE QueueTypes'
        BY <1>0, <1>d, StillTyped, QueueTypesStay
    <1>e. CASE RivalReads \/ RivalCommits \/ \E f \in Firms : SubmitForVerification(f)
        <2>1. \A f : (past.raced \/ UnderDecision(f)) \in BOOLEAN
            OBVIOUS
        <2>2. past' \in QueuePast
            <3>1. CASE RivalReads
                BY Zenon, <1>0, <2>1, <3>1, QueueFields DEF RivalReads
            <3>2. CASE UNCHANGED past
                BY <1>0, <3>2
            <3> QED BY <1>e, <3>1, <3>2 DEF RivalCommits, SubmitForVerification
        <2> QED BY <1>d, <1>e, <2>2 DEF RivalReads, RivalCommits, SubmitForVerification
    <1>f. ASSUME NEW c \in Calls, ReadDecision(c) PROVE QueueTypes'
        BY <1>0, <1>f, ReadDecisionTyped
    <1> QED
        BY <1>1, <1>3, <1>5, <1>7, <1>9, <1>a, <1>b, <1>c, <1>e, <1>f DEF VerificationNext, QueueAnswers

LEMMA QueueIsTyped ==
    /\ VerificationInit => QueueTypes
    /\ QueueTypes /\ VerificationInv => VerificationTypeOK
    <1>1. ASSUME VerificationInit PROVE QueueTypes
        <2>1. PICK c \in Calls : /\ call = [d \in Calls |-> IF d = c THEN Request("list", Nil) ELSE Free]
                                 /\ past = [loads |-> <<c>>, mixed |-> FALSE, raced |-> FALSE]
            BY <1>1 DEF VerificationInit
        <2>2. Typed(QueueArgs, QueueResults)
            <3>1. Mount(Request("list", Nil))
                BY <2>1 DEF Mount
            <3> QED BY <3>1, MountTyped, QueueKinds
        <2>3. past \in QueuePast
            BY <2>1 DEF QueuePast
        <2>4. view \in QueueView
            <3> DEFINE none == [f \in {} |-> Nil]
            <3>1. none \in QueueRows
                BY QueueIsRows
            <3>2. view = [key |-> Nil, rows |-> none, loading |-> TRUE, filter |-> "all",
                          selected |-> Nil, action |-> Nil, reason |-> FALSE, processing |-> FALSE]
                BY <1>1 DEF VerificationInit
            <3> HIDE DEF none
            <3> QED BY <3>1, <3>2 DEF QueueView
        <2> QED BY <2>2, <2>3, <2>4 DEF QueueTypes
    <1>2. ASSUME QueueTypes, VerificationInv PROVE VerificationTypeOK
        <2> DEFINE public == [list |-> QueueRows, decide |-> Application]
        <2>1. \A op \in DOMAIN QueueArgs : QueueResults[op] \subseteq public[op] \cup {Nil}
            BY QueueKinds
        <2>2. \A c \in Calls : IsCall(call[c], QueueArgs, public)
            BY <1>2, <2>1, TypedIsCall DEF QueueTypes
        <2>3. row \in [Firms -> Application] /\ server.rival \in [firm : Firms, action : Decisions, read : Application] \cup {Nil}
            BY <1>2 DEF VerificationInv, VerificationTyped, row, Rivals
        <2> QED
            BY <1>2, <2>2, <2>3 DEF VerificationTypeOK, QueueArgs, QueueTypes, QueuePast
    <1> QED BY <1>1, <1>2

(***************************************************************************)
(* The types of the mounted page                                           *)
(*                                                                         *)
(* The types of five pages rest on more than themselves: what a dialog, a  *)
(* profile, a visit, a decision or a launch holds while it is under way.   *)
(***************************************************************************)
SiteTypesInv ==
    /\ page = "inventory" => RoomTypes
    /\ page = "memberships" => MembershipTypes
    /\ page = "gift-cards" => DeskTypes
    /\ page = "calendar" => CalendarTypes
    /\ page = "payments" => PaymentsTypes
    /\ page = "reviews" => ReplyTypes
    /\ page = "customers" => NotesTypes
    /\ page = "explore" => ExploreTypes
    /\ page = "book" => BookTypes
    /\ page \in {"services", "staff"} => EditorTypes /\ EditorInv
    /\ page = "profile" => ProfileTypes /\ ProfileInv
    /\ page = "visits" => VisitTypes /\ VisitInv
    /\ page = "verification" => QueueTypes /\ VerificationInv
    /\ page = "onboarding" => OnboardingTypes /\ OnboardingInv

LEMMA SiteTypesInit == SiteInit => SiteTypesInv
    <1> SUFFICES ASSUME SiteInit PROVE SiteTypesInv
        OBVIOUS
    <1>1. CASE RoomInit
        BY <1>1, RoomIsTyped DEF RoomInit, SiteTypesInv
    <1>2. CASE MembershipInit
        BY <1>2, MembershipIsTyped DEF MembershipInit, SiteTypesInv
    <1>3. CASE DeskInit
        BY <1>3, DeskIsTyped DEF DeskInit, SiteTypesInv
    <1>4. CASE CalendarInit
        BY <1>4, CalendarIsTyped DEF CalendarInit, SiteTypesInv
    <1>5. CASE PaymentsInit
        BY <1>5, PaymentsIsTyped DEF PaymentsInit, SiteTypesInv
    <1>6. CASE ReplyInit
        BY <1>6, ReplyIsTyped DEF ReplyInit, SiteTypesInv
    <1>7. CASE NotesInit
        BY <1>7, NotesIsTyped DEF NotesInit, SiteTypesInv
    <1>8. CASE ExploreInit
        BY <1>8, ExploreIsTyped DEF ExploreInit, SiteTypesInv
    <1>9. CASE BookInit
        BY <1>9, BookIsTyped DEF BookInit, SiteTypesInv
    <1>a. CASE ServicesInit \/ StaffInit
        <2>1. page \in {"services", "staff"} /\ EditorInit
            BY <1>a DEF ServicesInit, StaffInit
        <2> QED BY <2>1, EditorIsTyped, EditorInitInv DEF SiteTypesInv
    <1>b. CASE ProfileInit
        BY <1>b, ProfileIsTyped, ProfileInitInv DEF ProfileInit, SiteTypesInv
    <1>c. CASE VisitInit
        BY <1>c, VisitIsTyped, VisitInitInv DEF VisitInit, SiteTypesInv
    <1>d. CASE VerificationInit
        BY <1>d, QueueIsTyped, VerificationInitInv DEF VerificationInit, SiteTypesInv
    <1>e. CASE OnboardingInit
        BY <1>e, OnboardingIsTyped, OnboardingInitInv DEF OnboardingInit, SiteTypesInv
    <1> QED
        BY <1>1, <1>2, <1>3, <1>4, <1>5, <1>6, <1>7, <1>8, <1>9, <1>a, <1>b, <1>c, <1>d, <1>e DEF SiteInit, ListsInit

LEMMA SiteTypesStep == SiteTypesInv /\ [SiteNext]_webVars => SiteTypesInv'
    <1> SUFFICES ASSUME SiteTypesInv, [SiteNext]_webVars PROVE SiteTypesInv'
        OBVIOUS
    <1>1. /\ page = "inventory" => RoomTypes'
          /\ page = "memberships" => MembershipTypes'
          /\ page = "gift-cards" => DeskTypes'
        BY OnePageMoves, RoomTypesStep, MembershipTypesStep, DeskTypesStep DEF SiteTypesInv
    <1>2. page \in {"services", "staff"} => EditorTypes' /\ EditorInv'
        <2>1. page \in {"services", "staff"} => [ServicesNext \/ StaffNext]_webVars
            BY OnePageMoves
        <2> QED
            BY OnePageMoves, <2>1, EditorTypesStep, ServicesPageStep, StaffPageStep DEF SiteTypesInv
    <1>3. /\ page = "calendar" => CalendarTypes'
          /\ page = "payments" => PaymentsTypes'
          /\ page = "reviews" => ReplyTypes'
        BY OnePageMoves, CalendarTypesStep, PaymentsTypesStep, ReplyTypesStep DEF SiteTypesInv
    <1>4. /\ page = "customers" => NotesTypes'
          /\ page = "explore" => ExploreTypes'
          /\ page = "book" => BookTypes'
        BY OnePageMoves, NotesTypesStep, ExploreTypesStep, BookTypesStep DEF SiteTypesInv
    <1>5. /\ page = "profile" => ProfileTypes' /\ ProfileInv'
          /\ page = "visits" => VisitTypes' /\ VisitInv'
        BY OnePageMoves, ProfileTypesStep, ProfileStep, VisitTypesStep, VisitStep DEF SiteTypesInv
    <1>6. /\ page = "verification" => QueueTypes' /\ VerificationInv'
          /\ page = "onboarding" => OnboardingTypes' /\ OnboardingInv'
        BY OnePageMoves, QueueTypesStep, VerificationStep, OnboardingTypesStep, OnboardingStep DEF SiteTypesInv
    <1> QED BY OnePageMoves, <1>1, <1>2, <1>3, <1>4, <1>5, <1>6 DEF SiteTypesInv

\* What these pages keep, send and are answered has its type too: with any number of
\* requests under way, whatever is clicked, and in whatever order they are answered,
\* refused and lost, no handler reads a field that is not there.
THEOREM SitePagesKeepTheirTypes == SiteSpec => []SiteTypeOK
    <1>1. SiteTypesInv => SiteTypeOK
        <2> SUFFICES ASSUME SiteTypesInv PROVE SiteTypeOK
            OBVIOUS
        <2>1. RoomTypeOK /\ MembershipTypeOK /\ DeskTypeOK
            BY RoomIsTyped, MembershipIsTyped, DeskIsTyped DEF SiteTypesInv, RoomTypeOK, MembershipTypeOK, DeskTypeOK
        <2>2. ServicesTypeOK /\ StaffTypeOK
            BY EditorIsTyped DEF SiteTypesInv, ServicesTypeOK, StaffTypeOK
        <2>3. CalendarTypeOK /\ PaymentsTypeOK /\ ReplyTypeOK /\ NotesTypeOK
            BY CalendarIsTyped, PaymentsIsTyped, ReplyIsTyped, NotesIsTyped
               DEF SiteTypesInv, CalendarTypeOK, PaymentsTypeOK, ReplyTypeOK, NotesTypeOK
        <2>4. BookTypeOK /\ VisitTypeOK /\ ProfileTypeOK /\ ExploreTypeOK
            BY BookIsTyped, VisitIsTyped, ProfileIsTyped, ExploreIsTyped
               DEF SiteTypesInv, BookTypeOK, VisitTypeOK, ProfileTypeOK, ExploreTypeOK
        <2>5. VerificationTypeOK /\ OnboardingTypeOK
            BY QueueIsTyped, OnboardingIsTyped DEF SiteTypesInv, VerificationTypeOK, OnboardingTypeOK
        <2> QED BY <2>1, <2>2, <2>3, <2>4, <2>5 DEF SiteTypeOK
    <1> QED BY <1>1, SiteTypesInit, SiteTypesStep, PTL DEF SiteSpec

=============================================================================
