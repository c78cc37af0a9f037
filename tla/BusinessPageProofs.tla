------------------------- MODULE BusinessPageProofs -------------------------
(***************************************************************************)
(* Proofs about pages of the business app, for any number of requests      *)
(* under way, and any people, plans and goods.                             *)
(***************************************************************************)
EXTENDS RequestProofs, MCBusinessPages

(***************************************************************************)
(* The schedule manager                                                    *)
(*                                                                         *)
(* What is in a save under way is what the page shows of that person,      *)
(* unless the person was edited since, and a save that was served is what  *)
(* the server has.  Nothing is edited or saved while the hours load.       *)
(***************************************************************************)

ScheduleView == [schedules : [Staff -> Entry \cup {Nil}], isLoading : BOOLEAN, expanded : Staff \cup {Nil}]
SaveArgs == [staff : Staff, days : Weeks]

ScheduleTyped ==
    /\ page = "schedule" /\ CallsOK
    /\ view \in ScheduleView
    /\ hours \in [Staff -> Weeks \cup {Nil}]
    /\ \A c \in Calls : Busy(c, "save") => call[c].arg \in SaveArgs

LoadIsAlone == \A c \in Calls : Busy(c, "load") =>
    /\ \A e \in Calls \ {c} : call[e].step = "free"
    /\ \A s \in Staff : view.schedules[s] = Nil
    /\ call[c].step = "served" => \E part \in SUBSET Staff : call[c].data = [s \in part |-> hours[s]]

SavesAreShown == \A c \in Calls, s \in Staff : Busy(c, "save") /\ call[c].arg.staff = s =>
    /\ view.schedules[s] # Nil
    /\ s \notin outdated =>
          /\ call[c].arg.days = view.schedules[s].days
          /\ call[c].step = "served" => hours[s] = call[c].arg.days

CleanWeeks == \A s \in Staff \ outdated :
    view.schedules[s] # Nil /\ ~view.schedules[s].dirty => view.schedules[s].days = Shown(hours[s]).days

ScheduleInv == ScheduleTyped /\ LoadIsAlone /\ SavesAreShown /\ CleanWeeks

LEMMA DefaultWeekIsAWeek == DefaultWeek \in Weeks
    BY ScheduleAssumption DEF DefaultWeek, Weeks, DayOff

LEMMA ShownIsAnEntry ==
    ASSUME NEW rows \in Weeks \cup {Nil}
    PROVE  Shown(rows) \in Entry /\ Shown(rows) # Nil
    <1>1. (IF rows = Nil THEN DefaultWeek ELSE rows) \in Weeks
        BY DefaultWeekIsAWeek
    <1>2. Shown(rows) \in Entry
        BY <1>1 DEF Shown, Entry
    <1> QED
        BY <1>2, EntryAssumption

LEMMA ShownOfAWeek ==
    ASSUME NEW rows \in Weeks
    PROVE  rows # Nil /\ Shown(rows).days = rows
    BY EntryAssumption DEF Shown

\* One entry of the page is replaced.
LEMMA OneEntry ==
    ASSUME view \in ScheduleView, NEW s \in Staff, NEW e \in Entry \cup {Nil},
           view' = [view EXCEPT !.schedules = [view.schedules EXCEPT ![s] = e]]
    PROVE  /\ view' \in ScheduleView
           /\ view'.schedules[s] = e
           /\ \A t \in Staff \ {s} : view'.schedules[t] = view.schedules[t]
    BY DEF ScheduleView

LEMMA ScheduleInitInv == ScheduleInit => ScheduleInv
    <1> SUFFICES ASSUME ScheduleInit PROVE ScheduleInv
        OBVIOUS
    <1> USE DEF hours, outdated
    <1>1. CallsOK /\ \E c \in Calls : call[c] = Request("load", Nil) /\ \A e \in Calls \ {c} : call[e] = Free
        BY MountEffect DEF ScheduleInit
    <1>2. \A c \in Calls : ~Busy(c, "save") /\ call[c].step # "served"
        BY <1>1 DEF Busy, Request, Free
    <1>3. \A c \in Calls : Busy(c, "load") => \A e \in Calls \ {c} : call[e].step = "free"
        BY <1>1 DEF Busy, Request, Free
    <1>4. \A s \in Staff : view.schedules[s] = Nil
        BY DEF ScheduleInit
    <1>5. ScheduleTyped
        BY <1>1, <1>2, DefaultWeekIsAWeek DEF ScheduleTyped, ScheduleInit, ScheduleView
    <1>6. LoadIsAlone
        BY <1>2, <1>3, <1>4 DEF LoadIsAlone
    <1>7. SavesAreShown /\ CleanWeeks
        BY <1>2, <1>4 DEF SavesAreShown, CleanWeeks
    <1> QED
        BY <1>5, <1>6, <1>7 DEF ScheduleInv

\* Steps that change nothing but one call, to one that is no load or save or that
\* has not gone further than before.
LEMMA ServeSchedulesKeeps ==
    ASSUME ScheduleInv, UNCHANGED page, NEW c \in Calls, ServeSchedules(c)
    PROVE  ScheduleInv'
    <1> USE DEF ScheduleInv, hours, outdated
    <1>1. PICK broken \in SUBSET Staff : Answer(c, [s \in Staff \ broken |-> hours[s]])
        BY DEF ServeSchedules
    <1>2. /\ CallsOK'
          /\ call'[c] = [step |-> "served", op |-> call[c].op, arg |-> call[c].arg,
                         data |-> [s \in Staff \ broken |-> hours[s]]]
          /\ \A e \in Calls \ {c} : call'[e] = call[e]
        BY <1>1, AnswerEffect DEF ScheduleTyped
    <1>3. UNCHANGED <<view, server, past>> /\ call[c].op = "load" /\ call[c].step = "sent"
        BY DEF ServeSchedules, Keep, Stands
    <1>4. \A e \in Calls : ~Busy(e, "save")' /\ (Busy(e, "load")' => e = c)
        BY <1>2, <1>3 DEF Busy, LoadIsAlone
    <1>5. ScheduleTyped'
        BY <1>2, <1>3, <1>4 DEF ScheduleTyped
    <1>6. LoadIsAlone'
        BY <1>2, <1>3, <1>4 DEF LoadIsAlone, Busy
    <1>7. SavesAreShown' /\ CleanWeeks'
        BY <1>3, <1>4 DEF SavesAreShown, CleanWeeks
    <1> QED
        BY <1>5, <1>6, <1>7

LEMMA ReceiveSchedulesKeeps ==
    ASSUME ScheduleInv, UNCHANGED page, NEW c \in Calls, ReceiveSchedules(c)
    PROVE  ScheduleInv'
    <1> USE DEF ScheduleInv, hours, outdated
    <1>1. CallsOK' /\ call'[c] = Free /\ \A e \in Calls \ {c} : call'[e] = call[e]
        BY EndEffect DEF ReceiveSchedules, ScheduleTyped
    <1>2. call[c].op = "load" /\ call[c].step = "served" /\ UNCHANGED server
        BY DEF ReceiveSchedules, Stands
    <1>3. PICK part \in SUBSET Staff : call[c].data = [s \in part |-> hours[s]]
        BY <1>2 DEF LoadIsAlone, Busy
    <1>4. \A e \in Calls : call'[e].step = "free"
        BY <1>1, <1>2 DEF LoadIsAlone, Busy, Free
    <1> DEFINE loaded(s) == IF s \in DOMAIN call[c].data THEN call[c].data[s] ELSE Nil
    <1>5. PICK first \in Staff :
              view' = [schedules |-> [s \in Staff |-> Shown(loaded(s))], isLoading |-> FALSE, expanded |-> first]
        BY DEF ReceiveSchedules
    <1>6. past' = {s \in Staff \ part : hours[s] # Nil}
        BY <1>3 DEF ReceiveSchedules
    <1>7. \A s \in Staff : loaded(s) = IF s \in part THEN hours[s] ELSE Nil
        BY <1>3
    <1>8. \A s \in Staff : loaded(s) \in Weeks \cup {Nil}
        BY <1>7 DEF ScheduleTyped
    <1>9. \A s \in Staff : Shown(loaded(s)) \in Entry
        BY <1>8, ShownIsAnEntry
    <1> HIDE DEF loaded
    <1>a. ScheduleTyped'
        BY <1>1, <1>2, <1>4, <1>5, <1>9 DEF ScheduleTyped, ScheduleView, Busy
    <1>b. LoadIsAlone' /\ SavesAreShown'
        BY <1>4 DEF LoadIsAlone, SavesAreShown, Busy
    <1>c. ASSUME NEW s \in Staff, s \notin past'
          PROVE  view'.schedules[s].days = Shown(hours'[s]).days
        <2>1. loaded(s) = hours[s]
            BY <1>6, <1>7, <1>c
        <2> QED
            BY <2>1, <1>2, <1>5
    <1> QED
        BY <1>a, <1>b, <1>c DEF CleanWeeks

\* Steps in which a request ends, or stops being one that may be received, while
\* the rest stays but for loads that may end with the loading sign.
LEMMA FailSchedulesKeeps ==
    ASSUME ScheduleInv, UNCHANGED page, NEW c \in Calls, FailSchedules(c)
    PROVE  ScheduleInv'
    <1> USE DEF ScheduleInv, hours, outdated
    <1>1. CallsOK' /\ call'[c] = Free /\ \A e \in Calls \ {c} : call'[e] = call[e]
        BY EndEffect DEF FailSchedules, ScheduleTyped
    <1>2. \A e \in Calls : call'[e].step = "free"
        BY <1>1 DEF LoadIsAlone, Busy, Free, FailSchedules, Stands
    <1>3. UNCHANGED <<server, past>> /\ view' \in ScheduleView /\ view'.schedules = view.schedules
        BY DEF FailSchedules, ScheduleTyped, ScheduleView
    <1>4. ScheduleTyped'
        BY <1>1, <1>2, <1>3 DEF ScheduleTyped, Busy
    <1>5. LoadIsAlone' /\ SavesAreShown'
        BY <1>2 DEF LoadIsAlone, SavesAreShown, Busy
    <1>6. CleanWeeks'
        BY <1>3 DEF CleanWeeks
    <1> QED
        BY <1>4, <1>5, <1>6

LEMMA OverviewKeeps ==
    ASSUME ScheduleInv, UNCHANGED page, NEW s \in Staff, Overview(s)
    PROVE  ScheduleInv'
    <1> USE DEF ScheduleInv, hours, outdated
    <1>1. UNCHANGED <<call, server, past>> /\ view' \in ScheduleView /\ view'.schedules = view.schedules
        BY DEF Overview, Show, ScheduleTyped, ScheduleView
    <1>2. ScheduleTyped'
        BY <1>1 DEF ScheduleTyped, CallsOK, IsRequest, Busy
    <1>3. LoadIsAlone' /\ SavesAreShown' /\ CleanWeeks'
        BY <1>1 DEF LoadIsAlone, SavesAreShown, CleanWeeks, Busy
    <1> QED
        BY <1>2, <1>3

LEMMA EditKeeps ==
    ASSUME ScheduleInv, UNCHANGED page, NEW s \in Staff, NEW week \in Weeks, Edit(s, week)
    PROVE  ScheduleInv'
    <1> USE DEF ScheduleInv, hours, outdated
    <1> DEFINE e == [days |-> week, dirty |-> TRUE, saving |-> view.schedules[s].saving]
    <1>1. view.schedules[s] # Nil /\ view.schedules[s] \in Entry
        BY DEF Edit, Editing, ScheduleTyped, ScheduleView
    <1>2. e \in Entry
        BY <1>1 DEF Entry
    <1>3. view' = [view EXCEPT !.schedules = [view.schedules EXCEPT ![s] = e]]
        BY <1>1 DEF Edit
    <1>4. /\ view' \in ScheduleView /\ view'.schedules[s] = e
          /\ \A t \in Staff \ {s} : view'.schedules[t] = view.schedules[t]
        BY <1>2, <1>3, OneEntry DEF ScheduleTyped
    <1>5. e # Nil
        BY <1>2, EntryAssumption
    <1>6. UNCHANGED <<call, server>> /\ past \subseteq past' /\ past' \subseteq past \cup {s}
        BY DEF Edit
    <1>7. \A c \in Calls : Busy(c, "save") /\ call[c].arg.staff = s => s \in past'
        BY DEF Edit, Busy, Saves
    <1>8. ScheduleTyped'
        BY <1>4, <1>6 DEF ScheduleTyped, CallsOK, IsRequest, Busy
    <1>9. LoadIsAlone'
        BY <1>1, <1>6 DEF LoadIsAlone, Busy
    <1>a. SavesAreShown'
        BY <1>4, <1>5, <1>6, <1>7 DEF SavesAreShown, Busy
    <1>b. CleanWeeks'
        BY <1>4, <1>6 DEF CleanWeeks
    <1> QED
        BY <1>8, <1>9, <1>a, <1>b

\* The controls of an editor change the week of one person to some week.
LEMMA ControlsEdit ==
    ASSUME ScheduleInv, NEW s \in Staff,
           \/ DayRows(s)
           \/ \E from \in Staff : CopySchedule(from, s)
           \/ \E shift \in Shifts : ApplyPresetToWeek(s, shift)
    PROVE  \E week \in Weeks : Edit(s, week)
    <1>1. \A t \in Staff : view.schedules[t] # Nil => view.schedules[t].days \in Weeks
        BY DEF ScheduleInv, ScheduleTyped, ScheduleView, Entry
    <1>2. CASE DayRows(s)
        <2>1. PICK d \in Days, shift \in Shifts \cup {DayOff} :
                  Editing(s) /\ Edit(s, [view.schedules[s].days EXCEPT ![d] = shift])
            BY <1>2 DEF DayRows, UpdateDay
        <2>2. [view.schedules[s].days EXCEPT ![d] = shift] \in Weeks
            BY <1>1, <2>1 DEF Editing, Weeks
        <2> QED
            BY <2>1, <2>2
    <1>3. CASE \E from \in Staff : CopySchedule(from, s)
        BY <1>1, <1>3 DEF CopySchedule
    <1>4. CASE \E shift \in Shifts : ApplyPresetToWeek(s, shift)
        <2>1. PICK shift \in Shifts :
                  Editing(s) /\ Edit(s, [d \in Days |-> IF d \in Weekdays THEN shift ELSE view.schedules[s].days[d]])
            BY <1>4 DEF ApplyPresetToWeek
        <2>2. [d \in Days |-> IF d \in Weekdays THEN shift ELSE view.schedules[s].days[d]] \in Weeks
            BY <1>1, <2>1 DEF Editing, Weeks
        <2> QED
            BY <2>1, <2>2
    <1> QED
        BY <1>2, <1>3, <1>4

LEMMA SaveScheduleKeeps ==
    ASSUME ScheduleInv, UNCHANGED page, NEW s \in Staff, NEW c \in Calls, SaveSchedule(c, s)
    PROVE  ScheduleInv'
    <1> USE DEF ScheduleInv, hours, outdated
    <1> DEFINE e == [days |-> view.schedules[s].days, dirty |-> view.schedules[s].dirty, saving |-> TRUE]
    <1> DEFINE arg == [staff |-> s, days |-> view.schedules[s].days]
    <1>1. view.schedules[s] # Nil /\ view.schedules[s] \in Entry
        BY DEF SaveSchedule, Editing, ScheduleTyped, ScheduleView
    <1>2. e \in Entry /\ arg \in SaveArgs
        BY <1>1 DEF Entry, SaveArgs
    <1>3. view' = [view EXCEPT !.schedules = [view.schedules EXCEPT ![s] = e]]
        BY <1>1 DEF SaveSchedule
    <1>4. /\ view' \in ScheduleView /\ view'.schedules[s] = e
          /\ \A t \in Staff \ {s} : view'.schedules[t] = view.schedules[t]
        BY <1>2, <1>3, OneEntry DEF ScheduleTyped
    <1>5. e # Nil
        BY <1>2, EntryAssumption
    <1>6. Send(c, "save", arg)
        BY DEF SaveSchedule, SaveRequest, Request
    <1>7. /\ CallsOK' /\ call[c] = Free /\ call'[c] = Request("save", arg)
          /\ \A d \in Calls \ {c} : call'[d] = call[d]
        BY <1>6, SendEffect DEF ScheduleTyped
    <1>8. UNCHANGED <<server, past>> /\ e.days = view.schedules[s].days /\ e.dirty = view.schedules[s].dirty
        BY DEF SaveSchedule
    <1>9. ScheduleTyped'
        BY <1>2, <1>4, <1>7, <1>8 DEF ScheduleTyped, Busy, Request
    <1>a. LoadIsAlone'
        BY <1>1, <1>7 DEF LoadIsAlone, Busy, Request
    <1>b. SavesAreShown'
        BY <1>4, <1>5, <1>7, <1>8 DEF SavesAreShown, Busy, Request
    <1>c. CleanWeeks'
        BY <1>1, <1>4, <1>8 DEF CleanWeeks
    <1> QED
        BY <1>9, <1>a, <1>b, <1>c

LEMMA SaveAllKeeps ==
    ASSUME ScheduleInv, UNCHANGED page, SaveAll
    PROVE  ScheduleInv'
    <1> USE DEF ScheduleInv, hours, outdated
    <1>1. PICK slot \in [Unsaved -> {c \in Calls : call[c] = Free}] :
              call' = [c \in Calls |-> IF \E s \in Unsaved : slot[s] = c
                                       THEN SaveRequest(CHOOSE s \in Unsaved : slot[s] = c)
                                       ELSE call[c]]
        BY DEF SaveAll
    <1>2. UNCHANGED <<server, past>>
        BY DEF SaveAll
    <1>3. \A s \in Unsaved : s \in Staff /\ view.schedules[s] # Nil /\ view.schedules[s] \in Entry
        BY DEF Unsaved, ScheduleTyped, ScheduleView
    <1> DEFINE new(s) == [days |-> view.schedules[s].days, dirty |-> TRUE, saving |-> TRUE]
    <1>4. \A s \in Unsaved : new(s) \in Entry
        BY <1>3 DEF Entry
    <1>5. view' = [view EXCEPT !.schedules = [s \in Staff |-> IF s \in Unsaved THEN new(s) ELSE view.schedules[s]]]
        BY <1>4 DEF SaveAll
    <1>6. view' \in ScheduleView /\ \A s \in Staff :
              view'.schedules[s] = IF s \in Unsaved THEN new(s) ELSE view.schedules[s]
        BY <1>4, <1>5 DEF ScheduleTyped, ScheduleView
    <1>7. \A s \in Staff : /\ view'.schedules[s] = Nil <=> view.schedules[s] = Nil
                           /\ view.schedules[s] # Nil => /\ view'.schedules[s].days = view.schedules[s].days
                                                         /\ view'.schedules[s].dirty <=> view.schedules[s].dirty
        <2> TAKE s \in Staff
        <2>1. CASE s \in Unsaved
            <3>1. new(s) # Nil
                BY <1>4, <2>1, EntryAssumption
            <3>2. view'.schedules[s] = new(s)
                BY <1>6, <2>1
            <3>3. new(s).days = view.schedules[s].days /\ (new(s).dirty <=> view.schedules[s].dirty)
                BY <2>1 DEF Unsaved
            <3> HIDE DEF new
            <3> QED
                BY <1>3, <2>1, <3>1, <3>2, <3>3
        <2>2. CASE s \notin Unsaved
            BY <1>6, <2>2
        <2> QED
            BY <2>1, <2>2
    <1>8. ASSUME NEW c \in Calls, call'[c] # call[c]
          PROVE  \E s \in Unsaved : call'[c] = SaveRequest(s) /\ call'[c].step = "sent" /\ call'[c].op = "save"
                                     /\ call'[c].arg = [staff |-> s, days |-> view.schedules[s].days]
        <2>1. \E s \in Unsaved : slot[s] = c
            BY <1>1, <1>8
        <2>2. (CHOOSE s \in Unsaved : slot[s] = c) \in Unsaved
            BY <2>1
        <2>3. call'[c] = SaveRequest(CHOOSE s \in Unsaved : slot[s] = c)
            BY <1>1, <2>1
        <2> QED
            <3> DEFINE s == CHOOSE s \in Unsaved : slot[s] = c
            <3> HIDE DEF s
            <3>1. s \in Unsaved /\ call'[c] = SaveRequest(s)
                BY <2>2, <2>3 DEF s
            <3> QED
                BY <3>1 DEF SaveRequest, Request
    <1>9. CallsOK'
        <2>1. call' = [c \in Calls |-> call'[c]]
            BY <1>1
        <2>2. \A c \in Calls : IsRequest(call'[c])
            <3> TAKE c \in Calls
            <3>1. IsRequest(call[c])
                BY DEF ScheduleTyped, CallsOK
            <3>2. \A s : IsRequest(SaveRequest(s))
                BY RequestIsRequest DEF SaveRequest
            <3> QED
                BY <1>8, <3>1, <3>2
        <2> QED
            BY <2>1, <2>2 DEF CallsOK, IsRequest
    <1>a. ScheduleTyped'
        <2>1. \A c \in Calls : Busy(c, "save")' => call'[c].arg \in SaveArgs
            <3> TAKE c \in Calls
            <3>1. CASE call'[c] = call[c]
                BY <3>1 DEF ScheduleTyped, Busy
            <3>2. CASE call'[c] # call[c]
                <4>1. PICK t \in Unsaved : call'[c].arg = [staff |-> t, days |-> view.schedules[t].days]
                    BY <1>8, <3>2
                <4>2. t \in Staff /\ view.schedules[t].days \in Weeks
                    BY <1>3 DEF Entry
                <4> QED
                    BY <4>1, <4>2 DEF SaveArgs
            <3> QED
                BY <3>1, <3>2
        <2> QED
            BY <1>2, <1>6, <1>9, <2>1 DEF ScheduleTyped
    <1>b. LoadIsAlone'
        <2>1. PICK s \in Staff : view.schedules[s] # Nil
            BY <1>3 DEF SaveAll
        <2>2. \A c \in Calls : ~Busy(c, "load")
            BY <2>1 DEF LoadIsAlone
        <2>3. \A c \in Calls : ~Busy(c, "load")'
            BY <1>8, <2>2 DEF Busy
        <2> QED
            BY <2>3 DEF LoadIsAlone
    <1>c. SavesAreShown'
        <2> DEFINE carried(c, s) == /\ view'.schedules[s] # Nil
                                    /\ s \notin past' => /\ call'[c].arg.days = view'.schedules[s].days
                                                         /\ call'[c].step = "served" => server'[s] = call'[c].arg.days
        <2>1. ASSUME NEW c \in Calls, NEW s \in Staff, Busy(c, "save")', call'[c].arg.staff = s,
                     call'[c] = call[c]
              PROVE  carried(c, s)
            BY <1>2, <1>7, <2>1 DEF SavesAreShown, Busy
        <2>2. ASSUME NEW c \in Calls, NEW s \in Staff, Busy(c, "save")', call'[c].arg.staff = s,
                     call'[c] # call[c]
              PROVE  carried(c, s)
            <3>1. PICK t \in Unsaved : /\ call'[c].step = "sent"
                                       /\ call'[c].arg = [staff |-> t, days |-> view.schedules[t].days]
                BY <1>8, <2>2
            <3>2. t = s /\ call'[c].arg.days = view.schedules[s].days /\ call'[c].step # "served"
                BY <2>2, <3>1
            <3> QED
                BY <1>3, <1>7, <3>1, <3>2
        <2>3. ASSUME NEW c \in Calls, NEW s \in Staff, Busy(c, "save")', call'[c].arg.staff = s
              PROVE  carried(c, s)
            BY <2>1, <2>2, <2>3
        <2> QED
            BY <2>3 DEF SavesAreShown
    <1>d. CleanWeeks'
        BY <1>2, <1>7 DEF CleanWeeks
    <1> QED
        BY <1>a, <1>b, <1>c, <1>d

LEMMA ServeSaveKeeps ==
    ASSUME ScheduleInv, UNCHANGED page, NEW c \in Calls, ServeSave(c)
    PROVE  ScheduleInv'
    <1> USE DEF ScheduleInv, hours, outdated
    <1> DEFINE s == call[c].arg.staff
    <1> DEFINE week == call[c].arg.days
    <1>1. call[c].op = "save" /\ call[c].step = "sent" /\ Busy(c, "save") /\ UNCHANGED <<view, past>>
        BY DEF ServeSave, Stands, Busy
    <1>2. s \in Staff /\ week \in Weeks
        BY <1>1 DEF ScheduleTyped, SaveArgs
    <1>3. /\ CallsOK'
          /\ call'[c] = [step |-> "served", op |-> call[c].op, arg |-> call[c].arg, data |-> Nil]
          /\ \A e \in Calls \ {c} : call'[e] = call[e]
        BY AnswerEffect DEF ServeSave, ScheduleTyped
    <1>4. hours' = [hours EXCEPT ![s] = week]
        BY DEF ServeSave
    <1>5. hours' \in [Staff -> Weeks \cup {Nil}] /\ hours'[s] = week /\ \A t \in Staff \ {s} : hours'[t] = hours[t]
        BY <1>2, <1>4 DEF ScheduleTyped
    <1>6. ScheduleTyped'
        BY <1>1, <1>3, <1>5 DEF ScheduleTyped, Busy
    <1>7. view.schedules[s] # Nil /\ (s \notin outdated => week = view.schedules[s].days)
        BY <1>1, <1>2 DEF SavesAreShown
    <1>8. LoadIsAlone'
        BY <1>1, <1>2, <1>3, <1>7 DEF LoadIsAlone, Busy
    <1>9. SavesAreShown'
        BY <1>1, <1>3, <1>5, <1>7 DEF SavesAreShown, Busy
    <1>a. CleanWeeks'
        BY <1>1, <1>2, <1>5, <1>7, ShownOfAWeek DEF CleanWeeks
    <1> QED
        BY <1>6, <1>8, <1>9, <1>a

\* A save ends, and marks at most its own person saved, and only when it was served.
LEMMA EndOfSaveKeeps ==
    ASSUME ScheduleInv, UNCHANGED page, NEW c \in Calls, ReceiveSave(c) \/ FailSave(c)
    PROVE  ScheduleInv'
    <1> USE DEF ScheduleInv, hours, outdated
    <1> DEFINE s == call[c].arg.staff
    <1>1. CallsOK' /\ call'[c] = Free /\ \A e \in Calls \ {c} : call'[e] = call[e]
        BY EndEffect DEF ReceiveSave, FailSave, ScheduleTyped
    <1>2. Busy(c, "save") /\ UNCHANGED <<server, past>>
        BY DEF ReceiveSave, FailSave, Stands, Busy
    <1>3. s \in Staff /\ call[c].arg.days \in Weeks
        BY <1>2 DEF ScheduleTyped, SaveArgs
    <1>4. view.schedules[s] # Nil /\ view.schedules[s] \in Entry
        BY <1>2, <1>3 DEF SavesAreShown, ScheduleTyped, ScheduleView
    <1> DEFINE e == [days |-> view.schedules[s].days,
                     dirty |-> IF ReceiveSave(c) THEN FALSE ELSE view.schedules[s].dirty,
                     saving |-> FALSE]
    <1>5. e \in Entry
        BY <1>4 DEF Entry
    <1>6. view' = [view EXCEPT !.schedules = [view.schedules EXCEPT ![s] = e]]
        <2>1. CASE ReceiveSave(c)
            BY <1>4, <2>1 DEF ReceiveSave
        <2>2. CASE ~ReceiveSave(c)
            BY <1>4, <2>2 DEF FailSave
        <2> QED
            BY <2>1, <2>2
    <1>8. e # Nil /\ e.days = view.schedules[s].days /\ (~ReceiveSave(c) => (e.dirty <=> view.schedules[s].dirty))
        BY <1>5, EntryAssumption
    <1> HIDE DEF e, s
    <1>7. /\ view' \in ScheduleView /\ view'.schedules[s] = e
          /\ \A t \in Staff \ {s} : view'.schedules[t] = view.schedules[t]
        BY <1>3, <1>5, <1>6, OneEntry DEF ScheduleTyped
    <1> USE DEF s
    <1>9. ScheduleTyped'
        BY <1>1, <1>2, <1>7 DEF ScheduleTyped, Busy, Free
    <1>a. LoadIsAlone'
        BY <1>1, <1>2, <1>3, <1>4 DEF LoadIsAlone, Busy, Free
    <1>b. SavesAreShown'
        BY <1>1, <1>2, <1>7, <1>8 DEF SavesAreShown, Busy, Free
    <1>c. ASSUME NEW t \in Staff, t \notin past', view'.schedules[t] # Nil, ~view'.schedules[t].dirty
          PROVE  view'.schedules[t].days = Shown(hours'[t]).days
        <2>1. CASE t = s /\ ReceiveSave(c)
            <3>1. call[c].step = "served"
                BY <2>1 DEF ReceiveSave, Stands
            <3>2. hours[s] = call[c].arg.days /\ call[c].arg.days = view.schedules[s].days
                BY <1>2, <1>3, <1>c, <2>1, <3>1 DEF SavesAreShown
            <3> QED
                BY <1>2, <1>3, <1>7, <1>8, <2>1, <3>2, ShownOfAWeek
        <2>2. CASE t # s \/ ~ReceiveSave(c)
            BY <1>2, <1>4, <1>7, <1>8, <1>c, <2>2 DEF CleanWeeks
        <2> QED
            BY <2>1, <2>2
    <1> QED
        BY <1>9, <1>a, <1>b, <1>c DEF CleanWeeks

LEMMA LoseKeeps ==
    ASSUME ScheduleInv, UNCHANGED page, NEW c \in Calls, LoseCall(c)
    PROVE  ScheduleInv'
    <1> USE DEF ScheduleInv, hours, outdated
    <1>1. /\ CallsOK' /\ call[c].step \in {"sent", "served"}
          /\ call'[c] = [step |-> "failed", op |-> call[c].op, arg |-> call[c].arg, data |-> Nil]
          /\ \A e \in Calls \ {c} : call'[e] = call[e]
        BY LoseEffect DEF LoseCall, ScheduleTyped
    <1>2. UNCHANGED <<view, server, past>>
        BY DEF LoseCall, Keep
    <1>3. ScheduleTyped'
        BY <1>1, <1>2 DEF ScheduleTyped, Busy
    <1>4. LoadIsAlone'
        BY <1>1, <1>2 DEF LoadIsAlone, Busy
    <1>5. SavesAreShown' /\ CleanWeeks'
        BY <1>1, <1>2 DEF SavesAreShown, CleanWeeks, Busy
    <1> QED
        BY <1>3, <1>4, <1>5

LEMMA ScheduleStep == ScheduleInv /\ [ScheduleNext]_webVars => ScheduleInv'
    <1> SUFFICES ASSUME ScheduleInv, [ScheduleNext]_webVars PROVE ScheduleInv'
        OBVIOUS
    <1>1. CASE UNCHANGED webVars
        BY <1>1 DEF webVars, ScheduleInv, ScheduleTyped, LoadIsAlone, SavesAreShown, CleanWeeks,
                    CallsOK, IsRequest, Busy, hours, outdated
    <1>2. CASE ScheduleNext
        <2>1. UNCHANGED page
            BY <1>2 DEF ScheduleNext
        <2>2. ASSUME NEW s \in Staff, Overview(s) \/ DayRows(s) \/ EditorHeader(s) PROVE ScheduleInv'
            BY <2>1, <2>2, OverviewKeeps, ControlsEdit, EditKeeps, SaveScheduleKeeps DEF EditorHeader
        <2>3. ASSUME NEW c \in Calls, ScheduleAnswers(c) \/ LoseCall(c) PROVE ScheduleInv'
            BY <2>1, <2>3, ServeSchedulesKeeps, ReceiveSchedulesKeeps, FailSchedulesKeeps, ServeSaveKeeps,
               EndOfSaveKeeps, LoseKeeps DEF ScheduleAnswers
        <2> QED
            BY <1>2, <2>1, <2>2, <2>3, SaveAllKeeps DEF ScheduleNext
    <1> QED
        BY <1>1, <1>2

\* Hours that are not marked unsaved are the hours the server has, for any staff,
\* week and number of saves under way, unless they could not be loaded or were
\* edited while a save of them was under way (schedule/page.tsx, saveSchedule).
THEOREM SavedWeekIsStoredAlways == ScheduleSpec => []SavedWeekIsStored
    <1>1. ScheduleInv => SavedWeekIsStored
        BY DEF ScheduleInv, CleanWeeks, SavedWeekIsStored
    <1> QED
        BY <1>1, ScheduleInitInv, ScheduleStep, PTL DEF ScheduleSpec

(***************************************************************************)
(* The leave tab                                                           *)
(*                                                                         *)
(* Nobody shares a leave, an answer holds a leave of the person it is for, *)
(* and as long as nothing went wrong no leave is being added while the     *)
(* leaves load.                                                            *)
(***************************************************************************)
Leaves == [Persons -> SUBSET LeaveIds]
LeaveView == [leaves : Leaves, staffId : Persons \cup {Nil}, saving : BOOLEAN]

LeaveTyped ==
    /\ page = "leave" /\ CallsOK
    /\ view \in LeaveView /\ absences \in Leaves /\ reloaded \in BOOLEAN

OneOwner == \A s, t \in Persons : absences[s] \cap absences[t] # {} => s = t

AnswersAreStored == \A c \in Calls :
    /\ Busy(c, "leave") => call[c].arg \in Persons
    /\ Busy(c, "leave") /\ call[c].step = "served" => call[c].data \in absences[call[c].arg]
    /\ Busy(c, "leaves") /\ call[c].step = "served" =>
          call[c].data \in Leaves /\ \A s \in Persons : call[c].data[s] \subseteq absences[s]

LoadIsComplete == ~reloaded => \A c \in Calls : Busy(c, "leaves") =>
    /\ \A e \in Calls : ~Busy(e, "leave")
    /\ call[c].step = "served" => \A s \in Persons : call[c].data[s] = absences[s]

Arriving(c, id) ==
    /\ Busy(c, "leave")
    /\ \/ call[c].step = "failed"
       \/ call[c].step = "served" /\ call[c].data = id

ListedIsStored == \A s \in Persons : view.leaves[s] \subseteq absences[s]
StoredIsListed == ~reloaded => \A s \in Persons : \A id \in absences[s] \ view.leaves[s] :
    \E c \in Calls : Busy(c, "leaves") \/ Arriving(c, id)

LeaveInv ==
    /\ LeaveTyped /\ OneOwner /\ AnswersAreStored /\ LoadIsComplete
    /\ ListedIsStored /\ StoredIsListed

LEMMA LeaveInitInv == LeaveInit => LeaveInv
    <1> SUFFICES ASSUME LeaveInit PROVE LeaveInv
        OBVIOUS
    <1> USE DEF absences, reloaded
    <1>1. PICK c \in Calls : call[c] = Request("leaves", Nil) /\ \A e \in Calls \ {c} : call[e] = Free
        BY MountEffect DEF LeaveInit
    <1>2. CallsOK
        BY MountEffect DEF LeaveInit
    <1>3. \A e \in Calls : ~Busy(e, "leave") /\ call[e].step # "served"
        BY <1>1 DEF Busy, Request, Free
    <1>4. Busy(c, "leaves")
        BY <1>1 DEF Busy, Request
    <1>5. PICK s \in Persons, ids \in {{}} \cup {{l} : l \in LeaveIds} : server = [Nobody EXCEPT ![s] = ids]
        BY DEF LeaveInit
    <1>6. server \in Leaves /\ \A t \in Persons \ {s} : server[t] = {}
        BY <1>5 DEF Nobody, Leaves
    <1>7. view \in LeaveView /\ past = FALSE /\ page = "leave" /\ \A t \in Persons : view.leaves[t] = {}
        BY DEF LeaveInit, LeaveView, Leaves, Nobody
    <1>8. OneOwner
        BY <1>6 DEF OneOwner
    <1>9. AnswersAreStored /\ LoadIsComplete
        BY <1>3 DEF AnswersAreStored, LoadIsComplete
    <1>a. ListedIsStored /\ StoredIsListed
        BY <1>4, <1>7 DEF ListedIsStored, StoredIsListed
    <1> QED
        BY <1>2, <1>6, <1>7, <1>8, <1>9, <1>a DEF LeaveInv, LeaveTyped

LEMMA ServeLeavesKeeps ==
    ASSUME LeaveInv, UNCHANGED page, NEW c \in Calls, ServeLeaves(c)
    PROVE  LeaveInv'
    <1> USE DEF LeaveInv, absences, reloaded
    <1>1. PICK broken \in SUBSET Persons :
              /\ Answer(c, [s \in Persons |-> IF s \in broken THEN {} ELSE server[s]])
              /\ past' = (past \/ broken # {})
        BY DEF ServeLeaves
    <1> DEFINE d == [s \in Persons |-> IF s \in broken THEN {} ELSE server[s]]
    <1>2. /\ CallsOK'
          /\ call'[c] = [step |-> "served", op |-> call[c].op, arg |-> call[c].arg, data |-> d]
          /\ \A e \in Calls \ {c} : call'[e] = call[e]
        BY <1>1, AnswerEffect DEF LeaveTyped
    <1>3. UNCHANGED <<server, view>> /\ call[c].op = "leaves" /\ Busy(c, "leaves")
        BY DEF ServeLeaves, Stands, Busy
    <1>4. d \in Leaves /\ \A s \in Persons : d[s] \subseteq server[s]
        BY DEF LeaveTyped, Leaves
    <1>5. ~past' => broken = {} /\ ~past
        BY <1>1 DEF LeaveTyped
    <1>6. broken = {} => \A s \in Persons : d[s] = server[s]
        OBVIOUS
    <1> HIDE DEF d
    <1>7. LeaveTyped' /\ OneOwner' /\ ListedIsStored'
        BY <1>1, <1>2, <1>3 DEF LeaveTyped, OneOwner, ListedIsStored
    <1>8. AnswersAreStored'
        BY <1>2, <1>3, <1>4 DEF AnswersAreStored, Busy
    <1>9. LoadIsComplete'
        BY <1>2, <1>3, <1>5, <1>6 DEF LoadIsComplete, Busy
    <1>a. StoredIsListed'
        BY <1>2, <1>3 DEF StoredIsListed, Busy
    <1> QED
        BY <1>7, <1>8, <1>9, <1>a

LEMMA ReceiveLeavesKeeps ==
    ASSUME LeaveInv, UNCHANGED page, NEW c \in Calls, ReceiveLeaves(c)
    PROVE  LeaveInv'
    <1> USE DEF LeaveInv, absences, reloaded
    <1>1. CallsOK' /\ call'[c] = Free /\ \A e \in Calls \ {c} : call'[e] = call[e]
        BY EndEffect DEF ReceiveLeaves, LeaveTyped
    <1>2. UNCHANGED <<server, past>> /\ Busy(c, "leaves") /\ call[c].step = "served"
        BY DEF ReceiveLeaves, Stands, Busy
    <1>3. call[c].data \in Leaves /\ \A s \in Persons : call[c].data[s] \subseteq server[s]
        BY <1>2 DEF AnswersAreStored
    <1>4. view' \in LeaveView /\ view'.leaves = call[c].data
        BY <1>3 DEF ReceiveLeaves, LeaveTyped, LeaveView
    <1>5. LeaveTyped' /\ OneOwner' /\ ListedIsStored'
        BY <1>1, <1>2, <1>3, <1>4 DEF LeaveTyped, OneOwner, ListedIsStored
    <1>6. AnswersAreStored' /\ LoadIsComplete'
        BY <1>1, <1>2 DEF AnswersAreStored, LoadIsComplete, Busy, Free
    <1>7. StoredIsListed'
        BY <1>2, <1>4 DEF StoredIsListed, LoadIsComplete
    <1> QED
        BY <1>5, <1>6, <1>7

LEMMA FailLeaveRequestKeeps ==
    ASSUME LeaveInv, UNCHANGED page, NEW c \in Calls, FailLeaves(c) \/ FailLeave(c)
    PROVE  LeaveInv'
    <1> USE DEF LeaveInv, absences, reloaded
    <1>1. CallsOK' /\ call'[c] = Free /\ \A e \in Calls \ {c} : call'[e] = call[e]
        BY EndEffect DEF FailLeaves, FailLeave, LeaveTyped
    <1>2. UNCHANGED server /\ past' = TRUE
        BY DEF FailLeaves, FailLeave
    <1>3. view' \in LeaveView /\ view'.leaves = view.leaves
        BY DEF FailLeaves, FailLeave, LeaveTyped, LeaveView
    <1>4. LeaveTyped' /\ OneOwner' /\ ListedIsStored'
        BY <1>1, <1>2, <1>3 DEF LeaveTyped, OneOwner, ListedIsStored
    <1>5. AnswersAreStored' /\ LoadIsComplete' /\ StoredIsListed'
        BY <1>1, <1>2 DEF AnswersAreStored, LoadIsComplete, StoredIsListed, Busy, Free
    <1> QED
        BY <1>4, <1>5

LEMMA LeaveFormKeeps ==
    ASSUME LeaveInv, UNCHANGED page, NEW s \in Persons, LeaveForm(s)
    PROVE  LeaveInv'
    <1> USE DEF LeaveInv, absences, reloaded
    <1>1. UNCHANGED <<call, server, past>> /\ view' \in LeaveView /\ view'.leaves = view.leaves
        BY DEF LeaveForm, Show, LeaveTyped, LeaveView
    <1>2. LeaveTyped' /\ OneOwner' /\ ListedIsStored'
        BY <1>1 DEF LeaveTyped, OneOwner, ListedIsStored, CallsOK, IsRequest
    <1>3. AnswersAreStored' /\ LoadIsComplete' /\ StoredIsListed'
        BY <1>1 DEF AnswersAreStored, LoadIsComplete, StoredIsListed, Arriving, Busy
    <1> QED
        BY <1>2, <1>3

LEMMA AddLeaveKeeps ==
    ASSUME LeaveInv, UNCHANGED page, NEW c \in Calls, AddLeave(c)
    PROVE  LeaveInv'
    <1> USE DEF LeaveInv, absences, reloaded
    <1>1. view.staffId \in Persons /\ UNCHANGED server
        BY DEF AddLeave, LeaveTyped, LeaveView
    <1>2. /\ CallsOK' /\ call[c] = Free /\ call'[c] = Request("leave", view.staffId)
          /\ \A e \in Calls \ {c} : call'[e] = call[e]
        BY SendEffect DEF AddLeave, LeaveTyped
    <1>3. view' \in LeaveView /\ view'.leaves = view.leaves
        BY DEF AddLeave, LeaveTyped, LeaveView
    <1>4. past' \in BOOLEAN /\ (~past' => ~past /\ \A e \in Calls : ~Busy(e, "leaves"))
        BY DEF AddLeave, Pending, LeaveTyped, Busy
    <1>5. LeaveTyped' /\ OneOwner' /\ ListedIsStored'
        BY <1>1, <1>2, <1>3, <1>4 DEF LeaveTyped, OneOwner, ListedIsStored
    <1>6. AnswersAreStored'
        BY <1>1, <1>2 DEF AnswersAreStored, Busy, Request
    <1>7. LoadIsComplete'
        BY <1>2, <1>4 DEF LoadIsComplete, Busy, Request
    <1>8. StoredIsListed'
        <2> SUFFICES ASSUME ~past', NEW s \in Persons, NEW id \in server[s] \ view.leaves[s]
                     PROVE  \E e \in Calls : Busy(e, "leaves")' \/ Arriving(e, id)'
            BY <1>1, <1>3 DEF StoredIsListed
        <2>1. PICK e \in Calls : Arriving(e, id)
            BY <1>4 DEF StoredIsListed
        <2>2. e # c
            BY <1>2, <2>1 DEF Arriving, Busy, Free
        <2> QED
            BY <1>2, <2>1, <2>2 DEF Arriving, Busy
    <1> QED
        BY <1>5, <1>6, <1>7, <1>8

LEMMA ServeLeaveKeeps ==
    ASSUME LeaveInv, UNCHANGED page, NEW c \in Calls, ServeLeave(c)
    PROVE  LeaveInv'
    <1> USE DEF LeaveInv, absences, reloaded
    <1> DEFINE p == call[c].arg
    <1>1. PICK id \in LeaveIds \ UNION {server[s] : s \in Persons} :
              server' = [server EXCEPT ![p] = server[p] \cup {id}] /\ Answer(c, id)
        BY DEF ServeLeave
    <1>2. UNCHANGED <<view, past>> /\ Busy(c, "leave") /\ call[c].step = "sent" /\ call[c].op = "leave"
        BY DEF ServeLeave, Stands, Busy
    <1>3. p \in Persons /\ \A s \in Persons : id \notin server[s]
        BY <1>1, <1>2 DEF AnswersAreStored
    <1>4. /\ CallsOK'
          /\ call'[c] = [step |-> "served", op |-> call[c].op, arg |-> p, data |-> id]
          /\ \A e \in Calls \ {c} : call'[e] = call[e]
        BY <1>1, AnswerEffect DEF LeaveTyped
    <1>5. /\ server' \in Leaves /\ server'[p] = server[p] \cup {id}
          /\ \A s \in Persons \ {p} : server'[s] = server[s]
        BY <1>1, <1>3 DEF LeaveTyped, Leaves
    <1> HIDE DEF p
    <1>6. LeaveTyped' /\ ListedIsStored'
        BY <1>2, <1>4, <1>5 DEF LeaveTyped, ListedIsStored
    <1>7. OneOwner'
        BY <1>3, <1>5 DEF OneOwner
    <1>8. AnswersAreStored'
        BY <1>2, <1>3, <1>4, <1>5 DEF AnswersAreStored, Busy
    <1>9. ~past => \A e \in Calls : ~Busy(e, "leaves")'
        BY <1>2, <1>4 DEF LoadIsComplete, Busy
    <1>a. LoadIsComplete'
        BY <1>2, <1>9 DEF LoadIsComplete
    <1>b. StoredIsListed'
        <2> SUFFICES ASSUME ~past, NEW s \in Persons, NEW l \in server'[s] \ view.leaves[s]
                     PROVE  \E e \in Calls : Busy(e, "leaves")' \/ Arriving(e, l)'
            BY <1>2 DEF StoredIsListed
        <2>1. CASE l = id
            BY <1>2, <1>4, <2>1 DEF Arriving, Busy
        <2>2. CASE l # id
            <3>1. l \in server[s] \ view.leaves[s]
                BY <1>5, <2>2
            <3>2. PICK e \in Calls : Busy(e, "leaves") \/ Arriving(e, l)
                BY <3>1 DEF StoredIsListed
            <3> QED
                BY <1>2, <1>4, <3>2 DEF Arriving, Busy
        <2> QED
            BY <2>1, <2>2
    <1> QED
        BY <1>6, <1>7, <1>8, <1>a, <1>b

LEMMA ReceiveLeaveKeeps ==
    ASSUME LeaveInv, UNCHANGED page, NEW c \in Calls, ReceiveLeave(c)
    PROVE  LeaveInv'
    <1> USE DEF LeaveInv, absences, reloaded
    <1> DEFINE p == call[c].arg
    <1> DEFINE id == call[c].data
    <1>1. CallsOK' /\ call'[c] = Free /\ \A e \in Calls \ {c} : call'[e] = call[e]
        BY EndEffect DEF ReceiveLeave, LeaveTyped
    <1>2. UNCHANGED <<server, past>> /\ Busy(c, "leave") /\ call[c].step = "served"
        BY DEF ReceiveLeave, Stands, Busy
    <1>3. p \in Persons /\ id \in server[p] /\ id \in LeaveIds
        BY <1>2 DEF AnswersAreStored, LeaveTyped, Leaves
    <1> DEFINE listed == [view.leaves EXCEPT ![p] = view.leaves[p] \cup {id}]
    <1> DEFINE mid == [view EXCEPT !.leaves = listed]
    <1>4. /\ listed \in Leaves /\ listed[p] = view.leaves[p] \cup {id}
          /\ \A s \in Persons \ {p} : listed[s] = view.leaves[s]
        BY <1>3 DEF LeaveTyped, LeaveView, Leaves
    <1>5. mid \in LeaveView /\ mid.leaves = listed
        BY <1>4 DEF LeaveTyped, LeaveView
    <1>6. view' = [mid EXCEPT !.saving = FALSE]
        BY DEF ReceiveLeave
    <1> HIDE DEF mid, listed
    <1>7. view' \in LeaveView /\ view'.leaves = listed
        BY <1>5, <1>6 DEF LeaveView
    <1>8. LeaveTyped' /\ OneOwner'
        BY <1>1, <1>2, <1>7 DEF LeaveTyped, OneOwner
    <1>9. ListedIsStored'
        BY <1>2, <1>3, <1>4, <1>7 DEF ListedIsStored
    <1>a. AnswersAreStored' /\ LoadIsComplete'
        BY <1>1, <1>2 DEF AnswersAreStored, LoadIsComplete, Busy, Free
    <1>b. StoredIsListed'
        <2> SUFFICES ASSUME ~past, NEW s \in Persons, NEW l \in server[s] \ listed[s]
                     PROVE  \E e \in Calls : Busy(e, "leaves")' \/ Arriving(e, l)'
            BY <1>2, <1>7 DEF StoredIsListed
        <2>1. l \in server[s] \ view.leaves[s] /\ ~(l = id)
            BY <1>3, <1>4 DEF OneOwner
        <2>2. PICK e \in Calls : Busy(e, "leaves") \/ Arriving(e, l)
            BY <2>1 DEF StoredIsListed
        <2>3. e # c
            BY <1>2, <2>1, <2>2 DEF Arriving, Busy
        <2> QED
            BY <1>1, <2>2, <2>3 DEF Arriving, Busy
    <1> QED
        BY <1>8, <1>9, <1>a, <1>b

LEMMA LoseLeaveKeeps ==
    ASSUME LeaveInv, UNCHANGED page, NEW c \in Calls, LoseCall(c)
    PROVE  LeaveInv'
    <1> USE DEF LeaveInv, absences, reloaded
    <1>1. /\ CallsOK' /\ call[c].step \in {"sent", "served"}
          /\ call'[c] = [step |-> "failed", op |-> call[c].op, arg |-> call[c].arg, data |-> Nil]
          /\ \A e \in Calls \ {c} : call'[e] = call[e]
        BY LoseEffect DEF LoseCall, LeaveTyped
    <1>2. UNCHANGED <<view, server, past>>
        BY DEF LoseCall, Keep
    <1>3. LeaveTyped' /\ OneOwner' /\ ListedIsStored'
        BY <1>1, <1>2 DEF LeaveTyped, OneOwner, ListedIsStored
    <1>4. AnswersAreStored' /\ LoadIsComplete'
        BY <1>1, <1>2 DEF AnswersAreStored, LoadIsComplete, Busy
    <1>5. StoredIsListed'
        <2> SUFFICES ASSUME ~past, NEW s \in Persons, NEW l \in server[s] \ view.leaves[s]
                     PROVE  \E e \in Calls : Busy(e, "leaves")' \/ Arriving(e, l)'
            BY <1>2 DEF StoredIsListed
        <2>1. PICK e \in Calls : Busy(e, "leaves") \/ Arriving(e, l)
            BY DEF StoredIsListed
        <2>2. Busy(e, "leaves")' \/ Arriving(e, l)'
            <3>1. CASE e = c
                <4>1. call'[c].step = "failed" /\ call'[c].op = call[c].op
                    BY <1>1
                <4>2. call[c].op = "leaves" \/ call[c].op = "leave"
                    BY <2>1, <3>1 DEF Arriving, Busy
                <4> QED
                    BY <3>1, <4>1, <4>2 DEF Arriving, Busy
            <3>2. CASE e # c
                BY <1>1, <2>1, <3>2 DEF Arriving, Busy
            <3> QED
                BY <3>1, <3>2
        <2> QED
            BY <2>2
    <1> QED
        BY <1>3, <1>4, <1>5

LEMMA LeaveStep == LeaveInv /\ [LeaveNext]_webVars => LeaveInv'
    <1> SUFFICES ASSUME LeaveInv, [LeaveNext]_webVars PROVE LeaveInv'
        OBVIOUS
    <1>1. CASE UNCHANGED webVars
        BY <1>1 DEF webVars, LeaveInv, LeaveTyped, OneOwner, AnswersAreStored, LoadIsComplete, ListedIsStored,
                    StoredIsListed, Arriving, CallsOK, IsRequest, Busy, absences, reloaded
    <1>2. CASE LeaveNext
        <2>1. UNCHANGED page
            BY <1>2 DEF LeaveNext
        <2>2. ASSUME NEW c \in Calls, AddLeave(c) \/ LeaveAnswers(c) \/ LoseCall(c) PROVE LeaveInv'
            BY <2>1, <2>2, AddLeaveKeeps, ServeLeavesKeeps, ReceiveLeavesKeeps, FailLeaveRequestKeeps,
               ServeLeaveKeeps, ReceiveLeaveKeeps, LoseLeaveKeeps DEF LeaveAnswers
        <2> QED
            BY <1>2, <2>1, <2>2, LeaveFormKeeps DEF LeaveNext
    <1> QED
        BY <1>1, <1>2

\* A leave is listed under the person it is stored for, whoever is selected in the
\* form when its answer arrives, for any staff and number of requests under way
\* (schedule/page.tsx, addLeave).
THEOREM LeaveIsListedAlways == LeaveSpec => []LeaveIsListedWithItsOwner
    <1>1. LeaveInv => LeaveIsListedWithItsOwner
        BY DEF LeaveInv, LeaveTyped, ListedIsStored, StoredIsListed, Arriving, Busy, Pending,
               LeaveIsListedWithItsOwner, absences, reloaded
    <1> QED
        BY <1>1, LeaveInitInv, LeaveStep, PTL DEF LeaveSpec

(***************************************************************************)
(* The checkout terminal                                                   *)
(*                                                                         *)
(* At most one sale is under way.  Unless the cart was meddled with, it is *)
(* the sale of the cart, which is due until the sale was carried out.      *)
(***************************************************************************)
Catalogs == [services : BOOLEAN, shown : [Products -> 0 .. MaxUnits] \cup {Nil}]
Sales == [cart : Quantities, tender : Tenders]

TillTyped ==
    /\ page = "pos" /\ CallsOK
    /\ view \in TillView
    /\ stock \in [Products -> 0 .. MaxUnits]
    /\ past \in [due : Quantities, meddled : BOOLEAN]
    /\ \A c \in Calls : /\ Busy(c, "checkout") => call[c].arg \in Sales
                        /\ Busy(c, "catalog") /\ call[c].step = "served" => call[c].data \in Catalogs

OneSale == \A c \in Calls : Busy(c, "checkout") =>
    view.processing /\ \A d \in Calls : Busy(d, "checkout") => d = c

SaleIsTheCart == ~meddled =>
    /\ (\A c \in Calls : ~Busy(c, "checkout")) => due = view.cart
    /\ \A c \in Calls : Busy(c, "checkout") =>
          /\ call[c].arg.cart = view.cart
          /\ due = IF call[c].step = "served" THEN Empty ELSE view.cart

TillInv == TillTyped /\ OneSale /\ SaleIsTheCart

LEMMA EmptyIsACart == Empty \in Quantities
    BY TillAssumption DEF Empty, Quantities

LEMMA TillInitInv == TillInit => TillInv
    <1> SUFFICES ASSUME TillInit PROVE TillInv
        OBVIOUS
    <1> USE DEF stock, due, meddled
    <1>1. CallsOK /\ \E c \in Calls : call[c] = Request("catalog", Nil) /\ \A e \in Calls \ {c} : call[e] = Free
        BY MountEffect DEF TillInit
    <1>2. \A c \in Calls : ~Busy(c, "checkout") /\ call[c].step # "served"
        BY <1>1 DEF Busy, Request, Free
    <1>3. view \in TillView /\ view.cart = Empty
        BY EmptyIsACart DEF TillInit, TillView, Tenders
    <1>4. past \in [due : Quantities, meddled : BOOLEAN] /\ past.due = Empty
        BY EmptyIsACart DEF TillInit
    <1>5. TillTyped
        BY <1>1, <1>2, <1>3, <1>4 DEF TillTyped, TillInit
    <1> QED
        BY <1>2, <1>3, <1>4, <1>5 DEF TillInv, OneSale, SaleIsTheCart

\* Steps of the page that leave the cart and the sales alone.
LEMMA ClickKeeps ==
    ASSUME TillInv, UNCHANGED <<page, call, server, past>>, view' \in TillView,
           view'.cart = view.cart, view'.processing = view.processing
    PROVE  TillInv'
    <1> USE DEF TillInv, stock, due, meddled
    <1>1. TillTyped'
        BY DEF TillTyped, CallsOK, IsRequest, Busy
    <1>2. OneSale' /\ SaleIsTheCart'
        BY DEF OneSale, SaleIsTheCart, Busy
    <1> QED
        BY <1>1, <1>2

LEMMA ClicksKeep ==
    ASSUME TillInv, UNCHANGED page,
           TenderModal \/ OpenCheckout \/ NewSale \/ \E tab \in {"services", "products"} : SelectTab(tab)
    PROVE  TillInv'
    <1>1. UNCHANGED <<call, server, past>>
        BY DEF TenderModal, OpenCheckout, NewSale, SelectTab, Show
    <1>2. view \in TillView
        BY DEF TillInv, TillTyped
    <1>3. view' \in TillView /\ view'.cart = view.cart /\ view'.processing = view.processing
        <2>1. CASE TenderModal
            BY <1>2, <2>1 DEF TenderModal, Show, TillView
        <2>2. CASE OpenCheckout
            BY <1>2, <2>2 DEF OpenCheckout, Show, TillView
        <2>3. CASE NewSale
            BY <1>2, <2>3 DEF NewSale, Show, TillView
        <2>4. CASE \E tab \in {"services", "products"} : SelectTab(tab)
            BY <1>2, <2>4 DEF SelectTab, Show, TillView
        <2> QED
            BY <2>1, <2>2, <2>3, <2>4
    <1> QED
        BY <1>1, <1>3, ClickKeeps

\* The cart becomes q, and r is due.
LEMMA NewCartKeeps ==
    ASSUME TillInv, UNCHANGED <<page, call, server>>, NEW q \in Quantities, NEW r \in Quantities,
           view' = [view EXCEPT !.cart = q],
           past' = [due |-> r, meddled |-> meddled \/ Checkouts # {}],
           due = view.cart => r = q
    PROVE  TillInv'
    <1> USE DEF TillInv, stock, due, meddled
    <1>1. view' \in TillView /\ view'.cart = q /\ view'.processing = view.processing
        BY DEF TillTyped, TillView
    <1>2. past' \in [due : Quantities, meddled : BOOLEAN] /\ past'.due = r
        BY DEF TillTyped
    <1>3. ~past'.meddled => r = q /\ \A c \in Calls : ~Busy(c, "checkout")
        BY DEF Checkouts, Pending, Busy, SaleIsTheCart
    <1>4. TillTyped'
        BY <1>1, <1>2 DEF TillTyped, CallsOK, IsRequest, Busy
    <1>5. OneSale'
        BY <1>1 DEF OneSale, Busy
    <1>6. SaleIsTheCart'
        BY <1>1, <1>2, <1>3 DEF SaleIsTheCart, Busy
    <1> QED
        BY <1>4, <1>5, <1>6

LEMMA CartKeeps ==
    ASSUME TillInv, UNCHANGED page,
           ClearCart \/ \E g \in Goods : AddToCart(g) \/ CartPanel(g)
    PROVE  TillInv'
    <1>1. CASE ClearCart
        BY <1>1, EmptyIsACart, NewCartKeeps DEF ClearCart
    <1>2. ASSUME NEW g \in Goods, NEW n \in 0 .. MaxUnits, SetCart(g, n) PROVE TillInv'
        <2> DEFINE q == [view.cart EXCEPT ![g] = n]
        <2> DEFINE r == [due EXCEPT ![g] = n]
        <2>1. view.cart \in Quantities /\ due \in Quantities
            BY DEF TillInv, TillTyped, TillView, due
        <2>2. q \in Quantities /\ r \in Quantities /\ (due = view.cart => r = q)
            BY <2>1 DEF Quantities
        <2>3. view' = [view EXCEPT !.cart = q]
            BY <1>2 DEF SetCart
        <2>4. past' = [due |-> r, meddled |-> meddled \/ Checkouts # {}] /\ UNCHANGED <<call, server>>
            BY <1>2 DEF SetCart
        <2> HIDE DEF q, r
        <2> QED
            BY <2>2, <2>3, <2>4, NewCartKeeps
    <1>3. ASSUME NEW g \in Goods, AddToCart(g) \/ CartPanel(g) PROVE \E n \in 0 .. MaxUnits : SetCart(g, n)
        <2>1. view.cart[g] \in 0 .. MaxUnits /\ MaxUnits \in Nat
            BY TillAssumption DEF TillInv, TillTyped, TillView, Quantities
        <2>2. CASE AddToCart(g)
            <3>1. view.cart[g] + 1 \in 0 .. MaxUnits
                BY <2>1, <2>2 DEF AddToCart
            <3> QED
                BY <2>2, <3>1 DEF AddToCart
        <2>3. ASSUME NEW delta \in {1, -1}, UpdateQuantity(g, delta) PROVE \E n \in 0 .. MaxUnits : SetCart(g, n)
            <3>1. view.cart[g] + delta \in 0 .. MaxUnits
                BY <2>1, <2>3 DEF UpdateQuantity
            <3> QED
                BY <2>3, <3>1 DEF UpdateQuantity
        <2>4. CASE RemoveItem(g)
            BY <2>1, <2>4 DEF RemoveItem
        <2> QED
            BY <1>3, <2>2, <2>3, <2>4 DEF CartPanel
    <1> QED
        BY <1>1, <1>2, <1>3

LEMMA ServeCatalogKeeps ==
    ASSUME TillInv, UNCHANGED page, NEW c \in Calls, ServeCatalog(c)
    PROVE  TillInv'
    <1> USE DEF TillInv, stock, due, meddled
    <1>1. PICK services \in BOOLEAN, shown \in {server, Nil} :
              Answer(c, [services |-> services, shown |-> shown])
        BY DEF ServeCatalog
    <1> DEFINE d == [services |-> services, shown |-> shown]
    <1>2. d \in Catalogs
        BY DEF TillTyped, Catalogs
    <1> HIDE DEF d
    <1>3. /\ CallsOK'
          /\ call'[c] = [step |-> "served", op |-> call[c].op, arg |-> call[c].arg, data |-> d]
          /\ \A e \in Calls \ {c} : call'[e] = call[e]
        BY <1>1, AnswerEffect DEF TillTyped, d
    <1>4. UNCHANGED <<view, server, past>> /\ call[c].op = "catalog"
        BY DEF ServeCatalog, Stands, Keep
    <1>5. \A e \in Calls : Busy(e, "checkout")' => e # c /\ Busy(e, "checkout") /\ call'[e] = call[e]
        BY <1>3, <1>4 DEF Busy
    <1>6. \A e \in Calls : Busy(e, "checkout") => Busy(e, "checkout")'
        BY <1>3, <1>4 DEF Busy
    <1>7. TillTyped'
        BY <1>2, <1>3, <1>4, <1>5 DEF TillTyped, Busy
    <1>8. OneSale' /\ SaleIsTheCart'
        BY <1>4, <1>5, <1>6 DEF OneSale, SaleIsTheCart
    <1> QED
        BY <1>7, <1>8

\* The answer to the catalog, or its failure.
LEMMA EndOfCatalogKeeps ==
    ASSUME TillInv, UNCHANGED page, NEW c \in Calls, ReceiveCatalog(c) \/ FailCatalog(c)
    PROVE  TillInv'
    <1> USE DEF TillInv, stock, due, meddled
    <1>1. CallsOK' /\ call'[c] = Free /\ \A e \in Calls \ {c} : call'[e] = call[e]
        BY EndEffect DEF ReceiveCatalog, FailCatalog, TillTyped
    <1>2. UNCHANGED <<server, past>> /\ call[c].op = "catalog"
        BY DEF ReceiveCatalog, FailCatalog, Stands, Keep
    <1>3. view' \in TillView /\ view'.cart = view.cart /\ view'.processing = view.processing
        <2>1. CASE ReceiveCatalog(c)
            <3> DEFINE mid == [view EXCEPT !.services = call[c].data.services]
            <3>1. call[c].data \in Catalogs
                BY <2>1 DEF ReceiveCatalog, Stands, TillTyped, Busy
            <3>2. mid \in TillView /\ mid.cart = view.cart /\ mid.processing = view.processing
                BY <3>1 DEF TillTyped, TillView, Catalogs
            <3>3. view' = [mid EXCEPT !.shown = call[c].data.shown]
                BY <2>1 DEF ReceiveCatalog
            <3> HIDE DEF mid
            <3> QED
                BY <3>1, <3>2, <3>3 DEF TillView, Catalogs
        <2>2. CASE FailCatalog(c)
            BY <2>2 DEF FailCatalog, Keep, TillTyped
        <2> QED
            BY <2>1, <2>2
    <1>4. \A e \in Calls : Busy(e, "checkout")' => Busy(e, "checkout") /\ call'[e] = call[e]
        BY <1>1 DEF Busy, Free
    <1>5. \A e \in Calls : Busy(e, "checkout") => Busy(e, "checkout")'
        BY <1>1, <1>2 DEF Busy
    <1>6. TillTyped'
        BY <1>1, <1>2, <1>3 DEF TillTyped, Busy, Free
    <1>7. OneSale' /\ SaleIsTheCart'
        BY <1>2, <1>3, <1>4, <1>5 DEF OneSale, SaleIsTheCart
    <1> QED
        BY <1>6, <1>7

LEMMA HandleCheckoutKeeps ==
    ASSUME TillInv, UNCHANGED page, NEW c \in Calls, HandleCheckout(c)
    PROVE  TillInv'
    <1> USE DEF TillInv, stock, due, meddled
    <1> DEFINE sale == [cart |-> view.cart, tender |-> view.tender]
    <1>1. sale \in Sales /\ sale.cart = view.cart
        BY DEF TillTyped, TillView, Sales
    <1> HIDE DEF sale
    <1>2. /\ CallsOK' /\ call[c] = Free /\ call'[c] = Request("checkout", sale)
          /\ \A e \in Calls \ {c} : call'[e] = call[e]
        BY SendEffect DEF HandleCheckout, TillTyped, sale
    <1>3. UNCHANGED <<server, past>> /\ \A e \in Calls : ~Busy(e, "checkout")
        BY DEF HandleCheckout, OneSale
    <1>4. view' \in TillView /\ view'.cart = view.cart /\ view'.processing
        BY DEF HandleCheckout, TillTyped, TillView
    <1>5. call'[c].step = "sent" /\ call'[c].op = "checkout" /\ call'[c].arg = sale
        BY <1>2 DEF Request
    <1>6. \A e \in Calls : Busy(e, "checkout")' => e = c
        BY <1>2, <1>3 DEF Busy
    <1>7. TillTyped'
        BY <1>1, <1>2, <1>3, <1>4, <1>5, <1>6 DEF TillTyped, Busy
    <1>8. OneSale'
        BY <1>4, <1>6 DEF OneSale
    <1>9. SaleIsTheCart'
        <2>1. Busy(c, "checkout")'
            BY <1>5 DEF Busy
        <2> QED
            BY <1>1, <1>3, <1>4, <1>5, <1>6, <2>1 DEF SaleIsTheCart
    <1> QED
        BY <1>7, <1>8, <1>9

LEMMA ServeCheckoutKeeps ==
    ASSUME TillInv, UNCHANGED page, NEW c \in Calls, ServeCheckout(c)
    PROVE  TillInv'
    <1> USE DEF TillInv, stock, due, meddled
    <1> DEFINE cart == call[c].arg.cart
    <1>1. call[c].op = "checkout" /\ call[c].step = "sent" /\ Busy(c, "checkout") /\ UNCHANGED view
        BY DEF ServeCheckout, Stands, Busy
    <1>2. cart \in Quantities
        BY <1>1 DEF TillTyped, Sales
    <1>3. /\ CallsOK'
          /\ call'[c] = [step |-> "served", op |-> call[c].op, arg |-> call[c].arg, data |-> Nil]
          /\ \A e \in Calls \ {c} : call'[e] = call[e]
        BY AnswerEffect DEF ServeCheckout, TillTyped
    <1>4. server' \in [Products -> 0 .. MaxUnits]
        <2>1. server' = [p \in Products |-> server[p] - cart[p]]
            BY DEF ServeCheckout
        <2>2. \A p \in Products : cart[p] <= server[p]
            BY DEF ServeCheckout, InStock
        <2>3. \A p \in Products : cart[p] \in 0 .. MaxUnits /\ server[p] \in 0 .. MaxUnits
            BY <1>2, TillAssumption DEF TillTyped, Quantities
        <2>4. \A p \in Products : server[p] - cart[p] \in 0 .. MaxUnits
            BY <2>2, <2>3, TillAssumption
        <2> QED
            BY <2>1, <2>4
    <1> DEFINE rest == [g \in Goods |-> IF past.due[g] > cart[g] THEN past.due[g] - cart[g] ELSE 0]
    <1>5. past' = [past EXCEPT !.due = rest]
        BY DEF ServeCheckout
    <1>6. rest \in Quantities
        <2>1. \A g \in Goods : past.due[g] \in 0 .. MaxUnits /\ cart[g] \in 0 .. MaxUnits
            BY <1>2 DEF TillTyped, Quantities
        <2>2. \A g \in Goods : rest[g] \in 0 .. MaxUnits
            BY <2>1, TillAssumption
        <2> QED
            BY <2>2 DEF Quantities
    <1>7. past.due = cart => rest = Empty
        <2>1. \A g \in Goods : cart[g] \in 0 .. MaxUnits
            BY <1>2 DEF Quantities
        <2>2. past.due = cart => \A g \in Goods : ~(past.due[g] > cart[g])
            BY <2>1
        <2> QED
            BY <2>2 DEF Empty
    <1> HIDE DEF rest, cart
    <1>8. past' \in [due : Quantities, meddled : BOOLEAN] /\ past'.due = rest /\ (past'.meddled <=> past.meddled)
        BY <1>5, <1>6 DEF TillTyped
    <1>9. TillTyped'
        BY <1>1, <1>3, <1>4, <1>8 DEF TillTyped, Busy
    <1>a. \A e \in Calls : Busy(e, "checkout")' <=> Busy(e, "checkout")
        BY <1>1, <1>3 DEF Busy
    <1>b. OneSale'
        BY <1>1, <1>a DEF OneSale
    <1>c. SaleIsTheCart'
        <2> SUFFICES ASSUME ~past'.meddled
                     PROVE  /\ call'[c].arg.cart = view.cart /\ call'[c].step = "served" /\ past'.due = Empty
                            /\ \A e \in Calls : Busy(e, "checkout")' => e = c
            BY <1>1, <1>a DEF SaleIsTheCart
        <2>1. cart = view.cart /\ past.due = view.cart
            BY <1>1, <1>8 DEF SaleIsTheCart, cart
        <2> QED
            BY <1>1, <1>3, <1>7, <1>8, <1>a, <2>1 DEF OneSale, cart
    <1> QED
        BY <1>9, <1>b, <1>c

\* A sale that was refused, or any request that was lost.
LEMMA FailingKeeps ==
    ASSUME TillInv, UNCHANGED page, NEW c \in Calls, RefuseCheckout(c) \/ LoseTillCall(c)
    PROVE  TillInv'
    <1> USE DEF TillInv, stock, due, meddled
    <1>1. /\ CallsOK' /\ call'[c].step = "failed" /\ call[c].step \in {"sent", "served"}
          /\ call'[c].op = call[c].op /\ call'[c].arg = call[c].arg
          /\ \A e \in Calls \ {c} : call'[e] = call[e]
        <2>1. CASE RefuseCheckout(c)
            <3>1. Refuse(c) /\ call[c].step = "sent" /\ CallsOK
                BY <2>1 DEF RefuseCheckout, Stands, TillTyped
            <3>2. /\ CallsOK' /\ \A e \in Calls \ {c} : call'[e] = call[e]
                  /\ call'[c] = [step |-> "failed", op |-> call[c].op, arg |-> call[c].arg, data |-> call[c].data]
                BY <3>1, RefuseEffect
            <3> QED
                BY <3>1, <3>2
        <2>2. CASE LoseTillCall(c)
            <3>1. Lose(c) /\ CallsOK
                BY <2>2 DEF LoseTillCall, TillTyped
            <3>2. /\ CallsOK' /\ \A e \in Calls \ {c} : call'[e] = call[e]
                  /\ call[c].step \in {"sent", "served"}
                  /\ call'[c] = [step |-> "failed", op |-> call[c].op, arg |-> call[c].arg, data |-> Nil]
                BY <3>1, LoseEffect
            <3> QED
                BY <3>2
        <2> QED
            BY <2>1, <2>2
    <1>2. UNCHANGED <<view, server>>
        BY DEF RefuseCheckout, LoseTillCall, Keep
    <1>3. /\ past' \in [due : Quantities, meddled : BOOLEAN] /\ past'.due = past.due
          /\ ~past'.meddled => ~past.meddled /\ ~(Busy(c, "checkout") /\ call[c].step = "served")
        <2>1. CASE RefuseCheckout(c)
            BY <2>1 DEF RefuseCheckout, Stands, Keep, TillTyped
        <2>2. CASE LoseTillCall(c)
            BY <2>2 DEF LoseTillCall, Stands, TillTyped, Busy
        <2> QED
            BY <2>1, <2>2
    <1>4. TillTyped'
        BY <1>1, <1>2, <1>3 DEF TillTyped, Busy
    <1>5. \A e \in Calls : Busy(e, "checkout")' <=> Busy(e, "checkout")
        BY <1>1 DEF Busy
    <1>6. OneSale'
        BY <1>2, <1>5 DEF OneSale
    <1>7. SaleIsTheCart'
        BY <1>1, <1>2, <1>3, <1>5 DEF SaleIsTheCart
    <1> QED
        BY <1>4, <1>6, <1>7

\* A sale ends: with its receipt the cart is emptied.
LEMMA EndOfSaleKeeps ==
    ASSUME TillInv, UNCHANGED page, NEW c \in Calls, ReceiveCheckout(c) \/ FailCheckout(c)
    PROVE  TillInv'
    <1> USE DEF TillInv, stock, due, meddled
    <1>1. CallsOK' /\ call'[c] = Free /\ \A e \in Calls \ {c} : call'[e] = call[e]
        BY EndEffect DEF ReceiveCheckout, FailCheckout, TillTyped
    <1>2. UNCHANGED <<server, past>> /\ Busy(c, "checkout")
        BY DEF ReceiveCheckout, FailCheckout, Stands, Busy
    <1>3. view' \in TillView /\ (~meddled => view'.cart = due)
        <2>1. CASE ReceiveCheckout(c)
            <3> DEFINE v1 == [view EXCEPT !.cart = Empty]
            <3> DEFINE v2 == [v1 EXCEPT !.open = FALSE]
            <3> DEFINE v3 == [v2 EXCEPT !.receipt = TRUE]
            <3>1. v1 \in TillView /\ v1.cart = Empty
                BY EmptyIsACart DEF TillTyped, TillView
            <3> HIDE DEF v1
            <3>2. v2 \in TillView /\ v2.cart = Empty
                BY <3>1 DEF TillView
            <3> HIDE DEF v2
            <3>3. v3 \in TillView /\ v3.cart = Empty
                BY <3>2 DEF TillView
            <3> HIDE DEF v3
            <3>4. view' = [v3 EXCEPT !.processing = FALSE]
                BY <2>1 DEF ReceiveCheckout, v1, v2, v3
            <3>5. view' \in TillView /\ view'.cart = Empty
                BY <3>3, <3>4 DEF TillView
            <3>6. ~meddled => due = Empty
                BY <1>2, <2>1 DEF SaleIsTheCart, ReceiveCheckout, Stands
            <3> QED
                BY <3>5, <3>6
        <2>2. CASE FailCheckout(c)
            <3>1. view' \in TillView /\ view'.cart = view.cart
                BY <2>2 DEF FailCheckout, TillTyped, TillView
            <3>2. ~meddled => due = view.cart
                BY <1>2, <2>2 DEF SaleIsTheCart, FailCheckout, Stands
            <3> QED
                BY <3>1, <3>2
        <2> QED
            BY <2>1, <2>2
    <1>4. \A e \in Calls : ~Busy(e, "checkout")'
        BY <1>1, <1>2 DEF OneSale, Busy, Free
    <1>5. TillTyped'
        BY <1>1, <1>2, <1>3, <1>4 DEF TillTyped, Busy, Free
    <1>6. OneSale' /\ SaleIsTheCart'
        BY <1>2, <1>3, <1>4 DEF OneSale, SaleIsTheCart
    <1> QED
        BY <1>5, <1>6

LEMMA RestockKeeps ==
    ASSUME TillInv, UNCHANGED page, NEW p \in Products, RestockOrSell(p)
    PROVE  TillInv'
    <1> USE DEF TillInv, stock, due, meddled
    <1>1. UNCHANGED <<call, view, past>> /\ server' \in [Products -> 0 .. MaxUnits]
        BY DEF RestockOrSell, TillTyped
    <1>2. TillTyped'
        BY <1>1 DEF TillTyped, CallsOK, IsRequest, Busy
    <1>3. OneSale' /\ SaleIsTheCart'
        BY <1>1 DEF OneSale, SaleIsTheCart, Busy
    <1> QED
        BY <1>2, <1>3

LEMMA TillStep == TillInv /\ [TillNext]_webVars => TillInv'
    <1> SUFFICES ASSUME TillInv, [TillNext]_webVars PROVE TillInv'
        OBVIOUS
    <1>1. CASE UNCHANGED webVars
        BY <1>1 DEF webVars, TillInv, TillTyped, OneSale, SaleIsTheCart, CallsOK, IsRequest, Busy, stock, due, meddled
    <1>2. CASE TillNext
        <2>1. UNCHANGED page
            BY <1>2 DEF TillNext
        <2>2. ASSUME NEW c \in Calls, HandleCheckout(c) \/ TillAnswers(c) \/ LoseTillCall(c) PROVE TillInv'
            BY <2>1, <2>2, HandleCheckoutKeeps, ServeCatalogKeeps, EndOfCatalogKeeps, ServeCheckoutKeeps,
               FailingKeeps, EndOfSaleKeeps DEF TillAnswers
        <2> QED
            BY <1>2, <2>1, <2>2, ClicksKeep, CartKeeps, RestockKeeps DEF TillNext
    <1> QED
        BY <1>1, <1>2

\* Goods are sold once: for any goods and stock, what is in the cart was not sold
\* yet, unless the cart was changed during a sale or an answer was lost
\* (pos/page.tsx, handleCheckout).
THEOREM CartIsDueAlways == TillSpec => []CartIsWhatIsDue
    <1>1. TillInv => CartIsWhatIsDue
        BY DEF TillInv, TillTyped, OneSale, SaleIsTheCart, CartIsWhatIsDue, Busy, Stands, due, meddled
    <1> QED
        BY <1>1, TillInitInv, TillStep, PTL DEF TillSpec

(***************************************************************************)
(* The plans page                                                          *)
(*                                                                         *)
(* Every step of a checkout carries the plan and the period that its order *)
(* is for, and an order that was made is not made again.                   *)
(***************************************************************************)
PlanServer ==
    [mock : BOOLEAN, order : [Orders -> Purchases \cup {Nil}], paid : SUBSET Orders,
     active : [Orders -> Purchases \cup {Nil}], plan : PlanIds \cup {Nil}]

\* The view, whatever rows it shows.
PlanView(v) == \E key, rows, upgrading :
    v \in [key : {key}, rows : {rows}, loading : BOOLEAN, cycle : Periods, upgrading : {upgrading}]

Fits(r, orders) ==
    /\ r.step # "free" /\ r.op = "order" => r.arg \in Purchases
    /\ r.step = "served" /\ r.op = "order" => r.data \in Orders /\ orders[r.data] = r.arg
    /\ r.step # "free" /\ r.op \in {"script", "window", "verify"} =>
          r.arg \in OrderedPurchases /\ orders[r.arg.order] = Bought(r.arg)

ActiveAsOrdered == \A o \in Orders :
    active[o] # Nil => active[o] = server.order[o] /\ (server.mock \/ o \in server.paid)

SubscriptionInv ==
    /\ page = "subscription" /\ CallsOK /\ PlanView(view) /\ server \in PlanServer
    /\ \A c \in Calls : Fits(call[c], server.order)
    /\ ActiveAsOrdered

LEMMA FreeFits == \A orders : Fits(Free, orders)
    BY DEF Fits, Free

LEMMA ListFits == \A orders, arg : Fits(Request("list", arg), orders) /\ Fits(Request("refresh", arg), orders)
    BY DEF Fits, Request

LEMMA SubscriptionInitInv == SubscriptionInit => SubscriptionInv
    <1> SUFFICES ASSUME SubscriptionInit PROVE SubscriptionInv
        OBVIOUS
    <1>1. PICK c \in Calls : call = [d \in Calls |-> IF d = c THEN Request("list", Nil) ELSE Free]
        BY DEF SubscriptionInit, MountList
    <1>2. \A d \in Calls : IsRequest(call[d]) /\ Fits(call[d], server.order)
        BY <1>1, FreeIsRequest, RequestIsRequest, FreeFits, ListFits
    <1>3. CallsOK
        BY <1>1, <1>2 DEF CallsOK
    <1>4. PlanView(view)
        <2>1. view \in [key : {Nil}, rows : {NothingLoaded}, loading : BOOLEAN, cycle : Periods, upgrading : {Nil}]
            BY DEF SubscriptionInit, Opening, Periods
        <2> QED
            BY <2>1 DEF PlanView
    <1>5. server \in PlanServer /\ ActiveAsOrdered
        BY DEF SubscriptionInit, PlanServer, ActiveAsOrdered, active
    <1> QED
        BY <1>2, <1>3, <1>4, <1>5 DEF SubscriptionInv, SubscriptionInit

\* One call moves on, and the orders stay.
LEMMA OneCallFits ==
    ASSUME SubscriptionInv, UNCHANGED <<page, server>>, NEW c \in Calls, CallsOK',
           Fits(call'[c], server.order), \A e \in Calls \ {c} : call'[e] = call[e], PlanView(view')
    PROVE  SubscriptionInv'
    <1>1. \A e \in Calls : Fits(call'[e], server.order)
        BY DEF SubscriptionInv
    <1>2. ActiveAsOrdered'
        BY DEF SubscriptionInv, ActiveAsOrdered, active
    <1> QED
        BY <1>1, <1>2 DEF SubscriptionInv

\* What the steps do to the view.
LEMMA ViewChanges ==
    ASSUME NEW v, PlanView(v)
    PROVE  /\ v.cycle \in Periods
           /\ \A p : PlanView([v EXCEPT !.upgrading = p])
           /\ \A r : PlanView([v EXCEPT !.rows = r])
           /\ \A b \in BOOLEAN : PlanView([v EXCEPT !.loading = b])
           /\ \A p \in Periods : PlanView([v EXCEPT !.cycle = p])
    <1>1. PICK k, r, u : v \in [key : {k}, rows : {r}, loading : BOOLEAN, cycle : Periods, upgrading : {u}]
        BY DEF PlanView
    <1>2. v.cycle \in Periods
        BY <1>1
    <1>3. ASSUME NEW p PROVE PlanView([v EXCEPT !.upgrading = p])
        <2>1. [v EXCEPT !.upgrading = p] \in [key : {k}, rows : {r}, loading : BOOLEAN, cycle : Periods, upgrading : {p}]
            BY <1>1
        <2> QED
            BY <2>1 DEF PlanView
    <1>4. ASSUME NEW q PROVE PlanView([v EXCEPT !.rows = q])
        <2>1. [v EXCEPT !.rows = q] \in [key : {k}, rows : {q}, loading : BOOLEAN, cycle : Periods, upgrading : {u}]
            BY <1>1
        <2> QED
            BY <2>1 DEF PlanView
    <1>5. ASSUME NEW b \in BOOLEAN PROVE PlanView([v EXCEPT !.loading = b])
        <2>1. [v EXCEPT !.loading = b] \in [key : {k}, rows : {r}, loading : BOOLEAN, cycle : Periods, upgrading : {u}]
            BY <1>1
        <2> QED
            BY <2>1 DEF PlanView
    <1>6. ASSUME NEW p \in Periods PROVE PlanView([v EXCEPT !.cycle = p])
        <2>1. [v EXCEPT !.cycle = p] \in [key : {k}, rows : {r}, loading : BOOLEAN, cycle : Periods, upgrading : {u}]
            BY <1>1
        <2> QED
            BY <2>1 DEF PlanView
    <1> QED
        BY <1>2, <1>3, <1>4, <1>5, <1>6

LEMMA OpeningIsAView == PlanView(Opening)
    <1>1. Opening \in [key : {Nil}, rows : {NothingLoaded}, loading : BOOLEAN, cycle : Periods, upgrading : {Nil}]
        BY DEF Opening, Periods
    <1> QED
        BY <1>1 DEF PlanView

\* The steps that only end a call and change the view.
LEMMA EndingKeeps ==
    ASSUME SubscriptionInv, UNCHANGED <<page, server>>, NEW c \in Calls, End(c), PlanView(view')
    PROVE  SubscriptionInv'
    BY EndEffect, FreeFits, OneCallFits DEF SubscriptionInv

\* The loads of the page.
LEMMA PlansLoadKeeps ==
    ASSUME SubscriptionInv, UNCHANGED page, NEW c \in Calls,
           PlansLoad(c) \/ FailList(c, view.rows) \/ Reopen(c)
    PROVE  SubscriptionInv'
    <1>v. CallsOK /\ PlanView(view)
        BY DEF SubscriptionInv
    <1>1. CASE AnswerParts(c, CurrentLists)
        <2>1. PICK part \in SUBSET DOMAIN CurrentLists : Answer(c, [k \in part |-> CurrentLists[k]])
            BY <1>1 DEF AnswerParts
        <2> DEFINE d == [k \in part |-> CurrentLists[k]]
        <2> HIDE DEF d
        <2>2. /\ CallsOK' /\ \A e \in Calls \ {c} : call'[e] = call[e]
              /\ call'[c] = [step |-> "served", op |-> call[c].op, arg |-> call[c].arg, data |-> d]
            BY <1>v, <2>1, AnswerEffect DEF d
        <2>3. call[c].op = "list" /\ UNCHANGED <<view, server>>
            BY <1>1 DEF AnswerParts, Stands
        <2>4. Fits(call'[c], server.order)
            BY <2>2, <2>3 DEF Fits
        <2> QED
            BY <1>v, <2>2, <2>3, <2>4, OneCallFits
    <1>2. ASSUME NEW r, ReceiveRows(c, r) \/ FailList(c, r) PROVE SubscriptionInv'
        <2>1. End(c) /\ UNCHANGED server
            BY <1>2 DEF ReceiveRows, SettleList, FailList
        <2> DEFINE mid == [view EXCEPT !.rows = r]
        <2>2. PlanView(mid)
            BY <1>v, ViewChanges
        <2>3. view' = [mid EXCEPT !.loading = FALSE]
            BY <1>2 DEF ReceiveRows, FailList
        <2> HIDE DEF mid
        <2>4. PlanView(view')
            BY <2>2, <2>3, ViewChanges
        <2> QED
            BY <2>1, <2>4, EndingKeeps
    <1>3. CASE Reopen(c)
        <2>1. Send(c, "list", Opening.key) /\ UNCHANGED server /\ view' = [Opening EXCEPT !.loading = TRUE]
            BY <1>3 DEF Reopen, LoadList
        <2>2. /\ CallsOK' /\ call'[c] = Request("list", Opening.key)
              /\ \A e \in Calls \ {c} : call'[e] = call[e]
            BY <1>v, <2>1, SendEffect
        <2>3. PlanView(view')
            BY <2>1, OpeningIsAView, ViewChanges
        <2>4. Fits(call'[c], server.order)
            BY <2>2, ListFits
        <2> QED
            BY <2>1, <2>2, <2>3, <2>4, OneCallFits
    <1> QED
        BY <1>1, <1>2, <1>3 DEF PlansLoad, ReceiveParts

LEMMA ToggleKeeps ==
    ASSUME SubscriptionInv, UNCHANGED page, BillingToggle
    PROVE  SubscriptionInv'
    <1> DEFINE p == IF view.cycle = "MONTHLY" THEN "YEARLY" ELSE "MONTHLY"
    <1>1. view' = [view EXCEPT !.cycle = p] /\ UNCHANGED <<call, server>>
        BY DEF BillingToggle, Show
    <1>2. p \in Periods
        BY DEF Periods
    <1> HIDE DEF p
    <1>3. PlanView(view')
        BY <1>1, <1>2, ViewChanges DEF SubscriptionInv
    <1>4. CallsOK' /\ ActiveAsOrdered'
        BY <1>1 DEF SubscriptionInv, CallsOK, IsRequest, ActiveAsOrdered, active
    <1> QED
        BY <1>1, <1>3, <1>4 DEF SubscriptionInv

LEMMA SelectPlanKeeps ==
    ASSUME SubscriptionInv, UNCHANGED page, NEW c \in Calls, PricingCards(c)
    PROVE  SubscriptionInv'
    <1>1. PICK plan \in PlanIds : HandleSelectPlan(c, plan)
        BY DEF PricingCards
    <1> DEFINE wish == [plan |-> plan, cycle |-> view.cycle]
    <1>2. wish \in Purchases
        BY ViewChanges DEF Purchases, SubscriptionInv
    <1> HIDE DEF wish
    <1>3. Send(c, "order", wish) /\ view' = [view EXCEPT !.upgrading = plan] /\ UNCHANGED server
        BY <1>1 DEF HandleSelectPlan, wish
    <1>4. /\ CallsOK' /\ call'[c] = Request("order", wish)
          /\ \A e \in Calls \ {c} : call'[e] = call[e]
        BY <1>3, SendEffect DEF SubscriptionInv
    <1>5. Fits(call'[c], server.order)
        BY <1>2, <1>4 DEF Fits, Request
    <1>6. PlanView(view')
        BY <1>3, ViewChanges DEF SubscriptionInv
    <1> QED
        BY <1>3, <1>4, <1>5, <1>6, OneCallFits

LEMMA BoughtIsAPurchase ==
    ASSUME NEW checkout \in OrderedPurchases
    PROVE  Bought(checkout) \in Purchases /\ Bought(checkout) # Nil /\ Bought(checkout).plan \in PlanIds
    <1>1. Bought(checkout) \in Purchases /\ Bought(checkout).plan \in PlanIds
        BY DEF OrderedPurchases, Purchases, Bought
    <1> QED
        BY <1>1, PurchaseAssumption

LEMMA ServeOrderKeeps ==
    ASSUME SubscriptionInv, UNCHANGED page, NEW c \in Calls, ServeOrder(c)
    PROVE  SubscriptionInv'
    <1> DEFINE o == NewOrder
    <1> DEFINE wish == call[c].arg
    <1>1. call[c].step = "sent" /\ call[c].op = "order" /\ UNCHANGED view
        BY DEF ServeOrder, Stands
    <1>2. o \in Orders /\ server.order[o] = Nil
        BY DEF ServeOrder, NewOrder
    <1>3. wish \in Purchases /\ wish # Nil
        BY <1>1, PurchaseAssumption DEF SubscriptionInv, Fits
    <1>4. Answer(c, o) /\ server' = [server EXCEPT !.order = [server.order EXCEPT ![o] = wish]]
        BY DEF ServeOrder
    <1> HIDE DEF o, wish
    <1>5. /\ CallsOK' /\ \A e \in Calls \ {c} : call'[e] = call[e]
          /\ call'[c] = [step |-> "served", op |-> call[c].op, arg |-> call[c].arg, data |-> o]
        BY <1>4, AnswerEffect DEF SubscriptionInv
    <1>6. /\ server' \in PlanServer /\ server'.order[o] = wish
          /\ \A p \in Orders \ {o} : server'.order[p] = server.order[p]
          /\ server'.active = server.active /\ server'.paid = server.paid /\ (server'.mock <=> server.mock)
        BY <1>2, <1>3, <1>4 DEF SubscriptionInv, PlanServer
    <1>7. Fits(call'[c], server'.order)
        BY <1>1, <1>2, <1>3, <1>5, <1>6 DEF Fits, wish
    <1>8. ASSUME NEW e \in Calls \ {c} PROVE Fits(call[e], server'.order)
        <2>1. Fits(call[e], server.order)
            BY DEF SubscriptionInv
        <2>2. ASSUME call[e].step = "served", call[e].op = "order"
              PROVE  call[e].data \in Orders /\ server'.order[call[e].data] = call[e].arg
            <3>1. call[e].data \in Orders /\ server.order[call[e].data] = call[e].arg /\ call[e].arg \in Purchases
                BY <2>1, <2>2 DEF Fits
            <3>2. call[e].data # o
                BY <1>2, <3>1, PurchaseAssumption
            <3> QED
                BY <1>6, <3>1, <3>2
        <2>3. ASSUME call[e].step # "free", call[e].op \in {"script", "window", "verify"}
              PROVE  call[e].arg \in OrderedPurchases /\ server'.order[call[e].arg.order] = Bought(call[e].arg)
            <3>1. /\ call[e].arg \in OrderedPurchases /\ call[e].arg.order \in Orders
                  /\ server.order[call[e].arg.order] = Bought(call[e].arg)
                BY <2>1, <2>3 DEF Fits, OrderedPurchases
            <3>2. call[e].arg.order # o
                BY <1>2, <3>1, BoughtIsAPurchase
            <3> QED
                BY <1>6, <3>1, <3>2
        <2> QED
            BY <2>1, <2>2, <2>3 DEF Fits
    <1>9. \A e \in Calls : Fits(call'[e], server'.order)
        BY <1>5, <1>7, <1>8
    <1>a. ActiveAsOrdered'
        <2>1. \A p \in Orders : server.active[p] # Nil => server.active[p] = server.order[p] /\ p # o
            BY <1>2 DEF SubscriptionInv, ActiveAsOrdered, active
        <2> QED
            BY <1>6, <2>1 DEF SubscriptionInv, ActiveAsOrdered, active
    <1> QED
        BY <1>1, <1>5, <1>6, <1>9, <1>a DEF SubscriptionInv

\* The steps that pass the checkout on to the next request.
LEMMA ThenKeeps ==
    ASSUME SubscriptionInv, UNCHANGED <<page, server>>, NEW c \in Calls,
           NEW op, NEW arg, Then(c, op, arg), Fits(Request(op, arg), server.order), PlanView(view')
    PROVE  SubscriptionInv'
    BY ThenEffect, OneCallFits DEF SubscriptionInv

LEMMA CarriedFits ==
    ASSUME SubscriptionInv, NEW c \in Calls, call[c].step # "free", call[c].op \in {"script", "window", "verify"},
           NEW op \in {"script", "window", "verify"}
    PROVE  Fits(Request(op, call[c].arg), server.order)
    BY DEF SubscriptionInv, Fits, Request

LEMMA PassingKeeps ==
    ASSUME SubscriptionInv, UNCHANGED page, NEW c \in Calls,
           LoadRazorpayScript(c) \/ OpenWindow(c) \/ Paid(c) \/ ReceiveVerify(c)
    PROVE  SubscriptionInv'
    <1>v. PlanView(view)
        BY DEF SubscriptionInv
    <1>1. CASE LoadRazorpayScript(c)
        <2> DEFINE checkout == [plan |-> call[c].arg.plan, cycle |-> call[c].arg.cycle, order |-> call[c].data]
        <2>1. /\ call[c].op = "order" /\ call[c].step = "served" /\ Then(c, "script", checkout)
              /\ UNCHANGED <<view, server>>
            BY <1>1 DEF LoadRazorpayScript, GoOn, Stands, Keep
        <2>2. call[c].arg \in Purchases /\ call[c].data \in Orders /\ server.order[call[c].data] = call[c].arg
            BY <2>1 DEF SubscriptionInv, Fits
        <2>3. checkout \in OrderedPurchases /\ checkout.order = call[c].data /\ Bought(checkout) = call[c].arg
            BY <2>2 DEF OrderedPurchases, Purchases, Bought
        <2> HIDE DEF checkout
        <2>4. Fits(Request("script", checkout), server.order)
            BY <2>2, <2>3 DEF Fits, Request
        <2> QED
            BY <1>v, <2>1, <2>4, ThenKeeps
    <1>2. CASE OpenWindow(c) \/ Paid(c)
        <2>1. /\ call[c].step # "free" /\ call[c].op \in {"script", "window"} /\ UNCHANGED <<view, server>>
              /\ Then(c, "window", call[c].arg) \/ Then(c, "verify", call[c].arg)
            BY <1>2 DEF OpenWindow, Paid, GoOn, Stands, Verify, Keep
        <2>2. \A op \in {"window", "verify"} : Fits(Request(op, call[c].arg), server.order)
            BY <2>1, CarriedFits
        <2> QED
            BY <1>v, <2>1, <2>2, ThenKeeps
    <1>3. CASE ReceiveVerify(c)
        <2>1. /\ view' = [view EXCEPT !.rows = [view.rows EXCEPT !.current = call[c].data]]
              /\ Then(c, "refresh", Nil) /\ UNCHANGED server
            BY <1>3 DEF ReceiveVerify
        <2>2. PlanView(view')
            BY <1>v, <2>1, ViewChanges
        <2> QED
            BY <2>1, <2>2, ListFits, ThenKeeps
    <1> QED
        BY <1>1, <1>2, <1>3

\* A request is answered or fails, and the orders, payments and subscriptions stay.
LEMMA MovingKeeps ==
    ASSUME SubscriptionInv, UNCHANGED page, NEW c \in Calls,
           \/ ScriptLoads(c) \/ ServeRefreshed(c) \/ LoseInCheckout(c)
           \/ Stands(c, "verify", "sent") /\ Refuse(c) /\ UNCHANGED <<view, server>>
    PROVE  SubscriptionInv'
    <1>1. CallsOK /\ PlanView(view) /\ Fits(call[c], server.order)
        BY DEF SubscriptionInv
    <1>2. UNCHANGED <<view, server>>
        BY DEF ScriptLoads, ServeRefreshed, LoseInCheckout, LoseInList, Keep
    <1>3. /\ CallsOK' /\ \A e \in Calls \ {c} : call'[e] = call[e]
          /\ call[c].step # "free" /\ call'[c].op = call[c].op /\ call'[c].arg = call[c].arg
          /\ call[c].op = "order" => call'[c].step = "failed"
        <2>1. CASE ScriptLoads(c) \/ ServeRefreshed(c)
            <3>1. Answer(c, Nil) /\ call[c].step = "sent" /\ call[c].op \in {"script", "refresh"}
                BY <2>1 DEF ScriptLoads, ServeRefreshed, Stands
            <3>2. /\ CallsOK' /\ \A e \in Calls \ {c} : call'[e] = call[e]
                  /\ call'[c] = [step |-> "served", op |-> call[c].op, arg |-> call[c].arg, data |-> Nil]
                BY <1>1, <3>1, AnswerEffect
            <3> QED
                BY <3>1, <3>2
        <2>2. CASE LoseInCheckout(c)
            <3>1. Lose(c)
                BY <2>2 DEF LoseInCheckout, LoseInList
            <3>2. /\ CallsOK' /\ \A e \in Calls \ {c} : call'[e] = call[e] /\ call[c].step \in {"sent", "served"}
                  /\ call'[c] = [step |-> "failed", op |-> call[c].op, arg |-> call[c].arg, data |-> Nil]
                BY <1>1, <3>1, LoseEffect
            <3>3. call[c].step \in {"sent", "served"}
                BY <1>1, <3>1, LoseEffect
            <3> QED
                BY <3>2, <3>3
        <2>3. CASE Stands(c, "verify", "sent") /\ Refuse(c)
            <3>1. call[c].step = "sent"
                BY <2>3 DEF Stands
            <3>2. /\ CallsOK' /\ \A e \in Calls \ {c} : call'[e] = call[e]
                  /\ call'[c] = [step |-> "failed", op |-> call[c].op, arg |-> call[c].arg, data |-> call[c].data]
                BY <1>1, <2>3, RefuseEffect
            <3> QED
                BY <3>1, <3>2
        <2> QED
            BY <2>1, <2>2, <2>3
    <1>4. Fits(call'[c], server.order)
        BY <1>1, <1>3 DEF Fits
    <1> QED
        BY <1>1, <1>2, <1>3, <1>4, OneCallFits

LEMMA PayKeeps ==
    ASSUME SubscriptionInv, UNCHANGED page, NEW c \in Calls, Pay(c)
    PROVE  SubscriptionInv'
    <1>1. call[c].step = "sent" /\ call[c].op = "window" /\ UNCHANGED view /\ Answer(c, Nil)
        BY DEF Pay, Stands
    <1>2. call[c].arg.order \in Orders
        BY <1>1 DEF SubscriptionInv, Fits, OrderedPurchases
    <1>3. server' = [server EXCEPT !.paid = server.paid \cup {call[c].arg.order}]
        BY DEF Pay
    <1>4. /\ server' \in PlanServer /\ server'.order = server.order /\ server'.active = server.active
          /\ server.paid \subseteq server'.paid /\ (server'.mock <=> server.mock)
        BY <1>2, <1>3 DEF SubscriptionInv, PlanServer
    <1>5. /\ CallsOK' /\ \A e \in Calls \ {c} : call'[e] = call[e]
          /\ call'[c] = [step |-> "served", op |-> call[c].op, arg |-> call[c].arg, data |-> Nil]
        BY <1>1, AnswerEffect DEF SubscriptionInv
    <1>6. Fits(call'[c], server.order)
        BY <1>1, <1>5 DEF SubscriptionInv, Fits
    <1>7. \A e \in Calls : Fits(call'[e], server'.order)
        BY <1>4, <1>5, <1>6 DEF SubscriptionInv
    <1>8. ActiveAsOrdered'
        BY <1>4 DEF SubscriptionInv, ActiveAsOrdered, active
    <1> QED
        BY <1>1, <1>4, <1>5, <1>7, <1>8 DEF SubscriptionInv

LEMMA ServeVerifyKeeps ==
    ASSUME SubscriptionInv, UNCHANGED page, NEW c \in Calls, ServeVerify(c)
    PROVE  SubscriptionInv'
    <1> DEFINE o == call[c].arg.order
    <1> DEFINE bought == Bought(call[c].arg)
    <1>1. call[c].step = "sent" /\ call[c].op = "verify" /\ UNCHANGED <<view, past>> /\ Stands(c, "verify", "sent")
        BY DEF ServeVerify, Stands
    <1>2. call[c].arg \in OrderedPurchases /\ server.order[o] = bought
        BY <1>1 DEF SubscriptionInv, Fits
    <1>3. o \in Orders /\ bought \in Purchases /\ bought.plan \in PlanIds
        BY <1>2, BoughtIsAPurchase DEF OrderedPurchases
    <1>4. CASE ~(server.mock \/ o \in server.paid)
        BY <1>1, <1>4, MovingKeeps DEF ServeVerify
    <1>5. CASE server.mock \/ o \in server.paid
        <2> DEFINE rows == [server.active EXCEPT ![o] = bought]
        <2> DEFINE mid == [server EXCEPT !.active = rows]
        <2>1. Answer(c, bought) /\ server' = [mid EXCEPT !.plan = bought.plan]
            BY <1>5 DEF ServeVerify
        <2> HIDE DEF bought, o
        <2>2. rows \in [Orders -> Purchases \cup {Nil}] /\ rows[o] = bought /\ \A p \in Orders \ {o} : rows[p] = server.active[p]
            BY <1>3 DEF SubscriptionInv, PlanServer
        <2> HIDE DEF rows
        <2>3. /\ mid \in PlanServer /\ mid.order = server.order /\ mid.active = rows /\ mid.paid = server.paid
              /\ mid.mock <=> server.mock
            BY <2>2 DEF SubscriptionInv, PlanServer
        <2> HIDE DEF mid
        <2>4. /\ server' \in PlanServer /\ server'.order = server.order /\ server'.active = rows
              /\ server'.paid = server.paid /\ (server'.mock <=> server.mock)
            BY <1>3, <2>1, <2>3 DEF PlanServer
        <2>5. /\ CallsOK' /\ \A e \in Calls \ {c} : call'[e] = call[e]
              /\ call'[c] = [step |-> "served", op |-> call[c].op, arg |-> call[c].arg, data |-> bought]
            BY <2>1, AnswerEffect DEF SubscriptionInv
        <2>6. Fits(call'[c], server.order)
            BY <1>1, <2>5 DEF SubscriptionInv, Fits
        <2>7. \A e \in Calls : Fits(call'[e], server'.order)
            BY <2>4, <2>5, <2>6 DEF SubscriptionInv
        <2>8. ActiveAsOrdered'
            <3> SUFFICES ASSUME NEW p \in Orders, rows[p] # Nil
                         PROVE  rows[p] = server.order[p] /\ (server.mock \/ p \in server.paid)
                BY <2>4 DEF ActiveAsOrdered, active
            <3>1. CASE p = o
                BY <1>2, <1>5, <2>2, <3>1 DEF o, bought
            <3>2. CASE p # o
                BY <2>2, <3>2 DEF SubscriptionInv, ActiveAsOrdered, active
            <3> QED
                BY <3>1, <3>2
        <2> QED
            BY <1>1, <2>4, <2>5, <2>7, <2>8 DEF SubscriptionInv
    <1> QED
        BY <1>4, <1>5

LEMMA FinishKeeps ==
    ASSUME SubscriptionInv, UNCHANGED page, NEW c \in Calls, Dismiss(c) \/ FinishCheckout(c)
    PROVE  SubscriptionInv'
    <1>1. End(c) /\ UNCHANGED server /\ view' = [view EXCEPT !.upgrading = Nil]
        BY DEF Dismiss, FinishCheckout
    <1>2. PlanView(view')
        BY <1>1, ViewChanges DEF SubscriptionInv
    <1> QED
        BY <1>1, <1>2, EndingKeeps

LEMMA SubscriptionStep == SubscriptionInv /\ [SubscriptionNext]_webVars => SubscriptionInv'
    <1> SUFFICES ASSUME SubscriptionInv, [SubscriptionNext]_webVars PROVE SubscriptionInv'
        OBVIOUS
    <1>1. CASE UNCHANGED webVars
        BY <1>1 DEF webVars, SubscriptionInv, CallsOK, IsRequest, ActiveAsOrdered, active
    <1>2. CASE SubscriptionNext
        <2>1. UNCHANGED page
            BY <1>2 DEF SubscriptionNext
        <2>2. ASSUME NEW c \in Calls, CheckoutSteps(c) PROVE SubscriptionInv'
            BY <2>1, <2>2, ServeOrderKeeps, PassingKeeps, MovingKeeps, PayKeeps, ServeVerifyKeeps, FinishKeeps
               DEF CheckoutSteps
        <2> QED
            BY <1>2, <2>1, <2>2, ToggleKeeps, PlansLoadKeeps, SelectPlanKeeps, MovingKeeps DEF SubscriptionNext
    <1> QED
        BY <1>1, <1>2

\* A subscription is of the plan and the period that its order is for, and paid for
\* unless there is no provider, for any plans, orders and checkouts under way
\* (settings/subscription/page.tsx, handleSelectPlan).
THEOREM ActivatedAsOrderedAlways == SubscriptionSpec => []ActivatedAsOrdered
    <1>1. SubscriptionInv => ActivatedAsOrdered
        BY DEF SubscriptionInv, ActiveAsOrdered, ActivatedAsOrdered, ActiveOrders
    <1> QED
        BY <1>1, SubscriptionInitInv, SubscriptionStep, PTL DEF SubscriptionSpec

(***************************************************************************)
(* The settings form                                                       *)
(*                                                                         *)
(* One save is under way at a time, and with it nobody opens the page      *)
(* again; so a field that was not typed in since is still what the save    *)
(* was sent with, until it is what is stored.                              *)
(***************************************************************************)
SavesForm(c) == Busy(c, "patch") \/ Busy(c, "refresh")

FormView == [business : Forms \cup {Nil}, form : Forms, submitting : BOOLEAN]
FormPast == [typed : SUBSET Fields, opened : BOOLEAN, reverted : BOOLEAN]

FormTyped ==
    /\ page = "settings" /\ CallsOK
    /\ view \in FormView /\ stored \in Forms /\ past \in FormPast
    /\ \A c \in Calls : Busy(c, "patch") => call[c].arg \in Forms
    /\ \A c \in Calls : Busy(c, "login") /\ call[c].step = "served" => call[c].data \in Forms

OneFormSave == \A c \in Calls : SavesForm(c) => view.submitting /\ Shows /\ \A d \in Calls : SavesForm(d) => d = c

Untouched == \A f \in Fields \ past.typed : view.form[f] = stored[f] \/ ~Sent(view.form, f)

SaveIsOfTheForm == ~past.reverted =>
    /\ (\A c \in Calls : Busy(c, "patch") => call[c].step = "served") => Untouched
    /\ \A c \in Calls : Busy(c, "patch") /\ call[c].step = "sent" =>
          \A f \in Fields \ past.typed : view.form[f] = call[c].arg[f]

SettingsInv == FormTyped /\ OneFormSave /\ SaveIsOfTheForm

LEMMA SettingsInitInv == FormInit => SettingsInv
    <1> SUFFICES ASSUME FormInit PROVE SettingsInv
        OBVIOUS
    <1>1. CallsOK /\ \A c \in Calls : call[c] = Free
        BY FreeIsRequest DEF FormInit, CallsOK
    <1>2. \A c \in Calls : call[c].step = "free"
        BY <1>1 DEF Free
    <1>3. view \in FormView /\ stored \in Forms /\ past \in FormPast /\ view.form = stored
        BY DEF FormInit, FormView, FormPast, stored
    <1> QED
        BY <1>1, <1>2, <1>3 DEF FormInit, SettingsInv, FormTyped, OneFormSave, SaveIsOfTheForm, Untouched, SavesForm, Busy

\* Steps that leave the form and the row: no save starts, and one that ends may stop
\* the form from being submitted.
LEMMA SettingsStay ==
    ASSUME SettingsInv, UNCHANGED <<page, server, past>>, CallsOK', view' \in FormView, view'.form = view.form,
           \A e \in Calls : Busy(e, "patch")' =>
               /\ Busy(e, "patch") /\ call'[e].arg = call[e].arg
               /\ call'[e].step = call[e].step \/ call'[e].step = "failed",
           \A e \in Calls : SavesForm(e)' => SavesForm(e) /\ view'.submitting = view.submitting /\ view'.business = view.business,
           \A e \in Calls : Busy(e, "login")' /\ call'[e].step = "served" => call'[e].data \in Forms,
           \A e \in Calls : Busy(e, "patch") => Busy(e, "patch")' \/ call[e].step = "served"
    PROVE  SettingsInv'
    <1>1. FormTyped'
        BY DEF SettingsInv, FormTyped, stored
    <1>2. OneFormSave'
        BY DEF SettingsInv, OneFormSave, Shows
    <1>3. (\A c \in Calls : Busy(c, "patch")' => call'[c].step = "served") =>
              \A c \in Calls : Busy(c, "patch") => call[c].step = "served"
        OBVIOUS
    <1>4. Untouched => Untouched'
        BY DEF Untouched, stored
    <1>5. \A c \in Calls : Busy(c, "patch")' /\ call'[c].step = "sent" =>
              Busy(c, "patch") /\ call[c].step = "sent" /\ call'[c].arg = call[c].arg
        OBVIOUS
    <1>6. SaveIsOfTheForm'
        BY <1>3, <1>4, <1>5 DEF SettingsInv, SaveIsOfTheForm
    <1> QED
        BY <1>1, <1>2, <1>6 DEF SettingsInv

\* A field is typed in, and is no longer one that is untouched.
LEMMA TypeSettingKeeps ==
    ASSUME SettingsInv, UNCHANGED page, NEW f \in Fields, NEW text \in Texts, Type(f, text)
    PROVE  SettingsInv'
    <1>1. /\ UNCHANGED <<call, server>> /\ view \in FormView /\ past \in FormPast
          /\ view' = [view EXCEPT !.form = [view.form EXCEPT ![f] = text]]
        BY DEF Type, SettingsInv, FormTyped
    <1>2. CallsOK'
        BY <1>1 DEF SettingsInv, FormTyped, CallsOK, IsRequest
    <1>3. /\ view' \in FormView /\ view'.submitting = view.submitting /\ view'.business = view.business
          /\ \A g \in Fields \ {f} : view'.form[g] = view.form[g]
        BY <1>1 DEF FormView, Forms
    <1>4. /\ past' \in FormPast /\ past'.typed = past.typed \cup {f} /\ past'.reverted = past.reverted
        <2> DEFINE mid == [past EXCEPT !.typed = past.typed \cup {f}]
        <2>1. past' = [mid EXCEPT !.opened = FALSE]
            BY DEF Type
        <2>2. mid \in FormPast /\ mid.typed = past.typed \cup {f} /\ mid.reverted = past.reverted
            BY <1>1 DEF FormPast
        <2> HIDE DEF mid
        <2> QED
            BY <2>1, <2>2 DEF FormPast
    <1>5. FormTyped' /\ OneFormSave'
        BY <1>1, <1>2, <1>3, <1>4 DEF SettingsInv, FormTyped, OneFormSave, stored, Busy, SavesForm, Shows
    <1>6. SaveIsOfTheForm'
        BY <1>1, <1>3, <1>4 DEF SettingsInv, SaveIsOfTheForm, Untouched, Sent, stored, Busy
    <1> QED
        BY <1>5, <1>6 DEF SettingsInv

LEMMA OnSaveGeneralKeeps ==
    ASSUME SettingsInv, UNCHANGED page, NEW c \in Calls, OnSaveGeneral(c)
    PROVE  SettingsInv'
    <1>1. /\ Send(c, "patch", view.form) /\ UNCHANGED server /\ view \in FormView /\ past \in FormPast
          /\ view' = [view EXCEPT !.submitting = TRUE] /\ Shows /\ ~view.submitting
        BY DEF OnSaveGeneral, SettingsInv, FormTyped
    <1>2. /\ CallsOK' /\ call'[c] = Request("patch", view.form)
          /\ \A e \in Calls \ {c} : call'[e] = call[e]
        BY <1>1, SendEffect DEF SettingsInv, FormTyped
    <1>3. view' \in FormView /\ view'.submitting /\ view'.form = view.form /\ view'.business = view.business
        BY <1>1 DEF FormView
    <1>4. past' \in FormPast
        <2> DEFINE mid == [past EXCEPT !.typed = {}]
        <2>1. past' = [mid EXCEPT !.opened = FALSE]
            BY DEF OnSaveGeneral
        <2>2. mid \in FormPast
            BY <1>1 DEF FormPast
        <2> HIDE DEF mid
        <2> QED
            BY <2>1, <2>2 DEF FormPast
    <1>5. \A e \in Calls : ~SavesForm(e)
        BY <1>1 DEF SettingsInv, OneFormSave
    <1>6. /\ Busy(c, "patch")' /\ call'[c].step = "sent" /\ call'[c].arg = view.form
          /\ ~Busy(c, "login")'
          /\ \A e \in Calls : SavesForm(e)' => e = c
        BY <1>2, <1>5 DEF SavesForm, Busy, Request
    <1>7. FormTyped'
        BY <1>1, <1>2, <1>3, <1>4, <1>6 DEF SettingsInv, FormTyped, FormView, stored, Busy
    <1>8. OneFormSave'
        BY <1>1, <1>3, <1>6 DEF OneFormSave, Shows
    <1>9. SaveIsOfTheForm'
        BY <1>3, <1>6 DEF SaveIsOfTheForm, SavesForm
    <1> QED
        BY <1>7, <1>8, <1>9 DEF SettingsInv

\* What the save carries is stored, but for the fields that it leaves out.
LEMMA ServePatchKeeps ==
    ASSUME SettingsInv, UNCHANGED page, NEW c \in Calls, ServePatch(c)
    PROVE  SettingsInv'
    <1>1. /\ CallsOK /\ UNCHANGED <<view, past>> /\ view \in FormView
          /\ call[c].op = "patch" /\ call[c].step = "sent" /\ Busy(c, "patch") /\ call[c].arg \in Forms
        BY DEF ServePatch, SettingsInv, FormTyped, Stands, Busy
    <1>2. CASE Refuse(c) /\ UNCHANGED server
        <2>1. /\ CallsOK' /\ \A e \in Calls \ {c} : call'[e] = call[e]
              /\ call'[c] = [step |-> "failed", op |-> call[c].op, arg |-> call[c].arg, data |-> call[c].data]
            BY <1>1, <1>2, RefuseEffect
        <2> QED
            BY <1>1, <1>2, <2>1, SettingsStay DEF SavesForm, Busy, SettingsInv, FormTyped
    <1>3. CASE /\ server' = [f \in Fields |-> IF Sent(call[c].arg, f) THEN call[c].arg[f] ELSE stored[f]]
               /\ Answer(c, Nil)
        <2>1. /\ CallsOK' /\ \A e \in Calls \ {c} : call'[e] = call[e]
              /\ call'[c] = [step |-> "served", op |-> call[c].op, arg |-> call[c].arg, data |-> Nil]
            BY <1>1, <1>3, AnswerEffect
        <2>2. server' \in Forms
            BY <1>1, <1>3 DEF SettingsInv, FormTyped, Forms, stored
        <2>3. \A e \in Calls \ {c} : ~Busy(e, "patch")
            BY <1>1 DEF SettingsInv, OneFormSave, SavesForm
        <2>4. FormTyped'
            BY <1>1, <2>1, <2>2 DEF SettingsInv, FormTyped, Busy, stored
        <2>5. OneFormSave'
            BY <1>1, <2>1 DEF SettingsInv, OneFormSave, SavesForm, Busy, Shows
        <2>6. ASSUME ~past.reverted, NEW f \in Fields \ past.typed
              PROVE  view.form[f] = server'[f] \/ ~Sent(view.form, f)
            <3>1. view.form[f] = call[c].arg[f]
                BY <1>1, <2>6 DEF SettingsInv, SaveIsOfTheForm
            <3> QED
                BY <1>3, <3>1 DEF Sent
        <2>7. SaveIsOfTheForm'
            BY <1>1, <2>1, <2>3, <2>6 DEF SaveIsOfTheForm, Untouched, Busy, stored
        <2> QED
            BY <2>4, <2>5, <2>7 DEF SettingsInv
    <1> QED
        BY <1>2, <1>3 DEF ServePatch

\* A save that failed may have been stored: every field counts as typed in.
LEMMA FailPatchKeeps ==
    ASSUME SettingsInv, UNCHANGED page, NEW c \in Calls, FailPatch(c)
    PROVE  SettingsInv'
    <1>1. /\ CallsOK /\ UNCHANGED server /\ view \in FormView /\ past \in FormPast /\ Busy(c, "patch")
          /\ view' = [view EXCEPT !.submitting = FALSE] /\ past' = [past EXCEPT !.typed = Fields] /\ End(c)
        BY DEF FailPatch, SettingsInv, FormTyped, Stands, Busy
    <1>2. CallsOK' /\ call'[c] = Free /\ \A e \in Calls \ {c} : call'[e] = call[e]
        BY <1>1, EndEffect
    <1>3. \A e \in Calls : ~SavesForm(e)'
        BY <1>1, <1>2 DEF SettingsInv, OneFormSave, SavesForm, Busy, Free
    <1>4. /\ view' \in FormView /\ past' \in FormPast /\ past'.typed = Fields
        BY <1>1 DEF FormView, FormPast
    <1>5. FormTyped'
        BY <1>1, <1>2, <1>4 DEF SettingsInv, FormTyped, Busy, Free, stored
    <1>6. OneFormSave' /\ SaveIsOfTheForm'
        BY <1>3, <1>4 DEF OneFormSave, SaveIsOfTheForm, Untouched, SavesForm
    <1> QED
        BY <1>5, <1>6 DEF SettingsInv

\* The save and its refresh go on, or end.
LEMMA SessionKeeps ==
    ASSUME SettingsInv, UNCHANGED page, NEW c \in Calls,
           \/ ReceivePatch(c) \/ ServeRefresh(c) \/ ReceiveRefresh(c) \/ FailRefresh(c)
           \/ Login(c) \/ FailLogin(c) \/ LoseCall(c)
    PROVE  SettingsInv'
    <1>1. CallsOK /\ UNCHANGED <<server, past>> /\ view \in FormView
        BY DEF ReceivePatch, ServeRefresh, ReceiveRefresh, FailRefresh, Login, FailLogin, LoseCall, Keep,
               SettingsInv, FormTyped
    <1>l. \A e \in Calls : Busy(e, "login") /\ call[e].step = "served" => call[e].data \in Forms
        BY DEF SettingsInv, FormTyped
    <1>2. CASE ReceivePatch(c)
        <2>1. Stands(c, "patch", "served") /\ Then(c, "refresh", Nil) /\ UNCHANGED view
            BY <1>2 DEF ReceivePatch, Keep
        <2>2. /\ CallsOK' /\ call'[c] = Request("refresh", Nil)
              /\ \A e \in Calls \ {c} : call'[e] = call[e]
            BY <1>1, <2>1, ThenEffect
        <2> QED
            BY <1>1, <1>l, <2>1, <2>2, SettingsStay DEF SavesForm, Busy, Stands, Request
    <1>3. CASE ServeRefresh(c)
        <2>1. /\ call[c].op \in {"refresh", "login"} /\ call[c].step = "sent" /\ Answer(c, stored) /\ UNCHANGED view
              /\ stored \in Forms
            BY <1>3 DEF ServeRefresh, Keep, Stands, SettingsInv, FormTyped
        <2>2. /\ CallsOK' /\ \A e \in Calls \ {c} : call'[e] = call[e]
              /\ call'[c] = [step |-> "served", op |-> call[c].op, arg |-> call[c].arg, data |-> stored]
            BY <1>1, <2>1, AnswerEffect
        <2> QED
            BY <1>1, <1>l, <2>1, <2>2, SettingsStay DEF SavesForm, Busy
    <1>4. CASE ReceiveRefresh(c) \/ FailRefresh(c)
        <2>1. call[c].op = "refresh" /\ Busy(c, "refresh") /\ End(c)
            BY <1>4 DEF ReceiveRefresh, FailRefresh, Stands, Busy
        <2>2. CallsOK' /\ call'[c] = Free /\ \A e \in Calls \ {c} : call'[e] = call[e]
            BY <1>1, <2>1, EndEffect
        <2>3. view' \in FormView /\ view'.form = view.form
            <3>1. CASE ReceiveRefresh(c)
                BY <1>1, <3>1 DEF ReceiveRefresh, FormView
            <3>2. CASE FailRefresh(c)
                <4> DEFINE mid == [view EXCEPT !.business = Nil]
                <4>1. view' = [mid EXCEPT !.submitting = FALSE]
                    BY <3>2 DEF FailRefresh
                <4>2. mid \in FormView /\ mid.form = view.form
                    BY <1>1 DEF FormView
                <4> HIDE DEF mid
                <4> QED
                    BY <4>1, <4>2 DEF FormView
            <3> QED
                BY <1>4, <3>1, <3>2
        <2>4. \A e \in Calls : ~SavesForm(e)'
            BY <2>1, <2>2 DEF SettingsInv, OneFormSave, SavesForm, Busy, Free
        <2> QED
            BY <1>1, <1>l, <2>1, <2>2, <2>3, <2>4, SettingsStay DEF SavesForm, Busy, Free
    <1>5. CASE Login(c)
        <2>1. Send(c, "login", Nil) /\ UNCHANGED view
            BY <1>5 DEF Login, Keep
        <2>2. /\ CallsOK' /\ call[c] = Free /\ call'[c] = Request("login", Nil)
              /\ \A e \in Calls \ {c} : call'[e] = call[e]
            BY <1>1, <2>1, SendEffect
        <2> QED
            BY <1>1, <1>l, <2>1, <2>2, SettingsStay DEF SavesForm, Busy, Request, Free
    <1>6. CASE FailLogin(c)
        <2>1. call[c].op = "login" /\ End(c) /\ UNCHANGED view
            BY <1>6 DEF FailLogin, Keep, Stands
        <2>2. CallsOK' /\ call'[c] = Free /\ \A e \in Calls \ {c} : call'[e] = call[e]
            BY <1>1, <2>1, EndEffect
        <2> QED
            BY <1>1, <1>l, <2>1, <2>2, SettingsStay DEF SavesForm, Busy, Free
    <1>7. CASE LoseCall(c)
        <2>1. Lose(c) /\ UNCHANGED view
            BY <1>7 DEF LoseCall, Keep
        <2>2. /\ CallsOK' /\ \A e \in Calls \ {c} : call'[e] = call[e]
              /\ call[c].step \in {"sent", "served"}
              /\ call'[c] = [step |-> "failed", op |-> call[c].op, arg |-> call[c].arg, data |-> Nil]
            BY <1>1, <2>1, LoseEffect
        <2> QED
            BY <1>1, <1>l, <2>1, <2>2, SettingsStay DEF SavesForm, Busy
    <1> QED
        BY <1>2, <1>3, <1>4, <1>5, <1>6, <1>7

\* The page is opened when nothing is being saved, with the row as it is or knowingly not.
LEMMA OpenedKeeps ==
    ASSUME SettingsInv, UNCHANGED page, CallsOK', NEW business \in Forms, Opened(business),
           \A e \in Calls : ~SavesForm(e)',
           \A e \in Calls : Busy(e, "login")' /\ call'[e].step = "served" => call'[e].data \in Forms
    PROVE  SettingsInv'
    <1>1. /\ UNCHANGED server /\ past \in FormPast
          /\ view' = [business |-> business, form |-> business, submitting |-> FALSE]
          /\ past' = [typed |-> {}, opened |-> TRUE, reverted |-> past.reverted \/ business # stored]
        BY DEF Opened, SettingsInv, FormTyped
    <1>2. /\ view' \in FormView /\ view'.form = business
          /\ past' \in FormPast /\ past'.reverted = (past.reverted \/ business # stored)
        BY <1>1 DEF FormView, FormPast
    <1>3. FormTyped' /\ OneFormSave'
        BY <1>1, <1>2 DEF SettingsInv, FormTyped, OneFormSave, SavesForm, stored
    <1>4. SaveIsOfTheForm'
        BY <1>1, <1>2 DEF SaveIsOfTheForm, Untouched, SavesForm, stored
    <1> QED
        BY <1>3, <1>4 DEF SettingsInv

LEMMA ReceiveLoginKeeps ==
    ASSUME SettingsInv, UNCHANGED page, NEW c \in Calls, ReceiveLogin(c)
    PROVE  SettingsInv'
    <1>1. /\ CallsOK /\ view \in FormView /\ End(c) /\ call[c].op = "login" /\ call[c].step = "served"
          /\ call[c].data \in Forms
        BY DEF ReceiveLogin, Stands, Busy, SettingsInv, FormTyped
    <1>2. CallsOK' /\ call'[c] = Free /\ \A e \in Calls \ {c} : call'[e] = call[e]
        BY <1>1, EndEffect
    <1>3. \A e \in Calls : Busy(e, "login")' /\ call'[e].step = "served" => call'[e].data \in Forms
        BY <1>2 DEF SettingsInv, FormTyped, Busy, Free
    <1>4. CASE Shows
        <2>1. UNCHANGED <<view, server, past>>
            BY <1>4 DEF ReceiveLogin, Keep
        <2> QED
            BY <1>1, <1>2, <1>3, <2>1, SettingsStay DEF SavesForm, Busy, Free
    <1>5. CASE ~Shows
        <2>1. Opened(call[c].data)
            BY <1>5 DEF ReceiveLogin
        <2>2. \A e \in Calls : ~SavesForm(e)'
            BY <1>2, <1>5 DEF SettingsInv, OneFormSave, SavesForm, Busy, Free
        <2> QED
            BY <1>1, <1>2, <1>3, <2>1, <2>2, OpenedKeeps
    <1> QED
        BY <1>4, <1>5

LEMMA RevisitKeeps ==
    ASSUME SettingsInv, UNCHANGED page, Revisit
    PROVE  SettingsInv'
    <1>1. UNCHANGED call /\ Opened(view.business) /\ view.business \in Forms /\ \A e \in Calls : call[e].step = "free"
        BY DEF Revisit, Quiet, Free, Shows, SettingsInv, FormTyped, FormView
    <1>2. CallsOK'
        BY <1>1 DEF SettingsInv, FormTyped, CallsOK, IsRequest
    <1> QED
        BY <1>1, <1>2, OpenedKeeps DEF SavesForm, Busy

LEMMA SettingsStep == SettingsInv /\ [FormNext]_webVars => SettingsInv'
    <1> SUFFICES ASSUME SettingsInv, [FormNext]_webVars PROVE SettingsInv'
        OBVIOUS
    <1>1. CASE UNCHANGED webVars
        <2>1. UNCHANGED <<page, call, view, server, past>>
            BY <1>1 DEF webVars
        <2>2. CallsOK' /\ view \in FormView
            BY <2>1 DEF SettingsInv, FormTyped, CallsOK, IsRequest
        <2> QED
            BY <2>1, <2>2, SettingsStay DEF SavesForm, Busy, SettingsInv, FormTyped
    <1>2. CASE FormNext
        <2>1. UNCHANGED page
            BY <1>2 DEF FormNext
        <2>2. ASSUME NEW c \in Calls, GeneralTab(c, Fields) \/ FormAnswers(c) PROVE SettingsInv'
            BY <2>1, <2>2, TypeSettingKeeps, OnSaveGeneralKeeps, ServePatchKeeps, FailPatchKeeps, SessionKeeps,
               ReceiveLoginKeeps DEF GeneralTab, FormAnswers
        <2> QED
            BY <1>2, <2>1, <2>2, RevisitKeeps, SessionKeeps DEF FormNext
    <1> QED
        BY <1>1, <1>2

\* A field that nobody typed in since the last save holds what is stored, for any fields
\* and texts (settings/page.tsx, onSaveGeneral sends every field of the form).
THEOREM UntouchedFieldsAreStoredAlways == FormSpec => []UntouchedFieldsAreStored
    <1>1. SettingsInv => UntouchedFieldsAreStored
        BY DEF SettingsInv, SaveIsOfTheForm, Untouched, UntouchedFieldsAreStored, Pending, Busy
    <1> QED
        BY <1>1, SettingsInitInv, SettingsStep, PTL DEF FormSpec

(***************************************************************************)
(* The opening hours                                                       *)
(*                                                                         *)
(* As long as nothing is mixed up, the last load under way is for the      *)
(* branch that is selected; with none under way, the week in the form is   *)
(* of that branch.  So what Save sends is the branch's own week.           *)
(***************************************************************************)
HoursView == [listed : BOOLEAN, selected : Branches \cup {Nil}, hours : BranchWeeks \cup {Nil}, saving : BOOLEAN]
HoursPast == [loads : Seq(Calls), mixed : BOOLEAN]
PutArgs == [branch : Branches, week : BranchWeeks \cup {Nil}]

HoursTyped ==
    /\ page = "hours" /\ CallsOK /\ view \in HoursView
    /\ opening \in [Branches -> BranchWeeks \cup {Nil}]
    /\ past \in HoursPast /\ IsQueueOf(weekLoads, Under("hours"))
    /\ \A c \in Calls : Busy(c, "hours") =>
          call[c].arg \in Branches /\ (call[c].step = "served" => call[c].data \in BranchWeeks)
    /\ \A c \in Calls : Busy(c, "hours_put") => call[c].arg \in PutArgs

OfBranch(week, b) == week # Nil => week.of = b

WeeksAreOwn ==
    /\ \A b \in Branches : OfBranch(opening[b], b)
    /\ \A c \in Calls : Busy(c, "hours_put") => OfBranch(call[c].arg.week, call[c].arg.branch)
    /\ \A c \in Calls : Busy(c, "hours") /\ call[c].step = "served" => call[c].data.of = call[c].arg

LastIsOfTheSelected ==
    /\ weekLoads = <<>> => OfBranch(view.hours, view.selected)
    /\ weekLoads # <<>> => call[Newest(weekLoads)].arg = view.selected

HoursInv == HoursTyped /\ (~mixedUp => WeeksAreOwn /\ LastIsOfTheSelected)

LEMMA HoursInitInv == HoursInit => HoursInv
    <1> SUFFICES ASSUME HoursInit PROVE HoursInv
        OBVIOUS
    <1> USE DEF opening, weekLoads, mixedUp
    <1>1. CallsOK /\ \E c \in Calls : call[c] = Request("branches", Nil) /\ \A e \in Calls \ {c} : call[e] = Free
        BY MountEffect DEF HoursInit
    <1>2. (\A c \in Calls : ~Busy(c, "hours") /\ ~Busy(c, "hours_put")) /\ Under("hours") = {}
        BY <1>1 DEF Busy, Request, Free, Under
    <1>3. PICK new \in SUBSET Branches : server = [b \in Branches |-> IF b \in new THEN Nil ELSE [of |-> b, open |-> FALSE]]
        BY DEF HoursInit
    <1>4. /\ server \in [Branches -> BranchWeeks \cup {Nil}]
          /\ \A b \in Branches : OfBranch(server[b], b)
        BY <1>3 DEF BranchWeeks, OfBranch
    <1>5. view \in HoursView /\ view.hours = Nil /\ past = [loads |-> <<>>, mixed |-> FALSE] /\ past \in HoursPast
        BY DEF HoursInit, HoursView, HoursPast
    <1>e. past.loads = <<>>
        BY <1>5
    <1>q. IsQueueOf(past.loads, Under("hours")) /\ page = "hours"
        BY <1>2, <1>e, QueueOfNone DEF HoursInit
    <1>6. HoursTyped
        BY <1>1, <1>2, <1>4, <1>5, <1>q DEF HoursTyped
    <1> QED
        BY <1>2, <1>4, <1>5, <1>6 DEF HoursInv, WeeksAreOwn, LastIsOfTheSelected, OfBranch

\* Steps that leave the rows and the loads, and their week to the form.
LEMMA HoursStay ==
    ASSUME HoursInv, UNCHANGED <<page, server>>, CallsOK', view' \in HoursView, view'.selected = view.selected,
           OfBranch(view.hours, view.selected) => OfBranch(view'.hours, view'.selected),
           past' \in HoursPast, past'.loads = past.loads, past.mixed => past'.mixed,
           \A e \in Calls : Busy(e, "hours")' <=> Busy(e, "hours"),
           \A e \in Calls : Busy(e, "hours")' =>
               /\ call'[e].arg = call[e].arg
               /\ call'[e].step = "served" =>
                      call'[e].data \in BranchWeeks /\ (~past'.mixed => call'[e].data.of = call'[e].arg),
           \A e \in Calls : Busy(e, "hours_put")' =>
               /\ call'[e].arg \in PutArgs
               /\ ~past'.mixed => OfBranch(call'[e].arg.week, call'[e].arg.branch)
    PROVE  HoursInv'
    <1> USE DEF opening, weekLoads, mixedUp
    <1>1. Under("hours")' = Under("hours")
        BY DEF Under
    <1>2. HoursTyped'
        BY <1>1 DEF HoursInv, HoursTyped
    <1>3. ASSUME ~past'.mixed PROVE (WeeksAreOwn /\ LastIsOfTheSelected)'
        <2>1. WeeksAreOwn /\ LastIsOfTheSelected /\ IsQueueOf(past.loads, Under("hours"))
            BY <1>3 DEF HoursInv, HoursTyped
        <2>2. WeeksAreOwn'
            BY <1>3, <2>1 DEF WeeksAreOwn, HoursInv, HoursTyped
        <2>3. past.loads # <<>> => Newest(past.loads) \in Calls /\ Busy(Newest(past.loads), "hours")
            BY <2>1, NewestIsListed DEF Under
        <2>4. LastIsOfTheSelected'
            BY <2>1, <2>3 DEF LastIsOfTheSelected
        <2> QED
            BY <2>2, <2>4
    <1> QED
        BY <1>2, <1>3 DEF HoursInv

\* A load is sent for the branch that is selected.
LEMMA LoadStarts ==
    ASSUME HoursInv, UNCHANGED <<page, server>>, NEW c \in Calls, NEW b \in Branches, CallsOK',
           ~Busy(c, "hours"), call'[c] = Request("hours", b), \A e \in Calls \ {c} : call'[e] = call[e],
           view' \in HoursView, view'.selected = b, past' = [past EXCEPT !.loads = Append(past.loads, c)]
    PROVE  HoursInv'
    <1> USE DEF opening, weekLoads, mixedUp
    <1>1. IsQueueOf(past.loads, Under("hours")) /\ past \in HoursPast /\ c \notin Under("hours")
        BY DEF HoursInv, HoursTyped, Under
    <1> DEFINE new == Append(past.loads, c)
    <1>2. IsQueueOf(new, Under("hours") \cup {c}) /\ new # <<>> /\ Newest(new) = c
        BY <1>1, QueueGrows
    <1>3. new \in Seq(Calls) /\ past' = [past EXCEPT !.loads = new]
        BY <1>2 DEF IsQueueOf
    <1> HIDE DEF new
    <1>4. past' \in HoursPast /\ past'.mixed = past.mixed /\ past'.loads = new
        BY <1>1, <1>3 DEF HoursPast
    <1>5. Busy(c, "hours")' /\ ~Busy(c, "hours_put")' /\ call'[c].step # "served" /\ call'[c].arg = b
        BY DEF Busy, Request
    <1>6. Under("hours")' = Under("hours") \cup {c}
        BY <1>5 DEF Under, Busy
    <1>7. HoursTyped'
        BY <1>2, <1>4, <1>5, <1>6 DEF HoursInv, HoursTyped, Busy
    <1>8. ~past.mixed => WeeksAreOwn'
        BY <1>5 DEF HoursInv, WeeksAreOwn, Busy
    <1>9. LastIsOfTheSelected'
        BY <1>2, <1>4, <1>5 DEF LastIsOfTheSelected
    <1> QED
        BY <1>4, <1>7, <1>8, <1>9 DEF HoursInv

LEMMA SelectBranchKeeps ==
    ASSUME HoursInv, UNCHANGED page, NEW c \in Calls, NEW b \in Branches, SelectBranch(c, b)
    PROVE  HoursInv'
    <1>1. /\ Send(c, "hours", b) /\ UNCHANGED server
          /\ view' = [view EXCEPT !.selected = b] /\ past' = [past EXCEPT !.loads = Append(past.loads, c)]
        BY DEF SelectBranch
    <1>2. /\ CallsOK' /\ call[c] = Free /\ call'[c] = Request("hours", b)
          /\ \A e \in Calls \ {c} : call'[e] = call[e]
        BY <1>1, SendEffect DEF HoursInv, HoursTyped
    <1>3. view' \in HoursView /\ view'.selected = b
        BY <1>1 DEF HoursInv, HoursTyped, HoursView
    <1>4. ~Busy(c, "hours")
        BY <1>2 DEF Busy, Free
    <1> QED
        BY <1>1, <1>2, <1>3, <1>4, LoadStarts

LEMMA ReceiveBranchesKeeps ==
    ASSUME HoursInv, UNCHANGED page, NEW c \in Calls, ReceiveBranches(c)
    PROVE  HoursInv'
    <1>1. /\ Then(c, "hours", Primary) /\ UNCHANGED server /\ call[c].op = "branches"
          /\ past' = [past EXCEPT !.loads = Append(past.loads, c)]
        BY DEF ReceiveBranches, Stands
    <1>2. /\ CallsOK' /\ call'[c] = Request("hours", Primary)
          /\ \A e \in Calls \ {c} : call'[e] = call[e]
        BY <1>1, ThenEffect DEF HoursInv, HoursTyped
    <1>3. view' \in HoursView /\ view'.selected = Primary
        <2> DEFINE mid == [view EXCEPT !.listed = TRUE]
        <2>1. view' = [mid EXCEPT !.selected = Primary]
            BY DEF ReceiveBranches
        <2>2. mid \in HoursView
            BY DEF HoursInv, HoursTyped, HoursView
        <2> HIDE DEF mid
        <2> QED
            BY <2>1, <2>2, BranchHoursAssumption DEF HoursView
    <1>4. ~Busy(c, "hours") /\ Primary \in Branches
        BY <1>1, BranchHoursAssumption DEF Busy
    <1> QED
        BY <1>1, <1>2, <1>3, <1>4, LoadStarts

\* A load ends: nothing is mixed up if it is the first one, and then the last one
\* that is answered is shown for the branch that is selected.
LEMMA EndOfLoad ==
    ASSUME HoursInv, UNCHANGED page, NEW c \in Calls, ReceiveHours(c) \/ FailHours(c)
    PROVE  HoursInv'
    <1> USE DEF opening, weekLoads, mixedUp
    <1> DEFINE rest == Without(past.loads, c)
    <1>0. UNCHANGED server /\ End(c) /\ Busy(c, "hours")
        BY DEF ReceiveHours, FailHours, Stands, Busy
    <1>m. PICK m \in BOOLEAN :
              /\ past' = [loads |-> rest, mixed |-> m]
              /\ ~m => ReceiveHours(c) /\ ~past.mixed /\ Head(past.loads) = c /\ call[c].step = "served"
        <2>1. CASE ReceiveHours(c)
            <3>1. past' = [loads |-> rest, mixed |-> past.mixed \/ Head(past.loads) # c] /\ call[c].step = "served"
                BY <2>1 DEF ReceiveHours, Stands
            <3>2. (past.mixed \/ Head(past.loads) # c) \in BOOLEAN
                OBVIOUS
            <3> HIDE DEF rest
            <3> QED
                BY <2>1, <3>1, <3>2
        <2>2. CASE FailHours(c)
            BY <2>2 DEF FailHours
        <2> QED
            BY <2>1, <2>2
    <1>1. UNCHANGED server /\ End(c) /\ Busy(c, "hours") /\ past'.loads = rest /\ past'.mixed = m
        BY <1>0, <1>m
    <1>2. /\ CallsOK /\ view \in HoursView /\ past \in HoursPast
          /\ IsQueueOf(past.loads, Under("hours")) /\ c \in Under("hours")
        BY <1>1 DEF HoursInv, HoursTyped, Under
    <1>3. CallsOK' /\ call'[c] = Free /\ \A e \in Calls \ {c} : call'[e] = call[e]
        BY <1>1, <1>2, EndEffect
    <1>4. /\ IsQueueOf(rest, Under("hours") \ {c}) /\ past.loads # <<>>
          /\ rest = <<>> => Newest(past.loads) = c
          /\ rest # <<>> /\ Head(past.loads) = c => Newest(rest) = Newest(past.loads)
        BY <1>2, QueueShrinks
    <1>5. Under("hours")' = Under("hours") \ {c} /\ ~Busy(c, "hours")' /\ ~Busy(c, "hours_put")'
        BY <1>3 DEF Under, Busy, Free
    <1>6. rest \in Seq(Calls)
        BY <1>4 DEF IsQueueOf
    <1> HIDE DEF rest
    <1>7. past' \in HoursPast
        BY <1>m, <1>6 DEF HoursPast
    <1>8. /\ view' \in HoursView /\ view'.selected = view.selected
          /\ ReceiveHours(c) => view'.hours = call[c].data
        BY <1>1, <1>2 DEF ReceiveHours, FailHours, HoursView, HoursInv, HoursTyped, Stands
    <1>9. HoursTyped'
        BY <1>1, <1>3, <1>4, <1>5, <1>7, <1>8 DEF HoursInv, HoursTyped, Busy
    <1>a. ASSUME ~past'.mixed PROVE (WeeksAreOwn /\ LastIsOfTheSelected)'
        <2>1. ReceiveHours(c) /\ ~past.mixed /\ Head(past.loads) = c /\ call[c].step = "served"
            BY <1>1, <1>a, <1>m
        <2>2. WeeksAreOwn /\ LastIsOfTheSelected
            BY <2>1 DEF HoursInv
        <2>3. WeeksAreOwn'
            BY <1>1, <1>3, <1>5, <2>2 DEF WeeksAreOwn, Busy
        <2>4. CASE rest = <<>>
            <3>1. call[c].data.of = view.selected
                BY <1>1, <1>4, <2>1, <2>2, <2>4 DEF WeeksAreOwn, LastIsOfTheSelected
            <3> QED
                BY <1>1, <1>8, <2>1, <2>3, <2>4, <3>1 DEF LastIsOfTheSelected, OfBranch
        <2>5. CASE rest # <<>>
            <3>1. Newest(rest) = Newest(past.loads) /\ Newest(rest) \in Under("hours") \ {c}
                BY <1>4, <2>1, <2>5, NewestIsListed
            <3>2. call'[Newest(rest)] = call[Newest(past.loads)]
                BY <1>3, <3>1 DEF Under
            <3> QED
                BY <1>1, <1>4, <1>8, <2>2, <2>3, <2>5, <3>2 DEF LastIsOfTheSelected
        <2> QED
            BY <2>4, <2>5
    <1> QED
        BY <1>9, <1>a DEF HoursInv

LEMMA ServeWeeksKeeps ==
    ASSUME HoursInv, UNCHANGED page, NEW c \in Calls,
           ServeBranches(c) \/ FailBranches(c) \/ ServeHours(c) \/ EndSaveHours(c) \/ LoseCall(c)
    PROVE  HoursInv'
    <1> USE DEF opening, weekLoads, mixedUp
    <1>1. /\ CallsOK /\ UNCHANGED <<server, past>> /\ view \in HoursView /\ past \in HoursPast
          /\ opening \in [Branches -> BranchWeeks \cup {Nil}]
        BY DEF ServeBranches, FailBranches, ServeHours, EndSaveHours, LoseCall, Keep, HoursInv, HoursTyped
    <1>2. /\ \A e \in Calls : Busy(e, "hours") =>
                 /\ call[e].arg \in Branches
                 /\ call[e].step = "served" =>
                        call[e].data \in BranchWeeks /\ (~past.mixed => call[e].data.of = call[e].arg)
          /\ \A e \in Calls : Busy(e, "hours_put") =>
                 /\ call[e].arg \in PutArgs
                 /\ ~past.mixed => OfBranch(call[e].arg.week, call[e].arg.branch)
        BY DEF HoursInv, HoursTyped, WeeksAreOwn
    <1>3. CASE ServeBranches(c)
        <2>1. call[c].op = "branches" /\ Answer(c, Nil) /\ UNCHANGED view
            BY <1>3 DEF ServeBranches, Keep, Stands
        <2>2. /\ CallsOK' /\ \A e \in Calls \ {c} : call'[e] = call[e]
              /\ call'[c] = [step |-> "served", op |-> call[c].op, arg |-> call[c].arg, data |-> Nil]
            BY <1>1, <2>1, AnswerEffect
        <2> QED
            BY <1>1, <1>2, <2>1, <2>2, HoursStay DEF Busy
    <1>4. CASE FailBranches(c) \/ EndSaveHours(c)
        <2>1. call[c].op \in {"branches", "hours_put"} /\ End(c)
            BY <1>4 DEF FailBranches, EndSaveHours, Stands
        <2>2. view' \in HoursView /\ view'.selected = view.selected /\ view'.hours = view.hours
            BY <1>1, <1>4 DEF FailBranches, EndSaveHours, Keep, HoursView
        <2>3. CallsOK' /\ call'[c] = Free /\ \A e \in Calls \ {c} : call'[e] = call[e]
            BY <1>1, <2>1, EndEffect
        <2> QED
            BY <1>1, <1>2, <2>1, <2>2, <2>3, HoursStay DEF Busy, Free
    <1>5. CASE ServeHours(c)
        <2> DEFINE week == Filled(call[c].arg, opening[call[c].arg])
        <2>1. call[c].op = "hours" /\ call[c].step = "sent" /\ Answer(c, week) /\ UNCHANGED view
            BY <1>5 DEF ServeHours, Keep, Stands
        <2>2. call[c].arg \in Branches
            BY <1>2, <2>1 DEF Busy
        <2>3. ~past.mixed => OfBranch(opening[call[c].arg], call[c].arg)
            BY <2>2 DEF HoursInv, WeeksAreOwn
        <2>4. week \in BranchWeeks /\ (~past.mixed => week.of = call[c].arg)
            BY <1>1, <2>2, <2>3 DEF Filled, BranchWeeks, OfBranch
        <2> HIDE DEF week
        <2>5. /\ CallsOK' /\ \A e \in Calls \ {c} : call'[e] = call[e]
              /\ call'[c] = [step |-> "served", op |-> call[c].op, arg |-> call[c].arg, data |-> week]
            BY <1>1, <2>1, AnswerEffect
        <2> QED
            BY <1>1, <1>2, <2>1, <2>4, <2>5, HoursStay DEF Busy
    <1>6. CASE LoseCall(c)
        <2>1. Lose(c) /\ UNCHANGED view
            BY <1>6 DEF LoseCall, Keep
        <2>2. /\ CallsOK' /\ \A e \in Calls \ {c} : call'[e] = call[e]
              /\ call[c].step \in {"sent", "served"}
              /\ call'[c] = [step |-> "failed", op |-> call[c].op, arg |-> call[c].arg, data |-> Nil]
            BY <1>1, <2>1, LoseEffect
        <2> QED
            BY <1>1, <1>2, <2>1, <2>2, HoursStay DEF Busy
    <1> QED
        BY <1>3, <1>4, <1>5, <1>6

LEMMA UpdateHourFieldKeeps ==
    ASSUME HoursInv, UNCHANGED page, UpdateHourField
    PROVE  HoursInv'
    <1> USE DEF opening, weekLoads, mixedUp
    <1>1. /\ UNCHANGED <<call, server, past>> /\ view.hours # Nil
          /\ view' = [view EXCEPT !.hours = [view.hours EXCEPT !.open = ~view.hours.open]]
        BY DEF UpdateHourField, Show
    <1>2. view \in HoursView /\ view.hours \in BranchWeeks
        BY <1>1 DEF HoursInv, HoursTyped, HoursView
    <1> DEFINE week == [view.hours EXCEPT !.open = ~view.hours.open]
    <1>3. week \in BranchWeeks /\ week.of = view.hours.of
        BY <1>2 DEF BranchWeeks
    <1>4. view' = [view EXCEPT !.hours = week]
        BY <1>1
    <1> HIDE DEF week
    <1>5. view' \in HoursView /\ view'.selected = view.selected /\ view'.hours = week
        BY <1>2, <1>3, <1>4 DEF HoursView
    <1>6. CallsOK'
        BY <1>1 DEF HoursInv, HoursTyped, CallsOK, IsRequest
    <1>7. OfBranch(view.hours, view.selected) => OfBranch(view'.hours, view'.selected)
        BY <1>1, <1>3, <1>5 DEF OfBranch
    <1> QED
        BY <1>1, <1>5, <1>6, <1>7, HoursStay DEF HoursInv, HoursTyped, WeeksAreOwn, Busy

\* Save during a load mixes up; otherwise the week in the form is the branch's own.
LEMMA SaveWorkingHoursKeeps ==
    ASSUME HoursInv, UNCHANGED page, NEW c \in Calls, SaveWorkingHours(c)
    PROVE  HoursInv'
    <1> USE DEF opening, weekLoads, mixedUp
    <1> DEFINE arg == [branch |-> view.selected, week |-> view.hours]
    <1>1. /\ Send(c, "hours_put", arg) /\ UNCHANGED server /\ view.selected # Nil
          /\ view' = [view EXCEPT !.saving = TRUE]
          /\ past' = [past EXCEPT !.mixed = past.mixed \/ past.loads # <<>>]
        BY DEF SaveWorkingHours
    <1>2. view \in HoursView /\ past \in HoursPast /\ CallsOK
        BY DEF HoursInv, HoursTyped
    <1>3. arg \in PutArgs
        BY <1>1, <1>2 DEF HoursView, PutArgs
    <1>4. /\ past' \in HoursPast /\ past'.loads = past.loads
          /\ past'.mixed = (past.mixed \/ past.loads # <<>>)
        BY <1>1, <1>2 DEF HoursPast
    <1>5. ~past'.mixed => OfBranch(arg.week, arg.branch)
        BY <1>4 DEF HoursInv, LastIsOfTheSelected
    <1> HIDE DEF arg
    <1>6. /\ CallsOK' /\ call[c] = Free /\ call'[c] = Request("hours_put", arg)
          /\ \A e \in Calls \ {c} : call'[e] = call[e]
        BY <1>1, <1>2, SendEffect
    <1>7. view' \in HoursView /\ view'.selected = view.selected /\ view'.hours = view.hours
        BY <1>1, <1>2 DEF HoursView
    <1>8. \A e \in Calls \ {c} : /\ (Busy(e, "hours")' <=> Busy(e, "hours")) /\ (Busy(e, "hours_put")' <=> Busy(e, "hours_put"))
                                  /\ call'[e] = call[e]
        BY <1>6 DEF Busy
    <1>9. /\ ~Busy(c, "hours") /\ ~Busy(c, "hours")' /\ call'[c].arg = arg
        BY <1>6 DEF Busy, Free, Request
    <1>c. past.mixed => past'.mixed
        BY <1>4
    <1>d. /\ \A e \in Calls : Busy(e, "hours") /\ call[e].step = "served" =>
                 call[e].data \in BranchWeeks /\ (~past.mixed => call[e].data.of = call[e].arg)
          /\ \A e \in Calls : Busy(e, "hours_put") =>
                 call[e].arg \in PutArgs /\ (~past.mixed => OfBranch(call[e].arg.week, call[e].arg.branch))
        BY DEF HoursInv, HoursTyped, WeeksAreOwn
    <1>a. ASSUME NEW e \in Calls, Busy(e, "hours")'
          PROVE  /\ call'[e].arg = call[e].arg
                 /\ call'[e].step = "served" =>
                        call'[e].data \in BranchWeeks /\ (~past'.mixed => call'[e].data.of = call'[e].arg)
        <2>1. e # c
            BY <1>9, <1>a
        <2>2. Busy(e, "hours") /\ call'[e] = call[e]
            BY <1>8, <1>a, <2>1
        <2> QED
            BY <1>c, <1>d, <2>2
    <1>b. ASSUME NEW e \in Calls, Busy(e, "hours_put")'
          PROVE  /\ call'[e].arg \in PutArgs
                 /\ ~past'.mixed => OfBranch(call'[e].arg.week, call'[e].arg.branch)
        <2>1. CASE e = c
            BY <1>3, <1>5, <1>9, <2>1
        <2>2. CASE e # c
            <3>1. Busy(e, "hours_put") /\ call'[e] = call[e]
                BY <1>8, <1>b, <2>2
            <3> QED
                BY <1>c, <1>d, <3>1
        <2> QED
            BY <2>1, <2>2
    <1>e. \A e \in Calls : Busy(e, "hours")' <=> Busy(e, "hours")
        BY <1>8, <1>9
    <1> QED
        BY <1>1, <1>4, <1>6, <1>7, <1>e, <1>a, <1>b, <1>c, HoursStay

LEMMA ServeHoursPutKeeps ==
    ASSUME HoursInv, UNCHANGED page, NEW c \in Calls, ServeHoursPut(c)
    PROVE  HoursInv'
    <1> USE DEF opening, weekLoads, mixedUp
    <1>1. /\ CallsOK /\ UNCHANGED <<view, past>> /\ call[c].op = "hours_put" /\ call[c].step = "sent" /\ Answer(c, Nil)
          /\ server' = [server EXCEPT ![call[c].arg.branch] = call[c].arg.week]
          /\ server \in [Branches -> BranchWeeks \cup {Nil}]
        BY DEF ServeHoursPut, Stands, HoursInv, HoursTyped
    <1>2. call[c].arg \in PutArgs /\ call[c].arg.branch \in Branches /\ call[c].arg.week \in BranchWeeks \cup {Nil}
        BY <1>1 DEF HoursInv, HoursTyped, Busy, PutArgs
    <1>3. /\ CallsOK' /\ \A e \in Calls \ {c} : call'[e] = call[e]
          /\ call'[c] = [step |-> "served", op |-> call[c].op, arg |-> call[c].arg, data |-> Nil]
        BY <1>1, AnswerEffect
    <1>4. /\ server' \in [Branches -> BranchWeeks \cup {Nil}]
          /\ \A b \in Branches : server'[b] = IF b = call[c].arg.branch THEN call[c].arg.week ELSE server[b]
        BY <1>1, <1>2
    <1>5. Under("hours")' = Under("hours")
        BY <1>1, <1>3 DEF Under, Busy
    <1>6. HoursTyped'
        BY <1>1, <1>2, <1>3, <1>4, <1>5 DEF HoursInv, HoursTyped, Busy
    <1>7. ASSUME ~past.mixed PROVE (WeeksAreOwn /\ LastIsOfTheSelected)'
        <2>1. WeeksAreOwn /\ LastIsOfTheSelected /\ IsQueueOf(past.loads, Under("hours"))
            BY <1>7 DEF HoursInv, HoursTyped
        <2>2. OfBranch(call[c].arg.week, call[c].arg.branch)
            BY <1>1, <2>1 DEF WeeksAreOwn, Busy
        <2>3. WeeksAreOwn'
            BY <1>1, <1>3, <1>4, <2>1, <2>2 DEF WeeksAreOwn, Busy
        <2>4. past.loads # <<>> => Newest(past.loads) \in Calls /\ Newest(past.loads) # c
            BY <1>1, <2>1, NewestIsListed DEF Under, Busy
        <2>5. LastIsOfTheSelected'
            BY <1>1, <1>3, <2>1, <2>4 DEF LastIsOfTheSelected
        <2> QED
            BY <2>3, <2>5
    <1> QED
        BY <1>1, <1>6, <1>7 DEF HoursInv

LEMMA HoursStep == HoursInv /\ [HoursNext]_webVars => HoursInv'
    <1> SUFFICES ASSUME HoursInv, [HoursNext]_webVars PROVE HoursInv'
        OBVIOUS
    <1>1. CASE UNCHANGED webVars
        <2>1. UNCHANGED <<page, call, view, server, past>>
            BY <1>1 DEF webVars
        <2>2. CallsOK'
            BY <2>1 DEF HoursInv, HoursTyped, CallsOK, IsRequest
        <2> QED
            BY <2>1, <2>2, HoursStay DEF HoursInv, HoursTyped, WeeksAreOwn, Busy, weekLoads, mixedUp
    <1>2. CASE HoursNext
        <2>1. UNCHANGED page
            BY <1>2 DEF HoursNext
        <2>2. PICK c \in Calls : HoursTab(c) \/ HoursAnswers(c) \/ LoseCall(c)
            BY <1>2 DEF HoursNext
        <2>3. CASE HoursTab(c)
            BY <2>1, <2>3, SelectBranchKeeps, UpdateHourFieldKeeps, SaveWorkingHoursKeeps DEF HoursTab
        <2>4. CASE HoursAnswers(c) \/ LoseCall(c)
            BY <2>1, <2>4, ServeWeeksKeeps, ReceiveBranchesKeeps, EndOfLoad, ServeHoursPutKeeps DEF HoursAnswers
        <2> QED
            BY <2>2, <2>3, <2>4
    <1> QED
        BY <1>1, <1>2

\* A branch keeps the week that was loaded as its own, for any branches and requests under
\* way, unless the loads were mixed up (settings/page.tsx: saveWorkingHours puts the form
\* to the branch that is selected).
THEOREM HoursStayWithTheirBranchAlways == HoursSpec => []HoursStayWithTheirBranch
    <1>1. HoursInv => HoursStayWithTheirBranch
        BY DEF HoursInv, WeeksAreOwn, OfBranch, HoursStayWithTheirBranch
    <1> QED
        BY <1>1, HoursInitInv, HoursStep, PTL DEF HoursSpec

(***************************************************************************)
(* The packages page                                                       *)
(***************************************************************************)
LEMMA SmallestOf ==
    ASSUME NEW n \in Nat, NEW T \in SUBSET (1 .. n), T # {}
    PROVE  \E x \in T : \A y \in T : x <= y
    <1> DEFINE F == {1 .. x : x \in T}
    <1>1. IsFiniteSet(1 .. n)
        BY FS_Interval
    <1>2. IsWellFoundedOn(StrictSubsetOrdering(1 .. n), SUBSET (1 .. n))
        BY <1>1, FS_StrictSubsetOrderingWellFounded, FS_FiniteSubsetsOfFinite
    <1>3. F \in SUBSET (SUBSET (1 .. n)) /\ F # {}
        <2>1. \A x \in T : 1 .. x \in SUBSET (1 .. n)
            OBVIOUS
        <2>2. \A x \in T : 1 .. x \in F
            OBVIOUS
        <2>3. F # {}
            BY <2>2
        <2>4. \A J \in F : J \in SUBSET (1 .. n)
            BY <2>1
        <2> QED
            BY <2>3, <2>4
    <1> HIDE DEF F
    <1>4. \E I \in F : \A J \in F : ~(<<J, I>> \in StrictSubsetOrdering(1 .. n))
        BY <1>2, <1>3, WFMin, Zenon
    <1>5. PICK x \in T : \A J \in F : ~(<<J, 1 .. x>> \in StrictSubsetOrdering(1 .. n))
        BY <1>4 DEF F
    <1>6. ASSUME NEW y \in T, y < x PROVE FALSE
        <2>1. 1 .. y \in F
            BY DEF F
        <2>2. ~(1 .. y \subseteq 1 .. x /\ 1 .. y # 1 .. x)
            <3>1. <<1 .. y, 1 .. x>> \in (SUBSET (1 .. n)) \X (SUBSET (1 .. n))
                OBVIOUS
            <3> QED
                BY <1>5, <2>1, <3>1 DEF StrictSubsetOrdering
        <2>3. 1 .. y \subseteq 1 .. x
            BY <1>6
        <2>4. x \in 1 .. x /\ x \notin 1 .. y
            BY <1>6
        <2> QED
            BY <2>2, <2>3, <2>4
    <1> QED
        BY <1>6

PackChanges == {"template", "redeem"}

PackInv ==
    /\ page = "packages" /\ ListPage /\ DOMAIN view.rows = {"templates", "sold"}
    /\ HasFields(server, {"templates", "sold", "lines", "over"}) /\ server.lines \in [Packs -> Bundles]
    /\ UpToDate(call, past, view, PackRows, PackChanges)

LEMMA PackInitInv == PackInit => PackInv
    <1> SUFFICES ASSUME PackInit PROVE PackInv
        OBVIOUS
    <1>1. /\ page = "packages" /\ MountList(Nil) /\ view.key = Nil /\ HasFields(view, {"key", "rows", "loading"})
          /\ DOMAIN view.rows = {"templates", "sold"}
        BY DEF PackInit, HasFields
    <1>2. HasFields(server, {"templates", "sold", "lines", "over"}) /\ server.lines \in [Packs -> Bundles]
        BY DEF PackInit, HasFields
    <1> QED
        BY <1>1, <1>2, MountedIsUpToDate DEF PackInv

\* What the page shows beside its rows is changed.
LEMMA PackShowKeeps ==
    ASSUME PackInv, UNCHANGED page, NEW state, Show(state), HasFields(state, {"key", "rows", "loading"}),
           state.key = view.key, state.rows = view.rows
    PROVE  PackInv'
    <1>1. view' = state /\ UNCHANGED server
        BY DEF Show
    <1>2. ListPage' /\ UpToDate(call', past', view', PackRows, PackChanges)
        BY ShowKeepsTheList DEF PackInv
    <1> QED
        BY <1>1, <1>2 DEF PackInv, PackRows, sold

LEMMA PackClicksKeep ==
    ASSUME PackInv, UNCHANGED page, PackHeader \/ PackTabs \/ SellModal
    PROVE  PackInv'
    <1>1. HasFields(view, {"key", "rows", "loading"})
        BY DEF PackInv, ListPage
    <1>2. ASSUME NEW tab, Show([view EXCEPT !.tab = tab]) PROVE PackInv'
        BY <1>1, <1>2, PackShowKeeps DEF HasFields
    <1>3. ASSUME NEW b \in BOOLEAN, Show([view EXCEPT !.creating = b]) PROVE PackInv'
        BY <1>1, <1>3, PackShowKeeps DEF HasFields
    <1>4. ASSUME NEW b \in BOOLEAN, Show([view EXCEPT !.selling = b]) PROVE PackInv'
        BY <1>1, <1>4, PackShowKeeps DEF HasFields
    <1> QED
        BY <1>2, <1>3, <1>4 DEF PackHeader, PackTabs, SellModal

\* A request that changes the rows is sent.
LEMMA PackSendKeeps ==
    ASSUME PackInv, UNCHANGED page, NEW c \in Calls, NEW op, op # "list", NEW arg, Send(c, op, arg), Keep
    PROVE  PackInv'
    <1>1. UNCHANGED <<view, server, past>>
        BY DEF Keep
    <1>2. ListPage' /\ UpToDate(call', past', view', PackRows, PackChanges)
        BY <1>1, SendKeepsTheList DEF PackInv, ListPage
    <1> QED
        BY <1>1, <1>2 DEF PackInv, PackRows, sold

LEMMA PackModalKeeps ==
    ASSUME PackInv, UNCHANGED page, NEW c \in Calls, CreatePackageModal(c)
    PROVE  PackInv'
    <1>1. HasFields(view, {"key", "rows", "loading"})
        BY DEF PackInv, ListPage
    <1>2. ASSUME NEW items, Show([view EXCEPT !.items = items]) PROVE PackInv'
        BY <1>1, <1>2, PackShowKeeps DEF HasFields
    <1>3. CASE view.creating /\ Show([view EXCEPT !.creating = FALSE])
        BY <1>1, <1>3, PackShowKeeps DEF HasFields
    <1>4. CASE HandleAddServiceItem
        BY <1>2, <1>4 DEF HandleAddServiceItem
    <1>5. ASSUME NEW i \in Lines, HandleRemoveServiceItem(i) PROVE PackInv'
        BY <1>2, <1>5 DEF HandleRemoveServiceItem
    <1>6. ASSUME NEW i \in Lines, ChooseService(i) PROVE PackInv'
        BY <1>2, <1>6 DEF ChooseService
    <1>7. CASE HandleCreateTemplate(c)
        BY <1>7, PackSendKeeps DEF HandleCreateTemplate
    <1> QED
        BY <1>3, <1>4, <1>5, <1>6, <1>7 DEF CreatePackageModal

LEMMA PackListKeeps ==
    ASSUME PackInv, UNCHANGED page, NEW c \in Calls,
           AnswerParts(c, PackRows) \/ ReceiveParts(c) \/ FailList(c, view.rows) \/ LoseInList(c)
    PROVE  PackInv'
    <1>r. PackRows = [k \in DOMAIN PackRows |-> PackRows[k]] /\ DOMAIN PackRows = {"templates", "sold"}
        BY DEF PackRows
    <1>s. "list" \notin PackChanges
        BY DEF PackChanges
    <1>v. HasFields(view, {"key", "rows", "loading"}) /\ ListPage /\ DOMAIN view.rows = {"templates", "sold"}
        BY DEF PackInv, ListPage
    <1>1. CASE AnswerParts(c, PackRows)
        <2>1. ListPage' /\ UpToDate(call', past', view', PackRows, PackChanges)
            BY <1>1, <1>r, <1>s, AnswerPartsKeeps DEF PackInv
        <2>2. UNCHANGED <<view, server>>
            BY <1>1 DEF AnswerParts
        <2> QED
            BY <2>1, <2>2 DEF PackInv, PackRows, sold
    <1>2. CASE ReceiveParts(c)
        <2> DEFINE data == call[c].data
        <2> DEFINE shown == [k \in DOMAIN view.rows |-> IF k \in DOMAIN data THEN data[k] ELSE view.rows[k]]
        <2>1. ReceiveRows(c, shown) /\ UNCHANGED server
            BY <1>2 DEF ReceiveParts, ReceiveRows, SettleList
        <2>2. data = PackRows => shown = PackRows
            BY <1>r, <1>v
        <2>3. DOMAIN shown = {"templates", "sold"}
            BY <1>v
        <2> HIDE DEF shown
        <2>4. /\ ListPage' /\ UpToDate(call', past', view', PackRows, PackChanges)
              /\ view' = [view EXCEPT !.rows = shown, !.loading = FALSE]
            BY <1>s, <2>1, <2>2, ReceiveRowsKeeps DEF PackInv
        <2>5. view'.rows = shown
            BY <1>v, <2>4 DEF HasFields
        <2> QED
            BY <2>1, <2>3, <2>4, <2>5 DEF PackInv, PackRows, sold
    <1>3. CASE FailList(c, view.rows)
        <2>1. /\ ListPage' /\ UpToDate(call', past', view', PackRows, PackChanges)
              /\ view' = [view EXCEPT !.rows = view.rows, !.loading = FALSE]
            BY <1>3, <1>v, FailListKeeps
        <2>2. view'.rows = view.rows /\ UNCHANGED server
            BY <1>3, <1>v, <2>1 DEF HasFields, FailList
        <2> QED
            BY <2>1, <2>2 DEF PackInv, PackRows, sold
    <1>4. CASE LoseInList(c)
        <2>1. ListPage' /\ UpToDate(call', past', view', PackRows, PackChanges) /\ UNCHANGED <<view, server>>
            BY <1>4, <1>v, LoseInListKeeps
        <2> QED
            BY <2>1 DEF PackInv, PackRows, sold
    <1> QED
        BY <1>1, <1>2, <1>3, <1>4

\* The server changes the rows, or refuses to.
LEMMA PackServeKeeps ==
    ASSUME PackInv, UNCHANGED page, NEW c \in Calls, ServeTemplate(c) \/ ServeRedeem(c)
    PROVE  PackInv'
    <1>1. ASSUME NEW op, op \in PackChanges, Stands(c, op, "sent"), UNCHANGED <<view, past>>,
                 HasFields(server', {"templates", "sold", "lines", "over"}), server'.lines = server.lines, Answer(c, Nil)
          PROVE  PackInv'
        <2>1. ListPage' /\ UpToDate(call', past', view', PackRows', PackChanges)
            BY <1>1, ChangeIsUpToDate DEF PackInv, Stands, PackChanges
        <2> QED
            BY <1>1, <2>1 DEF PackInv
    <1>2. CASE ServeTemplate(c)
        <2>1. PICK combo : server' = [server EXCEPT !.templates = server.templates \cup {combo}]
            BY <1>2 DEF ServeTemplate
        <2>2. HasFields(server', {"templates", "sold", "lines", "over"}) /\ server'.lines = server.lines
            BY <2>1 DEF PackInv, HasFields
        <2> QED
            BY <1>1, <1>2, <2>2 DEF ServeTemplate, PackChanges
    <1>3. CASE ServeRedeem(c)
        <2> DEFINE p == call[c].arg.pack
        <2>1. PICK i \in LinesFor(p, call[c].arg.treat) :
                  IF Redeems(p, i)
                  THEN /\ server' = [server EXCEPT !.sold[p] =
                                        [used |-> [sold[p].used EXCEPT ![i] = 1],
                                         active |-> \E j \in PackLines(p) \ {i} : sold[p].used[j] = 0]]
                       /\ Answer(c, Nil)
                  ELSE Refuse(c) /\ UNCHANGED server
            BY <1>3 DEF ServeRedeem
        <2>2. Stands(c, "redeem", "sent") /\ UNCHANGED <<view, past>>
            BY <1>3 DEF ServeRedeem
        <2>3. CASE Redeems(p, i)
            <3> DEFINE row == [used |-> [sold[p].used EXCEPT ![i] = 1],
                               active |-> \E j \in PackLines(p) \ {i} : sold[p].used[j] = 0]
            <3>1. Answer(c, Nil) /\ server' = [server EXCEPT !.sold = [server.sold EXCEPT ![p] = row]]
                BY <2>1, <2>3
            <3> HIDE DEF row
            <3>2. HasFields(server', {"templates", "sold", "lines", "over"}) /\ server'.lines = server.lines
                BY <3>1 DEF PackInv, HasFields
            <3> QED
                BY <1>1, <2>2, <3>1, <3>2 DEF PackChanges
        <2>4. CASE ~Redeems(p, i)
            <3>1. Refuse(c) /\ UNCHANGED server
                BY <2>1, <2>4
            <3>2. ListPage' /\ UpToDate(call', past', view', PackRows, PackChanges)
                BY <2>2, <3>1, RefuseKeepsTheList DEF PackInv
            <3> QED
                BY <2>2, <3>1, <3>2 DEF PackInv, PackRows, sold
        <2> QED
            BY <2>3, <2>4
    <1> QED
        BY <1>2, <1>3

\* The handlers go on when their requests were answered.
LEMMA PackSettleKeeps ==
    ASSUME PackInv, UNCHANGED page, NEW c \in Calls,
           \/ ReceiveTemplate(c) \/ FailChange(c, "template", view)
           \/ ReceiveRedeem(c) \/ FailChange(c, "redeem", view)
    PROVE  PackInv'
    <1>v. HasFields(view, {"key", "rows", "loading"}) /\ ListPage /\ DOMAIN view.rows = {"templates", "sold"}
        BY DEF PackInv, ListPage
    <1>1. ASSUME NEW state, HasFields(state, {"key", "rows", "loading"}), state.rows = view.rows,
                 call[c].op # "list", Reload(c, Nil, state)
          PROVE  PackInv'
        <2>1. ListPage' /\ UpToDate(call', past', view', PackRows, PackChanges) /\ view'.rows = state.rows
            BY <1>1, <1>v, ReloadKeeps
        <2>2. UNCHANGED server
            BY <1>1 DEF Reload
        <2> QED
            BY <1>1, <1>v, <2>1, <2>2 DEF PackInv, PackRows, sold
    <1>2. ASSUME NEW op, op # "list", FailChange(c, op, view) PROVE PackInv'
        <2>1. ListPage' /\ UpToDate(call', past', view', PackRows, PackChanges) /\ UNCHANGED <<view, server>>
            BY <1>2, <1>v, FailChangeKeeps DEF PackInv
        <2> QED
            BY <1>v, <2>1 DEF PackInv, PackRows, sold
    <1>3. CASE ReceiveTemplate(c)
        <2> DEFINE state == [view EXCEPT !.creating = FALSE]
        <2>1. HasFields(state, {"key", "rows", "loading"}) /\ state.rows = view.rows
            BY <1>v DEF HasFields
        <2>2. Reload(c, Nil, state) /\ call[c].op # "list"
            BY <1>3 DEF ReceiveTemplate, Stands
        <2> HIDE DEF state
        <2> QED
            BY <1>1, <2>1, <2>2
    <1>4. CASE ReceiveRedeem(c)
        BY <1>1, <1>4, <1>v DEF ReceiveRedeem, Stands
    <1> QED
        BY <1>2, <1>3, <1>4

LEMMA PackStep == PackInv /\ [PackNext]_webVars => PackInv'
    <1> SUFFICES ASSUME PackInv, [PackNext]_webVars PROVE PackInv'
        OBVIOUS
    <1>1. CASE UNCHANGED webVars
        <2>1. UNCHANGED <<page, call, view, server, past>>
            BY <1>1 DEF webVars
        <2>2. ListPage' /\ UpToDate(call', past', view', PackRows, PackChanges)
            BY <2>1, NothingChangesTheList DEF PackInv
        <2> QED
            BY <2>1, <2>2 DEF PackInv, PackRows, sold
    <1>2. CASE PackNext
        <2>1. UNCHANGED page
            BY <1>2 DEF PackNext
        <2>2. ASSUME NEW c \in Calls, CreatePackageModal(c) \/ PackAnswers(c) \/ LoseInList(c) PROVE PackInv'
            BY <2>1, <2>2, PackModalKeeps, PackListKeeps, PackServeKeeps, PackSettleKeeps DEF PackAnswers
        <2>3. ASSUME NEW c \in Calls, NEW p \in Packs, HandleRedeemSession(c, p) PROVE PackInv'
            BY <2>1, <2>3, PackSendKeeps DEF HandleRedeemSession
        <2> QED
            BY <1>2, <2>1, <2>2, <2>3, PackClicksKeep DEF PackNext
    <1> QED
        BY <1>1, <1>2

\* A session that the page offers is had, for any packages and requests under way
\* (packages/page.tsx, handleRedeemSession; package_service.py, redeem_service).
THEOREM OfferedSessionIsServedAlways == PackSpec => []OfferedSessionIsServed
    <1>1. PackInv => OfferedSessionIsServed
        <2> SUFFICES ASSUME PackInv, ~past.mixed, Quiet, NEW p \in Packs, Redeemable(p), ~server.over[p],
                            ~\E i, j \in PackLines(p) : i # j /\ server.lines[p][i] = server.lines[p][j],
                            NEW i \in LinesFor(p, Asked(p))
                     PROVE  Redeems(p, i)
            BY DEF OfferedSessionIsServed
        <2>1. view.rows = PackRows
            BY UpToDateIsCurrent DEF PackInv, Current
        <2>2. view.rows.sold = sold
            BY <2>1 DEF PackRows
        <2>3. sold[p].active /\ Available(p, sold[p].used) # {}
            BY <2>2 DEF Redeemable
        <2> DEFINE first == FirstAvailable(p, sold[p].used)
        <2>4. PICK n \in Lines : server.lines[p] \in [1 .. n -> Treats]
            BY DEF PackInv, Bundles
        <2>5. n \in Nat /\ PackLines(p) = 1 .. n /\ Available(p, sold[p].used) \in SUBSET (1 .. n)
            BY <2>4, PackageSalesAssumption DEF Lines, PackLines, Available
        <2>6. \E x \in Available(p, sold[p].used) : \A y \in Available(p, sold[p].used) : x <= y
            BY <2>3, <2>5, SmallestOf
        <2>7. first \in Available(p, sold[p].used)
            BY <2>6 DEF FirstAvailable
        <2>8. first \in PackLines(p) /\ sold[p].used[first] = 0 /\ Asked(p) = server.lines[p][first]
            BY <2>2, <2>7 DEF Available, Asked
        <2> HIDE DEF first
        <2>9. i = first
            BY <2>8 DEF LinesFor
        <2> QED
            BY <2>3, <2>8, <2>9 DEF Redeems
    <1> QED
        BY <1>1, PackInitInv, PackStep, PTL DEF PackSpec

(***************************************************************************)
(* The types of the pages                                                  *)
(*                                                                         *)
(* The invariants above hold the types of what the pages keep.  What is    *)
(* left are the requests, and what each page records about its past.       *)
(***************************************************************************)
ScheduleArgs == [load |-> {Nil}, save |-> [staff : Staff, days : Weeks]]
Loads == UNION {[part -> Weeks \cup {Nil}] : part \in SUBSET Staff}
ScheduleResults == [load |-> Loads, save |-> {Nil}]
ScheduleTypes == Typed(ScheduleArgs, ScheduleResults) /\ outdated \subseteq Staff

LEMMA ScheduleKinds ==
    /\ DOMAIN ScheduleArgs = {"load", "save"}
    /\ ScheduleArgs["load"] = {Nil} /\ ScheduleArgs["save"] = [staff : Staff, days : Weeks]
    /\ ScheduleResults["load"] = Loads /\ ScheduleResults["save"] = {Nil}
    BY DEF ScheduleArgs, ScheduleResults

LEMMA SaveIsAllowed ==
    ASSUME ScheduleInv, NEW s \in Staff, view.schedules[s] # Nil
    PROVE  SaveRequest(s).arg \in ScheduleArgs["save"] /\ SaveRequest(s) = Request("save", SaveRequest(s).arg)
    <1>1. view.schedules[s] \in Entry
        BY DEF ScheduleInv, ScheduleTyped, ScheduleView
    <1>2. [staff |-> s, days |-> view.schedules[s].days] \in [staff : Staff, days : Weeks]
        BY <1>1 DEF Entry
    <1> QED
        BY <1>2, ScheduleKinds DEF SaveRequest, Request

LEMMA SaveAllTyped ==
    ASSUME ScheduleInv, ScheduleInv', ScheduleTypes, SaveAll
    PROVE  ScheduleTypes'
    <1>1. PICK slot \in [Unsaved -> {c \in Calls : call[c] = Free}] :
              call' = [c \in Calls |-> IF \E s \in Unsaved : slot[s] = c
                                       THEN SaveRequest(CHOOSE s \in Unsaved : slot[s] = c)
                                       ELSE call[c]]
        BY DEF SaveAll
    <1>2. ASSUME NEW c \in Calls PROVE CallAllowed(call'[c], ScheduleArgs, ScheduleResults)
        <2>1. CASE \E s \in Unsaved : slot[s] = c
            <3>1. PICK s \in Unsaved : call'[c] = SaveRequest(s)
                BY <1>1, <2>1
            <3>2. s \in Staff /\ view.schedules[s] # Nil
                BY DEF Unsaved
            <3>3. SaveRequest(s).arg \in ScheduleArgs["save"] /\ call'[c] = Request("save", SaveRequest(s).arg)
                BY <3>1, <3>2, SaveIsAllowed
            <3>4. "save" \in DOMAIN ScheduleArgs
                BY ScheduleKinds
            <3> QED
                BY <3>3, <3>4, RequestIsAllowed, Zenon
        <2>2. CASE ~\E s \in Unsaved : slot[s] = c
            BY <1>1, <2>2 DEF ScheduleTypes, Typed
        <2> QED
            BY <2>1, <2>2
    <1>3. UNCHANGED past
        BY DEF SaveAll
    <1> QED
        BY <1>2, <1>3 DEF ScheduleTypes, Typed, CallAllowed, ScheduleInv, ScheduleTyped, outdated

LEMMA ScheduleTypesStep ==
    ASSUME ScheduleInv, ScheduleInv', ScheduleTypes, [ScheduleNext]_webVars
    PROVE  ScheduleTypes'
    <1> USE DEF ScheduleTypes
    <1>k. UNCHANGED <<call, past>> => ScheduleTypes'
        BY StillTyped DEF outdated
    <1>1. CASE UNCHANGED webVars
        BY <1>1, <1>k DEF webVars
    <1>2. ASSUME NEW s \in Staff, NEW week, Edit(s, week) PROVE ScheduleTypes'
        BY <1>2, StillTyped DEF Edit, outdated
    <1>3. ASSUME NEW s \in Staff, Overview(s) \/ DayRows(s) \/ EditorHeader(s) PROVE ScheduleTypes'
        <2>1. CASE Overview(s)
            BY <2>1, <1>k DEF Overview, Show
        <2>2. CASE DayRows(s)
            BY <2>2, <1>2 DEF DayRows, UpdateDay
        <2>3. CASE \E from \in Staff : CopySchedule(from, s)
            BY <2>3, <1>2 DEF CopySchedule
        <2>4. CASE \E shift \in Shifts : ApplyPresetToWeek(s, shift)
            BY <2>4, <1>2 DEF ApplyPresetToWeek
        <2>5. CASE \E c \in Calls : SaveSchedule(c, s)
            <3>1. PICK c \in Calls : SaveSchedule(c, s)
                BY <2>5
            <3>2. view.schedules[s] # Nil /\ Send(c, "save", SaveRequest(s).arg) /\ UNCHANGED past
                BY <3>1 DEF SaveSchedule, Editing
            <3> QED
                BY <3>2, SaveIsAllowed, ScheduleKinds, SendTyped DEF outdated
        <2> QED
            BY <1>3, <2>1, <2>2, <2>3, <2>4, <2>5 DEF EditorHeader
    <1>4. ASSUME NEW c \in Calls, ScheduleAnswers(c) \/ LoseCall(c) PROVE ScheduleTypes'
        <2>1. CASE ServeSchedules(c)
            <3>1. PICK broken \in SUBSET Staff : Answer(c, [s \in Staff \ broken |-> hours[s]])
                BY <2>1 DEF ServeSchedules
            <3>2. [s \in Staff \ broken |-> hours[s]] \in Loads
                <4> DEFINE part == Staff \ broken
                <4>1. [s \in part |-> hours[s]] \in [part -> Weeks \cup {Nil}]
                    BY DEF ScheduleInv, ScheduleTyped
                <4>2. part \in SUBSET Staff
                    OBVIOUS
                <4> QED
                    BY <4>1, <4>2 DEF Loads
            <3> QED
                BY <2>1, <3>1, <3>2, ScheduleKinds, AnswerTyped DEF ServeSchedules, Keep, outdated
        <2>2. CASE ServeSave(c)
            BY <2>2, ScheduleKinds, AnswerTyped DEF ServeSave, outdated
        <2>3. CASE ReceiveSchedules(c) \/ FailSchedules(c) \/ ReceiveSave(c) \/ FailSave(c)
            <3>1. End(c) /\ outdated' \subseteq Staff
                BY <2>3 DEF ReceiveSchedules, FailSchedules, ReceiveSave, FailSave, outdated
            <3> QED
                BY <3>1, EndTyped
        <2>4. CASE LoseCall(c)
            BY <2>4, LoseTyped DEF LoseCall, Keep, outdated
        <2> QED
            BY <1>4, <2>1, <2>2, <2>3, <2>4 DEF ScheduleAnswers
    <1> QED
        BY <1>1, <1>3, <1>4, SaveAllTyped DEF ScheduleNext

LEMMA ScheduleTypesInit == ScheduleInit => ScheduleTypes
    BY MountTyped, ScheduleKinds DEF ScheduleInit, ScheduleTypes, outdated

LEMMA ScheduleIsTyped == ScheduleInv /\ ScheduleTypes => ScheduleTypeOK
    <1> SUFFICES ASSUME ScheduleInv, ScheduleTypes PROVE ScheduleTypeOK
        OBVIOUS
    <1>1. \A c \in Calls : ScheduleCalls(c)
        <2>1. \A op \in DOMAIN ScheduleArgs : ScheduleResults[op] \subseteq [load |-> Loads, save |-> {}][op] \cup {Nil}
            BY ScheduleKinds
        <2>2. \A c \in Calls : IsCall(call[c], ScheduleArgs, [load |-> Loads, save |-> {}])
            BY <2>1, TypedIsCall DEF ScheduleTypes
        <2> QED
            BY <2>2 DEF ScheduleCalls, ScheduleArgs, Loads
    <1> QED
        BY <1>1 DEF ScheduleInv, ScheduleTyped, ScheduleTypes, ScheduleTypeOK, ScheduleView

LeaveArgs == [leaves |-> {Nil}, leave |-> Persons]
LeaveResults == [leaves |-> Leaves, leave |-> LeaveIds]
LeaveTypes == Typed(LeaveArgs, LeaveResults)

LEMMA LeaveKinds ==
    /\ DOMAIN LeaveArgs = {"leaves", "leave"} /\ LeaveArgs["leaves"] = {Nil} /\ LeaveArgs["leave"] = Persons
    /\ LeaveResults["leaves"] = Leaves /\ LeaveResults["leave"] = LeaveIds
    BY DEF LeaveArgs, LeaveResults

LEMMA LeaveTypesStep ==
    ASSUME LeaveInv, LeaveTypes, [LeaveNext]_webVars
    PROVE  LeaveTypes'
    <1> USE DEF LeaveTypes
    <1>1. CASE UNCHANGED call
        BY <1>1, StillTyped
    <1>2. ASSUME NEW s \in Persons, LeaveForm(s) PROVE UNCHANGED call
        BY <1>2 DEF LeaveForm, Show
    <1>3. ASSUME NEW c \in Calls, AddLeave(c) PROVE LeaveTypes'
        <2>1. view.staffId \in LeaveArgs["leave"] /\ "leave" \in DOMAIN LeaveArgs
            BY <1>3, LeaveKinds DEF AddLeave, LeaveInv, LeaveTyped, LeaveView
        <2> QED
            BY <1>3, <2>1, SendTyped DEF AddLeave
    <1>4. ASSUME NEW c \in Calls, ServeLeaves(c) PROVE LeaveTypes'
        <2>1. PICK broken \in SUBSET Persons : Answer(c, [s \in Persons |-> IF s \in broken THEN {} ELSE absences[s]])
            BY <1>4 DEF ServeLeaves
        <2>2. [s \in Persons |-> IF s \in broken THEN {} ELSE absences[s]] \in LeaveResults["leaves"]
            BY LeaveKinds DEF Leaves, LeaveInv, LeaveTyped
        <2> QED
            BY <1>4, <2>1, <2>2, AnswerTyped DEF ServeLeaves
    <1>5. ASSUME NEW c \in Calls, ServeLeave(c) PROVE LeaveTypes'
        <2>1. PICK id \in LeaveIds : Answer(c, id)
            BY <1>5 DEF ServeLeave
        <2> QED
            BY <1>5, <2>1, LeaveKinds, AnswerTyped DEF ServeLeave
    <1>6. ASSUME NEW c \in Calls, ReceiveLeaves(c) \/ FailLeaves(c) \/ ReceiveLeave(c) \/ FailLeave(c) PROVE LeaveTypes'
        BY <1>6, EndTyped DEF ReceiveLeaves, FailLeaves, ReceiveLeave, FailLeave
    <1>7. ASSUME NEW c \in Calls, LoseCall(c) PROVE LeaveTypes'
        BY <1>7, LoseTyped DEF LoseCall
    <1> QED
        BY <1>1, <1>2, <1>3, <1>4, <1>5, <1>6, <1>7 DEF LeaveNext, LeaveAnswers, webVars

LEMMA LeaveIsTyped ==
    /\ LeaveInit => LeaveTypes
    /\ LeaveInv /\ LeaveTypes => LeaveTypeOK
    <1>1. ASSUME LeaveInit PROVE LeaveTypes
        BY <1>1, MountTyped, LeaveKinds DEF LeaveInit, LeaveTypes
    <1>2. ASSUME LeaveInv, LeaveTypes PROVE LeaveTypeOK
        <2>1. \A c \in Calls : IsCall(call[c], LeaveArgs, LeaveResults)
            BY <1>2, TypedIsCall DEF LeaveTypes
        <2> QED
            BY <1>2, <2>1 DEF LeaveInv, LeaveTyped, LeaveTypeOK, LeaveView, LeaveArgs, LeaveResults, Leaves
    <1> QED
        BY <1>1, <1>2

TillArgs == [catalog |-> {Nil}, checkout |-> Sales]
TillResults == [catalog |-> Catalogs, checkout |-> {Nil}]
TillTypes == Typed(TillArgs, TillResults)

LEMMA TillKinds ==
    /\ DOMAIN TillArgs = {"catalog", "checkout"} /\ TillArgs["catalog"] = {Nil} /\ TillArgs["checkout"] = Sales
    /\ TillResults["catalog"] = Catalogs /\ TillResults["checkout"] = {Nil}
    BY DEF TillArgs, TillResults

LEMMA TillTypesStep ==
    ASSUME TillInv, TillTypes, [TillNext]_webVars
    PROVE  TillTypes'
    <1> USE DEF TillTypes
    <1>1. CASE UNCHANGED call
        BY <1>1, StillTyped
    <1>2. ASSUME NEW g \in Goods, AddToCart(g) \/ CartPanel(g) PROVE UNCHANGED call
        BY <1>2 DEF AddToCart, CartPanel, UpdateQuantity, RemoveItem, SetCart
    <1>3. ASSUME ClearCart \/ OpenCheckout \/ TenderModal \/ NewSale \/ \E tab \in {"services", "products"} : SelectTab(tab)
          PROVE  UNCHANGED call
        BY <1>3 DEF ClearCart, OpenCheckout, TenderModal, NewSale, SelectTab, Show
    <1>4. ASSUME NEW p \in Products, RestockOrSell(p) PROVE UNCHANGED call
        BY <1>4 DEF RestockOrSell
    <1>5. ASSUME NEW c \in Calls, HandleCheckout(c) PROVE TillTypes'
        <2>1. [cart |-> view.cart, tender |-> view.tender] \in TillArgs["checkout"] /\ "checkout" \in DOMAIN TillArgs
            BY TillKinds DEF TillInv, TillTyped, TillView, Sales
        <2> QED
            BY <1>5, <2>1, SendTyped DEF HandleCheckout
    <1>6. ASSUME NEW c \in Calls, ServeCatalog(c) PROVE TillTypes'
        <2>1. PICK services \in BOOLEAN, shown \in {stock, Nil} : Answer(c, [services |-> services, shown |-> shown])
            BY <1>6 DEF ServeCatalog
        <2>2. [services |-> services, shown |-> shown] \in TillResults["catalog"]
            BY <2>1, TillKinds DEF Catalogs, TillInv, TillTyped
        <2> QED
            BY <1>6, <2>1, <2>2, AnswerTyped DEF ServeCatalog
    <1>7. ASSUME NEW c \in Calls, ServeCheckout(c) PROVE TillTypes'
        BY <1>7, TillKinds, AnswerTyped DEF ServeCheckout
    <1>8. ASSUME NEW c \in Calls, RefuseCheckout(c) PROVE TillTypes'
        BY <1>8, RefuseTyped DEF RefuseCheckout
    <1>9. ASSUME NEW c \in Calls, ReceiveCatalog(c) \/ FailCatalog(c) \/ ReceiveCheckout(c) \/ FailCheckout(c) PROVE TillTypes'
        BY <1>9, EndTyped DEF ReceiveCatalog, FailCatalog, ReceiveCheckout, FailCheckout
    <1>a. ASSUME NEW c \in Calls, LoseTillCall(c) PROVE TillTypes'
        BY <1>a, LoseTyped DEF LoseTillCall
    <1> QED
        BY <1>1, <1>2, <1>3, <1>4, <1>5, <1>6, <1>7, <1>8, <1>9, <1>a DEF TillNext, TillAnswers, webVars

LEMMA TillIsTyped ==
    /\ TillInit => TillTypes
    /\ TillInv /\ TillTypes => TillTypeOK
    <1>1. ASSUME TillInit PROVE TillTypes
        BY <1>1, MountTyped, TillKinds DEF TillInit, TillTypes
    <1>2. ASSUME TillInv, TillTypes PROVE TillTypeOK
        <2> DEFINE public == [catalog |-> Catalogs, checkout |-> {}]
        <2>1. \A op \in DOMAIN TillArgs : TillResults[op] \subseteq public[op] \cup {Nil}
            BY TillKinds
        <2>2. \A c \in Calls : IsCall(call[c], TillArgs, public)
            BY <1>2, <2>1, TypedIsCall DEF TillTypes
        <2>3. view \in TillView /\ stock \in [Products -> 0 .. MaxUnits] /\ due \in Quantities /\ meddled \in BOOLEAN
            BY <1>2 DEF TillInv, TillTyped, due, meddled
        <2> QED
            BY <2>2, <2>3 DEF TillTypeOK, TillArgs, Catalogs, Sales
    <1> QED
        BY <1>1, <1>2

HoursArgs == [branches |-> {Nil}, hours |-> Branches, hours_put |-> PutArgs]
HoursResults == [branches |-> {Nil}, hours |-> BranchWeeks, hours_put |-> {Nil}]
HoursTypes == Typed(HoursArgs, HoursResults)

LEMMA HoursKinds ==
    /\ DOMAIN HoursArgs = {"branches", "hours", "hours_put"}
    /\ HoursArgs["branches"] = {Nil} /\ HoursArgs["hours"] = Branches /\ HoursArgs["hours_put"] = PutArgs
    /\ HoursResults["branches"] = {Nil} /\ HoursResults["hours"] = BranchWeeks /\ HoursResults["hours_put"] = {Nil}
    BY DEF HoursArgs, HoursResults

LEMMA HoursTypesStep ==
    ASSUME HoursInv, HoursTypes, [HoursNext]_webVars
    PROVE  HoursTypes'
    <1> USE DEF HoursTypes
    <1>1. CASE UNCHANGED call
        BY <1>1, StillTyped
    <1>2. CASE UpdateHourField
        BY <1>1, <1>2 DEF UpdateHourField, Show
    <1>3. ASSUME NEW c \in Calls, NEW b \in Branches, SelectBranch(c, b) PROVE HoursTypes'
        BY <1>3, HoursKinds, SendTyped DEF SelectBranch
    <1>4. ASSUME NEW c \in Calls, SaveWorkingHours(c) PROVE HoursTypes'
        <2>1. [branch |-> view.selected, week |-> view.hours] \in HoursArgs["hours_put"] /\ "hours_put" \in DOMAIN HoursArgs
            BY <1>4, HoursKinds DEF SaveWorkingHours, HoursInv, HoursTyped, HoursView, PutArgs
        <2> QED
            BY <1>4, <2>1, SendTyped DEF SaveWorkingHours
    <1>5. ASSUME NEW c \in Calls, ServeHours(c) PROVE HoursTypes'
        <2>1. call[c].arg \in Branches
            BY <1>5, ArgsAndData, HoursKinds DEF ServeHours
        <2>2. Filled(call[c].arg, opening[call[c].arg]) \in HoursResults["hours"]
            BY <2>1, HoursKinds DEF Filled, BranchWeeks, HoursInv, HoursTyped
        <2> QED
            BY <1>5, <2>2, AnswerTyped DEF ServeHours
    <1>6. ASSUME NEW c \in Calls, ServeBranches(c) \/ ServeHoursPut(c) PROVE HoursTypes'
        BY <1>6, HoursKinds, AnswerTyped DEF ServeBranches, ServeHoursPut
    <1>7. ASSUME NEW c \in Calls, ReceiveBranches(c) PROVE HoursTypes'
        BY <1>7, HoursKinds, SendTyped, BranchHoursAssumption DEF ReceiveBranches
    <1>8. ASSUME NEW c \in Calls, FailBranches(c) \/ ReceiveHours(c) \/ FailHours(c) \/ EndSaveHours(c) PROVE HoursTypes'
        BY <1>8, EndTyped DEF FailBranches, ReceiveHours, FailHours, EndSaveHours
    <1>9. ASSUME NEW c \in Calls, LoseCall(c) PROVE HoursTypes'
        BY <1>9, LoseTyped DEF LoseCall
    <1> QED
        BY <1>1, <1>2, <1>3, <1>4, <1>5, <1>6, <1>7, <1>8, <1>9 DEF HoursNext, HoursTab, HoursAnswers, webVars

LEMMA HoursAreTyped ==
    /\ HoursInit => HoursTypes
    /\ HoursInv /\ HoursTypes => HoursTypeOK
    <1>1. ASSUME HoursInit PROVE HoursTypes
        BY <1>1, MountTyped, HoursKinds DEF HoursInit, HoursTypes
    <1>2. ASSUME HoursInv, HoursTypes PROVE HoursTypeOK
        <2> DEFINE public == [branches |-> {}, hours |-> BranchWeeks, hours_put |-> {}]
        <2>1. \A op \in DOMAIN HoursArgs : HoursResults[op] \subseteq public[op] \cup {Nil}
            BY HoursKinds
        <2>2. \A c \in Calls : IsCall(call[c], HoursArgs, public)
            BY <1>2, <2>1, TypedIsCall DEF HoursTypes
        <2>3. opening \in [Branches -> BranchWeeks \cup {Nil}] /\ view \in HoursView /\ past \in HoursPast
            BY <1>2 DEF HoursInv, HoursTyped
        <2> QED
            BY <2>2, <2>3 DEF HoursTypeOK, HoursArgs, PutArgs, HoursView, HoursPast
    <1> QED
        BY <1>1, <1>2

FormArgs == [patch |-> Forms, refresh |-> {Nil}, login |-> {Nil}]
FormResults == [patch |-> {Nil}, refresh |-> Forms, login |-> Forms]
FormTypes == Typed(FormArgs, FormResults)

LEMMA FormKinds ==
    /\ DOMAIN FormArgs = {"patch", "refresh", "login"}
    /\ FormArgs["patch"] = Forms /\ FormArgs["refresh"] = {Nil} /\ FormArgs["login"] = {Nil}
    /\ FormResults["patch"] = {Nil} /\ FormResults["refresh"] = Forms /\ FormResults["login"] = Forms
    BY DEF FormArgs, FormResults

LEMMA FormTypesStep ==
    ASSUME SettingsInv, FormTypes, [FormNext]_webVars
    PROVE  FormTypes'
    <1> USE DEF FormTypes
    <1>1. CASE UNCHANGED call
        BY <1>1, StillTyped
    <1>2. ASSUME Revisit \/ \E f \in Fields, text \in Texts : Type(f, text) PROVE UNCHANGED call
        BY <1>2 DEF Revisit, Type
    <1>3. ASSUME NEW c \in Calls, OnSaveGeneral(c) PROVE FormTypes'
        <2>1. view.form \in FormArgs["patch"] /\ "patch" \in DOMAIN FormArgs
            BY FormKinds DEF SettingsInv, FormTyped, FormView
        <2> QED
            BY <1>3, <2>1, SendTyped DEF OnSaveGeneral
    <1>4. ASSUME NEW c \in Calls, ServePatch(c) PROVE FormTypes'
        <2>1. CASE Refuse(c)
            BY <1>4, <2>1, RefuseTyped DEF ServePatch
        <2>2. CASE Answer(c, Nil)
            BY <1>4, <2>2, FormKinds, AnswerTyped DEF ServePatch
        <2> QED
            BY <1>4, <2>1, <2>2 DEF ServePatch
    <1>5. ASSUME NEW c \in Calls, ReceivePatch(c) \/ Login(c) PROVE FormTypes'
        BY <1>5, FormKinds, SendTyped DEF ReceivePatch, Login
    <1>6. ASSUME NEW c \in Calls, ServeRefresh(c) PROVE FormTypes'
        <2>1. stored \in FormResults["refresh"] /\ stored \in FormResults["login"]
            BY FormKinds DEF SettingsInv, FormTyped
        <2> QED
            BY <1>6, <2>1, AnswerTyped DEF ServeRefresh
    <1>7. ASSUME NEW c \in Calls, FailPatch(c) \/ ReceiveRefresh(c) \/ FailRefresh(c) \/ ReceiveLogin(c) \/ FailLogin(c)
          PROVE  FormTypes'
        BY <1>7, EndTyped DEF FailPatch, ReceiveRefresh, FailRefresh, ReceiveLogin, FailLogin
    <1>8. ASSUME NEW c \in Calls, LoseCall(c) PROVE FormTypes'
        BY <1>8, LoseTyped DEF LoseCall
    <1> QED
        BY <1>1, <1>2, <1>3, <1>4, <1>5, <1>6, <1>7, <1>8 DEF FormNext, GeneralTab, FormAnswers, webVars

LEMMA FormIsTyped ==
    /\ FormInit => FormTypes
    /\ SettingsInv /\ FormTypes => FormTypeOK
    <1>1. ASSUME FormInit PROVE FormTypes
        BY <1>1, FreeIsRequest DEF FormInit, FormTypes, Typed, CallAllowed, CallsOK
    <1>2. ASSUME SettingsInv, FormTypes PROVE FormTypeOK
        <2> DEFINE public == [patch |-> {}, refresh |-> Forms, login |-> Forms]
        <2>1. \A op \in DOMAIN FormArgs : FormResults[op] \subseteq public[op] \cup {Nil}
            BY FormKinds
        <2>2. \A c \in Calls : IsCall(call[c], FormArgs, public)
            BY <1>2, <2>1, TypedIsCall DEF FormTypes
        <2>3. stored \in Forms /\ view \in FormView /\ past \in FormPast
            BY <1>2 DEF SettingsInv, FormTyped
        <2> QED
            BY <2>2, <2>3 DEF FormTypeOK, FormArgs, FormView, FormPast
    <1> QED
        BY <1>1, <1>2

PackArgs == [list |-> {Nil}, template |-> {Nil}, redeem |-> [pack : Packs, treat : Treats]]
PackLists == [templates : SUBSET Combos, sold : [Packs -> Sold]]
PackResults == [list |-> PartsOf(PackLists), template |-> {Nil}, redeem |-> {Nil}]
PackServer == [templates : SUBSET Combos, sold : [Packs -> Sold], lines : [Packs -> Bundles], over : [Packs -> BOOLEAN]]

PackTypes == ListTyped(PackArgs, PackResults) /\ server \in PackServer /\ view \in PackView

LEMMA PackKinds ==
    /\ DOMAIN PackArgs = {"list", "template", "redeem"}
    /\ PackArgs["list"] = {Nil} /\ PackArgs["template"] = {Nil} /\ PackArgs["redeem"] = [pack : Packs, treat : Treats]
    /\ PackResults["list"] = PartsOf(PackLists) /\ PackResults["template"] = {Nil} /\ PackResults["redeem"] = {Nil}
    BY DEF PackArgs, PackResults

\* The lines of a draft and of a package are counted from one.
LEMMA DraftHasLines ==
    ASSUME NEW items \in Drafts
    PROVE  /\ items \in Seq(BOOLEAN) /\ Len(items) \in Lines /\ items \in [1 .. Len(items) -> BOOLEAN]
    BY PackageSalesAssumption DEF Drafts, Lines

LEMMA OfLinesIsADraft ==
    ASSUME NEW n \in Lines, NEW items \in [1 .. n -> BOOLEAN]
    PROVE  items \in Drafts
    BY DEF Drafts

LEMMA PackLinesAreLines ==
    ASSUME server \in PackServer, NEW p \in Packs
    PROVE  /\ PackLines(p) \subseteq Lines /\ \A i \in PackLines(p) : server.lines[p][i] \in Treats
    <1>1. server.lines[p] \in Bundles
        BY DEF PackServer
    <1>2. PICK n \in Lines : server.lines[p] \in [1 .. n -> Treats]
        BY <1>1 DEF Bundles
    <1>3. 1 .. n \subseteq Lines
        BY PackageSalesAssumption DEF Lines
    <1> QED
        BY <1>2, <1>3 DEF PackLines

\* Steps of the page that send nothing.
LEMMA PackClicksTyped ==
    ASSUME PackTypes,
           PackHeader \/ PackTabs \/ SellModal \/ \E c \in Calls : CreatePackageModal(c) /\ ~HandleCreateTemplate(c)
    PROVE  PackTypes'
    <1>1. view \in PackView /\ view.items \in Drafts
        BY DEF PackTypes, PackView
    <1>2. ASSUME NEW state \in PackView, Show(state) PROVE PackTypes'
        BY <1>2, ListStillTyped DEF Show, PackTypes
    <1>3. ASSUME NEW b \in BOOLEAN, Show([view EXCEPT !.creating = b]) \/ Show([view EXCEPT !.selling = b]) PROVE PackTypes'
        <2>1. [view EXCEPT !.creating = b] \in PackView /\ [view EXCEPT !.selling = b] \in PackView
            BY <1>1 DEF PackView
        <2> QED
            BY <1>2, <1>3, <2>1
    <1>4. ASSUME NEW tab \in {"templates", "customer_packages"}, Show([view EXCEPT !.tab = tab]) PROVE PackTypes'
        <2>1. [view EXCEPT !.tab = tab] \in PackView
            BY <1>1 DEF PackView
        <2> QED
            BY <1>2, <1>4, <2>1
    <1>5. ASSUME NEW items \in Drafts, Show([view EXCEPT !.items = items]) PROVE PackTypes'
        <2>1. [view EXCEPT !.items = items] \in PackView
            BY <1>1 DEF PackView
        <2> QED
            BY <1>2, <1>5, <2>1
    <1>6. view.items \in Seq(BOOLEAN) /\ Len(view.items) \in Lines /\ view.items \in [1 .. Len(view.items) -> BOOLEAN]
        BY <1>1, DraftHasLines
    <1>7. CASE HandleAddServiceItem
        <2>1. Len(view.items) + 1 \in Lines
            BY <1>6, <1>7, PackageSalesAssumption DEF HandleAddServiceItem, Lines
        <2>2. Append(view.items, FALSE) \in [1 .. Len(view.items) + 1 -> BOOLEAN]
            <3> DEFINE more == Append(view.items, FALSE)
            <3>1. more \in Seq(BOOLEAN) /\ Len(more) = Len(view.items) + 1 /\ Len(view.items) \in Nat
                BY <1>6
            <3> HIDE DEF more
            <3>2. more \in [1 .. Len(more) -> BOOLEAN]
                BY <3>1
            <3> QED
                BY <3>1, <3>2 DEF more
        <2> QED
            BY <1>5, <1>7, <2>1, <2>2, OfLinesIsADraft DEF HandleAddServiceItem
    <1>8. ASSUME NEW i \in Lines, HandleRemoveServiceItem(i) PROVE PackTypes'
        <2> DEFINE rest == [j \in 1 .. Len(view.items) - 1 |-> IF j < i THEN view.items[j] ELSE view.items[j + 1]]
        <2>1. Len(view.items) - 1 \in Lines
            BY <1>6, <1>8, PackageSalesAssumption DEF HandleRemoveServiceItem, Lines
        <2>2. \A j \in 1 .. Len(view.items) - 1 : view.items[j] \in BOOLEAN /\ view.items[j + 1] \in BOOLEAN
            BY <1>6, <2>1 DEF Lines
        <2>3. rest \in [1 .. Len(view.items) - 1 -> BOOLEAN]
            BY <2>2
        <2>4. rest \in Drafts
            BY <2>1, <2>3, OfLinesIsADraft
        <2>5. Show([view EXCEPT !.items = rest])
            BY <1>8 DEF HandleRemoveServiceItem
        <2> QED
            BY <1>5, <2>4, <2>5
    <1>9. ASSUME NEW i \in Lines, ChooseService(i) PROVE PackTypes'
        <2>1. [view.items EXCEPT ![i] = TRUE] \in [1 .. Len(view.items) -> BOOLEAN]
            BY <1>6
        <2>2. [view.items EXCEPT ![i] = TRUE] \in Drafts
            BY <1>6, <2>1, OfLinesIsADraft
        <2> QED
            BY <1>5, <1>9, <2>2 DEF ChooseService
    <1> QED
        BY <1>3, <1>4, <1>7, <1>8, <1>9 DEF PackHeader, PackTabs, SellModal, CreatePackageModal

\* The list of the templates and of the sold packages, all of it or a part.
LEMMA PackRowsAreTyped ==
    ASSUME NEW rows \in [templates : SUBSET Combos, sold : SoldRows], NEW data \in PartsOf(PackLists)
    PROVE  [k \in DOMAIN rows |-> IF k \in DOMAIN data THEN data[k] ELSE rows[k]] \in [templates : SUBSET Combos, sold : SoldRows]
    <1> DEFINE new == [k \in DOMAIN rows |-> IF k \in DOMAIN data THEN data[k] ELSE rows[k]]
    <1>0. PICK r \in PackLists : \E part \in SUBSET DOMAIN r : data = [k \in part |-> r[k]]
        BY DEF PartsOf
    <1>1. PICK part \in SUBSET DOMAIN r : data = [k \in part |-> r[k]]
        BY <1>0
    <1>2. r = [templates |-> r.templates, sold |-> r.sold] /\ r.templates \in SUBSET Combos /\ r.sold \in SoldRows
        BY DEF PackLists, SoldRows
    <1>3. rows = [templates |-> rows.templates, sold |-> rows.sold] /\ rows.templates \in SUBSET Combos /\ rows.sold \in SoldRows
        OBVIOUS
    <1>4. DOMAIN rows = {"templates", "sold"}
        BY <1>3
    <1>5. ("templates" \in DOMAIN data => data["templates"] = r.templates) /\ ("sold" \in DOMAIN data => data["sold"] = r.sold)
        BY <1>1
    <1>6. new["templates"] \in SUBSET Combos /\ new["sold"] \in SoldRows
        BY <1>2, <1>3, <1>4, <1>5
    <1>7. new = [templates |-> new["templates"], sold |-> new["sold"]]
        BY <1>4
    <1> QED
        BY <1>6, <1>7

LEMMA PackListTyped ==
    ASSUME PackTypes, NEW c \in Calls,
           \/ AnswerParts(c, PackRows) \/ ReceiveParts(c) \/ FailList(c, view.rows)
           \/ ReceiveTemplate(c) \/ ReceiveRedeem(c) \/ LoseInList(c)
           \/ FailChange(c, "template", view) \/ FailChange(c, "redeem", view)
    PROVE  PackTypes'
    <1>1. view \in PackView /\ view.rows \in [templates : SUBSET Combos, sold : SoldRows]
        BY DEF PackTypes, PackView
    <1>2. UNCHANGED server
        BY DEF AnswerParts, ReceiveParts, ReceiveRows, SettleList, FailList, ReceiveTemplate, ReceiveRedeem, Reload, LoseInList, FailChange
    <1>3. "list" \in DOMAIN PackArgs /\ Nil \in PackArgs["list"]
        BY PackKinds
    <1>4. ASSUME NEW rows \in [templates : SUBSET Combos, sold : SoldRows], NEW loading \in BOOLEAN
          PROVE  [view EXCEPT !.rows = rows, !.loading = loading] \in PackView
        BY <1>1 DEF PackView
    <1>5. CASE AnswerParts(c, PackRows)
        <2>1. PackRows \in PackLists /\ DOMAIN PackRows = {"templates", "sold"}
            BY DEF PackTypes, PackServer, PackRows, PackLists, sold
        <2>2. \A part \in SUBSET DOMAIN PackRows : [k \in part |-> PackRows[k]] \in PackResults["list"]
            BY <2>1, PartIsOf, PackKinds
        <2>3. ListTyped(PackArgs, PackResults)'
            BY <1>5, <2>2, AnswerPartsTyped DEF PackTypes
        <2> QED
            BY <1>2, <1>5, <2>3 DEF PackTypes, AnswerParts
    <1>6. CASE ReceiveParts(c)
        <2> DEFINE rows == [k \in DOMAIN view.rows |-> IF k \in DOMAIN call[c].data THEN call[c].data[k] ELSE view.rows[k]]
        <2>1. ReceiveRows(c, rows) /\ Stands(c, "list", "served") /\ view' = [view EXCEPT !.rows = rows, !.loading = FALSE]
            BY <1>6 DEF ReceiveParts, ReceiveRows
        <2>2. call[c].data \in PartsOf(PackLists)
            BY <2>1, ArgsAndData, PackKinds DEF PackTypes, ListTyped
        <2>3. rows \in [templates : SUBSET Combos, sold : SoldRows]
            BY <1>1, <2>2, PackRowsAreTyped
        <2> HIDE DEF rows
        <2>4. view' \in PackView
            BY <1>4, <2>1, <2>3
        <2>5. ListTyped(PackArgs, PackResults)'
            BY <2>1, SettleTyped DEF PackTypes
        <2> QED
            BY <1>2, <2>4, <2>5 DEF PackTypes
    <1>7. CASE FailList(c, view.rows)
        <2>1. view' \in PackView
            BY <1>1, <1>4, <1>7 DEF FailList
        <2>2. ListTyped(PackArgs, PackResults)'
            BY <1>7, SettleTyped DEF PackTypes
        <2> QED
            BY <1>2, <2>1, <2>2 DEF PackTypes
    <1>8. ASSUME NEW state \in PackView, Reload(c, Nil, state) PROVE PackTypes'
        <2>1. view' \in PackView
            BY <1>8 DEF Reload, PackView
        <2>2. ListTyped(PackArgs, PackResults)'
            BY <1>3, <1>8, LoadTyped DEF PackTypes
        <2> QED
            BY <1>2, <2>1, <2>2 DEF PackTypes
    <1>9. [view EXCEPT !.creating = FALSE] \in PackView
        BY <1>1 DEF PackView
    <1>a. CASE FailChange(c, "template", view) \/ FailChange(c, "redeem", view)
        <2>1. ListTyped(PackArgs, PackResults)'
            BY <1>a, SettleTyped DEF PackTypes
        <2> QED
            BY <1>1, <1>2, <1>a, <2>1 DEF PackTypes, FailChange
    <1>b. CASE LoseInList(c)
        <2>1. ListTyped(PackArgs, PackResults)'
            BY <1>b, LoseInListTyped DEF PackTypes
        <2> QED
            BY <1>1, <1>2, <1>b, <2>1 DEF PackTypes, LoseInList
    <1> QED
        BY <1>1, <1>5, <1>6, <1>7, <1>8, <1>9, <1>a, <1>b DEF ReceiveTemplate, ReceiveRedeem

\* The first line with a session left has a service.
LEMMA AskedIsATreat ==
    ASSUME PackTypes, NEW p \in Packs, Redeemable(p)
    PROVE  Asked(p) \in Treats
    <1> DEFINE left == Available(p, view.rows.sold[p].used)
    <1>1. PackLines(p) \subseteq Lines /\ \A i \in PackLines(p) : server.lines[p][i] \in Treats
        BY PackLinesAreLines DEF PackTypes
    <1>2. left \in SUBSET (1 .. MaxLines) /\ left # {} /\ MaxLines \in Nat
        BY <1>1, PackageSalesAssumption DEF Available, Redeemable, Lines
    <1>3. \E i \in left : \A j \in left : i <= j
        BY <1>2, SmallestOf
    <1>4. FirstAvailable(p, view.rows.sold[p].used) \in left
        BY <1>3 DEF FirstAvailable
    <1> QED
        BY <1>1, <1>4 DEF Asked, Available

LEMMA PackChangeTyped ==
    ASSUME PackTypes, NEW c \in Calls,
           \/ HandleCreateTemplate(c) \/ ServeTemplate(c) \/ ServeRedeem(c)
           \/ \E p \in Packs : HandleRedeemSession(c, p)
    PROVE  PackTypes'
    <1>1. CASE HandleCreateTemplate(c)
        <2>1. Typed(PackArgs, PackResults)'
            BY <1>1, PackKinds, SendTyped DEF HandleCreateTemplate, PackTypes, ListTyped
        <2> QED
            BY <1>1, <2>1 DEF HandleCreateTemplate, Keep, PackTypes, ListTyped, ListPast
    <1>2. ASSUME NEW p \in Packs, HandleRedeemSession(c, p) PROVE PackTypes'
        <2>1. Redeemable(p) /\ Send(c, "redeem", [pack |-> p, treat |-> Asked(p)]) /\ UNCHANGED <<view, server, past>>
            BY <1>2 DEF HandleRedeemSession, Keep
        <2>2. [pack |-> p, treat |-> Asked(p)] \in PackArgs["redeem"] /\ "redeem" \in DOMAIN PackArgs
            BY <2>1, AskedIsATreat, PackKinds
        <2>3. Typed(PackArgs, PackResults)'
            BY <2>1, <2>2, SendTyped DEF PackTypes, ListTyped
        <2> QED
            BY <2>1, <2>3 DEF PackTypes, ListTyped, ListPast
    <1>3. CASE ServeTemplate(c)
        <2>1. Typed(PackArgs, PackResults)'
            BY <1>3, PackKinds, AnswerTyped DEF ServeTemplate, PackTypes, ListTyped
        <2>2. server' \in PackServer
            BY <1>3 DEF ServeTemplate, PackTypes, PackServer
        <2> QED
            BY <1>3, <2>1, <2>2 DEF ServeTemplate, PackTypes, ListTyped, ListPast
    <1>4. CASE ServeRedeem(c)
        <2> DEFINE p == call[c].arg.pack
        <2>1. p \in Packs
            <3>0. Stands(c, "redeem", "sent") /\ Typed(PackArgs, PackResults) /\ "sent" # "free"
                BY <1>4 DEF ServeRedeem, PackTypes, ListTyped
            <3>1. call[c].arg \in PackArgs["redeem"]
                BY <3>0, ArgsAndData
            <3> QED
                BY <3>1, PackKinds
        <2> HIDE DEF p
        <2>2. UNCHANGED <<view, past>> /\ Stands(c, "redeem", "sent")
            BY <1>4 DEF ServeRedeem
        <2>3. PICK i \in PackLines(p) :
                  \/ /\ Answer(c, Nil)
                     /\ server' = [server EXCEPT !.sold[p] =
                                      [used |-> [sold[p].used EXCEPT ![i] = 1],
                                       active |-> \E j \in PackLines(p) \ {i} : sold[p].used[j] = 0]]
                  \/ Refuse(c) /\ UNCHANGED server
            BY <1>4 DEF ServeRedeem, LinesFor, p
        <2>4. CASE Refuse(c) /\ UNCHANGED server
            <3>1. Typed(PackArgs, PackResults)'
                BY <2>2, <2>4, RefuseTyped DEF PackTypes, ListTyped
            <3> QED
                BY <2>2, <2>4, <3>1 DEF PackTypes, ListTyped, ListPast
        <2>5. CASE /\ Answer(c, Nil)
                   /\ server' = [server EXCEPT !.sold[p] =
                                    [used |-> [sold[p].used EXCEPT ![i] = 1],
                                     active |-> \E j \in PackLines(p) \ {i} : sold[p].used[j] = 0]]
            <3>1. Typed(PackArgs, PackResults)'
                BY <2>2, <2>5, PackKinds, AnswerTyped DEF PackTypes, ListTyped
            <3> DEFINE row == [used |-> [sold[p].used EXCEPT ![i] = 1],
                               active |-> \E j \in PackLines(p) \ {i} : sold[p].used[j] = 0]
            <3>2. sold \in [Packs -> Sold] /\ i \in Lines
                BY <2>1, PackLinesAreLines DEF PackTypes, PackServer, sold
            <3>3. [sold[p].used EXCEPT ![i] = 1] \in [Lines -> 0 .. 1]
                BY <2>1, <3>2 DEF Sold
            <3>4. (\E j \in PackLines(p) \ {i} : sold[p].used[j] = 0) \in BOOLEAN
                OBVIOUS
            <3>5. row \in Sold
                BY <3>3, <3>4 DEF Sold
            <3>6. server' = [server EXCEPT !.sold[p] = row]
                BY <2>5
            <3> HIDE DEF row
            <3>7. server' \in PackServer
                BY <2>1, <3>5, <3>6 DEF PackTypes, PackServer
            <3> QED
                BY <2>2, <3>1, <3>7 DEF PackTypes, ListTyped, ListPast
        <2> QED
            BY <2>3, <2>4, <2>5
    <1> QED
        BY <1>1, <1>2, <1>3, <1>4

LEMMA PackTypesStep ==
    ASSUME PackTypes, [PackNext]_webVars
    PROVE  PackTypes'
    <1>1. CASE UNCHANGED webVars
        BY <1>1, ListStillTyped DEF webVars, PackTypes
    <1>2. ASSUME NEW c \in Calls, CreatePackageModal(c) PROVE PackTypes'
        BY <1>2, PackClicksTyped, PackChangeTyped
    <1>3. ASSUME NEW c \in Calls, PackAnswers(c) PROVE PackTypes'
        BY <1>3, PackListTyped, PackChangeTyped DEF PackAnswers
    <1> QED
        BY <1>1, <1>2, <1>3, PackClicksTyped, PackChangeTyped, PackListTyped DEF PackNext

LEMMA PackIsTyped ==
    /\ PackInit => PackTypes
    /\ page = "packages" /\ PackTypes => PackTypeOK
    <1>1. ASSUME PackInit PROVE PackTypes
        <2>1. ListTyped(PackArgs, PackResults)
            BY <1>1, PackKinds, MountListTyped DEF PackInit
        <2>2. server \in PackServer
            <3>1. Unused \in Sold
                BY DEF Unused, Sold
            <3>2. [p \in Packs |-> Unused] \in [Packs -> Sold]
                BY <3>1
            <3> QED
                BY <1>1, <3>2 DEF PackInit, PackServer
        <2>3. view \in PackView
            <3> DEFINE draft == <<FALSE>>
            <3>0. draft \in Seq(BOOLEAN) /\ Len(draft) = 1
                OBVIOUS
            <3> HIDE DEF draft
            <3>1. draft \in [1 .. 1 -> BOOLEAN] /\ 1 \in Lines
                BY <3>0, PackageSalesAssumption DEF Lines
            <3>2. draft \in Drafts
                BY <3>1, OfLinesIsADraft
            <3>3. [p \in {} |-> Nil] \in SoldRows
                BY DEF SoldRows
            <3> QED
                BY <1>1, <3>2, <3>3 DEF PackInit, PackView, draft
        <2> QED
            BY <2>1, <2>2, <2>3 DEF PackTypes
    <1>2. ASSUME PackTypes PROVE PackTypeOK
        <2> DEFINE public == [list |-> PartsOf(PackLists), template |-> {}, redeem |-> {}]
        <2>1. \A op \in DOMAIN PackArgs : PackResults[op] \subseteq public[op] \cup {Nil}
            BY PackKinds
        <2>2. \A c \in Calls : IsCall(call[c], PackArgs, public)
            BY <1>2, <2>1, TypedIsCall DEF PackTypes, ListTyped
        <2>3. server \in PackServer /\ view \in PackView /\ past \in ListPast
            BY <1>2 DEF PackTypes, ListTyped
        <2> QED
            BY <2>2, <2>3 DEF PackTypeOK, PackArgs, PackLists, PackServer
    <1> QED
        BY <1>1, <1>2

SubscriptionArgs ==
    [list |-> {Nil}, order |-> Purchases, script |-> OrderedPurchases, window |-> OrderedPurchases,
     verify |-> OrderedPurchases, refresh |-> {Nil}]
SubscriptionResults ==
    [list |-> PartsOf(PlanRows), order |-> Orders, script |-> {Nil}, window |-> {Nil}, verify |-> Purchases, refresh |-> {Nil}]

SubscriptionTypes ==
    ListTyped(SubscriptionArgs, SubscriptionResults) /\ server \in PlanServer /\ view \in SubscriptionView

LEMMA SubscriptionKinds ==
    /\ DOMAIN SubscriptionArgs = {"list", "order", "script", "window", "verify", "refresh"}
    /\ SubscriptionArgs["list"] = {Nil} /\ SubscriptionArgs["order"] = Purchases /\ SubscriptionArgs["refresh"] = {Nil}
    /\ SubscriptionArgs["script"] = OrderedPurchases /\ SubscriptionArgs["window"] = OrderedPurchases
    /\ SubscriptionArgs["verify"] = OrderedPurchases
    /\ SubscriptionResults["list"] = PartsOf(PlanRows) /\ SubscriptionResults["order"] = Orders
    /\ SubscriptionResults["script"] = {Nil} /\ SubscriptionResults["window"] = {Nil}
    /\ SubscriptionResults["verify"] = Purchases /\ SubscriptionResults["refresh"] = {Nil}
    BY DEF SubscriptionArgs, SubscriptionResults

\* What is loaded of the plans: both lists, or the plans alone.
LEMMA CurrentPartsAreTyped ==
    ASSUME SubscriptionTypes, NEW part \in SUBSET DOMAIN CurrentLists
    PROVE  [k \in part |-> CurrentLists[k]] \in SubscriptionResults["list"]
    <1>1. active \in [Orders -> Purchases \cup {Nil}]
        BY DEF SubscriptionTypes, PlanServer, active
    <1>2. ASSUME NEW current \in Purchases \cup {Nil}, CurrentLists = [plans |-> PlanIds, current |-> current]
          PROVE  [k \in part |-> CurrentLists[k]] \in PartsOf(PlanRows)
        <2>1. CurrentLists \in PlanRows
            BY <1>2 DEF PlanRows
        <2> QED
            BY <2>1, PartIsOf
    <1>3. CASE ActiveOrders = {}
        <2>0. Cardinality(ActiveOrders) # 1
            BY <1>3, FS_EmptySet
        <2>1. CurrentLists = [plans |-> PlanIds, current |-> Nil]
            BY <1>3, <2>0 DEF CurrentLists
        <2> QED
            BY <1>2, <2>1, SubscriptionKinds
    <1>4. CASE ActiveOrders # {} /\ Cardinality(ActiveOrders) = 1
        <2> DEFINE o == CHOOSE o \in ActiveOrders : TRUE
        <2>1. CurrentLists = [plans |-> PlanIds, current |-> active[o]]
            BY <1>4 DEF CurrentLists
        <2>2. o \in Orders
            BY <1>4 DEF ActiveOrders
        <2> HIDE DEF o
        <2> QED
            BY <1>1, <1>2, <2>1, <2>2, SubscriptionKinds
    <1>5. CASE ActiveOrders # {} /\ Cardinality(ActiveOrders) # 1
        <2> DEFINE r == [plans |-> PlanIds, current |-> Nil]
        <2>1. CurrentLists = [plans |-> PlanIds]
            BY <1>5 DEF CurrentLists
        <2>2. part \in SUBSET DOMAIN r /\ part \subseteq {"plans"} /\ r \in PlanRows
            BY <2>1 DEF PlanRows
        <2>3. [k \in part |-> CurrentLists[k]] = [k \in part |-> r[k]]
            BY <2>1, <2>2
        <2> HIDE DEF r
        <2>4. [k \in part |-> r[k]] \in PartsOf(PlanRows)
            BY <2>2, PartIsOf
        <2> QED
            BY <2>3, <2>4, SubscriptionKinds
    <1> QED
        BY <1>3, <1>4, <1>5

LEMMA PlanRowsAreTyped ==
    ASSUME NEW rows \in PlanRows, NEW data \in PartsOf(PlanRows)
    PROVE  [k \in DOMAIN rows |-> IF k \in DOMAIN data THEN data[k] ELSE rows[k]] \in PlanRows
    <1> DEFINE new == [k \in DOMAIN rows |-> IF k \in DOMAIN data THEN data[k] ELSE rows[k]]
    <1>0. PICK r \in PlanRows : \E part \in SUBSET DOMAIN r : data = [k \in part |-> r[k]]
        BY DEF PartsOf
    <1>1. PICK part \in SUBSET DOMAIN r : data = [k \in part |-> r[k]]
        BY <1>0
    <1>2. r = [plans |-> r.plans, current |-> r.current] /\ r.plans \in SUBSET PlanIds /\ r.current \in Purchases \cup {Nil}
        BY DEF PlanRows
    <1>3. rows = [plans |-> rows.plans, current |-> rows.current] /\ rows.plans \in SUBSET PlanIds /\ rows.current \in Purchases \cup {Nil}
        BY DEF PlanRows
    <1>4. DOMAIN rows = {"plans", "current"}
        BY <1>3
    <1>5. ("plans" \in DOMAIN data => data["plans"] = r.plans) /\ ("current" \in DOMAIN data => data["current"] = r.current)
        BY <1>1
    <1>6. new["plans"] \in SUBSET PlanIds /\ new["current"] \in Purchases \cup {Nil}
        BY <1>2, <1>3, <1>4, <1>5
    <1>7. new = [plans |-> new["plans"], current |-> new["current"]]
        BY <1>4
    <1> QED
        BY <1>6, <1>7 DEF PlanRows

LEMMA PlansListTyped ==
    ASSUME SubscriptionTypes, NEW c \in Calls,
           PlansLoad(c) \/ FailList(c, view.rows) \/ Reopen(c) \/ LoseInList(c)
    PROVE  SubscriptionTypes'
    <1> DEFINE Listed == ListTyped(SubscriptionArgs, SubscriptionResults)
    <1>1. view \in SubscriptionView /\ view.rows \in PlanRows /\ Listed /\ server \in PlanServer
        BY DEF SubscriptionTypes, SubscriptionView
    <1>2. UNCHANGED server
        BY DEF PlansLoad, AnswerParts, ReceiveParts, ReceiveRows, SettleList, FailList, Reopen, LoadList, LoseInList
    <1>3. ASSUME NEW rows \in PlanRows, NEW loading \in BOOLEAN
          PROVE  [view EXCEPT !.rows = rows, !.loading = loading] \in SubscriptionView
        BY <1>1 DEF SubscriptionView
    <1>4. CASE AnswerParts(c, CurrentLists)
        <2>1. Listed'
            BY <1>1, <1>4, CurrentPartsAreTyped, AnswerPartsTyped
        <2> QED
            BY <1>1, <1>2, <1>4, <2>1 DEF SubscriptionTypes, AnswerParts
    <1>5. CASE ReceiveParts(c)
        <2> DEFINE rows == [k \in DOMAIN view.rows |-> IF k \in DOMAIN call[c].data THEN call[c].data[k] ELSE view.rows[k]]
        <2>1. ReceiveRows(c, rows) /\ Stands(c, "list", "served") /\ view' = [view EXCEPT !.rows = rows, !.loading = FALSE]
            BY <1>5 DEF ReceiveParts, ReceiveRows
        <2>2. call[c].data \in PartsOf(PlanRows)
            BY <1>1, <2>1, ArgsAndData, SubscriptionKinds DEF ListTyped
        <2>3. rows \in PlanRows
            BY <1>1, <2>2, PlanRowsAreTyped
        <2> HIDE DEF rows
        <2>4. view' \in SubscriptionView
            BY <1>3, <2>1, <2>3
        <2>5. Listed'
            BY <1>1, <2>1, SettleTyped
        <2> QED
            BY <1>1, <1>2, <2>4, <2>5 DEF SubscriptionTypes
    <1>6. CASE FailList(c, view.rows)
        <2>1. view' \in SubscriptionView
            BY <1>1, <1>3, <1>6 DEF FailList
        <2>2. Listed'
            BY <1>1, <1>6, SettleTyped
        <2> QED
            BY <1>1, <1>2, <2>1, <2>2 DEF SubscriptionTypes
    <1>7. CASE Reopen(c)
        <2>1. LoadList(c, Opening) /\ Opening.key = Nil /\ Opening \in SubscriptionView
            BY <1>7 DEF Reopen, Opening, SubscriptionView, NothingLoaded, PlanRows, Periods
        <2>2. view' \in SubscriptionView
            BY <2>1 DEF LoadList, SubscriptionView
        <2>3. Listed'
            BY <1>1, <2>1, SubscriptionKinds, LoadTyped
        <2> QED
            BY <1>1, <1>2, <2>2, <2>3 DEF SubscriptionTypes
    <1>8. CASE LoseInList(c)
        <2>1. Listed'
            BY <1>1, <1>8, LoseInListTyped
        <2> QED
            BY <1>1, <1>2, <1>8, <2>1 DEF SubscriptionTypes, LoseInList
    <1> QED
        BY <1>4, <1>5, <1>6, <1>7, <1>8 DEF PlansLoad

LEMMA ButtonsTyped ==
    ASSUME SubscriptionTypes, BillingToggle \/ \E c \in Calls : PricingCards(c)
    PROVE  SubscriptionTypes'
    <1>1. CASE BillingToggle
        <2>1. view' \in SubscriptionView
            BY <1>1 DEF BillingToggle, Show, SubscriptionTypes, SubscriptionView, Periods
        <2> QED
            BY <1>1, <2>1, ListStillTyped DEF BillingToggle, Show, SubscriptionTypes
    <1>2. ASSUME NEW c \in Calls, NEW plan \in PlanIds, HandleSelectPlan(c, plan) PROVE SubscriptionTypes'
        <2>1. [plan |-> plan, cycle |-> view.cycle] \in SubscriptionArgs["order"] /\ "order" \in DOMAIN SubscriptionArgs
            BY SubscriptionKinds DEF Purchases, SubscriptionTypes, SubscriptionView
        <2>2. Typed(SubscriptionArgs, SubscriptionResults)'
            BY <1>2, <2>1, SendTyped DEF HandleSelectPlan, SubscriptionTypes, ListTyped
        <2>3. view' \in SubscriptionView
            BY <1>2 DEF HandleSelectPlan, SubscriptionTypes, SubscriptionView
        <2> QED
            BY <1>2, <2>2, <2>3 DEF HandleSelectPlan, SubscriptionTypes, ListTyped, ListPast
    <1> QED
        BY <1>1, <1>2 DEF PricingCards

\* A request of a checkout is answered or goes on, and what the page shows changes
\* with its rows of the plans.
LEMMA CheckoutTyped ==
    ASSUME SubscriptionTypes, NEW c \in Calls, CheckoutSteps(c)
    PROVE  SubscriptionTypes'
    <1> DEFINE Asks == Typed(SubscriptionArgs, SubscriptionResults)
    <1>1. Asks /\ past \in ListPast /\ server \in PlanServer /\ view \in SubscriptionView
        BY DEF SubscriptionTypes, ListTyped
    <1>2. ASSUME Asks', past' \in ListPast, server' \in PlanServer, view' \in SubscriptionView PROVE SubscriptionTypes'
        BY <1>2 DEF SubscriptionTypes, ListTyped, ListPast, PlanServer
    <1>3. \A op, step : Stands(c, op, step) /\ step # "free" =>
              /\ op \in DOMAIN SubscriptionArgs /\ call[c].arg \in SubscriptionArgs[op]
              /\ step = "served" => call[c].data \in SubscriptionResults[op]
        BY <1>1, ArgsAndData
    <1> HIDE DEF Asks
    <1>4. ASSUME NEW op \in DOMAIN SubscriptionArgs, NEW arg \in SubscriptionArgs[op], Then(c, op, arg) PROVE Asks'
        BY <1>1, <1>4, SendTyped DEF Asks
    <1>5. ASSUME NEW op, Stands(c, op, "sent"), NEW data, op \in DOMAIN SubscriptionArgs => data \in SubscriptionResults[op],
                 Answer(c, data)
          PROVE  Asks'
        BY <1>1, <1>5, AnswerTyped DEF Asks
    <1>6. End(c) => Asks'
        BY <1>1, EndTyped DEF Asks
    <1>7. [view EXCEPT !.upgrading = Nil] \in SubscriptionView
        BY <1>1 DEF SubscriptionView
    <1>a. CASE ServeOrder(c)
        <2>1. NewOrder \in Orders /\ server.order[NewOrder] = Nil /\ Stands(c, "order", "sent") /\ Answer(c, NewOrder)
            BY <1>a DEF ServeOrder, NewOrder
        <2>2. call[c].arg \in Purchases
            BY <1>3, <2>1, SubscriptionKinds
        <2>3. server' \in PlanServer
            BY <1>1, <1>a, <2>1, <2>2 DEF ServeOrder, PlanServer
        <2>4. Asks'
            BY <1>5, <2>1, SubscriptionKinds
        <2> QED
            BY <1>1, <1>2, <1>a, <2>3, <2>4 DEF ServeOrder
    <1>b. CASE LoadRazorpayScript(c)
        <2> DEFINE checkout == [plan |-> call[c].arg.plan, cycle |-> call[c].arg.cycle, order |-> call[c].data]
        <2>1. Stands(c, "order", "served") /\ Then(c, "script", checkout) /\ Keep
            BY <1>b DEF LoadRazorpayScript, GoOn
        <2>2. call[c].arg \in Purchases /\ call[c].data \in Orders
            BY <1>3, <2>1, SubscriptionKinds
        <2>3. checkout \in OrderedPurchases
            BY <2>2 DEF Purchases, OrderedPurchases
        <2> HIDE DEF checkout
        <2>4. Asks'
            BY <1>4, <2>1, <2>3, SubscriptionKinds
        <2> QED
            BY <1>1, <1>2, <2>1, <2>4 DEF Keep
    <1>c. CASE ScriptLoads(c) \/ ServeRefreshed(c)
        <2>1. Asks'
            BY <1>5, <1>c, SubscriptionKinds DEF ScriptLoads, ServeRefreshed
        <2> QED
            BY <1>1, <1>2, <1>c, <2>1 DEF ScriptLoads, ServeRefreshed, Keep
    <1>8. ASSUME NEW checkout \in OrderedPurchases, Verify(c, checkout) PROVE SubscriptionTypes'
        <2>1. Asks'
            BY <1>4, <1>8, SubscriptionKinds DEF Verify
        <2>2. past' = [past EXCEPT !.mixed = past.mixed \/ Pending("verify") # {}] /\ UNCHANGED <<view, server>>
            BY <1>8 DEF Verify
        <2>3. (past.mixed \/ Pending("verify") # {}) \in BOOLEAN
            OBVIOUS
        <2>4. past' \in ListPast
            BY <1>1, <2>2, <2>3, HistoryIsTyped
        <2> QED
            BY <1>1, <1>2, <2>1, <2>2, <2>4
    <1>d. CASE OpenWindow(c)
        <2>1. CASE call[c].op = "script" /\ call[c].step \in {"served", "failed"} /\ Verify(c, call[c].arg)
            <3>1. Stands(c, "script", "served") \/ Stands(c, "script", "failed")
                BY <2>1 DEF Stands
            <3>2. call[c].arg \in OrderedPurchases
                BY <1>3, <3>1, SubscriptionKinds
            <3> QED
                BY <1>8, <2>1, <3>2
        <2>2. CASE GoOn(c, "script", "window", call[c].arg)
            <3>1. call[c].arg \in OrderedPurchases
                BY <1>3, <2>2, SubscriptionKinds DEF GoOn
            <3>2. Asks'
                BY <1>4, <2>2, <3>1, SubscriptionKinds DEF GoOn
            <3> QED
                BY <1>1, <1>2, <2>2, <3>2 DEF GoOn, Keep
        <2> QED
            BY <1>d, <2>1, <2>2 DEF OpenWindow
    <1>e. CASE Pay(c)
        <2>1. Asks'
            BY <1>5, <1>e, SubscriptionKinds DEF Pay
        <2>2. call[c].arg \in OrderedPurchases
            BY <1>3, <1>e, SubscriptionKinds DEF Pay
        <2>3. server' \in PlanServer
            BY <1>1, <1>e, <2>2 DEF Pay, PlanServer, OrderedPurchases
        <2> QED
            BY <1>1, <1>2, <1>e, <2>1, <2>3 DEF Pay
    <1>f. CASE Paid(c)
        BY <1>3, <1>8, <1>f, SubscriptionKinds DEF Paid
    <1>g. CASE Dismiss(c) \/ FinishCheckout(c)
        BY <1>1, <1>2, <1>6, <1>7, <1>g DEF Dismiss, FinishCheckout
    <1>h. CASE ServeVerify(c)
        <2>1. call[c].arg \in OrderedPurchases /\ Stands(c, "verify", "sent") /\ UNCHANGED <<view, past>>
            BY <1>3, <1>h, SubscriptionKinds DEF ServeVerify
        <2> DEFINE bought == Bought(call[c].arg)
        <2>2. bought \in Purchases /\ bought.plan \in PlanIds /\ call[c].arg.order \in Orders
            BY <2>1 DEF Bought, OrderedPurchases, Purchases
        <2>3. CASE Refuse(c) /\ UNCHANGED server
            <3>1. Asks'
                BY <1>1, <2>1, <2>3, RefuseTyped DEF Asks
            <3> QED
                BY <1>1, <1>2, <2>1, <2>3, <3>1
        <2>4. CASE Answer(c, bought) /\ server' = [server EXCEPT !.active[call[c].arg.order] = bought, !.plan = bought.plan]
            <3> HIDE DEF bought
            <3>1. Asks'
                BY <1>5, <2>1, <2>2, <2>4, SubscriptionKinds
            <3>2. server' \in PlanServer
                BY <1>1, <2>2, <2>4 DEF PlanServer
            <3> QED
                BY <1>1, <1>2, <2>1, <3>1, <3>2
        <2> QED
            BY <1>h, <2>3, <2>4 DEF ServeVerify
    <1>i. CASE ReceiveVerify(c)
        <2>1. call[c].data \in Purchases
            BY <1>3, <1>i, SubscriptionKinds DEF ReceiveVerify
        <2>2. view' \in SubscriptionView
            BY <1>1, <1>i, <2>1 DEF ReceiveVerify, SubscriptionView, PlanRows
        <2>3. Asks'
            BY <1>4, <1>i, SubscriptionKinds DEF ReceiveVerify
        <2> QED
            BY <1>1, <1>2, <1>i, <2>2, <2>3 DEF ReceiveVerify
    <1> QED
        BY <1>a, <1>b, <1>c, <1>d, <1>e, <1>f, <1>g, <1>h, <1>i DEF CheckoutSteps

LEMMA SubscriptionTypesStep ==
    ASSUME SubscriptionTypes, [SubscriptionNext]_webVars
    PROVE  SubscriptionTypes'
    <1>1. CASE UNCHANGED webVars
        BY <1>1, ListStillTyped DEF webVars, SubscriptionTypes
    <1> QED
        BY <1>1, PlansListTyped, ButtonsTyped, CheckoutTyped DEF SubscriptionNext, LoseInCheckout

LEMMA SubscriptionIsTyped ==
    /\ SubscriptionInit => SubscriptionTypes
    /\ SubscriptionTypes => SubscriptionTypeOK
    <1>1. ASSUME SubscriptionInit PROVE SubscriptionTypes
        <2>1. ListTyped(SubscriptionArgs, SubscriptionResults)
            BY <1>1, SubscriptionKinds, MountListTyped DEF SubscriptionInit
        <2>2. server \in PlanServer
            BY <1>1 DEF SubscriptionInit, PlanServer
        <2>3. view \in SubscriptionView
            BY <1>1 DEF SubscriptionInit, Opening, SubscriptionView, NothingLoaded, PlanRows, Periods
        <2> QED
            BY <2>1, <2>2, <2>3 DEF SubscriptionTypes
    <1>2. ASSUME SubscriptionTypes PROVE SubscriptionTypeOK
        <2> DEFINE public == [list |-> PartsOf(PlanRows), order |-> Orders, script |-> {}, window |-> {},
                              verify |-> Purchases, refresh |-> {}]
        <2>1. \A op \in DOMAIN SubscriptionArgs : SubscriptionResults[op] \subseteq public[op] \cup {Nil}
            BY SubscriptionKinds
        <2>2. \A c \in Calls : IsCall(call[c], SubscriptionArgs, public)
            BY <1>2, <2>1, TypedIsCall DEF SubscriptionTypes, ListTyped
        <2>3. server \in PlanServer /\ view \in SubscriptionView /\ past \in ListPast
            BY <1>2 DEF SubscriptionTypes, ListTyped
        <2> QED
            BY <2>2, <2>3 DEF SubscriptionTypeOK, SubscriptionArgs, PlanServer
    <1> QED
        BY <1>1, <1>2

(***************************************************************************)
(* All the pages, one of which is mounted                                  *)
(***************************************************************************)
PagesInv ==
    /\ page = "schedule" => ScheduleInv /\ ScheduleTypes
    /\ page = "leave" => LeaveInv /\ LeaveTypes
    /\ page = "pos" => TillInv /\ TillTypes
    /\ page = "hours" => HoursInv /\ HoursTypes
    /\ page = "settings" => SettingsInv /\ FormTypes
    /\ page = "subscription" => SubscriptionTypes
    /\ page = "packages" => PackTypes

LEMMA PagesInitInv == PagesInit => PagesInv
    <1>1. ScheduleInit => page = "schedule" /\ ScheduleInv /\ ScheduleTypes
        BY ScheduleInitInv, ScheduleTypesInit DEF ScheduleInit
    <1>2. LeaveInit => page = "leave" /\ LeaveInv /\ LeaveTypes
        BY LeaveInitInv, LeaveIsTyped DEF LeaveInit
    <1>3. TillInit => page = "pos" /\ TillInv /\ TillTypes
        BY TillInitInv, TillIsTyped DEF TillInit
    <1>4. HoursInit => page = "hours" /\ HoursInv /\ HoursTypes
        BY HoursInitInv, HoursAreTyped DEF HoursInit
    <1>5. FormInit => page = "settings" /\ SettingsInv /\ FormTypes
        BY SettingsInitInv, FormIsTyped DEF FormInit
    <1>6. SubscriptionInit => page = "subscription" /\ SubscriptionTypes
        BY SubscriptionIsTyped DEF SubscriptionInit
    <1>7. PackInit => page = "packages" /\ PackTypes
        BY PackIsTyped DEF PackInit
    <1> QED
        BY <1>1, <1>2, <1>3, <1>4, <1>5, <1>6, <1>7 DEF PagesInit, PackInitOfOneOrder, PagesInv

LEMMA PagesStep == PagesInv /\ [PagesNext]_webVars => PagesInv'
    <1> SUFFICES ASSUME PagesInv, [PagesNext]_webVars PROVE PagesInv'
        OBVIOUS
    <1>0. UNCHANGED page
        BY DEF PagesNext, webVars, ScheduleNext, LeaveNext, TillNext, HoursNext, FormNext, SubscriptionNext, PackNext
    <1>1. CASE page = "schedule"
        <2>1. [ScheduleNext]_webVars
            BY <1>1 DEF PagesNext, LeaveNext, TillNext, HoursNext, FormNext, SubscriptionNext, PackNext
        <2> QED
            BY <1>0, <1>1, <2>1, ScheduleStep, ScheduleTypesStep DEF PagesInv
    <1>2. CASE page = "leave"
        <2>1. [LeaveNext]_webVars
            BY <1>2 DEF PagesNext, ScheduleNext, TillNext, HoursNext, FormNext, SubscriptionNext, PackNext
        <2> QED
            BY <1>0, <1>2, <2>1, LeaveStep, LeaveTypesStep DEF PagesInv
    <1>3. CASE page = "pos"
        <2>1. [TillNext]_webVars
            BY <1>3 DEF PagesNext, ScheduleNext, LeaveNext, HoursNext, FormNext, SubscriptionNext, PackNext
        <2> QED
            BY <1>0, <1>3, <2>1, TillStep, TillTypesStep DEF PagesInv
    <1>4. CASE page = "hours"
        <2>1. [HoursNext]_webVars
            BY <1>4 DEF PagesNext, ScheduleNext, LeaveNext, TillNext, FormNext, SubscriptionNext, PackNext
        <2> QED
            BY <1>0, <1>4, <2>1, HoursStep, HoursTypesStep DEF PagesInv
    <1>5. CASE page = "settings"
        <2>1. [FormNext]_webVars
            BY <1>5 DEF PagesNext, ScheduleNext, LeaveNext, TillNext, HoursNext, SubscriptionNext, PackNext
        <2> QED
            BY <1>0, <1>5, <2>1, SettingsStep, FormTypesStep DEF PagesInv
    <1>6. CASE page = "subscription"
        <2>1. [SubscriptionNext]_webVars
            BY <1>6 DEF PagesNext, ScheduleNext, LeaveNext, TillNext, HoursNext, FormNext, PackNext
        <2> QED
            BY <1>0, <1>6, <2>1, SubscriptionTypesStep DEF PagesInv
    <1>7. CASE page = "packages"
        <2>1. [PackNext]_webVars
            BY <1>7 DEF PagesNext, ScheduleNext, LeaveNext, TillNext, HoursNext, FormNext, SubscriptionNext
        <2> QED
            BY <1>0, <1>7, <2>1, PackTypesStep DEF PagesInv
    <1>8. CASE page \notin {"schedule", "leave", "pos", "hours", "settings", "subscription", "packages"}
        BY <1>0, <1>8 DEF PagesInv
    <1> QED
        BY <1>1, <1>2, <1>3, <1>4, <1>5, <1>6, <1>7, <1>8

\* What the pages keep, send and are answered has its type: whatever is clicked, and
\* in whatever order any number of requests are answered, refused and lost, no
\* handler reads a field that a request, an answer or a row does not have.
THEOREM PagesKeepTheirTypes == PagesSpec => []PagesTypeOK
    <1>1. PagesInv => PagesTypeOK
        <2> SUFFICES ASSUME PagesInv PROVE PagesTypeOK
            OBVIOUS
        <2>1. ScheduleTypeOK /\ LeaveTypeOK /\ TillTypeOK
            BY ScheduleIsTyped, LeaveIsTyped, TillIsTyped DEF PagesInv, ScheduleTypeOK, LeaveTypeOK, TillTypeOK
        <2>2. HoursTypeOK /\ FormTypeOK
            BY HoursAreTyped, FormIsTyped DEF PagesInv, HoursTypeOK, FormTypeOK
        <2>3. SubscriptionTypeOK /\ PackTypeOK
            BY SubscriptionIsTyped, PackIsTyped DEF PagesInv, SubscriptionTypeOK, PackTypeOK
        <2> QED
            BY <2>1, <2>2, <2>3 DEF PagesTypeOK
    <1> QED
        BY <1>1, PagesInitInv, PagesStep, PTL DEF PagesSpec
=============================================================================
