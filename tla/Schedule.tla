------------------------------ MODULE Schedule ------------------------------
(***************************************************************************)
(* The schedule manager of a business                                      *)
(* (apps/business-web/src/app/dashboard/schedule/page.tsx): the weekly     *)
(* hours of its staff, edited in the page and saved per person or all at   *)
(* once; and its leave tab: absences of the staff, listed per person, and  *)
(* the form that adds one, which can be used as soon as the staff are      *)
(* known, while their leaves still load.  The tabs share no state, and are *)
(* two specifications here.                                                *)
(*                                                                         *)
(* A day is a shift or a day off; the times of a shift are left out.       *)
(***************************************************************************)
EXTENDS Browser

CONSTANTS
    Staff,
    Days, Weekdays, Workdays,  \* the days of the week; Mon-Fri; Mon-Sat
    Shifts, FullDay,           \* the shifts; the one that defaultSchedule fills in
    Persons,                   \* the staff, in the leave tab
    LeaveIds                   \* a bound on how many leaves there are

ASSUME ScheduleAssumption ==
    /\ Weekdays \subseteq Workdays /\ Workdays \subseteq Days
    /\ FullDay \in Shifts /\ Nil \notin Shifts /\ Nil \notin Staff

DayOff == Nil
Weeks == [Days -> Shifts \cup {DayOff}]

\* server: the WorkingHours rows of each person, Nil: none yet.
\* view: what the page holds per person, Nil before the load; whose editor is open.
\* past: people whose hours were not loaded, or were edited while a save of them
\* was under way.
hours == server
outdated == past

Entry == [days : Weeks, dirty : BOOLEAN, saving : BOOLEAN]

ASSUME EntryAssumption == Nil \notin Weeks \cup Entry

DefaultWeek == [d \in Days |-> IF d \in Workdays THEN FullDay ELSE DayOff]

\* "existing ?? ...": a person without rows is shown the default week.
Shown(rows) == [days |-> IF rows = Nil THEN DefaultWeek ELSE rows, dirty |-> FALSE, saving |-> FALSE]

ScheduleInit ==
    /\ page = "schedule"
    /\ server \in [Staff -> {Nil, DefaultWeek}]
    /\ view = [schedules |-> [s \in Staff |-> Nil], isLoading |-> TRUE, expanded |-> Nil]
    /\ past = {}
    /\ Mount(Request("load", Nil))

(***************************************************************************)
(* The load effect                                                         *)
(***************************************************************************)
\* Every person's hours and leaves are two requests; when one fails, both count as failed.
ServeSchedules(c) ==
    /\ Stands(c, "load", "sent")
    /\ \E broken \in SUBSET Staff :
          /\ broken # {} => Faults
          /\ Answer(c, [s \in Staff \ broken |-> hours[s]])
    /\ Keep

\* Who could not be loaded gets the default schedule.
ReceiveSchedules(c) ==
    /\ Stands(c, "load", "served")
    /\ LET loaded == call[c].data IN
       /\ \E first \in Staff :
             view' = [schedules |-> [s \in Staff |-> Shown(IF s \in DOMAIN loaded THEN loaded[s] ELSE Nil)],
                      isLoading |-> FALSE, expanded |-> first]
       /\ past' = {s \in Staff \ DOMAIN loaded : hours[s] # Nil}
    /\ End(c)
    /\ UNCHANGED server

FailSchedules(c) ==
    /\ Stands(c, "load", "failed")
    /\ view' = [view EXCEPT !.isLoading = FALSE]
    /\ End(c)
    /\ UNCHANGED <<server, past>>

(***************************************************************************)
(* The work schedules tab                                                  *)
(***************************************************************************)
Saves(s) == {c \in Calls : call[c].op = "save" /\ call[c].arg.staff = s}

\* A name or a cell of the overview opens the editor of that person, or closes it.
Overview(s) ==
    /\ ~view.isLoading
    /\ Show([view EXCEPT !.expanded = IF view.expanded = s THEN Nil ELSE s])

Editing(s) == ~view.isLoading /\ view.expanded = s /\ view.schedules[s] # Nil

\* Mutant: the copy forgets to mark the schedule unsaved.
EditUnmarked(s, week) ==
    /\ Editing(s)
    /\ view' = [view EXCEPT !.schedules[s].days = week]
    /\ past' = IF Saves(s) = {} THEN past ELSE past \cup {s}
    /\ UNCHANGED <<call, server>>

Edit(s, week) ==
    /\ Editing(s)
    /\ view' = [view EXCEPT !.schedules[s] = [days |-> week, dirty |-> TRUE, saving |-> @.saving]]
    /\ past' = IF Saves(s) = {} THEN past ELSE past \cup {s}
    /\ UNCHANGED <<call, server>>

\* updateDay and applyPreset: the toggle, the presets and the times of one day.
UpdateDay(s, d, shift) == Editing(s) /\ Edit(s, [view.schedules[s].days EXCEPT ![d] = shift])

ApplyPresetToWeek(s, shift) ==
    Editing(s) /\ Edit(s, [d \in Days |-> IF d \in Weekdays THEN shift ELSE view.schedules[s].days[d]])

CopySchedule(from, to) ==
    /\ from # to /\ Editing(to) /\ view.schedules[from] # Nil
    /\ Edit(to, view.schedules[from].days)

SaveRequest(s) == Request("save", [staff |-> s, days |-> view.schedules[s].days])

\* saveSchedule, from the editor.
SaveSchedule(c, s) ==
    /\ Editing(s) /\ view.schedules[s].dirty /\ ~view.schedules[s].saving
    /\ Send(c, "save", SaveRequest(s).arg)
    /\ view' = [view EXCEPT !.schedules[s] = [days |-> @.days, dirty |-> @.dirty, saving |-> TRUE]]
    /\ UNCHANGED <<server, past>>

\* saveAll: every unsaved schedule, those that are being saved too.
Unsaved == {s \in Staff : view.schedules[s] # Nil /\ view.schedules[s].dirty}
SaveAll ==
    /\ Unsaved # {}
    /\ \E slot \in [Unsaved -> {c \in Calls : call[c] = Free}] :
          /\ \A s, t \in Unsaved : slot[s] = slot[t] => s = t
          /\ call' = [c \in Calls |-> IF \E s \in Unsaved : slot[s] = c
                                      THEN SaveRequest(CHOOSE s \in Unsaved : slot[s] = c)
                                      ELSE call[c]]
    /\ view' = [view EXCEPT !.schedules =
                    [s \in Staff |-> IF s \in Unsaved THEN [days |-> @[s].days, dirty |-> TRUE, saving |-> TRUE] ELSE @[s]]]
    /\ UNCHANGED <<server, past>>

\* set_working_hours: the rows are deleted and written again.
ServeSave(c) ==
    /\ Stands(c, "save", "sent")
    /\ server' = [server EXCEPT ![call[c].arg.staff] = call[c].arg.days]
    /\ Answer(c, Nil)
    /\ UNCHANGED <<view, past>>

\* Whatever was edited in the meantime counts as saved.
ReceiveSave(c) ==
    /\ Stands(c, "save", "served")
    /\ view' = [view EXCEPT !.schedules[call[c].arg.staff] = [days |-> @.days, dirty |-> FALSE, saving |-> FALSE]]
    /\ End(c)
    /\ UNCHANGED <<server, past>>

FailSave(c) ==
    /\ Stands(c, "save", "failed")
    /\ view' = [view EXCEPT !.schedules[call[c].arg.staff] = [days |-> @.days, dirty |-> @.dirty, saving |-> FALSE]]
    /\ End(c)
    /\ UNCHANGED <<server, past>>

ScheduleAnswers(c) ==
    \/ ServeSchedules(c) \/ ReceiveSchedules(c) \/ FailSchedules(c)
    \/ ServeSave(c) \/ ReceiveSave(c) \/ FailSave(c)

\* The controls of the day rows and of the head of the editor.
DayRows(s) == \E d \in Days, shift \in Shifts \cup {DayOff} : UpdateDay(s, d, shift)
EditorHeader(s) ==
    \/ \E from \in Staff : CopySchedule(from, s)
    \/ \E shift \in Shifts : ApplyPresetToWeek(s, shift)
    \/ \E c \in Calls : SaveSchedule(c, s)

ScheduleNext ==
    /\ page = "schedule" /\ UNCHANGED page
    /\ \/ \E s \in Staff : Overview(s) \/ DayRows(s) \/ EditorHeader(s)
       \/ SaveAll
       \/ \E c \in Calls : ScheduleAnswers(c) \/ LoseCall(c)

ScheduleSpec == ScheduleInit /\ [][ScheduleNext]_webVars

(***************************************************************************)
(* Properties                                                              *)
(***************************************************************************)
ScheduleCalls(c) ==
    IsCall(call[c],
        [load |-> {Nil}, save |-> [staff : Staff, days : Weeks]],
        [load |-> UNION {[part -> Weeks \cup {Nil}] : part \in SUBSET Staff},
         save |-> {}])

ScheduleTypeOK == page = "schedule" =>
    /\ \A c \in Calls : ScheduleCalls(c)
    /\ hours \in [Staff -> Weeks \cup {Nil}]
    /\ view \in [schedules : [Staff -> Entry \cup {Nil}], isLoading : BOOLEAN, expanded : Staff \cup {Nil}]
    /\ outdated \subseteq Staff

\* The label "Saved" can be believed: hours that are not marked unsaved are the
\* hours the server has, unless they could not be loaded or were edited while a
\* save of them was under way.
SavedWeekIsStored == page = "schedule" =>
    \A s \in Staff \ outdated :
        view.schedules[s] # Nil /\ ~view.schedules[s].dirty =>
            view.schedules[s].days = Shown(hours[s]).days

(***************************************************************************)
(* The leave tab                                                           *)
(***************************************************************************)
\* server: the StaffLeave rows of each person.
\* view: leaves, leaveForm.staffId and savingLeave.
\* past: a leave was added while the leaves were loading, or a request failed.
absences == server
reloaded == past

Nobody == [s \in Persons |-> {}]

LeaveInit ==
    /\ page = "leave"
    /\ \E s \in Persons, ids \in {{}} \cup {{l} : l \in LeaveIds} : server = [Nobody EXCEPT ![s] = ids]
    /\ view = [leaves |-> Nobody, staffId |-> Nil, saving |-> FALSE]
    /\ past = FALSE
    /\ Mount(Request("leaves", Nil))

\* The load effect: who could not be loaded has no leaves.
ServeLeaves(c) ==
    /\ Stands(c, "leaves", "sent")
    /\ \E broken \in SUBSET Persons :
          /\ broken # {} => Faults
          /\ Answer(c, [s \in Persons |-> IF s \in broken THEN {} ELSE absences[s]])
          /\ past' = (past \/ broken # {})
    /\ UNCHANGED <<server, view>>

ReceiveLeaves(c) ==
    /\ Stands(c, "leaves", "served")
    /\ view' = [view EXCEPT !.leaves = call[c].data]
    /\ End(c)
    /\ UNCHANGED <<server, past>>

FailLeaves(c) ==
    /\ Stands(c, "leaves", "failed")
    /\ past' = TRUE
    /\ End(c)
    /\ UNCHANGED <<server, view>>

\* The form: the person, and the other fields, which are left out.
LeaveForm(s) == Show([view EXCEPT !.staffId = s])

AddLeave(c) ==
    /\ view.staffId # Nil /\ ~view.saving
    /\ Send(c, "leave", view.staffId)
    /\ view' = [view EXCEPT !.saving = TRUE]
    /\ past' = (past \/ Pending("leaves") # {})
    /\ UNCHANGED server

\* create_leave.
ServeLeave(c) ==
    /\ Stands(c, "leave", "sent")
    /\ \E id \in LeaveIds \ UNION {absences[s] : s \in Persons} :
          /\ server' = [server EXCEPT ![call[c].arg] = @ \cup {id}]
          /\ Answer(c, id)
    /\ UNCHANGED <<view, past>>

\* Mutant: the answer is listed under the person who is selected by now.
ReceiveLeaveForSelected(c) ==
    /\ Stands(c, "leave", "served")
    /\ view' = [view EXCEPT !.leaves[view.staffId] = @ \cup {call[c].data}, !.saving = FALSE]
    /\ End(c)
    /\ UNCHANGED <<server, past>>

\* The answer is listed under the person of the render that sent the request.
ReceiveLeave(c) ==
    /\ Stands(c, "leave", "served")
    /\ view' = [view EXCEPT !.leaves[call[c].arg] = @ \cup {call[c].data}, !.saving = FALSE]
    /\ End(c)
    /\ UNCHANGED <<server, past>>

FailLeave(c) ==
    /\ Stands(c, "leave", "failed")
    /\ view' = [view EXCEPT !.saving = FALSE]
    /\ past' = TRUE
    /\ End(c)
    /\ UNCHANGED server

LeaveAnswers(c) ==
    \/ ServeLeaves(c) \/ ReceiveLeaves(c) \/ FailLeaves(c)
    \/ ServeLeave(c) \/ ReceiveLeave(c) \/ FailLeave(c)

LeaveNext ==
    /\ page = "leave" /\ UNCHANGED page
    /\ \/ \E s \in Persons : LeaveForm(s)
       \/ \E c \in Calls : AddLeave(c) \/ LeaveAnswers(c) \/ LoseCall(c)

LeaveSpec == LeaveInit /\ [][LeaveNext]_webVars

(***************************************************************************)
(* Properties                                                              *)
(***************************************************************************)
LeaveTypeOK == page = "leave" =>
    /\ \A c \in Calls : IsCall(call[c], [leaves |-> {Nil}, leave |-> Persons],
                                        [leaves |-> [Persons -> SUBSET LeaveIds], leave |-> LeaveIds])
    /\ absences \in [Persons -> SUBSET LeaveIds]
    /\ view \in [leaves : [Persons -> SUBSET LeaveIds], staffId : Persons \cup {Nil}, saving : BOOLEAN]
    /\ reloaded \in BOOLEAN

\* Whoever is selected in the form when the answer arrives, a leave is listed
\* under the person it is stored for; and unless leaves were added while they
\* were loading, or a request failed, every stored leave is listed.
LeaveIsListedWithItsOwner == page = "leave" =>
    \A s \in Persons :
        /\ view.leaves[s] \subseteq absences[s]
        /\ ~reloaded => \A id \in absences[s] \ view.leaves[s] :
              \/ Pending("leaves") # {}
              \/ \E c \in Pending("leave") : call[c].data = id \/ call[c].step = "failed"
=============================================================================
