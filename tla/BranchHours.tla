----------------------------- MODULE BranchHours -----------------------------
(***************************************************************************)
(* The opening hours tab of the settings page                              *)
(* (apps/business-web/src/app/dashboard/settings/page.tsx): the week of    *)
(* the selected branch is loaded into one form, edited, and put to the     *)
(* branch that is selected when Save is pressed.                           *)
(*                                                                         *)
(* The effects also depend on the business of the session, which stays the *)
(* same object as long as the page is shown (see BusinessForm).            *)
(***************************************************************************)
EXTENDS Browser

CONSTANTS
    Branches,
    Primary  \* the branch that is_primary

ASSUME BranchHoursAssumption == Primary \in Branches /\ Nil \notin Branches

\* A week: the branch whose week it was loaded as, and whether a day of it is open.
\* The other days and the times are edited the same way, and left out.
BranchWeeks == [of : Branches, open : BOOLEAN]

\* server: the WorkingHours rows of each branch, Nil: none.
\* view: branches, selectedBranch, hours (Nil: still empty) and savingHours.
\* past: loads, the loads of hours under way in the order they were sent; mixed, an
\* answer overtook another one, a load failed, or Save was pressed during a load.
opening == server
weekLoads == past.loads
mixedUp == past.mixed

HoursInit ==
    /\ page = "hours"
    /\ server \in {[b \in Branches |-> IF b \in new THEN Nil ELSE [of |-> b, open |-> FALSE]] : new \in SUBSET Branches}
    /\ view = [listed |-> FALSE, selected |-> Nil, hours |-> Nil, saving |-> FALSE]
    /\ past = [loads |-> <<>>, mixed |-> FALSE]
    /\ Mount(Request("branches", Nil))

(***************************************************************************)
(* The effects                                                             *)
(***************************************************************************)
ServeBranches(c) == Stands(c, "branches", "sent") /\ Answer(c, Nil) /\ Keep

\* The primary branch is selected, which loads its hours.
ReceiveBranches(c) ==
    /\ Stands(c, "branches", "served")
    /\ view' = [view EXCEPT !.listed = TRUE, !.selected = Primary]
    /\ Then(c, "hours", Primary)
    /\ past' = [past EXCEPT !.loads = Append(@, c)]
    /\ UNCHANGED server

FailBranches(c) == Stands(c, "branches", "failed") /\ End(c) /\ Keep

\* The days that have no row are filled in.
Filled(b, week) == IF week = Nil THEN [of |-> b, open |-> TRUE] ELSE week

ServeHours(c) == Stands(c, "hours", "sent") /\ Answer(c, Filled(call[c].arg, opening[call[c].arg])) /\ Keep

\* Whatever load is answered last fills the form.
ReceiveHours(c) ==
    /\ Stands(c, "hours", "served")
    /\ view' = [view EXCEPT !.hours = call[c].data]
    /\ past' = [loads |-> Without(weekLoads, c), mixed |-> mixedUp \/ Head(weekLoads) # c]
    /\ End(c)
    /\ UNCHANGED server

\* The form keeps the week it had.
FailHours(c) ==
    /\ Stands(c, "hours", "failed")
    /\ past' = [loads |-> Without(weekLoads, c), mixed |-> TRUE]
    /\ End(c)
    /\ UNCHANGED <<view, server>>

(***************************************************************************)
(* The tab                                                                 *)
(***************************************************************************)
\* Mutant: the effect does not depend on the branch.
SelectBranchOnly(c, b) ==
    /\ view.listed /\ b # view.selected
    /\ Show([view EXCEPT !.selected = b])

\* The selector, shown if there are several branches.
SelectBranch(c, b) ==
    /\ view.listed /\ b # view.selected
    /\ view' = [view EXCEPT !.selected = b]
    /\ Send(c, "hours", b)
    /\ past' = [past EXCEPT !.loads = Append(@, c)]
    /\ UNCHANGED server

\* The toggle and the times of a day.
UpdateHourField == view.hours # Nil /\ Show([view EXCEPT !.hours.open = ~@])

\* Save waits for no load; an empty form deletes the week.
SaveWorkingHours(c) ==
    /\ view.selected # Nil /\ ~view.saving
    /\ Send(c, "hours_put", [branch |-> view.selected, week |-> view.hours])
    /\ view' = [view EXCEPT !.saving = TRUE]
    /\ past' = [past EXCEPT !.mixed = @ \/ weekLoads # <<>>]
    /\ UNCHANGED server

\* set_working_hours: the rows are deleted and written again.
ServeHoursPut(c) ==
    /\ Stands(c, "hours_put", "sent")
    /\ server' = [server EXCEPT ![call[c].arg.branch] = call[c].arg.week]
    /\ Answer(c, Nil)
    /\ UNCHANGED <<view, past>>

EndSaveHours(c) ==
    /\ Stands(c, "hours_put", "served") \/ Stands(c, "hours_put", "failed")
    /\ view' = [view EXCEPT !.saving = FALSE]
    /\ End(c)
    /\ UNCHANGED <<server, past>>

HoursTab(c) ==
    \/ \E b \in Branches : SelectBranch(c, b)
    \/ UpdateHourField
    \/ SaveWorkingHours(c)

HoursAnswers(c) ==
    \/ ServeBranches(c) \/ ReceiveBranches(c) \/ FailBranches(c)
    \/ ServeHours(c) \/ ReceiveHours(c) \/ FailHours(c)
    \/ ServeHoursPut(c) \/ EndSaveHours(c)

HoursNext ==
    /\ page = "hours" /\ UNCHANGED page
    /\ \E c \in Calls : HoursTab(c) \/ HoursAnswers(c) \/ LoseCall(c)

HoursSpec == HoursInit /\ [][HoursNext]_webVars

(***************************************************************************)
(* Properties                                                              *)
(***************************************************************************)
HoursTypeOK == page = "hours" =>
    /\ \A c \in Calls :
          IsCall(call[c], [branches |-> {Nil}, hours |-> Branches,
                           hours_put |-> [branch : Branches, week : BranchWeeks \cup {Nil}]],
                          [branches |-> {}, hours |-> BranchWeeks, hours_put |-> {}])
    /\ opening \in [Branches -> BranchWeeks \cup {Nil}]
    /\ view \in [listed : BOOLEAN, selected : Branches \cup {Nil}, hours : BranchWeeks \cup {Nil}, saving : BOOLEAN]
    /\ past \in [loads : Seq(Calls), mixed : BOOLEAN]

\* A branch keeps the week that was loaded as its own, if the loads of the tab
\* were answered in their order and Save was not pressed during one.
HoursStayWithTheirBranch == page = "hours" /\ ~mixedUp =>
    \A b \in Branches : opening[b] # Nil => opening[b].of = b
=============================================================================
