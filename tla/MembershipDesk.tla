--------------------------- MODULE MembershipDesk ---------------------------
(***************************************************************************)
(* The memberships page of a business                                      *)
(* (apps/business-web/src/app/dashboard/memberships/page.tsx): the plans,  *)
(* the dialog that creates one, and the customers who are enrolled.        *)
(*                                                                         *)
(* As in PackageSales, the dialog that enrols somebody is without          *)
(* customers to choose from; members come from other clients of the API.   *)
(***************************************************************************)
EXTENDS Listing

CONSTANTS Plans, Members  \* ids

\* server: the plans there are, and who is enrolled.
MemberTab == {"plans", "subscribers"}

MembershipLists == [plans : SUBSET Plans, subscribers : SUBSET Members]

MembershipView ==
    [key : {Nil}, rows : MembershipLists, loading : BOOLEAN, tab : MemberTab,
     adding : BOOLEAN, enrolling : BOOLEAN,  \* isAddPlanOpen, isEnrollOpen
     named : BOOLEAN]                        \* newPlan has a name

MembershipInit ==
    /\ page = "memberships"
    /\ server \in [plans : {{}}, subscribers : SUBSET Members]
    /\ view = [key |-> Nil, rows |-> [plans |-> {}, subscribers |-> {}], loading |-> TRUE,
               tab |-> "plans", adding |-> FALSE, enrolling |-> FALSE, named |-> FALSE]
    /\ MountList(Nil)

MembershipHeader ==
    /\ ~view.adding /\ ~view.enrolling
    /\ \/ \E tab \in MemberTab : Show([view EXCEPT !.tab = tab])
       \/ Show([view EXCEPT !.adding = TRUE])
       \/ Show([view EXCEPT !.enrolling = TRUE])

\* The draft of a plan is kept when the dialog is closed, and when it was created.
CreatePlanModal(c) ==
    /\ view.adding
    /\ \/ Show([view EXCEPT !.adding = FALSE])
       \/ Show([view EXCEPT !.named = TRUE])
       \/ view.named /\ Send(c, "plan", Nil) /\ Keep

EnrollModal == view.enrolling /\ Show([view EXCEPT !.enrolling = FALSE])

\* create_plan.
ServePlan(c) ==
    /\ Stands(c, "plan", "sent")
    /\ \E plan \in Plans \ server.plans : server' = [server EXCEPT !.plans = @ \cup {plan}]
    /\ Answer(c, Nil)
    /\ UNCHANGED <<view, past>>

\* Mutant: the plans are not loaded again.
ReceivePlanOnly(c) ==
    /\ Stands(c, "plan", "served")
    /\ view' = [view EXCEPT !.adding = FALSE]
    /\ End(c)
    /\ UNCHANGED <<server, past>>

ReceivePlan(c) == Stands(c, "plan", "served") /\ Reload(c, Nil, [view EXCEPT !.adding = FALSE])

MembershipAnswers(c) ==
    \/ AnswerParts(c, server) \/ ReceiveParts(c) \/ FailList(c, view.rows)
    \/ ServePlan(c) \/ ReceivePlan(c) \/ FailChange(c, "plan", view)

MembershipNext ==
    /\ page = "memberships" /\ UNCHANGED page
    /\ \/ MembershipHeader \/ EnrollModal
       \/ \E c \in Calls : CreatePlanModal(c) \/ MembershipAnswers(c) \/ LoseInList(c)

MembershipTypeOK == page = "memberships" =>
    /\ \A c \in Calls : IsCall(call[c], [list |-> {Nil}, plan |-> {Nil}],
                                        [list |-> PartsOf(MembershipLists), plan |-> {}])
    /\ server \in MembershipLists
    /\ view \in MembershipView
    /\ past \in ListPast

\* With nothing under way the page shows the plans and members there are, if no
\* answer overtook another one, none was partial and no request failed on its way.
MembershipsAreCurrent == page = "memberships" => Current(server)
=============================================================================
