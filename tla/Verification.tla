---------------------------- MODULE Verification ----------------------------
(***************************************************************************)
(* The verification queue of the admins                                    *)
(* (apps/admin-web/src/app/(admin)/verification/page.tsx) and the service  *)
(* that decides (backend/app/services/verification_service.py), which      *)
(* reads the application, checks the transition, and writes the columns    *)
(* that changed since it was read, with no lock on the row.                *)
(*                                                                         *)
(* The page is that of one admin.  Another admin decides and the owners    *)
(* apply at any time.  Left out are the text of a reason, and the edits on *)
(* the admins' page of businesses.  So is the status of a business: it is  *)
(* ACTIVE from its creation (business_service.py), an approval writes      *)
(* ACTIVE once more, and a rejection does not touch it.                    *)
(***************************************************************************)
EXTENDS Listing

CONSTANTS Firms  \* ids of the businesses

ASSUME VerificationAssumption == Nil \notin Firms

Statuses == {"NOT_APPLIED", "APPLIED", "UNDER_REVIEW", "APPROVED", "REJECTED"}
Decisions == {"review", "approve", "reject"}
Target == [review |-> "UNDER_REVIEW", approve |-> "APPROVED", reject |-> "REJECTED"]

VerificationTransitions ==
    {<<"NOT_APPLIED", "APPLIED">>, <<"REJECTED", "APPLIED">>,
     <<"APPLIED", "UNDER_REVIEW">>, <<"APPLIED", "REJECTED">>,
     <<"UNDER_REVIEW", "APPROVED">>, <<"UNDER_REVIEW", "REJECTED">>}

\* The columns that change with decisions; verified: is_verified.
Application == [status : Statuses, verified : BOOLEAN]
Decision == [firm : Firms, action : Decisions]

\* server: the application of each business, and the request of the other admin
\* (Nil: none), with the row that it has read.
row == server.row
InQueue == {f \in Firms : row[f].status \in {"APPLIED", "UNDER_REVIEW"}}
Queue == [f \in InQueue |-> row[f].status]
QueueRows == UNION {[fs -> {"APPLIED", "UNDER_REVIEW"}] : fs \in SUBSET Firms}

QueueView ==
    [key : {Nil}, rows : QueueRows, loading : BOOLEAN,
     filter : {"all", "APPLIED", "UNDER_REVIEW"},
     selected : Firms \cup {Nil}, action : Decisions \cup {Nil},
     reason : BOOLEAN,                                            \* rejectReason is long enough
     processing : BOOLEAN]

\* past.raced: two decisions about one application were under way at once.
VerificationInit ==
    /\ page = "verification"
    /\ server = [row |-> [f \in Firms |-> [status |-> "NOT_APPLIED", verified |-> FALSE]], rival |-> Nil]
    /\ view = [key |-> Nil, rows |-> [f \in {} |-> Nil], loading |-> TRUE, filter |-> "all",
               selected |-> Nil, action |-> Nil, reason |-> FALSE, processing |-> FALSE]
    /\ \E c \in Calls :
          /\ call = [d \in Calls |-> IF d = c THEN Request("list", Nil) ELSE Free]
          /\ past = [loads |-> <<c>>, mixed |-> FALSE, raced |-> FALSE]

(***************************************************************************)
(* The page                                                                *)
(***************************************************************************)
ModalShown == view.selected # Nil /\ view.action # Nil

\* The tabs, each with the count of its applications.
QueueTabs ==
    ~ModalShown /\ \E filter \in {"all", "APPLIED", "UNDER_REVIEW"} : Show([view EXCEPT !.filter = filter])

Filtered == {f \in DOMAIN view.rows : view.filter = "all" \/ view.rows[f] = view.filter}

\* The buttons of an application: an application that nobody reviews can be approved as well.
Open(f, action) ==
    /\ action = "review" => view.rows[f] = "APPLIED"
    /\ Show([view EXCEPT !.selected = f, !.action = action, !.reason = @ /\ action # "reject"])

ApplicationsList ==
    ~ModalShown /\ ~view.loading /\ \E f \in Filtered, action \in Decisions : Open(f, action)

Closed(state) == [state EXCEPT !.selected = Nil, !.action = Nil, !.reason = FALSE]

HandleAction(c) ==
    /\ ~view.processing
    /\ view.action = "reject" => view.reason
    /\ Send(c, "decide", [firm |-> view.selected, action |-> view.action])
    /\ view' = [view EXCEPT !.processing = TRUE]
    /\ UNCHANGED <<server, past>>

\* Cancel is there while the request is under way.
ConfirmationModal(c) ==
    /\ ModalShown
    /\ \/ view.action = "reject" /\ \E long \in BOOLEAN : Show([view EXCEPT !.reason = long])
       \/ Show(Closed(view))
       \/ HandleAction(c)

(***************************************************************************)
(* The service                                                             *)
(***************************************************************************)
Allowed(f, action) == <<row[f].status, Target[action]>> \in VerificationTransitions

\* Whether a decision about f has read the row and is not committed.
UnderDecision(f) ==
    \/ server.rival # Nil /\ server.rival.firm = f
    \/ \E c \in Calls : Stands(c, "decide", "sent") /\ call[c].arg.firm = f /\ call[c].data # Nil

\* Mutant: the state machine is not asked.
ReadDecisionUnchecked(c) ==
    /\ Stands(c, "decide", "sent") /\ call[c].data = Nil
    /\ LET f == call[c].arg.firm IN
          /\ call' = [call EXCEPT ![c].data = row[f]]
          /\ past' = [past EXCEPT !.raced = @ \/ UnderDecision(f)]
    /\ UNCHANGED <<view, server>>

\* start_review, approve and reject up to the check of the transition.
ReadDecision(c) ==
    /\ Stands(c, "decide", "sent") /\ call[c].data = Nil
    /\ LET f == call[c].arg.firm IN
          IF Allowed(f, call[c].arg.action)
          THEN /\ call' = [call EXCEPT ![c].data = row[f]]
               /\ past' = [past EXCEPT !.raced = @ \/ UnderDecision(f)]
          ELSE Refuse(c) /\ UNCHANGED past
    /\ UNCHANGED <<view, server>>

\* The columns that differ from what was read are written.  A review leaves verified alone.
Written(f, action, read) ==
    LET verified == IF action = "review" THEN read.verified ELSE action = "approve"
    IN  [row EXCEPT ![f] = [status |-> Target[action],
                            verified |-> IF verified # read.verified THEN verified ELSE @.verified]]

CommitDecision(c) ==
    /\ Stands(c, "decide", "sent") /\ call[c].data # Nil
    /\ server' = [server EXCEPT !.row = Written(call[c].arg.firm, call[c].arg.action, call[c].data)]
    /\ Answer(c, Nil)
    /\ UNCHANGED <<view, past>>

RivalReads ==
    /\ server.rival = Nil
    /\ \E f \in Firms, action \in Decisions :
          /\ Allowed(f, action)
          /\ server' = [server EXCEPT !.rival = [firm |-> f, action |-> action, read |-> row[f]]]
          /\ past' = [past EXCEPT !.raced = @ \/ UnderDecision(f)]
    /\ UNCHANGED <<view, call>>

RivalCommits ==
    /\ server.rival # Nil
    /\ server' = [row |-> Written(server.rival.firm, server.rival.action, server.rival.read), rival |-> Nil]
    /\ UNCHANGED <<view, call, past>>

\* submit_for_verification.
SubmitForVerification(f) ==
    /\ <<row[f].status, "APPLIED">> \in VerificationTransitions
    /\ server' = [server EXCEPT !.row[f].status = "APPLIED"]
    /\ UNCHANGED <<view, call, past>>

\* The modal is closed, whatever it is for by now, and the queue is loaded.
ReceiveDecision(c) ==
    Stands(c, "decide", "served") /\ Reload(c, Nil, [Closed(view) EXCEPT !.processing = FALSE])

QueueAnswers(c) ==
    \/ AnswerList(c, Queue) \/ ReceiveList(c) \/ FailList(c, [f \in {} |-> Nil])
    \/ ReadDecision(c) \/ CommitDecision(c) \/ ReceiveDecision(c)
    \/ FailChange(c, "decide", [view EXCEPT !.processing = FALSE])

VerificationNext ==
    /\ page = "verification" /\ UNCHANGED page
    /\ \/ QueueTabs \/ ApplicationsList
       \/ RivalReads \/ RivalCommits
       \/ \E f \in Firms : SubmitForVerification(f)
       \/ \E c \in Calls : ConfirmationModal(c) \/ QueueAnswers(c) \/ LoseInList(c)

VerificationSpec == VerificationInit /\ [][VerificationNext]_webVars

(***************************************************************************)
(* Properties                                                              *)
(***************************************************************************)
VerificationTypeOK == page = "verification" =>
    /\ \A c \in Calls : IsCall(call[c], [list |-> {Nil}, decide |-> Decision],
                                        [list |-> QueueRows, decide |-> Application])
    /\ row \in [Firms -> Application]
    /\ server.rival \in [firm : Firms, action : Decisions, read : Application] \cup {Nil}
    /\ view \in QueueView
    /\ past \in [loads : Seq(Calls), mixed : BOOLEAN, raced : BOOLEAN]

\* A business is marked as verified just when its application stands approved,
\* however old the queues are that the admins decide from: unless two of them
\* decided about one application at the same time.
VerifiedIsApproved == page = "verification" /\ ~past.raced =>
    \A f \in Firms : row[f].verified <=> row[f].status = "APPROVED"
=============================================================================
