---------------------------- MODULE GiftCardDesk ----------------------------
(***************************************************************************)
(* The gift cards page of a business                                       *)
(* (apps/business-web/src/app/dashboard/gift-cards/page.tsx): the list of  *)
(* issued cards, the dialog that issues one, and the lookup of a code.     *)
(* Amounts, balances and recipients are left out: a card is its code.      *)
(***************************************************************************)
EXTENDS Listing

CONSTANTS Codes

ASSUME GiftCardDeskAssumption == Nil \notin Codes

\* server: the cards that were issued, and those that are disabled or expired.
\* past.asked: the code of the last lookup; past.checks, the lookups under way in
\* the order they were sent.
issued == server.issued

DeskView ==
    [key : {Nil}, rows : SUBSET Codes, loading : BOOLEAN, issuing : BOOLEAN,  \* isIssueOpen
     searchCode : Codes \cup {Nil}, lookup : Codes \cup {Nil}]                \* lookupResult

DeskInit ==
    /\ page = "gift-cards"
    /\ server \in [issued : SUBSET Codes, dead : SUBSET Codes]
    /\ view = [key |-> Nil, rows |-> {}, loading |-> TRUE, issuing |-> FALSE, searchCode |-> Nil, lookup |-> Nil]
    /\ \E c \in Calls :
          /\ call = [d \in Calls |-> IF d = c THEN Request("list", Nil) ELSE Free]
          /\ past = [loads |-> <<c>>, mixed |-> FALSE, checks |-> <<>>, asked |-> Nil]

(***************************************************************************)
(* Issuing: nothing bars a second click                                    *)
(***************************************************************************)
DeskHeader == ~view.issuing /\ Show([view EXCEPT !.issuing = TRUE])

IssueModal(c) ==
    /\ view.issuing
    /\ \/ Show([view EXCEPT !.issuing = FALSE])
       \/ Send(c, "issue", Nil) /\ Keep

\* issue_gift_card generates a code.
ServeIssue(c) ==
    /\ Stands(c, "issue", "sent")
    /\ \E code \in Codes \ issued : server' = [server EXCEPT !.issued = @ \cup {code}]
    /\ Answer(c, Nil)
    /\ UNCHANGED <<view, past>>

\* The form is closed and emptied, then the list is loaded.
ReceiveIssue(c) == Stands(c, "issue", "served") /\ Reload(c, Nil, [view EXCEPT !.issuing = FALSE])

(***************************************************************************)
(* The lookup                                                              *)
(***************************************************************************)
HandleCheckBalance(c) ==
    /\ view.searchCode # Nil
    /\ Send(c, "check", view.searchCode)
    /\ past' = [past EXCEPT !.checks = Append(@, c), !.asked = view.searchCode]
    /\ UNCHANGED <<view, server>>

LookupWidget(c) ==
    /\ ~view.issuing
    /\ \/ \E code \in Codes : Show([view EXCEPT !.searchCode = code])
       \/ HandleCheckBalance(c)

\* check_balance.
Valid(code) == code \in issued \ server.dead
ServeCheck(c) ==
    /\ Stands(c, "check", "sent")
    /\ IF Valid(call[c].arg) THEN Answer(c, call[c].arg) ELSE Refuse(c)
    /\ Keep

SettleCheck(c, lookup) ==
    /\ view' = [view EXCEPT !.lookup = lookup]
    /\ past' = [past EXCEPT !.checks = Without(@, c),
                            !.mixed = @ \/ Head(past.checks) # c]
    /\ End(c)
    /\ UNCHANGED server

ReceiveCheck(c) == Stands(c, "check", "served") /\ SettleCheck(c, call[c].data)

FailCheck(c) == Stands(c, "check", "failed") /\ SettleCheck(c, Nil)

DeskAnswers(c) ==
    \/ AnswerList(c, issued) \/ ReceiveList(c) \/ FailList(c, view.rows)
    \/ ServeIssue(c) \/ ReceiveIssue(c) \/ FailChange(c, "issue", view)
    \/ ServeCheck(c) \/ ReceiveCheck(c) \/ FailCheck(c)

DeskNext ==
    /\ page = "gift-cards" /\ UNCHANGED page
    /\ \/ DeskHeader
       \/ \E c \in Calls : IssueModal(c) \/ LookupWidget(c) \/ DeskAnswers(c) \/ LoseInList(c)

(***************************************************************************)
(* Properties                                                              *)
(***************************************************************************)
DeskTypeOK == page = "gift-cards" =>
    /\ \A c \in Calls : IsCall(call[c], [list |-> {Nil}, issue |-> {Nil}, check |-> Codes],
                                        [list |-> SUBSET Codes, issue |-> {}, check |-> Codes])
    /\ server \in [issued : SUBSET Codes, dead : SUBSET Codes]
    /\ view \in DeskView
    /\ past \in [loads : Seq(Calls), mixed : BOOLEAN, checks : Seq(Calls), asked : Codes \cup {Nil}]

\* At the desk a card is taken for good only if the last code that was asked for
\* is good: when the lookups are answered, the panel shows that card or nothing,
\* if no answer overtook another one and no request failed on its way.
LookupAnswersTheLastQuestion == page = "gift-cards" /\ ~past.mixed /\ past.checks = <<>> =>
    view.lookup = Nil \/ (view.lookup = past.asked /\ Valid(past.asked))

\* The list shows the issued cards, under the same conditions.
GiftCardsAreCurrent == page = "gift-cards" => Current(issued)
=============================================================================
