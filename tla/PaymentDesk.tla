----------------------------- MODULE PaymentDesk -----------------------------
(***************************************************************************)
(* The payments page of a business                                         *)
(* (apps/business-web/src/app/dashboard/payments/page.tsx): the first page *)
(* of the payments (nothing turns it), each with a button that refunds the *)
(* whole payment.                                                          *)
(***************************************************************************)
EXTENDS Listing

CONSTANTS Receipts  \* ids of the payments on the first page

ASSUME PaymentDeskAssumption == Nil \notin Receipts

\* server: status of each payment.
\* past.mixed is also set when a refund was asked for while that of another payment
\* was under way.
PaymentStatuses == {"CAPTURED", "REFUNDED"}
status == server
SheetRows == [Receipts -> PaymentStatuses] \cup {[p \in {} |-> Nil]}

PaymentsInit ==
    /\ page = "payments"
    /\ server \in [Receipts -> PaymentStatuses]
    /\ view = [key |-> Nil, rows |-> [p \in {} |-> Nil], loading |-> TRUE, refunding |-> Nil]
    /\ MountList(Nil)

\* The button of a payment, disabled during its own refund.
Table(p) ==
    /\ ~view.loading /\ p \in DOMAIN view.rows /\ view.rows[p] = "CAPTURED"
    /\ view.refunding # p

HandleRefund(c, p) ==
    /\ Table(p)
    /\ Send(c, "refund", [payment |-> p])
    /\ view' = [view EXCEPT !.refunding = p]
    /\ past' = [past EXCEPT !.mixed = @ \/ \E d \in Pending("refund") : call[d].arg.payment # p]
    /\ UNCHANGED server

\* PaymentService.create_refund.
ServeRefund(c) ==
    /\ Stands(c, "refund", "sent")
    /\ LET p == call[c].arg.payment IN
       IF status[p] = "CAPTURED" THEN server' = [server EXCEPT ![p] = "REFUNDED"] /\ Answer(c, Nil)
       ELSE UNCHANGED server /\ Refuse(c)
    /\ UNCHANGED <<view, past>>

\* Whichever refund ends, none is shown as under way.
ReceiveRefund(c) == Stands(c, "refund", "served") /\ Reload(c, Nil, [view EXCEPT !.refunding = Nil])

PaymentsAnswers(c) ==
    \/ AnswerList(c, status) \/ ReceiveList(c) \/ FailList(c, [p \in {} |-> Nil])
    \/ ServeRefund(c) \/ ReceiveRefund(c) \/ FailChange(c, "refund", [view EXCEPT !.refunding = Nil])

PaymentsNext ==
    /\ page = "payments" /\ UNCHANGED page
    /\ \E c \in Calls :
          \/ \E p \in Receipts : HandleRefund(c, p)
          \/ PaymentsAnswers(c) \/ LoseInList(c)

(***************************************************************************)
(* Properties                                                              *)
(***************************************************************************)
PaymentsTypeOK == page = "payments" =>
    /\ \A c \in Calls : IsCall(call[c], [list |-> {Nil}, refund |-> [payment : Receipts]],
                                        [list |-> SheetRows, refund |-> {}])
    /\ server \in [Receipts -> PaymentStatuses]
    /\ view \in [key : {Nil}, rows : SheetRows, loading : BOOLEAN, refunding : Receipts \cup {Nil}]
    /\ past \in ListPast

\* A payment is asked to be refunded once: its refunds under way are at most one,
\* and the payments that are listed are what they are, unless two payments were
\* refunded at the same time, or an answer overtook another one or was lost.
EachPaymentIsRefundedOnce == page = "payments" /\ ~past.mixed =>
    /\ \A c, d \in Pending("refund") : call[c].arg.payment = call[d].arg.payment => c = d
    /\ Current(status)
=============================================================================
