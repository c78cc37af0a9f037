------------------------------- MODULE Payment -------------------------------
(***************************************************************************)
(* PaymentService (backend/app/services/payment_service.py), the webhook   *)
(* handlers and the reconcile_payments job (backend/app/workers/tasks.py)  *)
(* against one payment gateway.                                            *)
(*                                                                         *)
(* A request or job reads rows in one transaction and commits whole column *)
(* values in a later step, with no row lock; in between other requests     *)
(* commit and the gateway is called.  A genuine signature exists only for  *)
(* a charge the gateway captured; it is not compared with the order of the *)
(* row, so a verification may name the charge of another order.  Webhooks  *)
(* may be lost, delayed, repeated and reordered.  The gateway is Razorpay; *)
(* the mock provider, which takes any id, is left out.                     *)
(***************************************************************************)
EXTENDS Integers, FiniteSetsExt

CONSTANTS
    Payments,    \* payment rows that may come to exist
    Appts,       \* appointments that ask for a deposit
    ApptOf,      \* the appointment a payment row is for
    Workers,     \* connections that serve requests, webhooks and jobs
    Amount,      \* what every payment is for, in currency units
    Crashes,     \* TRUE: a worker may die between two steps
    MaxInvoices, \* bound on the invoices of a payment when a verification starts
    RefundIds,   \* provider_refund_id: bounds the refunds there are and those under way
    NoCharge,
    NoWork

ASSUME PaymentAssumption ==
    /\ ApptOf \in [Payments -> Appts]
    /\ Amount \in Nat \ {0}
    /\ MaxInvoices \in Nat
    /\ Crashes \in BOOLEAN
    /\ NoCharge \notin Payments

PaymentStatuses == {"PENDING", "PROCESSING", "CAPTURED", "FAILED", "REFUNDED",
                    "PARTIALLY_REFUNDED", "CANCELLED"}

\* An order has one charge, which is named by the payment row of the order.
Charges == Payments

\* A refund of a charge at the gateway, and the refunds row that is written for it.
Refund == [id : RefundIds, charge : Charges, amount : 1 .. Amount]

VARIABLES
    row,        \* payments.status, "NONE" while there is no row
    charge,     \* payments.provider_payment_id: the charge that was verified for it
    invoices,   \* how many invoices the payment has
    refunds,    \* its refunds rows
    stale,      \* the row is older than 30 minutes
    appt,       \* appointments.status, as far as payments look at it
    work,       \* what each worker has read and is about to do
    paid,       \* the gateway has captured the charge of the payment's order
    repaid,     \* the refunds the gateway has made, by the row they were asked for
    hooks,      \* webhook events the gateway has to deliver
    lost        \* history: refunds that were made for a request that died before its commit

vars == <<row, charge, invoices, refunds, stale, appt, work, paid, repaid, hooks, lost>>
rowVars == <<row, charge, invoices, refunds, stale>>
gatewayVars == <<paid, repaid, hooks, lost>>

Job == [op : {"order", "verify", "captured", "failed", "refund", "reconcile"},
        step : {"ready", "gateway", "commit"},
        pays : SUBSET Payments,  \* the rows it read
        signed : Charges \cup {NoCharge},  \* what the signature is for, NoCharge: it is not genuine
        confirm : BOOLEAN,       \* it found the appointment PENDING
        refund : SUBSET Refund]  \* the one it makes, {}: none

ASSUME WorkAssumption == NoWork \notin Job

NewJob(op, step, pays) ==
    [op |-> op, step |-> step, pays |-> pays, signed |-> NoCharge, confirm |-> FALSE, refund |-> {}]

Start(w, job) == work[w] = NoWork /\ work' = [work EXCEPT ![w] = job]
Doing(w, op, step) == work[w] # NoWork /\ work[w].op = op /\ work[w].step = step
Free(w) == work' = [work EXCEPT ![w] = NoWork]

Init ==
    /\ row = [p \in Payments |-> "NONE"]
    /\ charge = [p \in Payments |-> NoCharge]
    /\ invoices = [p \in Payments |-> 0]
    /\ refunds = [p \in Payments |-> {}]
    /\ stale = [p \in Payments |-> FALSE]
    /\ appt = [a \in Appts |-> "PENDING"]
    /\ work = [w \in Workers |-> NoWork]
    /\ paid = [p \in Payments |-> FALSE]
    /\ repaid = [p \in Payments |-> {}]
    /\ hooks = {}
    /\ lost = [p \in Payments |-> {}]

(***************************************************************************)
(* create_payment_order                                                    *)
(***************************************************************************)
\* _get_existing_payment: the rows of an appointment that are PENDING or CAPTURED.
\* scalar_one_or_none raises when there is more than one.
OpenRows(a) == {p \in Payments : ApptOf[p] = a /\ row[p] \in {"PENDING", "CAPTURED"}}

\* No captured payment exists; the gateway hands out an order.
CreateOrder(w, p) ==
    /\ row[p] = "NONE"
    /\ \A v \in Workers : work[v] # NoWork => p \notin work[v].pays
    /\ Cardinality(OpenRows(ApptOf[p])) <= 1
    /\ \A q \in OpenRows(ApptOf[p]) : row[q] # "CAPTURED"
    /\ Start(w, NewJob("order", "commit", {p}))
    /\ UNCHANGED <<rowVars, appt, gatewayVars>>

CommitOrder(w) ==
    /\ Doing(w, "order", "commit")
    /\ row' = [p \in Payments |-> IF p \in work[w].pays THEN "PENDING" ELSE row[p]]
    /\ Free(w)
    /\ UNCHANGED <<charge, invoices, refunds, stale, appt, gatewayVars>>

(***************************************************************************)
(* verify_and_capture                                                      *)
(***************************************************************************)
\* Reads the row; a captured payment is returned as it is.  The order that the
\* signature is checked for is the one that the request names.
StartVerify(w, p, signed) ==
    /\ row[p] \notin {"NONE", "CAPTURED"}
    /\ signed # NoCharge => paid[signed]
    /\ invoices[p] < MaxInvoices
    /\ Start(w, [NewJob("verify", "ready", {p}) EXCEPT !.signed = signed])
    /\ UNCHANGED <<rowVars, appt, gatewayVars>>

\* An invalid signature: status is set to FAILED and flushed, and the
\* PaymentError that follows makes get_db roll it back, so nothing changes.
RejectSignature(w) ==
    /\ Doing(w, "verify", "ready")
    /\ work[w].signed = NoCharge
    /\ Free(w)
    /\ UNCHANGED <<rowVars, appt, gatewayVars>>

\* Mutant: what the client says about its payment is believed.
AcceptAnySignature(w) ==
    /\ Doing(w, "verify", "ready")
    /\ work' = [work EXCEPT ![w].step = "commit",
                            ![w].signed = CHOOSE p \in Payments : p \in work[w].pays,
                            ![w].confirm = \E p \in work[w].pays : appt[ApptOf[p]] = "PENDING"]
    /\ UNCHANGED <<rowVars, appt, gatewayVars>>

\* A valid one: the appointment is read.
AcceptSignature(w) ==
    /\ Doing(w, "verify", "ready")
    /\ work[w].signed # NoCharge
    /\ work' = [work EXCEPT ![w].step = "commit",
                            ![w].confirm = \E p \in work[w].pays : appt[ApptOf[p]] = "PENDING"]
    /\ UNCHANGED <<rowVars, appt, gatewayVars>>

\* Mutant: only a payment that is still PENDING confirms its appointment.
ConfirmFirstCapture(w) ==
    appt' = [a \in Appts |->
                IF work[w].confirm /\ \E p \in work[w].pays :
                      ApptOf[p] = a /\ row[p] = "PENDING"
                THEN "CONFIRMED" ELSE appt[a]]

\* A job that found the appointment PENDING writes CONFIRMED with its payment.
ConfirmAppointment(w) ==
    appt' = [a \in Appts |->
                IF work[w].confirm /\ \E p \in work[w].pays : ApptOf[p] = a
                THEN "CONFIRMED" ELSE appt[a]]

\* CAPTURED, provider ids, a confirmed appointment and an invoice in one commit.
CommitCapture(w) ==
    /\ Doing(w, "verify", "commit")
    /\ row' = [p \in Payments |-> IF p \in work[w].pays THEN "CAPTURED" ELSE row[p]]
    /\ charge' = [p \in Payments |-> IF p \in work[w].pays THEN work[w].signed ELSE charge[p]]
    /\ invoices' = [p \in Payments |-> IF p \in work[w].pays THEN invoices[p] + 1
                                       ELSE invoices[p]]
    /\ ConfirmAppointment(w)
    /\ Free(w)
    /\ UNCHANGED <<refunds, stale, gatewayVars>>

(***************************************************************************)
(* process_webhook                                                         *)
(***************************************************************************)
\* Mutant: the row is looked up by provider_order_id.
FoundByOrderId(q) == {p \in Payments : row[p] # "NONE" /\ p = q}

\* _handle_payment_captured looks the row up by provider_payment_id, which only
\* verify_and_capture sets.
FoundByPaymentId(q) == {p \in Payments : row[p] # "NONE" /\ charge[p] = q}

\* scalar_one_or_none raises when two rows name the charge.
HookCaptured(w, p) ==
    /\ \E q \in Charges : [type |-> "payment.captured", pay |-> q] \in hooks /\ FoundByPaymentId(q) = {p}
    /\ row[p] # "CAPTURED"
    /\ Start(w, [NewJob("captured", "commit", {p})
                    EXCEPT !.confirm = (appt[ApptOf[p]] = "PENDING")])
    /\ UNCHANGED <<rowVars, appt, gatewayVars>>

CommitHookCaptured(w) ==
    /\ Doing(w, "captured", "commit")
    /\ row' = [p \in Payments |-> IF p \in work[w].pays THEN "CAPTURED" ELSE row[p]]
    /\ ConfirmAppointment(w)
    /\ Free(w)
    /\ UNCHANGED <<charge, invoices, refunds, stale, gatewayVars>>

\* _handle_payment_failed looks the row up by provider_order_id.
HookFailed(w, p) ==
    /\ [type |-> "payment.failed", pay |-> p] \in hooks
    /\ row[p] = "PENDING"
    /\ Start(w, NewJob("failed", "commit", {p}))
    /\ UNCHANGED <<rowVars, appt, gatewayVars>>

CommitHookFailed(w) ==
    /\ Doing(w, "failed", "commit")
    /\ row' = [p \in Payments |-> IF p \in work[w].pays THEN "FAILED" ELSE row[p]]
    /\ Free(w)
    /\ UNCHANGED <<charge, invoices, refunds, stale, appt, gatewayVars>>

(***************************************************************************)
(* create_refund                                                           *)
(***************************************************************************)
\* The refund a worker is making.
Handed(w) == IF work[w] = NoWork THEN {} ELSE work[w].refund

\* The gateway gives every refund an id of its own.
NewRefundId(id) ==
    /\ \A p \in Payments : \A r \in repaid[p] : r.id # id
    /\ \A w \in Workers : \A r \in Handed(w) : r.id # id

StartRefund(w, p, refund) ==
    /\ row[p] \in {"CAPTURED", "PARTIALLY_REFUNDED"}
    /\ refund.charge = charge[p]
    /\ NewRefundId(refund.id)
    /\ Start(w, [NewJob("refund", "gateway", {p}) EXCEPT !.refund = {refund}])
    /\ UNCHANGED <<rowVars, appt, gatewayVars>>

\* Razorpay refuses to pay back more of a charge than it captured.
PaidBack(q) == UNION {{r \in repaid[p] : r.charge = q} : p \in Payments}
Covered(refund) == MapThenSumSet(LAMBDA r : r.amount, PaidBack(refund.charge) \cup {refund}) <= Amount

\* process_refund moves the money before the transaction commits.
RefundAtGateway(w) ==
    /\ Doing(w, "refund", "gateway")
    /\ \A r \in work[w].refund : Covered(r)
    /\ repaid' = [p \in Payments |-> IF p \in work[w].pays THEN repaid[p] \cup work[w].refund
                                     ELSE repaid[p]]
    /\ work' = [work EXCEPT ![w].step = "commit"]
    /\ UNCHANGED <<rowVars, appt, paid, hooks, lost>>

\* PaymentError.
RefundRefused(w) ==
    /\ Doing(w, "refund", "gateway")
    /\ \E r \in work[w].refund : ~Covered(r)
    /\ Free(w)
    /\ UNCHANGED <<rowVars, appt, gatewayVars>>

\* Mutant: a payment that another request refunded meanwhile gets no second row.
CommitRefundOnce(w) ==
    /\ Doing(w, "refund", "commit")
    /\ refunds' = [p \in Payments |-> IF p \in work[w].pays /\ row[p] = "CAPTURED"
                                      THEN refunds[p] \cup work[w].refund ELSE refunds[p]]
    /\ row' = [p \in Payments |-> IF p \in work[w].pays THEN "REFUNDED" ELSE row[p]]
    /\ Free(w)
    /\ UNCHANGED <<charge, invoices, stale, appt, gatewayVars>>

\* The refund row and the status, REFUNDED whatever the amount was.
CommitRefund(w) ==
    /\ Doing(w, "refund", "commit")
    /\ refunds' = [p \in Payments |-> IF p \in work[w].pays THEN refunds[p] \cup work[w].refund
                                      ELSE refunds[p]]
    /\ row' = [p \in Payments |-> IF p \in work[w].pays THEN "REFUNDED" ELSE row[p]]
    /\ Free(w)
    /\ UNCHANGED <<charge, invoices, stale, appt, gatewayVars>>

(***************************************************************************)
(* reconcile_payments                                                      *)
(***************************************************************************)
\* Mutant: the cutoff is compared the wrong way round.
Recent == {p \in Payments : row[p] = "PENDING" /\ ~stale[p]}

\* Mutant: the query names the age, and only leaves out what is over.
Unfinished == {p \in Payments : row[p] \in {"PENDING", "CAPTURED"} /\ stale[p]}

\* PENDING and created before the cutoff, 30 minutes ago.
Expired == {p \in Payments : row[p] = "PENDING" /\ stale[p]}

StartReconcile(w) ==
    /\ Expired # {}
    /\ Start(w, NewJob("reconcile", "commit", Expired))
    /\ UNCHANGED <<rowVars, appt, gatewayVars>>

CommitReconcile(w) ==
    /\ Doing(w, "reconcile", "commit")
    /\ row' = [p \in Payments |-> IF p \in work[w].pays THEN "CANCELLED" ELSE row[p]]
    /\ Free(w)
    /\ UNCHANGED <<charge, invoices, refunds, stale, appt, gatewayVars>>

(***************************************************************************)
(* Crashes, the gateway, the customer and the other services               *)
(***************************************************************************)
\* The worker dies, or the answer of the gateway does not arrive in time and the
\* transaction is rolled back.
Crash(w) ==
    /\ Crashes
    /\ work[w] # NoWork
    /\ lost' = [p \in Payments |-> IF Doing(w, "refund", "commit") /\ p \in work[w].pays
                                    THEN lost[p] \cup work[w].refund ELSE lost[p]]
    /\ Free(w)
    /\ UNCHANGED <<rowVars, appt, paid, repaid, hooks>>

\* The customer pays an order, at most once; an order stays open at the gateway
\* whatever becomes of the row.
GatewayCaptures(p) ==
    /\ row[p] # "NONE" /\ ~paid[p]
    /\ paid' = [paid EXCEPT ![p] = TRUE]
    /\ hooks' = hooks \cup {[type |-> "payment.captured", pay |-> p]}
    /\ UNCHANGED <<rowVars, appt, work, repaid, lost>>

\* An attempt to pay fails; the customer may try again.
GatewayFails(p) ==
    /\ row[p] # "NONE" /\ ~paid[p]
    /\ hooks' = hooks \cup {[type |-> "payment.failed", pay |-> p]}
    /\ UNCHANGED <<rowVars, appt, work, paid, repaid, lost>>

Age(p) ==
    /\ row[p] # "NONE" /\ ~stale[p]
    /\ stale' = [stale EXCEPT ![p] = TRUE]
    /\ UNCHANGED <<row, charge, invoices, refunds, appt, work, gatewayVars>>

\* BookingService.cancel_booking.  Booking takes these two apart into a read and
\* a commit; here a late write would only add cancellations and confirmations.
CancelAppointment(a) ==
    /\ appt[a] \in {"PENDING", "CONFIRMED"}
    /\ appt' = [appt EXCEPT ![a] = "CANCELLED"]
    /\ UNCHANGED <<rowVars, work, gatewayVars>>

\* BookingService.confirm_deposit_payment asks for no payment.
ConfirmDeposit(a) ==
    /\ appt[a] = "PENDING"
    /\ appt' = [appt EXCEPT ![a] = "CONFIRMED"]
    /\ UNCHANGED <<rowVars, work, gatewayVars>>

Serve(w) ==
    \/ CommitOrder(w) \/ RejectSignature(w) \/ AcceptSignature(w) \/ CommitCapture(w)
    \/ CommitHookCaptured(w) \/ CommitHookFailed(w)
    \/ RefundAtGateway(w) \/ RefundRefused(w) \/ CommitRefund(w)
    \/ CommitReconcile(w)

Next ==
    \/ \E w \in Workers :
          \/ \E p \in Payments :
                \/ CreateOrder(w, p)
                \/ \E signed \in Charges \cup {NoCharge} : StartVerify(w, p, signed)
                \/ HookCaptured(w, p)
                \/ HookFailed(w, p)
                \/ \E refund \in Refund : StartRefund(w, p, refund)
          \/ StartReconcile(w)
          \/ Serve(w)
          \/ Crash(w)
    \/ \E p \in Payments : GatewayCaptures(p) \/ GatewayFails(p) \/ Age(p)
    \/ \E a \in Appts : CancelAppointment(a) \/ ConfirmDeposit(a)

Spec == Init /\ [][Next]_vars

\* Started work goes on, unless its worker dies; the gateway repeats a webhook until
\* it is answered; beat starts the reconciliation again and again, and not every run
\* of it dies; and time passes.
Fairness ==
    /\ \A w \in Workers : WF_vars(Serve(w))
    /\ \A p \in Payments : SF_vars(\E w \in Workers : HookCaptured(w, p))
    /\ \A p \in Payments : SF_vars(\E w \in Workers : HookFailed(w, p))
    /\ \A p \in Payments : WF_vars(Age(p))
    /\ SF_vars(\E w \in Workers : StartReconcile(w))
    /\ SF_vars(\E w \in Workers : CommitReconcile(w))

FairSpec == Spec /\ Fairness

(***************************************************************************)
(* Properties                                                              *)
(***************************************************************************)
\* Types, and what a job may hold: the rows it read exist, unless it is there to
\* create them, and two requests never create the same one.
TypeOK ==
    /\ row \in [Payments -> PaymentStatuses \cup {"NONE"}]
    /\ charge \in [Payments -> Charges \cup {NoCharge}]
    /\ invoices \in [Payments -> Nat]
    /\ refunds \in [Payments -> SUBSET Refund]
    /\ stale \in [Payments -> BOOLEAN]
    /\ appt \in [Appts -> {"PENDING", "CONFIRMED", "CANCELLED"}]
    /\ work \in [Workers -> Job \cup {NoWork}]
    /\ paid \in [Payments -> BOOLEAN]
    /\ repaid \in [Payments -> SUBSET Refund]
    /\ hooks \subseteq [type : {"payment.captured", "payment.failed"}, pay : Payments]
    /\ lost \in [Payments -> SUBSET Refund]
    /\ \A w \in Workers : work[w] # NoWork => \A p \in work[w].pays :
          /\ work[w].op = "order" <=> row[p] = "NONE"
          /\ work[w].op = "order" => \A v \in Workers \ {w} :
                work[v] # NoWork => p \notin work[v].pays

Settled(p) == row[p] \in {"CAPTURED", "REFUNDED"}

\* "The backend ALWAYS verifies": whichever of the verify request, the webhook
\* and the refund wrote a row last, it is settled only with a charge that the
\* gateway captured, though not always the charge of its own order.
SettledHasCharge == \A p \in Payments : Settled(p) => charge[p] # NoCharge /\ paid[charge[p]]

\* The webhook settles a payment without writing an invoice, and may run before,
\* between and after verifications: a settled payment still has its invoice.
SettledHasInvoice == \A p \in Payments : Settled(p) => invoices[p] >= 1

\* Step 4 of verify_and_capture, "mark CAPTURED, confirm appointment": the
\* appointment of a settled payment is never left waiting for its deposit,
\* although whether to confirm it is decided before the commit, and it may be
\* cancelled or confirmed by others meanwhile.
SettledIsNotPending == \A p \in Payments : Settled(p) => appt[ApptOf[p]] # "PENDING"

\* Inductive form of the three: what a job carries is as sound as what is stored.
SettledInv ==
    /\ \A p \in Payments : Settled(p) \/ charge[p] # NoCharge =>
          charge[p] # NoCharge /\ paid[charge[p]] /\ invoices[p] >= 1 /\ appt[ApptOf[p]] # "PENDING"
    /\ \A w \in Workers : work[w] # NoWork => \A p \in work[w].pays :
          /\ work[w].op = "verify" /\ work[w].signed # NoCharge => paid[work[w].signed]
          /\ work[w].op = "verify" /\ work[w].step = "commit" =>
                work[w].signed # NoCharge /\ (work[w].confirm \/ appt[ApptOf[p]] # "PENDING")
          /\ work[w].op \in {"captured", "refund"} => charge[p] # NoCharge

\* What a request has had the gateway pay back for p, and not committed.
Unrecorded(p) ==
    UNION {work[w].refund : w \in {v \in Workers : Doing(v, "refund", "commit") /\ p \in work[v].pays}}

\* The money and the books: at any moment, also after concurrent refunds, every
\* refund that the gateway made has its row, or is about to get it, or was made
\* for a request that died in between; and there is no row without the money.
RefundsAreRecorded ==
    \A p \in Payments :
        /\ refunds[p] \cup Unrecorded(p) \cup lost[p] = repaid[p]
        /\ refunds[p] \cap lost[p] = {} /\ (refunds[p] \cup lost[p]) \cap Unrecorded(p) = {}

\* The inductive form: no two requests are to make a refund of the same id, and
\* none is to make one that the gateway has made.
RefundInv ==
    /\ RefundsAreRecorded
    /\ \A v, w \in Workers : \A r \in Handed(v), t \in Handed(w) : r.id = t.id => v = w
    /\ \A w \in Workers : \A r \in Handed(w) :
          Doing(w, "refund", "commit") \/ \A p \in Payments : \A t \in repaid[p] : r.id # t.id

\* A job that has read p as PENDING, and is to end it.
Ending(w, p) == work[w] # NoWork /\ work[w].op \in {"failed", "reconcile"} /\ p \in work[w].pays

\* Captured money stays on the books: a captured payment is only ever refunded,
\* unless a job that read it before it was captured commits late (CapturedIsKept,
\* below); and no webhook, retry or run of the reconciliation that comes after the
\* capture joins those jobs.
CapturedIsKeptUnlessRaced ==
    [][\A p \in Payments : row[p] = "CAPTURED" =>
          /\ row'[p] \in {"CAPTURED", "REFUNDED"} \/ \E w \in Workers : Ending(w, p)
          /\ \A w \in Workers : Ending(w, p)' => Ending(w, p)]_vars

\* docs/FRS.md: the reconciliation job expires stale pending payments, however
\* its commit races with requests and webhooks.
PendingIsResolved ==
    \A p \in Payments : row[p] = "PENDING" ~> row[p] # "PENDING"

(***************************************************************************)
(* What the documents say, and the code does not do                        *)
(***************************************************************************)
\* reconcile_payments, "mark as failed if unresolved": a captured payment is
\* resolved, and only a refund changes it.
CapturedIsKept ==
    [][\A p \in Payments : row[p] = "CAPTURED" =>
          row'[p] \in {"CAPTURED", "REFUNDED", "PARTIALLY_REFUNDED"}]_vars
=============================================================================
