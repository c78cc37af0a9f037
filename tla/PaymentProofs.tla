---------------------------- MODULE PaymentProofs ----------------------------
(***************************************************************************)
(* What Payment guarantees for any number of payments, appointments and    *)
(* workers, with crashes and with lost, late, repeated and reordered       *)
(* webhooks.                                                               *)
(***************************************************************************)
EXTENDS Payment, TLAPS

\* The jobs the actions start are jobs.
LEMMA NewJobType ==
    ASSUME NEW op \in {"order", "verify", "captured", "failed", "refund", "reconcile"},
           NEW step \in {"ready", "gateway", "commit"}, NEW pays \in SUBSET Payments
    PROVE  /\ NewJob(op, step, pays) \in Job
           /\ NewJob(op, step, pays).op = op
           /\ NewJob(op, step, pays).pays = pays
BY DEF NewJob, Job

\* Starting a job on existing rows keeps the types, whatever its other fields.
LEMMA TypeStart ==
    ASSUME TypeOK, NEW w \in Workers, NEW job \in Job, Start(w, job),
           job.op # "order", \A p \in job.pays : row[p] # "NONE",
           UNCHANGED <<rowVars, appt, gatewayVars>>
    PROVE  TypeOK'
<1>1. work' = [work EXCEPT ![w] = job] /\ work[w] = NoWork
  BY DEF Start
<1>2. UNCHANGED <<row, charge, invoices, refunds, stale, appt, paid, repaid, hooks, lost>>
  BY DEF rowVars, gatewayVars
<1>3. job # NoWork
  BY WorkAssumption
<1>4. work' \in [Workers -> Job \cup {NoWork}]
  BY <1>1 DEF TypeOK
<1>5. \A v \in Workers : work'[v] # NoWork => \A p \in work'[v].pays :
        /\ work'[v].op = "order" <=> row[p] = "NONE"
        /\ work'[v].op = "order" => \A u \in Workers \ {v} :
              work'[u] # NoWork => p \notin work'[u].pays
  BY <1>1, <1>3 DEF TypeOK
<1> QED
  BY <1>2, <1>4, <1>5 DEF TypeOK

\* Ending a job keeps the types when the rows it wrote exist and keep existing.
LEMMA TypeEnd ==
    ASSUME TypeOK, NEW w \in Workers, Free(w),
           row' \in [Payments -> PaymentStatuses \cup {"NONE"}],
           charge' \in [Payments -> Charges \cup {NoCharge}],
           invoices' \in [Payments -> Nat],
           refunds' \in [Payments -> SUBSET Refund],
           appt' \in [Appts -> {"PENDING", "CONFIRMED", "CANCELLED"}],
           \A v \in Workers \ {w} : work[v] # NoWork => \A p \in work[v].pays :
              row'[p] = "NONE" <=> row[p] = "NONE",
           lost' \in [Payments -> SUBSET Refund],
           UNCHANGED <<stale, paid, repaid, hooks>>
    PROVE  TypeOK'
<1>1. work' = [work EXCEPT ![w] = NoWork]
  BY DEF Free
<1>2. work' \in [Workers -> Job \cup {NoWork}]
  BY <1>1 DEF TypeOK
<1>3. \A v \in Workers : work'[v] # NoWork => v # w /\ work'[v] = work[v]
  BY <1>1 DEF TypeOK
<1>4. \A v \in Workers : work'[v] # NoWork => \A p \in work'[v].pays :
        /\ work'[v].op = "order" <=> row'[p] = "NONE"
        /\ work'[v].op = "order" => \A u \in Workers \ {v} :
              work'[u] # NoWork => p \notin work'[u].pays
  BY <1>3 DEF TypeOK
<1> QED
  BY <1>2, <1>4 DEF TypeOK

\* A job on existing rows may write any status to all of them.
LEMMA TypeWrite ==
    ASSUME TypeOK, NEW w \in Workers, work[w] # NoWork, work[w].op # "order",
           NEW s \in PaymentStatuses, Free(w),
           row' = [p \in Payments |-> IF p \in work[w].pays THEN s ELSE row[p]],
           charge' \in [Payments -> Charges \cup {NoCharge}],
           invoices' \in [Payments -> Nat],
           refunds' \in [Payments -> SUBSET Refund],
           appt' \in [Appts -> {"PENDING", "CONFIRMED", "CANCELLED"}],
           UNCHANGED <<stale, gatewayVars>>
    PROVE  TypeOK'
<1>1. work[w].pays \subseteq Payments
  BY DEF TypeOK, Job
<1>2. \A p \in work[w].pays : row[p] # "NONE"
  BY DEF TypeOK
<1>3. row' \in [Payments -> PaymentStatuses \cup {"NONE"}]
  BY DEF TypeOK
<1>4. s # "NONE"
  BY DEF PaymentStatuses
<1>5. \A v \in Workers \ {w} : work[v] # NoWork => \A p \in work[v].pays :
        row'[p] = "NONE" <=> row[p] = "NONE"
  <2> SUFFICES ASSUME NEW v \in Workers \ {w}, work[v] # NoWork, NEW p \in work[v].pays
               PROVE  row'[p] = "NONE" <=> row[p] = "NONE"
    OBVIOUS
  <2>1. p \in Payments
    BY DEF TypeOK, Job
  <2> QED
    BY <2>1, <1>2, <1>4
<1> QED
  BY <1>3, <1>5, TypeEnd DEF TypeOK, gatewayVars

\* Only the work of one worker changes, and it keeps its operation and its rows.
LEMMA TypeGoOn ==
    ASSUME TypeOK, NEW w \in Workers, work[w] # NoWork,
           work' \in [Workers -> Job \cup {NoWork}],
           work'[w] \in Job, work'[w].op = work[w].op, work'[w].pays = work[w].pays,
           \A v \in Workers \ {w} : work'[v] = work[v],
           repaid' \in [Payments -> SUBSET Refund],
           UNCHANGED <<rowVars, appt, paid, hooks, lost>>
    PROVE  TypeOK'
<1>1. UNCHANGED <<row, charge, invoices, refunds, stale>>
  BY DEF rowVars
<1>2. \A v \in Workers : work'[v] # NoWork => \A q \in work'[v].pays :
        /\ work'[v].op = "order" <=> row[q] = "NONE"
        /\ work'[v].op = "order" => \A u \in Workers \ {v} :
              work'[u] # NoWork => q \notin work'[u].pays
  BY DEF TypeOK
<1> QED
  BY <1>1, <1>2 DEF TypeOK

\* Confirming keeps the appointments' type.
LEMMA ConfirmType ==
    ASSUME TypeOK, NEW w \in Workers, ConfirmAppointment(w)
    PROVE  appt' \in [Appts -> {"PENDING", "CONFIRMED", "CANCELLED"}]
BY DEF ConfirmAppointment, TypeOK

\* Every step keeps the types.
LEMMA TypeStep == TypeOK /\ [Next]_vars => TypeOK'
<1> SUFFICES ASSUME TypeOK, [Next]_vars
             PROVE  TypeOK'
  OBVIOUS
<1>1. ASSUME NEW w \in Workers, NEW p \in Payments, CreateOrder(w, p)
      PROVE  TypeOK'
  <2> DEFINE job == NewJob("order", "commit", {p})
  <2>1. job \in Job /\ job.op = "order" /\ job.pays = {p} /\ job # NoWork
    BY NewJobType, WorkAssumption
  <2>2. /\ work' = [work EXCEPT ![w] = job] /\ work[w] = NoWork /\ row[p] = "NONE"
        /\ \A v \in Workers : work[v] # NoWork => p \notin work[v].pays
    BY <1>1 DEF CreateOrder, Start
  <2>3. UNCHANGED <<row, charge, invoices, refunds, stale, appt, paid, repaid, hooks, lost>>
    BY <1>1 DEF CreateOrder, rowVars, gatewayVars
  <2> HIDE DEF job
  <2>4. work' \in [Workers -> Job \cup {NoWork}]
    BY <2>1, <2>2 DEF TypeOK
  <2>5. \A v \in Workers : work'[v] # NoWork => \A q \in work'[v].pays :
          /\ work'[v].op = "order" <=> row[q] = "NONE"
          /\ work'[v].op = "order" => \A u \in Workers \ {v} :
                work'[u] # NoWork => q \notin work'[u].pays
    BY <2>1, <2>2 DEF TypeOK
  <2> QED
    BY <2>3, <2>4, <2>5 DEF TypeOK
<1>2. ASSUME NEW w \in Workers, CommitOrder(w)
      PROVE  TypeOK'
  <2>1. /\ work[w] # NoWork /\ work[w].op = "order"
        /\ Free(w) /\ UNCHANGED <<charge, invoices, refunds, stale, appt, gatewayVars>>
        /\ row' = [p \in Payments |-> IF p \in work[w].pays THEN "PENDING" ELSE row[p]]
    BY <1>2 DEF CommitOrder, Doing
  <2>2. row' \in [Payments -> PaymentStatuses \cup {"NONE"}]
    BY <2>1 DEF TypeOK, PaymentStatuses
  <2>3. work[w] \in Job /\ work[w].pays \subseteq Payments
    BY <2>1 DEF TypeOK, Job
  <2>4. \A v \in Workers \ {w} : work[v] # NoWork => \A p \in work[v].pays :
          p \in Payments /\ p \notin work[w].pays
    BY <2>1, <2>3 DEF TypeOK, Job
  <2>5. \A v \in Workers \ {w} : work[v] # NoWork => \A p \in work[v].pays : row'[p] = row[p]
    BY <2>1, <2>4
  <2>6. /\ charge' \in [Payments -> Charges \cup {NoCharge}] /\ invoices' \in [Payments -> Nat]
        /\ refunds' \in [Payments -> SUBSET Refund]
        /\ appt' \in [Appts -> {"PENDING", "CONFIRMED", "CANCELLED"}]
    BY <2>1 DEF TypeOK
  <2>7. UNCHANGED <<stale, paid, repaid, hooks>> /\ lost' \in [Payments -> SUBSET Refund]
    BY <2>1 DEF gatewayVars, TypeOK
  <2> QED
    BY <2>1, <2>2, <2>5, <2>6, <2>7, TypeEnd
<1>3. ASSUME NEW w \in Workers, NEW p \in Payments, NEW signed \in Charges \cup {NoCharge},
             StartVerify(w, p, signed)
      PROVE  TypeOK'
  <2> DEFINE job == [NewJob("verify", "ready", {p}) EXCEPT !.signed = signed]
  <2>1. job \in Job /\ job.op = "verify" /\ job.pays = {p}
    BY DEF NewJob, Job
  <2>2. Start(w, job) /\ row[p] # "NONE" /\ UNCHANGED <<rowVars, appt, gatewayVars>>
    BY <1>3 DEF StartVerify
  <2> HIDE DEF job
  <2> QED
    BY <2>1, <2>2, TypeStart
<1>4. ASSUME NEW w \in Workers, RejectSignature(w)
      PROVE  TypeOK'
  BY <1>4, TypeEnd DEF RejectSignature, TypeOK, rowVars, gatewayVars
<1>5. ASSUME NEW w \in Workers, AcceptSignature(w)
      PROVE  TypeOK'
  <2>1. PICK c \in BOOLEAN :
           work' = [work EXCEPT ![w].step = "commit", ![w].confirm = c]
    BY <1>5 DEF AcceptSignature
  <2>2. work[w] \in Job /\ work[w] # NoWork
    BY <1>5 DEF AcceptSignature, Doing, TypeOK
  <2>3. /\ work'[w] \in Job /\ work'[w].op = work[w].op /\ work'[w].pays = work[w].pays
        /\ \A v \in Workers \ {w} : work'[v] = work[v]
        /\ work' \in [Workers -> Job \cup {NoWork}]
    BY <2>1, <2>2 DEF TypeOK, Job
  <2>4. UNCHANGED <<rowVars, appt, gatewayVars>>
    BY <1>5 DEF AcceptSignature
  <2> QED
    BY <2>2, <2>3, <2>4, TypeGoOn DEF TypeOK, gatewayVars
<1>6. ASSUME NEW w \in Workers, CommitCapture(w)
      PROVE  TypeOK'
  <2>1. /\ work[w] # NoWork /\ work[w].op = "verify" /\ Free(w)
        /\ row' = [p \in Payments |-> IF p \in work[w].pays THEN "CAPTURED" ELSE row[p]]
        /\ UNCHANGED <<stale, gatewayVars>>
    BY <1>6 DEF CommitCapture, Doing
  <2>2. /\ charge' \in [Payments -> Charges \cup {NoCharge}] /\ invoices' \in [Payments -> Nat]
        /\ refunds' \in [Payments -> SUBSET Refund]
        /\ appt' \in [Appts -> {"PENDING", "CONFIRMED", "CANCELLED"}]
    <3>1. work[w].signed \in Charges \cup {NoCharge}
      BY <2>1 DEF TypeOK, Job
    <3> QED
      BY <1>6, <3>1, ConfirmType DEF CommitCapture, TypeOK
  <2> QED
    BY <2>1, <2>2, TypeWrite DEF PaymentStatuses
<1>7. ASSUME NEW w \in Workers, NEW p \in Payments, HookCaptured(w, p)
      PROVE  TypeOK'
  <2> DEFINE job == [NewJob("captured", "commit", {p})
                      EXCEPT !.confirm = (appt[ApptOf[p]] = "PENDING")]
  <2>1. job \in Job /\ job.op = "captured" /\ job.pays = {p}
    BY DEF NewJob, Job
  <2>2. Start(w, job) /\ UNCHANGED <<rowVars, appt, gatewayVars>>
    BY <1>7 DEF HookCaptured
  <2>3. \A q \in {p} : row[q] # "NONE"
    BY <1>7 DEF HookCaptured, FoundByPaymentId
  <2> HIDE DEF job
  <2> QED
    BY <2>1, <2>2, <2>3, TypeStart
<1>8. ASSUME NEW w \in Workers, CommitHookCaptured(w)
      PROVE  TypeOK'
  <2>1. /\ work[w] # NoWork /\ work[w].op = "captured" /\ Free(w)
        /\ row' = [p \in Payments |-> IF p \in work[w].pays THEN "CAPTURED" ELSE row[p]]
        /\ UNCHANGED <<stale, gatewayVars>>
    BY <1>8 DEF CommitHookCaptured, Doing
  <2>2. /\ charge' \in [Payments -> Charges \cup {NoCharge}] /\ invoices' \in [Payments -> Nat]
        /\ refunds' \in [Payments -> SUBSET Refund]
        /\ appt' \in [Appts -> {"PENDING", "CONFIRMED", "CANCELLED"}]
    BY <1>8, ConfirmType DEF CommitHookCaptured, TypeOK
  <2> QED
    BY <2>1, <2>2, TypeWrite DEF PaymentStatuses
<1>9. ASSUME NEW w \in Workers, NEW p \in Payments, HookFailed(w, p)
      PROVE  TypeOK'
  <2> DEFINE job == NewJob("failed", "commit", {p})
  <2>1. job \in Job /\ job.op = "failed" /\ job.pays = {p}
    BY DEF NewJob, Job
  <2>2. Start(w, job) /\ UNCHANGED <<rowVars, appt, gatewayVars>>
    BY <1>9 DEF HookFailed
  <2>3. \A q \in {p} : row[q] # "NONE"
    BY <1>9 DEF HookFailed
  <2> HIDE DEF job
  <2> QED
    BY <2>1, <2>2, <2>3, TypeStart
<1>10. ASSUME NEW w \in Workers, CommitHookFailed(w)
      PROVE  TypeOK'
  <2>1. /\ work[w] # NoWork /\ work[w].op = "failed" /\ Free(w)
        /\ row' = [p \in Payments |-> IF p \in work[w].pays THEN "FAILED" ELSE row[p]]
        /\ UNCHANGED <<stale, gatewayVars>>
    BY <1>10 DEF CommitHookFailed, Doing
  <2>2. /\ charge' \in [Payments -> Charges \cup {NoCharge}] /\ invoices' \in [Payments -> Nat]
        /\ refunds' \in [Payments -> SUBSET Refund]
        /\ appt' \in [Appts -> {"PENDING", "CONFIRMED", "CANCELLED"}]
    BY <1>10 DEF CommitHookFailed, TypeOK
  <2> QED
    BY <2>1, <2>2, TypeWrite DEF PaymentStatuses
<1>11. ASSUME NEW w \in Workers, NEW p \in Payments, NEW refund \in Refund,
             StartRefund(w, p, refund)
      PROVE  TypeOK'
  <2> DEFINE job == [NewJob("refund", "gateway", {p}) EXCEPT !.refund = {refund}]
  <2>1. job \in Job /\ job.op = "refund" /\ job.pays = {p}
    BY NewJobType DEF Job
  <2>2. Start(w, job) /\ UNCHANGED <<rowVars, appt, gatewayVars>>
    BY <1>11 DEF StartRefund
  <2>3. \A q \in {p} : row[q] # "NONE"
    BY <1>11 DEF StartRefund
  <2> HIDE DEF job
  <2> QED
    BY <2>1, <2>2, <2>3, TypeStart
<1>12. ASSUME NEW w \in Workers, RefundAtGateway(w)
      PROVE  TypeOK'
  <2>1. work[w] \in Job /\ work[w] # NoWork
    BY <1>12 DEF RefundAtGateway, Doing, TypeOK
  <2>2. work' = [work EXCEPT ![w].step = "commit"]
    BY <1>12 DEF RefundAtGateway
  <2>3. /\ work'[w] \in Job /\ work'[w].op = work[w].op /\ work'[w].pays = work[w].pays
        /\ \A v \in Workers \ {w} : work'[v] = work[v]
        /\ work' \in [Workers -> Job \cup {NoWork}]
    BY <2>1, <2>2 DEF TypeOK, Job
  <2>4. repaid' \in [Payments -> SUBSET Refund]
    <3>1. work[w].refund \subseteq Refund
      BY <2>1 DEF Job
    <3> QED
      BY <3>1, <1>12 DEF RefundAtGateway, TypeOK
  <2>5. UNCHANGED <<rowVars, appt, paid, hooks, lost>>
    BY <1>12 DEF RefundAtGateway
  <2> QED
    BY <2>1, <2>3, <2>4, <2>5, TypeGoOn
<1>13. ASSUME NEW w \in Workers, RefundRefused(w)
      PROVE  TypeOK'
  BY <1>13, TypeEnd DEF RefundRefused, TypeOK, rowVars, gatewayVars
<1>14. ASSUME NEW w \in Workers, CommitRefund(w)
      PROVE  TypeOK'
  <2>1. /\ work[w] # NoWork /\ work[w].op = "refund" /\ Free(w)
        /\ row' = [p \in Payments |-> IF p \in work[w].pays THEN "REFUNDED" ELSE row[p]]
        /\ UNCHANGED <<stale, gatewayVars>>
    BY <1>14 DEF CommitRefund, Doing
  <2>2. /\ charge' \in [Payments -> Charges \cup {NoCharge}] /\ invoices' \in [Payments -> Nat]
        /\ appt' \in [Appts -> {"PENDING", "CONFIRMED", "CANCELLED"}]
    BY <1>14 DEF CommitRefund, TypeOK
  <2>3. refunds' \in [Payments -> SUBSET Refund]
    <3>1. work[w].refund \subseteq Refund
      BY <2>1 DEF TypeOK, Job
    <3> QED
      BY <3>1, <1>14 DEF CommitRefund, TypeOK
  <2> QED
    BY <2>1, <2>2, <2>3, TypeWrite DEF PaymentStatuses
<1>15. ASSUME NEW w \in Workers, StartReconcile(w)
      PROVE  TypeOK'
  <2> DEFINE job == NewJob("reconcile", "commit", Expired)
  <2>1. job \in Job /\ job.op = "reconcile" /\ job.pays = Expired
    BY NewJobType DEF Expired
  <2>2. Start(w, job) /\ UNCHANGED <<rowVars, appt, gatewayVars>>
    BY <1>15 DEF StartReconcile
  <2>3. \A q \in Expired : row[q] # "NONE"
    BY DEF Expired
  <2> HIDE DEF job
  <2> QED
    BY <2>1, <2>2, <2>3, TypeStart
<1>16. ASSUME NEW w \in Workers, CommitReconcile(w)
      PROVE  TypeOK'
  <2>1. /\ work[w] # NoWork /\ work[w].op = "reconcile" /\ Free(w)
        /\ row' = [p \in Payments |-> IF p \in work[w].pays THEN "CANCELLED" ELSE row[p]]
        /\ UNCHANGED <<stale, gatewayVars>>
    BY <1>16 DEF CommitReconcile, Doing
  <2>2. /\ charge' \in [Payments -> Charges \cup {NoCharge}] /\ invoices' \in [Payments -> Nat]
        /\ refunds' \in [Payments -> SUBSET Refund]
        /\ appt' \in [Appts -> {"PENDING", "CONFIRMED", "CANCELLED"}]
    BY <1>16 DEF CommitReconcile, TypeOK
  <2> QED
    BY <2>1, <2>2, TypeWrite DEF PaymentStatuses
<1>17. ASSUME NEW w \in Workers, Crash(w)
      PROVE  TypeOK'
  <2>1. work[w].refund \subseteq Refund
    BY <1>17 DEF Crash, TypeOK, Job
  <2>2. lost' \in [Payments -> SUBSET Refund]
    BY <2>1, <1>17 DEF Crash, TypeOK
  <2>3. Free(w) /\ UNCHANGED <<row, charge, invoices, refunds, stale, appt, paid, repaid, hooks>>
    BY <1>17 DEF Crash, rowVars
  <2> QED
    BY <2>2, <2>3, TypeEnd DEF TypeOK
<1>18. ASSUME NEW p \in Payments, GatewayCaptures(p)
      PROVE  TypeOK'
  BY <1>18 DEF GatewayCaptures, TypeOK, rowVars, gatewayVars
<1>19. ASSUME NEW p \in Payments, GatewayFails(p)
      PROVE  TypeOK'
  BY <1>19 DEF GatewayFails, TypeOK, rowVars, gatewayVars
<1>20. ASSUME NEW p \in Payments, Age(p)
      PROVE  TypeOK'
  BY <1>20 DEF Age, TypeOK, rowVars, gatewayVars
<1>21. ASSUME NEW a \in Appts, CancelAppointment(a)
      PROVE  TypeOK'
  BY <1>21 DEF CancelAppointment, TypeOK, rowVars, gatewayVars
<1>22. ASSUME NEW a \in Appts, ConfirmDeposit(a)
      PROVE  TypeOK'
  BY <1>22 DEF ConfirmDeposit, TypeOK, rowVars, gatewayVars
<1>23. CASE UNCHANGED vars
  BY <1>23 DEF TypeOK, vars
<1> QED
  BY <1>1, <1>2, <1>3, <1>4, <1>5, <1>6, <1>7, <1>8, <1>9, <1>10, <1>11, <1>12, <1>13,
     <1>14, <1>15, <1>16, <1>17, <1>18, <1>19, <1>20, <1>21, <1>22, <1>23
  DEF Next, Serve

\* Payments, jobs and the rows they read are always of their types, and two
\* requests never create the same row.
THEOREM TypeCorrect == Spec => []TypeOK
<1>1. Init => TypeOK
  BY DEF Init, TypeOK
<1> QED
  BY <1>1, TypeStep, PTL DEF Spec

(***************************************************************************)
(* Settled payments                                                        *)
(***************************************************************************)
RowsSound == \A p \in Payments : Settled(p) \/ charge[p] # NoCharge =>
    charge[p] # NoCharge /\ paid[charge[p]] /\ invoices[p] >= 1 /\ appt[ApptOf[p]] # "PENDING"

JobSound(job) == \A p \in job.pays :
    /\ job.op = "verify" /\ job.signed # NoCharge => paid[job.signed]
    /\ job.op = "verify" /\ job.step = "commit" =>
          job.signed # NoCharge /\ (job.confirm \/ appt[ApptOf[p]] # "PENDING")
    /\ job.op \in {"captured", "refund"} => charge[p] # NoCharge

\* SettledInv says that rows and jobs are sound.
LEMMA SettledParts ==
    SettledInv <=> RowsSound /\ \A w \in Workers : work[w] # NoWork => JobSound(work[w])
BY DEF SettledInv, RowsSound, JobSound

\* Confirming makes no appointment PENDING.
LEMMA ConfirmKeeps ==
    ASSUME NEW w \in Workers, ConfirmAppointment(w)
    PROVE  \A p \in Payments : appt[ApptOf[p]] # "PENDING" => appt'[ApptOf[p]] # "PENDING"
BY PaymentAssumption DEF ConfirmAppointment

\* The capture of a charge and the charge of a row are never taken back, and no appointment becomes PENDING
\* again, so a job that does not change stays sound.
LEMMA SettledJobs ==
    ASSUME TypeOK, SettledInv, NEW w \in Workers,
           \A v \in Workers \ {w} : work'[v] = work[v],
           work'[w] = NoWork \/ JobSound(work[w])',
           RowsSound',
           \A p \in Payments : (paid[p] => paid'[p]) /\ (charge[p] # NoCharge => charge'[p] # NoCharge),
           \A p \in Payments : appt[ApptOf[p]] # "PENDING" => appt'[ApptOf[p]] # "PENDING"
    PROVE  SettledInv'
<1>1. ASSUME NEW v \in Workers, work'[v] # NoWork
      PROVE  JobSound(work[v])'
  <2>1. CASE v = w
    BY <1>1, <2>1
  <2>2. CASE v # w
    <3>1. work'[v] = work[v] /\ work[v] # NoWork
      BY <1>1, <2>2
    <3>2. /\ work[v].pays \subseteq Payments /\ JobSound(work[v])
          /\ work[v].signed # NoCharge => work[v].signed \in Payments
      BY <3>1, SettledParts DEF TypeOK, Job, Charges
    <3> QED
      BY <3>1, <3>2 DEF JobSound
  <2> QED
    BY <2>1, <2>2
<1> QED
  BY <1>1 DEF SettledInv, RowsSound, JobSound

\* Starting a sound job.
LEMMA SettledStart ==
    ASSUME TypeOK, SettledInv, NEW w \in Workers, NEW job \in Job, Start(w, job),
           JobSound(job), UNCHANGED <<row, charge, invoices, appt, paid>>
    PROVE  SettledInv'
<1>1. /\ work'[w] = job
      /\ \A v \in Workers \ {w} : work'[v] = work[v]
  BY DEF Start, TypeOK
<1>2. RowsSound'
  BY SettledParts DEF RowsSound, Settled
<1>3. JobSound(work[w])'
  BY <1>1 DEF JobSound
<1> QED
  BY <1>1, <1>2, <1>3, SettledJobs

\* Ending one after which the rows are sound.
LEMMA SettledEnd ==
    ASSUME TypeOK, SettledInv, NEW w \in Workers, Free(w), RowsSound', paid' = paid,
           \A p \in Payments : charge[p] # NoCharge => charge'[p] # NoCharge,
           \A p \in Payments : appt[ApptOf[p]] # "PENDING" => appt'[ApptOf[p]] # "PENDING"
    PROVE  SettledInv'
<1>1. /\ work'[w] = NoWork
      /\ \A v \in Workers \ {w} : work'[v] = work[v]
  BY DEF Free, TypeOK
<1> QED
  BY <1>1, SettledJobs

\* Rows that are given a status which is not settled stay sound.
LEMMA SettledWrite ==
    ASSUME TypeOK, SettledInv, NEW w \in Workers, Free(w),
           NEW s \in PaymentStatuses \ {"CAPTURED", "REFUNDED"},
           row' = [p \in Payments |-> IF p \in work[w].pays THEN s ELSE row[p]],
           UNCHANGED <<charge, invoices, paid>>,
           \A p \in Payments : appt[ApptOf[p]] # "PENDING" => appt'[ApptOf[p]] # "PENDING"
    PROVE  SettledInv'
<1>1. RowsSound'
  BY SettledParts DEF RowsSound, Settled
<1> QED
  BY <1>1, SettledEnd

\* So do rows of a payment with a charge that are settled again.
LEMMA SettledAgain ==
    ASSUME TypeOK, SettledInv, NEW w \in Workers, Free(w),
           work[w] # NoWork, work[w].op \in {"captured", "refund"},
           NEW s \in {"CAPTURED", "REFUNDED"},
           row' = [p \in Payments |-> IF p \in work[w].pays THEN s ELSE row[p]],
           UNCHANGED <<charge, invoices, paid>>,
           \A p \in Payments : appt[ApptOf[p]] # "PENDING" => appt'[ApptOf[p]] # "PENDING"
    PROVE  SettledInv'
<1>1. \A p \in work[w].pays : charge[p] # NoCharge
  BY SettledParts DEF JobSound
<1>2. RowsSound'
  BY <1>1, SettledParts DEF RowsSound, Settled
<1> QED
  BY <1>2, SettledEnd

\* Every step keeps SettledInv.
LEMMA SettledStep == TypeOK /\ SettledInv /\ [Next]_vars => SettledInv'
<1> SUFFICES ASSUME TypeOK, SettledInv, [Next]_vars
             PROVE  SettledInv'
  OBVIOUS
<1>1. ASSUME NEW w \in Workers, NEW p \in Payments, CreateOrder(w, p)
      PROVE  SettledInv'
  <2> DEFINE job == NewJob("order", "commit", {p})
  <2>1. job \in Job /\ JobSound(job)
    BY <1>1 DEF CreateOrder, NewJob, Job, JobSound
  <2>2. Start(w, job) /\ UNCHANGED <<row, charge, invoices, appt, paid>>
    BY <1>1 DEF CreateOrder, rowVars, gatewayVars
  <2> HIDE DEF job
  <2> QED
    BY <2>1, <2>2, SettledStart
<1>2. ASSUME NEW w \in Workers, CommitOrder(w)
      PROVE  SettledInv'
  BY <1>2, SettledWrite DEF CommitOrder, Doing, PaymentStatuses, gatewayVars
<1>3. ASSUME NEW w \in Workers, NEW p \in Payments, NEW signed \in Charges \cup {NoCharge},
             StartVerify(w, p, signed)
      PROVE  SettledInv'
  <2> DEFINE job == [NewJob("verify", "ready", {p}) EXCEPT !.signed = signed]
  <2>1. job \in Job /\ JobSound(job)
    BY <1>3 DEF StartVerify, NewJob, Job, JobSound
  <2>2. Start(w, job) /\ UNCHANGED <<row, charge, invoices, appt, paid>>
    BY <1>3 DEF StartVerify, rowVars, gatewayVars
  <2> HIDE DEF job
  <2> QED
    BY <2>1, <2>2, SettledStart
<1>4. ASSUME NEW w \in Workers, RejectSignature(w)
      PROVE  SettledInv'
  <2>1. RowsSound'
    BY <1>4, SettledParts DEF RejectSignature, RowsSound, Settled, rowVars, gatewayVars
  <2> QED
    BY <1>4, <2>1, SettledEnd DEF RejectSignature, rowVars, gatewayVars
<1>5. ASSUME NEW w \in Workers, AcceptSignature(w)
      PROVE  SettledInv'
  <2> DEFINE pending == \E p \in work[w].pays : appt[ApptOf[p]] = "PENDING"
  <2>1. work' = [work EXCEPT ![w].step = "commit", ![w].confirm = pending]
    BY <1>5 DEF AcceptSignature
  <2>2. work[w] \in Job /\ work[w].signed # NoCharge /\ JobSound(work[w])
    BY <1>5, SettledParts DEF AcceptSignature, Doing, TypeOK
  <2>3. /\ work'[w].op = work[w].op /\ work'[w].pays = work[w].pays
        /\ work'[w].signed = work[w].signed /\ work'[w].confirm = pending
        /\ \A v \in Workers \ {w} : work'[v] = work[v]
    BY <2>1, <2>2 DEF TypeOK, Job
  <2>4. UNCHANGED <<row, charge, invoices, appt, paid>>
    BY <1>5 DEF AcceptSignature, rowVars, gatewayVars
  <2>5. JobSound(work[w])'
    BY <2>2, <2>3, <2>4 DEF JobSound
  <2>6. RowsSound'
    BY <2>4, SettledParts DEF RowsSound, Settled
  <2> QED
    BY <2>3, <2>4, <2>5, <2>6, SettledJobs
<1>6. ASSUME NEW w \in Workers, CommitCapture(w)
      PROVE  SettledInv'
  <2>1. \A p \in work[w].pays :
          /\ work[w].signed # NoCharge /\ paid[work[w].signed]
          /\ work[w].confirm \/ appt[ApptOf[p]] # "PENDING"
    BY <1>6, SettledParts DEF CommitCapture, Doing, JobSound
  <2>2. /\ row' = [p \in Payments |-> IF p \in work[w].pays THEN "CAPTURED" ELSE row[p]]
        /\ charge' = [p \in Payments |-> IF p \in work[w].pays THEN work[w].signed ELSE charge[p]]
        /\ invoices' = [p \in Payments |-> IF p \in work[w].pays THEN invoices[p] + 1
                                           ELSE invoices[p]]
        /\ paid' = paid /\ Free(w) /\ ConfirmAppointment(w)
    BY <1>6 DEF CommitCapture, gatewayVars
  <2>3. \A p \in Payments : invoices[p] \in Nat
    BY DEF TypeOK
  <2>4. RowsSound'
    <3> SUFFICES ASSUME NEW p \in Payments, Settled(p)' \/ charge'[p] # NoCharge
                 PROVE  /\ charge'[p] # NoCharge /\ paid'[charge'[p]] /\ invoices'[p] >= 1
                        /\ appt'[ApptOf[p]] # "PENDING"
      BY DEF RowsSound
    <3>1. CASE p \in work[w].pays
      <4>1. appt'[ApptOf[p]] # "PENDING"
        BY <3>1, <2>1, <2>2, PaymentAssumption DEF ConfirmAppointment
      <4> QED
        BY <3>1, <4>1, <2>1, <2>2, <2>3
    <3>2. CASE p \notin work[w].pays
      BY <3>2, <2>2, ConfirmKeeps, SettledParts DEF RowsSound, Settled
    <3> QED
      BY <3>1, <3>2
  <2>5. \A p \in Payments : charge[p] # NoCharge => charge'[p] # NoCharge
    BY <2>1, <2>2
  <2> QED
    BY <2>2, <2>4, <2>5, ConfirmKeeps, SettledEnd
<1>7. ASSUME NEW w \in Workers, NEW p \in Payments, HookCaptured(w, p)
      PROVE  SettledInv'
  <2> DEFINE job == [NewJob("captured", "commit", {p})
                      EXCEPT !.confirm = (appt[ApptOf[p]] = "PENDING")]
  <2>1. job \in Job /\ JobSound(job)
    <3>1. charge[p] # NoCharge
      BY <1>7, PaymentAssumption DEF HookCaptured, FoundByPaymentId, Charges
    <3> QED
      BY <3>1 DEF NewJob, Job, JobSound
  <2>2. Start(w, job) /\ UNCHANGED <<row, charge, invoices, appt, paid>>
    BY <1>7 DEF HookCaptured, rowVars, gatewayVars
  <2> HIDE DEF job
  <2> QED
    BY <2>1, <2>2, SettledStart
<1>8. ASSUME NEW w \in Workers, CommitHookCaptured(w)
      PROVE  SettledInv'
  BY <1>8, ConfirmKeeps, SettledAgain DEF CommitHookCaptured, Doing, PaymentStatuses, gatewayVars
<1>9. ASSUME NEW w \in Workers, NEW p \in Payments, HookFailed(w, p)
      PROVE  SettledInv'
  <2> DEFINE job == NewJob("failed", "commit", {p})
  <2>1. job \in Job /\ JobSound(job)
    BY <1>9 DEF HookFailed, NewJob, Job, JobSound
  <2>2. Start(w, job) /\ UNCHANGED <<row, charge, invoices, appt, paid>>
    BY <1>9 DEF HookFailed, rowVars, gatewayVars
  <2> HIDE DEF job
  <2> QED
    BY <2>1, <2>2, SettledStart
<1>10. ASSUME NEW w \in Workers, CommitHookFailed(w)
      PROVE  SettledInv'
  BY <1>10, SettledWrite DEF CommitHookFailed, Doing, PaymentStatuses, gatewayVars
<1>11. ASSUME NEW w \in Workers, NEW p \in Payments, NEW refund \in Refund,
             StartRefund(w, p, refund)
      PROVE  SettledInv'
  <2> DEFINE job == [NewJob("refund", "gateway", {p}) EXCEPT !.refund = {refund}]
  <2>1. job \in Job /\ JobSound(job)
    <3>1. charge[p] # NoCharge
      BY <1>11, PaymentAssumption DEF StartRefund, Refund, Charges
    <3> QED
      BY <3>1 DEF NewJob, Job, JobSound
  <2>2. Start(w, job) /\ UNCHANGED <<row, charge, invoices, appt, paid>>
    BY <1>11 DEF StartRefund, rowVars, gatewayVars
  <2> HIDE DEF job
  <2> QED
    BY <2>1, <2>2, SettledStart
<1>12. ASSUME NEW w \in Workers, RefundAtGateway(w)
      PROVE  SettledInv'
  <2>1. work[w] \in Job /\ work[w].op = "refund" /\ JobSound(work[w])
    BY <1>12, SettledParts DEF RefundAtGateway, Doing, TypeOK
  <2>2. work' = [work EXCEPT ![w].step = "commit"]
    BY <1>12 DEF RefundAtGateway
  <2>3. /\ work'[w].op = "refund" /\ work'[w].pays = work[w].pays
        /\ \A v \in Workers \ {w} : work'[v] = work[v]
    BY <2>1, <2>2 DEF TypeOK, Job
  <2>4. UNCHANGED <<row, charge, invoices, appt, paid>>
    BY <1>12 DEF RefundAtGateway, rowVars
  <2>5. JobSound(work[w])'
    BY <2>1, <2>3, <2>4 DEF JobSound
  <2>6. RowsSound'
    BY <2>4, SettledParts DEF RowsSound, Settled
  <2> QED
    BY <2>3, <2>4, <2>5, <2>6, SettledJobs
<1>13. ASSUME NEW w \in Workers, RefundRefused(w)
      PROVE  SettledInv'
  <2>1. RowsSound'
    BY <1>13, SettledParts DEF RefundRefused, RowsSound, Settled, rowVars, gatewayVars
  <2> QED
    BY <1>13, <2>1, SettledEnd DEF RefundRefused, rowVars, gatewayVars
<1>14. ASSUME NEW w \in Workers, CommitRefund(w)
      PROVE  SettledInv'
  BY <1>14, SettledAgain DEF CommitRefund, Doing, PaymentStatuses, gatewayVars
<1>15. ASSUME NEW w \in Workers, StartReconcile(w)
      PROVE  SettledInv'
  <2> DEFINE job == NewJob("reconcile", "commit", Expired)
  <2>1. job \in Job /\ JobSound(job)
    BY <1>15 DEF StartReconcile, NewJob, Job, JobSound, Expired
  <2>2. Start(w, job) /\ UNCHANGED <<row, charge, invoices, appt, paid>>
    BY <1>15 DEF StartReconcile, rowVars, gatewayVars
  <2> HIDE DEF job
  <2> QED
    BY <2>1, <2>2, SettledStart
<1>16. ASSUME NEW w \in Workers, CommitReconcile(w)
      PROVE  SettledInv'
  BY <1>16, SettledWrite DEF CommitReconcile, Doing, PaymentStatuses, gatewayVars
<1>17. ASSUME NEW w \in Workers, Crash(w)
      PROVE  SettledInv'
  <2>1. RowsSound'
    BY <1>17, SettledParts DEF Crash, RowsSound, Settled, rowVars, gatewayVars
  <2> QED
    BY <1>17, <2>1, SettledEnd DEF Crash, rowVars, gatewayVars
<1>18. ASSUME NEW p \in Payments, GatewayCaptures(p)
      PROVE  SettledInv'
  <2>1. /\ paid' = [paid EXCEPT ![p] = TRUE]
        /\ UNCHANGED <<row, charge, invoices, appt, work>>
    BY <1>18 DEF GatewayCaptures, rowVars
  <2>2. \A q \in Payments : paid[q] => paid'[q]
    BY <2>1 DEF TypeOK
  <2>3. \A w \in Workers : work[w] # NoWork => work[w].pays \subseteq Payments
    BY DEF TypeOK, Job
  <2> QED
    BY <2>1, <2>2, <2>3 DEF SettledInv, Settled
<1>19. ASSUME NEW p \in Payments, GatewayFails(p)
      PROVE  SettledInv'
  BY <1>19 DEF GatewayFails, SettledInv, Settled, rowVars, gatewayVars
<1>20. ASSUME NEW p \in Payments, Age(p)
      PROVE  SettledInv'
  BY <1>20 DEF Age, SettledInv, Settled, rowVars, gatewayVars
<1>21. ASSUME NEW a \in Appts, CancelAppointment(a)
      PROVE  SettledInv'
  BY <1>21 DEF CancelAppointment, SettledInv, Settled, rowVars, gatewayVars
<1>22. ASSUME NEW a \in Appts, ConfirmDeposit(a)
      PROVE  SettledInv'
  BY <1>22 DEF ConfirmDeposit, SettledInv, Settled, rowVars, gatewayVars
<1>23. CASE UNCHANGED vars
  BY <1>23 DEF SettledInv, Settled, vars
<1> QED
  BY <1>1, <1>2, <1>3, <1>4, <1>5, <1>6, <1>7, <1>8, <1>9, <1>10, <1>11, <1>12, <1>13,
     <1>14, <1>15, <1>16, <1>17, <1>18, <1>19, <1>20, <1>21, <1>22, <1>23
  DEF Next, Serve

\* What rows and jobs say about the gateway's money is always true.
THEOREM SettledInvariant == Spec => []SettledInv
<1>1. Init => SettledInv
  BY DEF Init, SettledInv, Settled
<1> QED
  BY <1>1, SettledStep, TypeCorrect, PTL DEF Spec

\* A payment that is captured or refunded has a charge that the gateway captured,
\* whichever of verification, webhook and refund settled it; not always its own.
THEOREM SettledPaymentsHaveCharges == Spec => []SettledHasCharge
<1>1. SettledInv => SettledHasCharge
  BY DEF SettledInv, SettledHasCharge
<1> QED
  BY <1>1, SettledInvariant, PTL

\* The appointment of a captured or refunded payment does not wait for its
\* deposit any more.
THEOREM SettledPaymentsConfirm == Spec => []SettledIsNotPending
<1>1. SettledInv => SettledIsNotPending
  BY DEF SettledInv, SettledIsNotPending
<1> QED
  BY <1>1, SettledInvariant, PTL

\* A payment that is captured or refunded has an invoice, although the webhook
\* writes none.
THEOREM SettledPaymentsHaveInvoices == Spec => []SettledHasInvoice
<1>1. SettledInv => SettledHasInvoice
  BY DEF SettledInv, SettledHasInvoice
<1> QED
  BY <1>1, SettledInvariant, PTL

(***************************************************************************)
(* Refunds                                                                 *)
(***************************************************************************)
\* What a worker has had the gateway pay back for p, and not committed.
InHand(w, p) ==
    IF Doing(w, "refund", "commit") /\ p \in work[w].pays THEN work[w].refund ELSE {}

NotYetMade(r) == \A p \in Payments : \A t \in repaid[p] : r.id # t.id

\* Unrecorded(p) is what the workers have in hand for p.
LEMMA UnrecordedIsInHand ==
    ASSUME NEW p \in Payments, NEW r
    PROVE  r \in Unrecorded(p) <=> \E w \in Workers : r \in InHand(w, p)
BY DEF Unrecorded, InHand

\* The parts of RefundInv, refund by refund.
RefundParts ==
    /\ \A p \in Payments : \A r :
          r \in repaid[p] <=> \/ r \in refunds[p]
                              \/ r \in lost[p]
                              \/ \E w \in Workers : r \in InHand(w, p)
    /\ \A p \in Payments : \A r \in refunds[p] : r \notin lost[p]
    /\ \A p \in Payments : \A w \in Workers : \A r \in InHand(w, p) :
          r \notin refunds[p] /\ r \notin lost[p]
    /\ \A v, w \in Workers : \A r \in Handed(v), t \in Handed(w) : r.id = t.id => v = w
    /\ \A w \in Workers : \A r \in Handed(w) : Doing(w, "refund", "commit") \/ NotYetMade(r)

LEMMA RefundByRefund == RefundInv <=> RefundParts
<1> DEFINE Same(p) == refunds[p] \cup Unrecorded(p) \cup lost[p] = repaid[p]
           SameById(p) ==
              \A r : r \in repaid[p] <=> \/ r \in refunds[p]
                                         \/ r \in lost[p]
                                         \/ \E w \in Workers : r \in InHand(w, p)
           Apart(p) == refunds[p] \cap lost[p] = {} /\ (refunds[p] \cup lost[p]) \cap Unrecorded(p) = {}
           ApartById(p) ==
              /\ \A r \in refunds[p] : r \notin lost[p]
              /\ \A w \in Workers : \A r \in InHand(w, p) : r \notin refunds[p] /\ r \notin lost[p]
<1>1. \A p \in Payments : Same(p) <=> SameById(p)
  BY UnrecordedIsInHand
<1>2. \A p \in Payments : Apart(p) <=> ApartById(p)
  BY UnrecordedIsInHand
<1> QED
  BY <1>1, <1>2 DEF RefundInv, RefundsAreRecorded, RefundParts, NotYetMade

\* A step of one worker that makes no refund, writes none and is to make none that
\* it was not to make.
LEMMA RefundQuiet ==
    ASSUME RefundInv, NEW w \in Workers,
           \A v \in Workers \ {w} : work'[v] = work[v],
           \A p \in Payments : InHand(w, p)' = InHand(w, p),
           Handed(w)' \subseteq Handed(w),
           Doing(w, "refund", "commit") => Doing(w, "refund", "commit")' \/ Handed(w)' = {},
           UNCHANGED <<refunds, repaid, lost>>
    PROVE  RefundInv'
<1>1. RefundParts
  BY RefundByRefund
<1>2. \A v \in Workers \ {w} :
        /\ Handed(v)' = Handed(v)
        /\ Doing(v, "refund", "commit")' = Doing(v, "refund", "commit")
        /\ \A p \in Payments : InHand(v, p)' = InHand(v, p)
  BY DEF Handed, Doing, InHand
<1>3. RefundParts'
  <2>1. \A v \in Workers, p \in Payments : InHand(v, p)' = InHand(v, p)
    BY <1>2
  <2>2. \A v \in Workers : Handed(v)' \subseteq Handed(v)
    BY <1>2
  <2>3. \A v \in Workers : Doing(v, "refund", "commit") =>
           Doing(v, "refund", "commit")' \/ Handed(v)' = {}
    BY <1>2
  <2>4. \A r : NotYetMade(r)' = NotYetMade(r)
    BY DEF NotYetMade
  <2> HIDE DEF Handed, Doing, InHand, NotYetMade
  <2>5. \A v, u \in Workers : \A r \in Handed(v)', t \in Handed(u)' : r.id = t.id => v = u
    BY <1>1, <2>2 DEF RefundParts
  <2>6. \A v \in Workers : \A r \in Handed(v)' :
           Doing(v, "refund", "commit")' \/ NotYetMade(r)'
    BY <1>1, <2>2, <2>3, <2>4 DEF RefundParts
  <2> QED
    BY <1>1, <2>1, <2>5, <2>6 DEF RefundParts
<1> QED
  BY <1>3, RefundByRefund, PTL

\* Starting a job that makes no refund.
LEMMA RefundStart ==
    ASSUME TypeOK, RefundInv, NEW w \in Workers, NEW job \in Job, Start(w, job),
           job.refund = {}, job.op # "refund", UNCHANGED <<rowVars, gatewayVars>>
    PROVE  RefundInv'
<1>1. /\ work[w] = NoWork /\ work'[w] = job
      /\ \A v \in Workers \ {w} : work'[v] = work[v]
  BY DEF Start, TypeOK
<1>2. /\ \A p \in Payments : InHand(w, p)' = InHand(w, p)
      /\ Handed(w)' = {} /\ ~Doing(w, "refund", "commit")
  BY <1>1 DEF InHand, Handed, Doing
<1>3. UNCHANGED <<refunds, repaid, lost>>
  BY DEF rowVars, gatewayVars
<1> QED
  BY <1>1, <1>2, <1>3, RefundQuiet

\* Ending one that has made none.
LEMMA RefundEnd ==
    ASSUME TypeOK, RefundInv, NEW w \in Workers, Free(w),
           ~Doing(w, "refund", "commit"), UNCHANGED <<refunds, repaid, lost>>
    PROVE  RefundInv'
<1>1. /\ work'[w] = NoWork
      /\ \A v \in Workers \ {w} : work'[v] = work[v]
  BY DEF Free, TypeOK
<1>2. /\ \A p \in Payments : InHand(w, p)' = InHand(w, p)
      /\ Handed(w)' = {}
  BY <1>1 DEF InHand, Handed, Doing
<1> QED
  BY <1>1, <1>2, RefundQuiet

\* Ending one that has made a refund: it goes to the rows or is lost.
LEMMA RefundLeavesHand ==
    ASSUME TypeOK, RefundInv, NEW w \in Workers, Free(w), Doing(w, "refund", "commit"),
           repaid' = repaid,
           \A p \in Payments :
              \/ lost'[p] = lost[p] /\ refunds'[p] = refunds[p] \cup InHand(w, p)
              \/ refunds'[p] = refunds[p] /\ lost'[p] = lost[p] \cup InHand(w, p)
    PROVE  RefundInv'
<1>1. RefundParts
  BY RefundByRefund
<1>2. Handed(w)' = {} /\ \A p \in Payments : InHand(w, p)' = {}
  BY DEF Free, TypeOK, Handed, InHand, Doing
<1>3. \A v \in Workers \ {w} :
        /\ Handed(v)' = Handed(v)
        /\ Doing(v, "refund", "commit")' = Doing(v, "refund", "commit")
        /\ \A p \in Payments : InHand(v, p)' = InHand(v, p)
  BY DEF Free, TypeOK, Handed, Doing, InHand
<1>4. \A v \in Workers \ {w} : \A p \in Payments : \A r \in InHand(v, p) : r \notin InHand(w, p)
  <2>1. \A v \in Workers, p \in Payments : InHand(v, p) \subseteq Handed(v)
    BY DEF InHand, Handed, Doing
  <2> QED
    BY <2>1, <1>1 DEF RefundParts
<1>5. \A r : NotYetMade(r)' = NotYetMade(r)
  BY DEF NotYetMade
<1> HIDE DEF Handed, Doing, InHand, NotYetMade
<1>6. \A p \in Payments : \A r :
        (\E v \in Workers : r \in InHand(v, p)) <=>
        (r \in InHand(w, p) \/ \E v \in Workers : r \in InHand(v, p)')
  BY <1>2, <1>3
<1>7. \A p \in Payments : \A r :
        r \in repaid'[p] <=> \/ r \in refunds'[p]
                             \/ r \in lost'[p]
                             \/ \E v \in Workers : r \in InHand(v, p)'
  BY <1>1, <1>6 DEF RefundParts
<1>8. \A p \in Payments : \A r \in refunds'[p] : r \notin lost'[p]
  BY <1>1 DEF RefundParts
<1>9. \A p \in Payments : \A v \in Workers : \A r \in InHand(v, p)' :
        r \notin refunds'[p] /\ r \notin lost'[p]
  BY <1>1, <1>2, <1>3, <1>4 DEF RefundParts
<1>10. \A v, u \in Workers : \A r \in Handed(v)', t \in Handed(u)' : r.id = t.id => v = u
  BY <1>1, <1>2, <1>3 DEF RefundParts
<1>11. \A v \in Workers : \A r \in Handed(v)' : Doing(v, "refund", "commit")' \/ NotYetMade(r)'
  BY <1>1, <1>2, <1>3, <1>5 DEF RefundParts
<1>12. RefundParts'
  BY <1>7, <1>8, <1>9, <1>10, <1>11 DEF RefundParts
<1> QED
  BY <1>12, RefundByRefund, PTL

\* A refund of a new id comes into the hands of a worker.
LEMMA RefundIsStarted ==
    ASSUME TypeOK, RefundInv, NEW w \in Workers, NEW p \in Payments, NEW refund \in Refund,
           StartRefund(w, p, refund)
    PROVE  RefundInv'
<1> DEFINE job == [NewJob("refund", "gateway", {p}) EXCEPT !.refund = {refund}]
<1>1. RefundParts /\ NewRefundId(refund.id)
  BY RefundByRefund DEF StartRefund
<1>2. job.step = "gateway" /\ job.refund = {refund} /\ job \in Job
  BY DEF NewJob, Job
<1>3. Start(w, job) /\ UNCHANGED <<refunds, repaid, lost>>
  BY DEF StartRefund, rowVars, gatewayVars
<1> HIDE DEF job
<1>4. /\ work[w] = NoWork /\ work'[w] = job /\ job # NoWork
      /\ \A v \in Workers \ {w} : work'[v] = work[v]
  BY <1>2, <1>3, WorkAssumption DEF Start, TypeOK
<1>5. Handed(w)' = {refund} /\ \A q \in Payments : InHand(w, q)' = {} /\ InHand(w, q) = {}
  BY <1>2, <1>4 DEF Handed, InHand, Doing
<1>6. \A v \in Workers \ {w} :
        /\ Handed(v)' = Handed(v)
        /\ Doing(v, "refund", "commit")' = Doing(v, "refund", "commit")
        /\ \A q \in Payments : InHand(v, q)' = InHand(v, q)
  BY <1>4 DEF Handed, Doing, InHand
<1>7. \A r : NotYetMade(r)' = NotYetMade(r)
  BY <1>3 DEF NotYetMade
<1>8. NotYetMade(refund) /\ \A v \in Workers : \A r \in Handed(v) : r.id # refund.id
  BY <1>1 DEF NotYetMade, NewRefundId
<1> HIDE DEF Handed, Doing, InHand, NotYetMade
<1>9. \A q \in Payments, v \in Workers : InHand(v, q)' = InHand(v, q)
  BY <1>5, <1>6
<1>10. \A v, u \in Workers : \A r \in Handed(v)', t \in Handed(u)' : r.id = t.id => v = u
  BY <1>1, <1>5, <1>6, <1>8 DEF RefundParts
<1>11. \A v \in Workers : \A r \in Handed(v)' : Doing(v, "refund", "commit")' \/ NotYetMade(r)'
  BY <1>1, <1>5, <1>6, <1>7, <1>8 DEF RefundParts
<1>12. RefundParts'
  BY <1>1, <1>3, <1>9, <1>10, <1>11 DEF RefundParts
<1> QED
  BY <1>12, RefundByRefund, PTL

\* The gateway makes it.
LEMMA RefundIsMade ==
    ASSUME TypeOK, RefundInv, NEW w \in Workers, RefundAtGateway(w)
    PROVE  RefundInv'
<1>1. RefundParts
  BY RefundByRefund
<1>2. work[w] \in Job /\ work[w] # NoWork /\ work[w].step = "gateway" /\ work[w].op = "refund"
  BY DEF RefundAtGateway, Doing, TypeOK
<1>3. /\ work' = [work EXCEPT ![w].step = "commit"]
      /\ UNCHANGED <<refunds, lost>>
      /\ repaid' = [p \in Payments |-> IF p \in work[w].pays THEN repaid[p] \cup work[w].refund
                                       ELSE repaid[p]]
  BY DEF RefundAtGateway, rowVars
<1>4. /\ work'[w].step = "commit" /\ work'[w].op = "refund" /\ work'[w].pays = work[w].pays
      /\ work'[w].refund = work[w].refund /\ work'[w] # NoWork
      /\ \A v \in Workers \ {w} : work'[v] = work[v]
  <2>1. work'[w] = [work[w] EXCEPT !.step = "commit"] /\ \A v \in Workers \ {w} : work'[v] = work[v]
    BY <1>3 DEF TypeOK
  <2>2. work'[w] \in Job
    BY <2>1, <1>2 DEF Job
  <2> QED
    BY <2>1, <2>2, <1>2, WorkAssumption DEF Job
<1>5. /\ Handed(w)' = work[w].refund /\ Handed(w) = work[w].refund
      /\ Doing(w, "refund", "commit")' /\ ~Doing(w, "refund", "commit")
      /\ \A p \in Payments : /\ InHand(w, p) = {}
                             /\ InHand(w, p)' = IF p \in work[w].pays THEN work[w].refund ELSE {}
  BY <1>2, <1>4 DEF Handed, InHand, Doing
<1>6. \A v \in Workers \ {w} :
        /\ Handed(v)' = Handed(v)
        /\ Doing(v, "refund", "commit")' = Doing(v, "refund", "commit")
        /\ \A p \in Payments : InHand(v, p)' = InHand(v, p)
  BY <1>4 DEF Handed, Doing, InHand
<1>7. \A p \in Payments : \A r : r \in repaid'[p] <=> r \in repaid[p] \/ r \in InHand(w, p)'
  BY <1>3, <1>5
<1>8. \A r \in Handed(w) : NotYetMade(r)
  BY <1>1, <1>5 DEF RefundParts
<1>9. \A p \in Payments : \A r \in InHand(w, p)' : r \in Handed(w) /\ r \notin repaid[p]
  BY <1>5, <1>8 DEF NotYetMade
<1>10. \A r : NotYetMade(r) /\ (\A t \in Handed(w) : r.id # t.id) => NotYetMade(r)'
  BY <1>3, <1>5 DEF NotYetMade
<1> HIDE DEF Handed, Doing, InHand, NotYetMade
<1>11. \A p \in Payments : \A r :
         r \in repaid'[p] <=> \/ r \in refunds'[p]
                              \/ r \in lost'[p]
                              \/ \E v \in Workers : r \in InHand(v, p)'
  <2> SUFFICES ASSUME NEW p \in Payments, NEW r
               PROVE  r \in repaid'[p] <=> \/ r \in refunds[p]
                                           \/ r \in lost[p]
                                           \/ \E v \in Workers : r \in InHand(v, p)'
    BY <1>3
  <2>1. (\E v \in Workers : r \in InHand(v, p)') <=>
        (r \in InHand(w, p)' \/ \E v \in Workers : r \in InHand(v, p))
    BY <1>5, <1>6
  <2> QED
    BY <1>1, <1>7, <2>1 DEF RefundParts
<1>12. \A p \in Payments : \A r \in refunds'[p] : r \notin lost'[p]
  BY <1>1, <1>3 DEF RefundParts
<1>13. \A p \in Payments : \A v \in Workers : \A r \in InHand(v, p)' :
         r \notin refunds'[p] /\ r \notin lost'[p]
  BY <1>1, <1>3, <1>6, <1>9 DEF RefundParts
<1>14. \A v, u \in Workers : \A r \in Handed(v)', t \in Handed(u)' : r.id = t.id => v = u
  BY <1>1, <1>5, <1>6 DEF RefundParts
<1>15. \A v \in Workers : \A r \in Handed(v)' : Doing(v, "refund", "commit")' \/ NotYetMade(r)'
  <2>1. \A v \in Workers \ {w} : \A r \in Handed(v), t \in Handed(w) : r.id # t.id
    BY <1>1 DEF RefundParts
  <2> QED
    BY <1>1, <1>5, <1>6, <1>10, <2>1 DEF RefundParts
<1>16. RefundParts'
  BY <1>11, <1>12, <1>13, <1>14, <1>15 DEF RefundParts
<1> QED
  BY <1>16, RefundByRefund, PTL

\* Every step keeps RefundInv.
LEMMA RefundStep == TypeOK /\ RefundInv /\ [Next]_vars => RefundInv'
<1> SUFFICES ASSUME TypeOK, RefundInv, [Next]_vars
             PROVE  RefundInv'
  OBVIOUS
<1>1. ASSUME NEW w \in Workers, NEW p \in Payments, CreateOrder(w, p)
      PROVE  RefundInv'
  BY <1>1, NewJobType, RefundStart DEF CreateOrder, NewJob
<1>2. ASSUME NEW w \in Workers, CommitOrder(w)
      PROVE  RefundInv'
  BY <1>2, RefundEnd DEF CommitOrder, Doing, gatewayVars
<1>3. ASSUME NEW w \in Workers, NEW p \in Payments, NEW signed \in Charges \cup {NoCharge},
             StartVerify(w, p, signed)
      PROVE  RefundInv'
  <2> DEFINE job == [NewJob("verify", "ready", {p}) EXCEPT !.signed = signed]
  <2>1. job \in Job /\ job.op = "verify" /\ job.refund = {}
    BY DEF NewJob, Job
  <2>2. Start(w, job) /\ UNCHANGED <<rowVars, gatewayVars>>
    BY <1>3 DEF StartVerify
  <2> HIDE DEF job
  <2> QED
    BY <2>1, <2>2, RefundStart
<1>4. ASSUME NEW w \in Workers, RejectSignature(w)
      PROVE  RefundInv'
  BY <1>4, RefundEnd DEF RejectSignature, Doing, rowVars, gatewayVars
<1>5. ASSUME NEW w \in Workers, AcceptSignature(w)
      PROVE  RefundInv'
  <2>1. PICK c \in BOOLEAN :
           work' = [work EXCEPT ![w].step = "commit", ![w].confirm = c]
    BY <1>5 DEF AcceptSignature
  <2>2. work[w] \in Job /\ work[w] # NoWork /\ work[w].op = "verify"
    BY <1>5 DEF AcceptSignature, Doing, TypeOK
  <2>3. /\ work'[w] \in Job /\ work'[w].op = "verify" /\ work'[w].refund = work[w].refund
        /\ \A v \in Workers \ {w} : work'[v] = work[v]
    BY <2>1, <2>2 DEF TypeOK, Job
  <2>4. /\ Handed(w)' \subseteq Handed(w) /\ ~Doing(w, "refund", "commit")
        /\ \A p \in Payments : InHand(w, p)' = InHand(w, p)
    BY <2>2, <2>3 DEF Handed, Doing, InHand
  <2>5. UNCHANGED <<refunds, repaid, lost>>
    BY <1>5 DEF AcceptSignature, rowVars, gatewayVars
  <2> QED
    BY <2>3, <2>4, <2>5, RefundQuiet
<1>6. ASSUME NEW w \in Workers, CommitCapture(w)
      PROVE  RefundInv'
  BY <1>6, RefundEnd DEF CommitCapture, Doing, gatewayVars
<1>7. ASSUME NEW w \in Workers, NEW p \in Payments, HookCaptured(w, p)
      PROVE  RefundInv'
  <2> DEFINE job == [NewJob("captured", "commit", {p})
                      EXCEPT !.confirm = (appt[ApptOf[p]] = "PENDING")]
  <2>1. job \in Job /\ job.op = "captured" /\ job.refund = {}
    BY DEF NewJob, Job
  <2>2. Start(w, job) /\ UNCHANGED <<rowVars, gatewayVars>>
    BY <1>7 DEF HookCaptured
  <2> HIDE DEF job
  <2> QED
    BY <2>1, <2>2, RefundStart
<1>8. ASSUME NEW w \in Workers, CommitHookCaptured(w)
      PROVE  RefundInv'
  BY <1>8, RefundEnd DEF CommitHookCaptured, Doing, gatewayVars
<1>9. ASSUME NEW w \in Workers, NEW p \in Payments, HookFailed(w, p)
      PROVE  RefundInv'
  BY <1>9, NewJobType, RefundStart DEF HookFailed, NewJob
<1>10. ASSUME NEW w \in Workers, CommitHookFailed(w)
      PROVE  RefundInv'
  BY <1>10, RefundEnd DEF CommitHookFailed, Doing, gatewayVars
<1>11. ASSUME NEW w \in Workers, NEW p \in Payments, NEW refund \in Refund,
             StartRefund(w, p, refund)
      PROVE  RefundInv'
  BY <1>11, RefundIsStarted
<1>12. ASSUME NEW w \in Workers, RefundAtGateway(w)
      PROVE  RefundInv'
  BY <1>12, RefundIsMade
<1>13. ASSUME NEW w \in Workers, RefundRefused(w)
      PROVE  RefundInv'
  BY <1>13, RefundEnd DEF RefundRefused, Doing, rowVars, gatewayVars
<1>14. ASSUME NEW w \in Workers, CommitRefund(w)
      PROVE  RefundInv'
  <2>1. /\ Free(w) /\ Doing(w, "refund", "commit") /\ repaid' = repaid /\ lost' = lost
        /\ refunds' = [p \in Payments |-> IF p \in work[w].pays THEN refunds[p] \cup work[w].refund
                                          ELSE refunds[p]]
    BY <1>14 DEF CommitRefund, gatewayVars
  <2>2. \A p \in Payments : refunds'[p] = refunds[p] \cup InHand(w, p)
    BY <2>1 DEF InHand
  <2> QED
    BY <2>1, <2>2, RefundLeavesHand
<1>15. ASSUME NEW w \in Workers, StartReconcile(w)
      PROVE  RefundInv'
  <2>1. Expired \in SUBSET Payments
    BY DEF Expired
  <2> QED
    BY <1>15, <2>1, NewJobType, RefundStart DEF StartReconcile, NewJob
<1>16. ASSUME NEW w \in Workers, CommitReconcile(w)
      PROVE  RefundInv'
  BY <1>16, RefundEnd DEF CommitReconcile, Doing, gatewayVars
<1>17. ASSUME NEW w \in Workers, Crash(w)
      PROVE  RefundInv'
  <2>1. /\ Free(w) /\ refunds' = refunds /\ repaid' = repaid
        /\ lost' = [p \in Payments |-> IF Doing(w, "refund", "commit") /\ p \in work[w].pays
                                       THEN lost[p] \cup work[w].refund ELSE lost[p]]
    BY <1>17 DEF Crash, rowVars
  <2>2. \A p \in Payments : lost'[p] = lost[p] \cup InHand(w, p)
    BY <2>1 DEF InHand
  <2>3. CASE Doing(w, "refund", "commit")
    BY <2>1, <2>2, <2>3, RefundLeavesHand
  <2>4. CASE ~Doing(w, "refund", "commit")
    <3>1. lost' = lost
      BY <2>1, <2>4 DEF TypeOK
    <3> QED
      BY <2>1, <2>4, <3>1, RefundEnd
  <2> QED
    BY <2>3, <2>4
<1>18. ASSUME UNCHANGED <<work, refunds, repaid, lost>>
       PROVE  RefundInv'
  BY <1>18 DEF RefundInv, RefundsAreRecorded, Unrecorded, Handed, Doing
<1>19. ASSUME NEW p \in Payments, GatewayCaptures(p) \/ GatewayFails(p) \/ Age(p)
       PROVE  RefundInv'
  BY <1>18, <1>19 DEF GatewayCaptures, GatewayFails, Age, rowVars, gatewayVars
<1>20. ASSUME NEW a \in Appts, CancelAppointment(a) \/ ConfirmDeposit(a)
       PROVE  RefundInv'
  BY <1>18, <1>20 DEF CancelAppointment, ConfirmDeposit, rowVars, gatewayVars
<1>21. CASE UNCHANGED vars
  BY <1>18, <1>21 DEF vars
<1> QED
  BY <1>1, <1>2, <1>3, <1>4, <1>5, <1>6, <1>7, <1>8, <1>9, <1>10, <1>11, <1>12, <1>13,
     <1>14, <1>15, <1>16, <1>17, <1>19, <1>20, <1>21
  DEF Next, Serve

\* The refunds that are being made are of ids of their own, and the books agree
\* with the gateway, in every state.
THEOREM RefundInvariant == Spec => []RefundInv
<1>1. Init => RefundInv
  <2> SUFFICES ASSUME Init PROVE RefundParts
    BY RefundByRefund
  <2>1. \A w \in Workers : Handed(w) = {} /\ \A p \in Payments : InHand(w, p) = {}
    BY DEF Init, Handed, InHand, Doing
  <2>2. \A p \in Payments : refunds[p] = {} /\ lost[p] = {} /\ repaid[p] = {}
    BY DEF Init
  <2> QED
    BY <2>1, <2>2 DEF RefundParts
<1> QED
  BY <1>1, RefundStep, TypeCorrect, PTL DEF Spec

\* However requests for refunds overlap and die, every refund the gateway made has
\* its row, is in the hands of a request, or was made for a request that died.
THEOREM RefundsHaveRows == Spec => []RefundsAreRecorded
<1>1. RefundInv => RefundsAreRecorded
  BY DEF RefundInv
<1> QED
  BY <1>1, RefundInvariant, PTL

(***************************************************************************)
(* Captured payments                                                       *)
(***************************************************************************)
Kept ==
    \A p \in Payments : row[p] = "CAPTURED" =>
        /\ row'[p] \in {"CAPTURED", "REFUNDED"} \/ \E w \in Workers : Ending(w, p)
        /\ \A w \in Workers : Ending(w, p)' => Ending(w, p)

\* A job that begins is one that ends payments only if it found them PENDING.
LEMMA KeptStart ==
    ASSUME TypeOK, NEW w \in Workers, NEW job \in Job, Start(w, job), UNCHANGED row,
           job.op \in {"failed", "reconcile"} => \A p \in job.pays : row[p] = "PENDING"
    PROVE  Kept
<1>1. work'[w] = job /\ \A v \in Workers \ {w} : work'[v] = work[v]
  BY DEF Start, TypeOK
<1> QED
  BY <1>1 DEF Kept, Ending

\* A job that goes on, or ends without a write, is no other job.
LEMMA KeptGoOn ==
    ASSUME TypeOK, NEW w \in Workers, UNCHANGED row,
           \A v \in Workers \ {w} : work'[v] = work[v],
           \/ work'[w] = NoWork
           \/ work[w] # NoWork /\ work'[w].op = work[w].op /\ work'[w].pays = work[w].pays
    PROVE  Kept
BY DEF Kept, Ending

\* A commit leaves no captured payment with another status than REFUNDED, unless
\* its job was there to end it.
LEMMA KeptWrite ==
    ASSUME TypeOK, NEW w \in Workers, work[w] # NoWork, Free(w), NEW s,
           row' = [p \in Payments |-> IF p \in work[w].pays THEN s ELSE row[p]],
           \/ s \in {"CAPTURED", "REFUNDED"} \/ work[w].op \in {"failed", "reconcile"}
           \/ \A p \in work[w].pays : row[p] # "CAPTURED"
    PROVE  Kept
<1>1. work'[w] = NoWork /\ \A v \in Workers \ {w} : work'[v] = work[v]
  BY DEF Free, TypeOK
<1>2. ASSUME NEW p \in Payments, row[p] = "CAPTURED"
      PROVE  row'[p] \in {"CAPTURED", "REFUNDED"} \/ \E v \in Workers : Ending(v, p)
  <2>1. CASE p \in work[w].pays
    BY <1>2, <2>1 DEF Ending
  <2>2. CASE p \notin work[w].pays
    BY <1>2, <2>2
  <2> QED
    BY <2>1, <2>2
<1> QED
  BY <1>1, <1>2 DEF Kept, Ending

\* A refund is asked for in a job.
LEMMA RefundJob ==
    ASSUME NEW p \in Payments, NEW refund \in Refund
    PROVE  /\ [NewJob("refund", "gateway", {p}) EXCEPT !.refund = {refund}] \in Job
           /\ [NewJob("refund", "gateway", {p}) EXCEPT !.refund = {refund}].op = "refund"
BY NewJobType DEF Job

LEMMA KeptStep == TypeOK /\ [Next]_vars => Kept
<1> SUFFICES ASSUME TypeOK, [Next]_vars
             PROVE  Kept
  OBVIOUS
<1>1. ASSUME NEW w \in Workers, NEW p \in Payments,
             \/ CreateOrder(w, p) \/ HookCaptured(w, p)
             \/ \E signed \in Charges \cup {NoCharge} : StartVerify(w, p, signed)
             \/ \E refund \in Refund : StartRefund(w, p, refund)
      PROVE  Kept
  <2>1. PICK job \in Job : Start(w, job) /\ job.op \notin {"failed", "reconcile"} /\ UNCHANGED row
    <3>1. CASE CreateOrder(w, p)
      BY <3>1, NewJobType DEF CreateOrder, rowVars
    <3>2. CASE HookCaptured(w, p)
      BY <3>2 DEF HookCaptured, NewJob, Job, rowVars
    <3>3. CASE \E signed \in Charges \cup {NoCharge} : StartVerify(w, p, signed)
      BY <3>3 DEF StartVerify, NewJob, Job, rowVars
    <3>4. CASE \E refund \in Refund : StartRefund(w, p, refund)
      BY <3>4, RefundJob DEF StartRefund, rowVars
    <3> QED
      BY <1>1, <3>1, <3>2, <3>3, <3>4
  <2> QED
    BY <2>1, KeptStart
<1>2. ASSUME NEW w \in Workers, NEW p \in Payments, HookFailed(w, p)
      PROVE  Kept
  <2> DEFINE job == NewJob("failed", "commit", {p})
  <2>1. job \in Job /\ job.pays = {p} /\ Start(w, job) /\ row[p] = "PENDING" /\ UNCHANGED row
    BY <1>2, NewJobType DEF HookFailed, rowVars
  <2> HIDE DEF job
  <2> QED
    BY <2>1, KeptStart
<1>3. ASSUME NEW w \in Workers, StartReconcile(w)
      PROVE  Kept
  <2> DEFINE job == NewJob("reconcile", "commit", Expired)
  <2>1. job \in Job /\ job.pays = Expired /\ Start(w, job) /\ UNCHANGED row
    BY <1>3, NewJobType DEF StartReconcile, Expired, rowVars
  <2>2. \A p \in Expired : row[p] = "PENDING"
    BY DEF Expired
  <2> HIDE DEF job
  <2> QED
    BY <2>1, <2>2, KeptStart
<1>4. ASSUME NEW w \in Workers, AcceptSignature(w) \/ RefundAtGateway(w)
      PROVE  Kept
  <2>1. PICK c \in BOOLEAN :
           \/ work' = [work EXCEPT ![w].step = "commit", ![w].confirm = c]
           \/ work' = [work EXCEPT ![w].step = "commit"]
    BY <1>4 DEF AcceptSignature, RefundAtGateway
  <2>2. work[w] \in Job /\ work[w] # NoWork /\ UNCHANGED row
    BY <1>4 DEF AcceptSignature, RefundAtGateway, Doing, TypeOK, rowVars
  <2>3. /\ work'[w].op = work[w].op /\ work'[w].pays = work[w].pays
        /\ \A v \in Workers \ {w} : work'[v] = work[v]
    BY <2>1, <2>2 DEF TypeOK, Job
  <2> QED
    BY <2>2, <2>3, KeptGoOn
<1>5. ASSUME NEW w \in Workers, RejectSignature(w) \/ RefundRefused(w) \/ Crash(w)
      PROVE  Kept
  <2>1. work' = [work EXCEPT ![w] = NoWork] /\ UNCHANGED row
    BY <1>5 DEF RejectSignature, RefundRefused, Crash, Free, rowVars
  <2>2. work'[w] = NoWork /\ \A v \in Workers \ {w} : work'[v] = work[v]
    BY <2>1 DEF TypeOK
  <2> QED
    BY <2>1, <2>2, KeptGoOn
<1>6. ASSUME NEW w \in Workers, CommitOrder(w)
      PROVE  Kept
  <2>1. /\ work[w] # NoWork /\ work[w].op = "order" /\ Free(w)
        /\ row' = [p \in Payments |-> IF p \in work[w].pays THEN "PENDING" ELSE row[p]]
    BY <1>6 DEF CommitOrder, Doing
  <2>2. \A p \in work[w].pays : row[p] # "CAPTURED"
    BY <2>1 DEF TypeOK
  <2> QED
    BY <2>1, <2>2, KeptWrite
<1>7. ASSUME NEW w \in Workers,
             \/ CommitCapture(w) \/ CommitHookCaptured(w) \/ CommitRefund(w)
             \/ CommitHookFailed(w) \/ CommitReconcile(w)
      PROVE  Kept
  <2>1. PICK s : /\ row' = [p \in Payments |-> IF p \in work[w].pays THEN s ELSE row[p]]
                 /\ s \in {"CAPTURED", "REFUNDED"} \/ work[w].op \in {"failed", "reconcile"}
    BY <1>7 DEF CommitCapture, CommitHookCaptured, CommitRefund, CommitHookFailed,
                CommitReconcile, Doing
  <2>2. work[w] # NoWork /\ Free(w)
    BY <1>7 DEF CommitCapture, CommitHookCaptured, CommitRefund, CommitHookFailed,
                CommitReconcile, Doing
  <2> QED
    BY <2>1, <2>2, KeptWrite
<1>8. ASSUME UNCHANGED <<row, work>>
      PROVE  Kept
  BY <1>8 DEF Kept, Ending
<1>9. ASSUME NEW p \in Payments, GatewayCaptures(p) \/ GatewayFails(p) \/ Age(p)
      PROVE  Kept
  BY <1>8, <1>9 DEF GatewayCaptures, GatewayFails, Age, rowVars
<1>10. ASSUME NEW a \in Appts, CancelAppointment(a) \/ ConfirmDeposit(a)
       PROVE  Kept
  BY <1>8, <1>10 DEF CancelAppointment, ConfirmDeposit, rowVars
<1>11. CASE UNCHANGED vars
  BY <1>8, <1>11 DEF vars
<1> QED
  BY <1>1, <1>2, <1>3, <1>4, <1>5, <1>6, <1>7, <1>9, <1>10, <1>11 DEF Next, Serve

\* A captured payment is only ever refunded, unless a job that read it before its
\* capture is still to commit; no job that begins after the capture is such a one.
THEOREM CapturedPaymentsAreKept == Spec => CapturedIsKeptUnlessRaced
<1>1. TypeOK /\ [Next]_vars => [Kept]_vars
  BY KeptStep
<1> QED
  BY <1>1, TypeCorrect, PTL DEF Spec, CapturedIsKeptUnlessRaced, Kept
=============================================================================
