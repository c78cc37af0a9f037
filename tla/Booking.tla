------------------------------- MODULE Booking -------------------------------
(***************************************************************************)
(* The booking engine: BookingService and the slot lock half of            *)
(* AvailabilityService (backend/app/services), run by any number of        *)
(* uvicorn workers against one Postgres and one Redis.                     *)
(*                                                                         *)
(* A POST /bookings request takes, for every item, a Redis key with        *)
(* SET NX EX, re-reads the committed calendar, builds the appointment,     *)
(* deletes its keys and only then returns to the session dependency that   *)
(* commits.  Every await in that path is a step here, so that the steps of *)
(* concurrent requests interleave; what a request has flushed is invisible *)
(* to the others until it commits (READ COMMITTED), and no query takes a   *)
(* row lock.  Requests that change the status of an appointment read it in *)
(* one step and write the whole column in a later one.                     *)
(***************************************************************************)
EXTENDS Integers, Sequences, FiniteSets

CONSTANTS
    Bookings,     \* POST /bookings requests; each makes at most one appointment and names it
    Editors,      \* the connections that serve status-changing requests
    Customers,    \* customers of one business
    Staff,
    Zones,        \* UTC offsets in which a start time may be spelled
    Orders,       \* the request bodies customers send, with the staff and service they resolve to
    MaxNow,       \* bound on the clock
    EarlyExpiry,  \* TRUE: Redis may evict or expire a key while the request that set it still runs
    RedisFaults,  \* TRUE: a Redis call may raise
    NoOrder, NoEdit

Statuses == {"PENDING", "CONFIRMED", "IN_PROGRESS", "COMPLETED",
             "CANCELLED", "NO_SHOW", "RESCHEDULED"}

\* The rows _has_appointment_conflict looks at.
Blocking == {"CONFIRMED", "PENDING", "IN_PROGRESS"}

Terminal == {"COMPLETED", "CANCELLED", "NO_SHOW"}

\* APPOINTMENT_TRANSITIONS.
Transitions ==
    [s \in Statuses |->
        CASE s = "PENDING"     -> {"CONFIRMED", "CANCELLED"}
          [] s = "CONFIRMED"   -> {"IN_PROGRESS", "CANCELLED", "NO_SHOW", "RESCHEDULED"}
          [] s = "IN_PROGRESS" -> {"COMPLETED", "CANCELLED"}
          [] s = "RESCHEDULED" -> {"CONFIRMED", "CANCELLED"}
          [] OTHER             -> {}]

\* One item of a request: the service's buffer and duration are those of the
\* service row, the staff member is the one _resolve_staff settles on.
Item == [staff : Staff, zone : Zones, start : Nat, before : Nat, duration : Nat \ {0}]

\* deposit: whether the business asks a deposit above zero for this order.
Order == [customer : Customers, marketplace : BOOLEAN, deposit : BOOLEAN,
          items : Seq(Item)]

ASSUME OrdersAssumption ==
    /\ Orders \subseteq Order
    /\ \A o \in Orders : Len(o.items) >= 1
    /\ NoOrder \notin Orders

ASSUME ClockAssumption == MaxNow \in Nat
ASSUME FlagsAssumption == EarlyExpiry \in BOOLEAN /\ RedisFaults \in BOOLEAN
ASSUME EditAssumption  == NoEdit \notin [appt : Bookings, to : Statuses]

VARIABLES
    now,        \* the wall clock
    pc,         \* where each create request stands
    order,      \* its body
    taken,      \* how many entries its lock_keys list has
    freed,      \* how many of them the running release loop has deleted
    commission, \* commission_amount is set on its appointment
    status,     \* committed appointments.status, "NONE" while there is no row
    locks,      \* slot:* keys present in Redis
    edit,       \* what each editing request has read and is about to write
    notice,     \* the send_booking_confirmation task of each appointment
    standing,   \* history: rows that blocked when the request began and ever since
    kept        \* history: rows not cancelled when the request began and ever since

vars == <<now, pc, order, taken, freed, commission, status, locks, edit,
          notice, standing, kept>>
requestVars == <<pc, order, taken, freed, commission>>
historyVars == <<standing, kept>>

(***************************************************************************)
(* Helpers                                                                 *)
(***************************************************************************)
Items(b) == order[b].items

\* f"slot:{staff_id}:{start_time.isoformat()}": the spelling of the offset is
\* part of the key, the duration is not.
LockKey(it) == <<it.staff, it.zone, it.start>>
LockKeys == Staff \X Zones \X Nat

\* item_start and item_end: the buffers lie outside the stored window.
ItemStart(it) == it.start + it.before
ItemEnd(it)   == ItemStart(it) + it.duration

Overlap(x, y) ==
    /\ x.staff = y.staff
    /\ ItemStart(x) < ItemEnd(y)
    /\ ItemEnd(x) > ItemStart(y)

\* Mutant: only a new start inside an existing window counts as a conflict.
HasConflictAtStart(it) ==
    \E a \in Bookings :
        /\ status[a] \in Blocking
        /\ \E i \in DOMAIN Items(a) :
              /\ Items(a)[i].staff = it.staff
              /\ ItemStart(it) \in ItemStart(Items(a)[i]) .. ItemEnd(Items(a)[i]) - 1

\* _has_appointment_conflict.  More than one row makes scalar_one_or_none
\* raise, which refuses the request just as well.
HasConflict(it) ==
    \E a \in Bookings :
        /\ status[a] \in Blocking
        /\ \E i \in DOMAIN Items(a) : Overlap(Items(a)[i], it)

\* Mutant: past visits do not count as bookings.
HasOpenBooking(c) ==
    \E a \in Bookings : status[a] \in Blocking /\ order[a].customer = c

\* _get_previous_booking.
HasPreviousBooking(c) ==
    \E a \in Bookings :
        /\ status[a] \notin {"NONE", "CANCELLED"}
        /\ order[a].customer = c

\* The keys the orders at hand can name.
SlotKeys == UNION {{LockKey(o.items[i]) : i \in DOMAIN o.items} : o \in Orders}

Live(b) == pc[b] \in {"lock", "check", "build", "release", "abort"}

\* The keys a running request took and has not deleted yet.
Held(b) == IF Live(b) THEN {LockKey(Items(b)[i]) : i \in (freed[b] + 1) .. taken[b]} ELSE {}

(***************************************************************************)
(* create_booking                                                          *)
(***************************************************************************)
Init ==
    /\ now = 0
    /\ pc = [b \in Bookings |-> "idle"]
    /\ order = [b \in Bookings |-> NoOrder]
    /\ taken = [b \in Bookings |-> 0]
    /\ freed = [b \in Bookings |-> 0]
    /\ commission = [b \in Bookings |-> FALSE]
    /\ status = [b \in Bookings |-> "NONE"]
    /\ locks = {}
    /\ edit = [e \in Editors |-> NoEdit]
    /\ notice = [b \in Bookings |-> "none"]
    /\ standing = [b \in Bookings |-> {}]
    /\ kept = [b \in Bookings |-> {}]

\* The business, branch and customer are found: the request enters its try
\* block.  The history variables note what the calendar holds by now.
Begin(b, o) ==
    /\ pc[b] = "idle"
    /\ pc' = [pc EXCEPT ![b] = "lock"]
    /\ order' = [order EXCEPT ![b] = o]
    /\ standing' = [standing EXCEPT ![b] = {a \in Bookings : status[a] \in Blocking}]
    /\ kept' = [kept EXCEPT ![b] = {a \in Bookings : status[a] \notin {"NONE", "CANCELLED"}}]
    /\ UNCHANGED <<now, taken, freed, commission, status, locks, edit, notice>>

\* Mutant: SET without NX.
AcquireAnyway(b) ==
    /\ pc[b] = "lock"
    /\ Items(b)[taken[b] + 1].start > now
    /\ locks' = locks \cup {LockKey(Items(b)[taken[b] + 1])}
    /\ taken' = [taken EXCEPT ![b] = @ + 1]
    /\ pc' = [pc EXCEPT ![b] = "check"]
    /\ UNCHANGED <<now, order, freed, commission, status, edit, notice, historyVars>>

\* acquire_slot_lock for the next item, whose start must lie ahead.
AcquireSlotLock(b) ==
    /\ pc[b] = "lock"
    /\ LET it == Items(b)[taken[b] + 1]
       IN  /\ it.start > now
           /\ LockKey(it) \notin locks
           /\ locks' = locks \cup {LockKey(it)}
    /\ taken' = [taken EXCEPT ![b] = @ + 1]
    /\ pc' = [pc EXCEPT ![b] = "check"]
    /\ UNCHANGED <<now, order, freed, commission, status, edit, notice, historyVars>>

\* Mutant: the key enters lock_keys before SET NX is asked.
RefuseSlotAfterAppend(b) ==
    /\ pc[b] = "lock"
    /\ LockKey(Items(b)[taken[b] + 1]) \in locks
    /\ taken' = [taken EXCEPT ![b] = @ + 1]
    /\ pc' = [pc EXCEPT ![b] = "abort"]
    /\ UNCHANGED <<now, order, freed, commission, status, locks, edit, notice, historyVars>>

\* Mutant: a taken slot is waited for.
RefusePastSlotOnly(b) ==
    /\ pc[b] = "lock"
    /\ Items(b)[taken[b] + 1].start <= now
    /\ pc' = [pc EXCEPT ![b] = "abort"]
    /\ UNCHANGED <<now, order, taken, freed, commission, status, locks, edit,
                   notice, historyVars>>

\* BusinessRuleError for a slot in the past, SlotUnavailableError when SET NX
\* finds the key: on to the except clause.
RefuseSlot(b) ==
    /\ pc[b] = "lock"
    /\ LET it == Items(b)[taken[b] + 1]
       IN  it.start <= now \/ LockKey(it) \in locks
    /\ pc' = [pc EXCEPT ![b] = "abort"]
    /\ UNCHANGED <<now, order, taken, freed, commission, status, locks, edit,
                   notice, historyVars>>

\* The conflict query for the item just locked, against committed rows.
CheckConflict(b) ==
    /\ pc[b] = "check"
    /\ pc' = [pc EXCEPT ![b] =
                IF HasConflict(Items(b)[taken[b]]) THEN "abort"
                ELSE IF taken[b] = Len(Items(b)) THEN "build" ELSE "lock"]
    /\ UNCHANGED <<now, order, taken, freed, commission, status, locks, edit,
                   notice, historyVars>>

\* Totals, deposit, commission; the rows are flushed, visible to nobody yet.
BuildAppointment(b) ==
    /\ pc[b] = "build"
    /\ commission' = [commission EXCEPT ![b] =
            order[b].marketplace /\ ~HasPreviousBooking(order[b].customer)]
    /\ pc' = [pc EXCEPT ![b] = "release"]
    /\ UNCHANGED <<now, order, taken, freed, status, locks, edit, notice, historyVars>>

\* release_slot_lock for the next key, in the success path ("4. Release locks
\* now that appointment is persisted") or in the except clause.  DEL does not
\* ask who set the key.
ReleaseSlotLock(b) ==
    /\ pc[b] \in {"release", "abort"}
    /\ freed[b] < taken[b]
    /\ locks' = locks \ {LockKey(Items(b)[freed[b] + 1])}
    /\ freed' = [freed EXCEPT ![b] = @ + 1]
    /\ UNCHANGED <<now, pc, order, taken, commission, status, edit, notice, historyVars>>

\* All keys deleted: _queue_booking_notifications hands the task to Celery,
\* before the commit.  A broker that raises is only logged.
QueueNotification(b) ==
    /\ pc[b] = "release"
    /\ freed[b] = taken[b]
    /\ pc' = [pc EXCEPT ![b] = "commit"]
    /\ \/ notice' = [notice EXCEPT ![b] = "queued"]
       \/ RedisFaults /\ UNCHANGED notice
    /\ UNCHANGED <<now, order, taken, freed, commission, status, locks, edit, historyVars>>

\* get_db commits after the endpoint returned.
CommitBooking(b) ==
    /\ pc[b] = "commit"
    /\ pc' = [pc EXCEPT ![b] = "done"]
    /\ status' = [status EXCEPT ![b] = IF order[b].deposit THEN "PENDING" ELSE "CONFIRMED"]
    /\ UNCHANGED <<now, order, taken, freed, commission, locks, edit, notice, historyVars>>

\* The except clause is through, or the commit itself fails: get_db rolls back.
Rollback(b) ==
    /\ \/ pc[b] = "abort" /\ freed[b] = taken[b]
       \/ pc[b] = "commit"
    /\ pc' = [pc EXCEPT ![b] = "failed"]
    /\ UNCHANGED <<now, order, taken, freed, commission, status, locks, edit,
                   notice, historyVars>>

\* Any other exception inside the try block: a service or a staff member that
\* is not bookable, a lost database connection, a source Postgres refuses.
Raise(b) ==
    /\ pc[b] \in {"lock", "check", "build"}
    /\ pc' = [pc EXCEPT ![b] = "abort"]
    /\ UNCHANGED <<now, order, taken, freed, commission, status, locks, edit,
                   notice, historyVars>>

\* SET NX reached Redis and its answer was lost: the key is set and the
\* request does not know it.
LoseLockReply(b) ==
    /\ RedisFaults
    /\ pc[b] = "lock"
    /\ Items(b)[taken[b] + 1].start > now
    /\ locks' = locks \cup {LockKey(Items(b)[taken[b] + 1])}
    /\ pc' = [pc EXCEPT ![b] = "abort"]
    /\ UNCHANGED <<now, order, taken, freed, commission, status, edit, notice, historyVars>>

\* DEL raises.  In the success path the except clause starts over with the
\* whole list; in the except clause the rest of the list is left behind.
FailRelease(b) ==
    /\ RedisFaults
    /\ pc[b] \in {"release", "abort"}
    /\ freed[b] < taken[b]
    /\ freed' = [freed EXCEPT ![b] = IF pc[b] = "release" THEN 0 ELSE @]
    /\ pc' = [pc EXCEPT ![b] = IF pc[b] = "release" THEN "abort" ELSE "failed"]
    /\ UNCHANGED <<now, order, taken, commission, status, locks, edit, notice, historyVars>>

\* The worker process dies; its transaction is gone, its keys stay.
Crash(b) ==
    /\ Live(b) \/ pc[b] = "commit"
    /\ pc' = [pc EXCEPT ![b] = "crashed"]
    /\ UNCHANGED <<now, order, taken, freed, commission, status, locks, edit,
                   notice, historyVars>>

\* Mutant: SET NX without EX.
NeverExpire(k) == FALSE /\ UNCHANGED vars

\* SLOT_LOCK_TTL_SECONDS pass.  A request takes far less than five minutes,
\* so unless EarlyExpiry a key outlives the request that set it.
ExpireSlotLock(k) ==
    /\ k \in locks
    /\ EarlyExpiry \/ \A b \in Bookings : k \notin Held(b)
    /\ locks' = locks \ {k}
    /\ UNCHANGED <<now, requestVars, status, edit, notice, historyVars>>

(***************************************************************************)
(* cancel_booking, update_appointment_status, confirm_deposit_payment, and *)
(* the checkout of an appointment                                          *)
(***************************************************************************)
Read(e, a, to) ==
    /\ edit[e] = NoEdit
    /\ edit' = [edit EXCEPT ![e] = [appt |-> a, to |-> to]]
    /\ UNCHANGED <<now, requestVars, status, locks, notice, historyVars>>

CancelBooking(e, a) ==
    /\ status[a] \notin {"NONE"} \cup Terminal
    /\ Read(e, a, "CANCELLED")

UpdateAppointmentStatus(e, a, s) ==
    /\ status[a] # "NONE"
    /\ s \in Transitions[status[a]]
    /\ Read(e, a, s)

ConfirmDepositPayment(e, a) ==
    /\ status[a] = "PENDING"
    /\ Read(e, a, "CONFIRMED")

\* POSService.checkout names the appointment and completes it, in whatever
\* status it is.  A column that keeps its value is not written.
CheckoutCompletes(e, a) ==
    /\ status[a] \notin {"NONE", "COMPLETED"}
    /\ Read(e, a, "COMPLETED")

\* flush and commit: UPDATE appointments SET status = ... WHERE id = ...
CommitEdit(e) ==
    /\ edit[e] # NoEdit
    /\ LET a  == edit[e].appt
           to == edit[e].to
       IN  /\ status' = [status EXCEPT ![a] = to]
           /\ standing' = [b \in Bookings |-> IF to \in Blocking THEN standing[b]
                                              ELSE standing[b] \ {a}]
           /\ kept' = [b \in Bookings |-> IF to # "CANCELLED" THEN kept[b]
                                          ELSE kept[b] \ {a}]
    /\ edit' = [edit EXCEPT ![e] = NoEdit]
    /\ UNCHANGED <<now, requestVars, locks, notice>>

\* The request fails after its read, or its process dies.
DropEdit(e) ==
    /\ edit[e] # NoEdit
    /\ edit' = [edit EXCEPT ![e] = NoEdit]
    /\ UNCHANGED <<now, requestVars, status, locks, notice, historyVars>>

(***************************************************************************)
(* The Celery worker and the clock                                         *)
(***************************************************************************)
\* Mutant: the task trusts its caller and does not look for the row.
SendAtOnce(b) ==
    /\ notice[b] = "queued"
    /\ notice' = [notice EXCEPT ![b] = "sent"]
    /\ UNCHANGED <<now, requestVars, status, locks, edit, historyVars>>

\* _send_booking_confirmation_async: no row, no mail, and no second attempt.
SendConfirmation(b) ==
    /\ notice[b] = "queued"
    /\ notice' = [notice EXCEPT ![b] = IF status[b] = "NONE" THEN "skipped" ELSE "sent"]
    /\ UNCHANGED <<now, requestVars, status, locks, edit, historyVars>>

Tick ==
    /\ now < MaxNow
    /\ now' = now + 1
    /\ UNCHANGED <<requestVars, status, locks, edit, notice, historyVars>>

CreateStep(b) ==
    \/ AcquireSlotLock(b) \/ RefuseSlot(b) \/ CheckConflict(b) \/ BuildAppointment(b)
    \/ ReleaseSlotLock(b) \/ QueueNotification(b) \/ CommitBooking(b) \/ Rollback(b)

CreateFault(b) == Raise(b) \/ LoseLockReply(b) \/ FailRelease(b) \/ Crash(b)

EditRead(e) ==
    \E a \in Bookings :
        \/ CancelBooking(e, a)
        \/ \E s \in Statuses : UpdateAppointmentStatus(e, a, s)
        \/ ConfirmDepositPayment(e, a)
        \/ CheckoutCompletes(e, a)

Next ==
    \/ \E b \in Bookings : \/ \E o \in Orders : Begin(b, o)
                           \/ CreateStep(b)
                           \/ CreateFault(b)
                           \/ SendConfirmation(b)
    \/ \E k \in SlotKeys : ExpireSlotLock(k)
    \/ \E e \in Editors : EditRead(e) \/ CommitEdit(e) \/ DropEdit(e)
    \/ Tick

Spec == Init /\ [][Next]_vars

\* A request that runs goes on running until it ends or its process dies,
\* Redis honours EX, and the Celery worker empties its queue.
Fairness ==
    /\ \A b \in Bookings : WF_vars(CreateStep(b)) /\ WF_vars(SendConfirmation(b))
    /\ \A k \in SlotKeys : WF_vars(ExpireSlotLock(k))

FairSpec == Spec /\ Fairness

(***************************************************************************)
(* Properties                                                              *)
(***************************************************************************)
\* The types of the variables and the phases of a request: a row exists once its
\* request is done, and an editor only ever holds a row that exists.
TypeOK ==
    /\ now \in 0 .. MaxNow
    /\ pc \in [Bookings -> {"idle", "lock", "check", "build", "release", "commit",
                            "abort", "done", "failed", "crashed"}]
    /\ order \in [Bookings -> Orders \cup {NoOrder}]
    /\ taken \in [Bookings -> Nat]
    /\ freed \in [Bookings -> Nat]
    /\ commission \in [Bookings -> BOOLEAN]
    /\ status \in [Bookings -> Statuses \cup {"NONE"}]
    /\ locks \subseteq SlotKeys
    /\ edit \in [Editors -> [appt : Bookings, to : Statuses] \cup {NoEdit}]
    /\ notice \in [Bookings -> {"none", "queued", "sent", "skipped"}]
    /\ standing \in [Bookings -> SUBSET Bookings]
    /\ kept \in [Bookings -> SUBSET Bookings]
    /\ \A b \in Bookings :
          /\ order[b] = NoOrder <=> pc[b] = "idle"
          /\ pc[b] = "idle" => freed[b] = 0 /\ taken[b] = 0
          /\ pc[b] # "idle" => freed[b] <= taken[b] /\ taken[b] <= Len(Items(b))
          /\ pc[b] = "lock" => taken[b] < Len(Items(b))
          /\ pc[b] = "check" => taken[b] >= 1
          /\ status[b] # "NONE" => pc[b] = "done"
    /\ \A e \in Editors : edit[e] # NoEdit => status[edit[e].appt] # "NONE"

Disjoint(a, b) ==
    \A i \in DOMAIN Items(a), j \in DOMAIN Items(b) : ~Overlap(Items(a)[i], Items(b)[j])

\* What the "double-check" of create_booking is worth under any interleaving,
\* key eviction and failed release: an appointment that was committed and
\* blocking before a request began, and has blocked ever since, is never
\* overlapped by what that request commits.
CommittedBookingIsRespected ==
    \A b \in Bookings : status[b] # "NONE" => \A a \in standing[b] : Disjoint(a, b)

\* _get_previous_booking: a customer who already had an appointment when the
\* request began, and has not cancelled it since, costs the salon no commission.
KnownCustomerCostsNoCommission ==
    \A b \in Bookings : status[b] # "NONE" /\ commission[b] =>
        \A a \in kept[b] : order[a].customer # order[b].customer

\* The inductive form of the two: the items a request has checked so far avoid
\* every row that has blocked since it began.
Checked(b) == IF pc[b] = "check" THEN taken[b] - 1 ELSE taken[b]
Going(b) == pc[b] \in {"lock", "check", "build", "release", "commit", "done"}

CalendarInv ==
    \A b \in Bookings :
        /\ pc[b] \in {"build", "release", "commit", "done"} => taken[b] = Len(Items(b))
        /\ \A a \in standing[b] : status[a] \in Blocking
        /\ Going(b) => \A a \in standing[b] :
              \A i \in DOMAIN Items(a), j \in 1 .. Checked(b) :
                  ~Overlap(Items(a)[i], Items(b)[j])

CustomerInv ==
    \A b \in Bookings :
        /\ \A a \in kept[b] : status[a] \notin {"NONE", "CANCELLED"}
        /\ pc[b] \in {"release", "commit", "done"} /\ commission[b] =>
              \A a \in kept[b] : order[a].customer # order[b].customer

\* acquire_slot_lock is a mutex when Redis is reliable: a key that a running
\* request took is still there, and no other running request took it.
SlotLockIsHeldByOne ==
    \A b \in Bookings :
        /\ Held(b) \subseteq locks
        /\ \A c \in Bookings \ {b} : Held(b) \cap Held(c) = {}

\* When Redis is reliable the keys are leases, although DEL names a key and not
\* its owner: what a request deletes is its own, what a dead request left
\* behind only runs out.
Lease == INSTANCE SlotLease WITH
            Owners <- Bookings, Keys <- SlotKeys,
            lease <- [b \in Bookings |-> Held(b)],
            orphans <- locks \ UNION {Held(b) : b \in Bookings}

SlotLocksAreLeases == Lease!Spec

\* The inductive form of both: what the release loop has still to delete are keys that
\* are set, pairwise different, and claimed by no other running request.
KeyOf(b, i) == LockKey(Items(b)[i])
Owed(b) == IF Live(b) THEN (freed[b] + 1) .. taken[b] ELSE {}

LockInv ==
    \A b \in Bookings :
        /\ pc[b] \in {"lock", "check", "build"} => freed[b] = 0
        /\ \A i \in Owed(b) : KeyOf(b, i) \in locks
        /\ \A i, j \in Owed(b) : i # j => KeyOf(b, i) # KeyOf(b, j)
        /\ \A c \in Bookings \ {b} : \A i \in Owed(b), j \in Owed(c) : KeyOf(b, i) # KeyOf(c, j)

\* The confirmation is queued before the commit and sent by another process:
\* nobody is told of a booking that was not, or not yet, made.
OnlyBookingsAreConfirmed ==
    \A b \in Bookings : notice[b] = "sent" => status[b] # "NONE"

\* A request ends, whatever the order in which others take the same keys:
\* SET NX refuses and never waits.
EveryRequestEnds ==
    \A b \in Bookings : pc[b] = "lock" ~> pc[b] \in {"done", "failed", "crashed"}

\* A key left behind by a dead request or a lost reply does not block its slot
\* for ever.
EverySlotLockIsFreed ==
    \A k \in SlotKeys : k \in locks ~> k \notin locks

(***************************************************************************)
(* What the documents say, and the code does not do                        *)
(***************************************************************************)
\* docs/FRS.md, "I cannot double-book (the system prevents concurrent slot
\* conflicts)": two items of live appointments, or of one, never claim the same
\* staff member at the same time.
NoDoubleBooking ==
    \A a, b \in Bookings : status[a] \in Blocking /\ status[b] \in Blocking =>
        \A i \in DOMAIN Items(a), j \in DOMAIN Items(b) :
            <<a, i>> # <<b, j>> => ~Overlap(Items(a)[i], Items(b)[j])
=============================================================================
