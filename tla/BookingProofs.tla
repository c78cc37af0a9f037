---------------------------- MODULE BookingProofs ----------------------------
(***************************************************************************)
(* What Booking guarantees for any number of requests, editors, orders and *)
(* staff, with evicted keys, failing Redis calls and crashes.              *)
(***************************************************************************)
EXTENDS Availability, TLAPS

\* What OrdersAssumption says of the items of one order.
LEMMA OrderItems ==
    ASSUME NEW o \in Orders
    PROVE  /\ o \in Order
           /\ o # NoOrder
           /\ o.items \in Seq(Item)
           /\ Len(o.items) \in Nat \ {0}
           /\ DOMAIN o.items = 1 .. Len(o.items)
BY OrdersAssumption DEF Order

\* The keys a running request names are keys of its order.
LEMMA KeysOfOrders ==
    ASSUME TypeOK, NEW b \in Bookings, pc[b] # "idle",
           NEW i \in 1 .. Len(Items(b))
    PROVE  LockKey(Items(b)[i]) \in SlotKeys
<1>1. order[b] \in Orders
  BY DEF TypeOK
<1>2. i \in DOMAIN order[b].items
  BY <1>1, OrderItems DEF Items
<1> QED
  BY <1>1, <1>2 DEF SlotKeys, Items

LEMMA TypeInit == Init => TypeOK
BY ClockAssumption DEF Init, TypeOK

LEMMA TypeStep == TypeOK /\ [Next]_vars => TypeOK'
<1> SUFFICES ASSUME TypeOK, [Next]_vars
             PROVE  TypeOK'
  OBVIOUS
<1>1. ASSUME NEW b \in Bookings, NEW o \in Orders, Begin(b, o)
      PROVE  TypeOK'
  BY <1>1, OrderItems DEF TypeOK, Begin, Items
<1>2. ASSUME NEW b \in Bookings, AcquireSlotLock(b)
      PROVE  TypeOK'
  <2>1. taken[b] + 1 \in 1 .. Len(Items(b))
    BY <1>2, OrderItems DEF TypeOK, AcquireSlotLock, Items
  <2>2. LockKey(Items(b)[taken[b] + 1]) \in SlotKeys
    BY <1>2, <2>1, KeysOfOrders DEF AcquireSlotLock
  <2> QED
    BY <1>2, <2>1, <2>2, OrderItems DEF TypeOK, AcquireSlotLock, Items, historyVars
<1>3. ASSUME NEW b \in Bookings, RefuseSlot(b)
      PROVE  TypeOK'
  BY <1>3 DEF TypeOK, RefuseSlot, Items, historyVars
<1>4. ASSUME NEW b \in Bookings, CheckConflict(b)
      PROVE  TypeOK'
  BY <1>4, OrderItems DEF TypeOK, CheckConflict, Items, historyVars
<1>5. ASSUME NEW b \in Bookings, BuildAppointment(b)
      PROVE  TypeOK'
  <2>1. (order[b].marketplace /\ ~HasPreviousBooking(order[b].customer)) \in BOOLEAN
    OBVIOUS
  <2> QED
    BY <1>5, <2>1 DEF TypeOK, BuildAppointment, Items, historyVars
<1>6. ASSUME NEW b \in Bookings, ReleaseSlotLock(b)
      PROVE  TypeOK'
  BY <1>6, OrderItems DEF TypeOK, ReleaseSlotLock, Items, historyVars
<1>7. ASSUME NEW b \in Bookings, QueueNotification(b)
      PROVE  TypeOK'
  <2>1. notice' \in [Bookings -> {"none", "queued", "sent", "skipped"}]
    BY <1>7 DEF TypeOK, QueueNotification
  <2> QED
    BY <1>7, <2>1 DEF TypeOK, QueueNotification, Items, historyVars
<1>8. ASSUME NEW b \in Bookings, CommitBooking(b)
      PROVE  TypeOK'
  BY <1>8 DEF TypeOK, CommitBooking, Items, historyVars, Statuses
<1>9. ASSUME NEW b \in Bookings, Rollback(b)
      PROVE  TypeOK'
  BY <1>9 DEF TypeOK, Rollback, Items, historyVars
<1>10. ASSUME NEW b \in Bookings, Raise(b)
       PROVE  TypeOK'
  BY <1>10 DEF TypeOK, Raise, Items, historyVars
<1>11. ASSUME NEW b \in Bookings, LoseLockReply(b)
       PROVE  TypeOK'
  <2>1. taken[b] + 1 \in 1 .. Len(Items(b))
    BY <1>11, OrderItems DEF TypeOK, LoseLockReply, Items
  <2>2. LockKey(Items(b)[taken[b] + 1]) \in SlotKeys
    BY <1>11, <2>1, KeysOfOrders DEF LoseLockReply
  <2> QED
    BY <1>11, <2>2 DEF TypeOK, LoseLockReply, Items, historyVars
<1>12. ASSUME NEW b \in Bookings, FailRelease(b)
       PROVE  TypeOK'
  BY <1>12 DEF TypeOK, FailRelease, Items, historyVars
<1>13. ASSUME NEW b \in Bookings, Crash(b)
       PROVE  TypeOK'
  BY <1>13 DEF TypeOK, Crash, Live, Items, historyVars
<1>14. ASSUME NEW b \in Bookings, SendConfirmation(b)
       PROVE  TypeOK'
  BY <1>14 DEF TypeOK, SendConfirmation, Items, historyVars, requestVars
<1>15. ASSUME NEW k \in SlotKeys, ExpireSlotLock(k)
       PROVE  TypeOK'
  BY <1>15 DEF TypeOK, ExpireSlotLock, Items, historyVars, requestVars
<1>16. ASSUME NEW e \in Editors, EditRead(e)
       PROVE  TypeOK'
  <2>1. PICK a \in Bookings, s \in Statuses : Read(e, a, s) /\ status[a] # "NONE"
    BY <1>16 DEF EditRead, CancelBooking, UpdateAppointmentStatus,
                 ConfirmDepositPayment, CheckoutCompletes, Statuses
  <2> QED
    BY <2>1, EditAssumption DEF TypeOK, Read, Items, historyVars, requestVars
<1>17. ASSUME NEW e \in Editors, CommitEdit(e)
       PROVE  TypeOK'
  <2>1. edit[e] \in [appt : Bookings, to : Statuses]
    BY <1>17 DEF TypeOK, CommitEdit
  <2>2. edit[e].to # "NONE"
    BY <2>1 DEF Statuses
  <2> QED
    BY <1>17, <2>1, <2>2 DEF TypeOK, CommitEdit, Items, requestVars
<1>18. ASSUME NEW e \in Editors, DropEdit(e)
       PROVE  TypeOK'
  BY <1>18 DEF TypeOK, DropEdit, Items, historyVars, requestVars
<1>19. CASE Tick
  BY <1>19, ClockAssumption DEF TypeOK, Tick, Items, historyVars, requestVars
<1>20. CASE UNCHANGED vars
  BY <1>20 DEF TypeOK, vars, Items
<1> QED
  BY <1>1, <1>2, <1>3, <1>4, <1>5, <1>6, <1>7, <1>8, <1>9, <1>10, <1>11, <1>12,
     <1>13, <1>14, <1>15, <1>16, <1>17, <1>18, <1>19, <1>20
     DEF Next, CreateStep, CreateFault

\* Every reachable state has the types TypeOK names, and an appointment row
\* exists only once its create request is done.
THEOREM TypeCorrect == Spec => []TypeOK
BY TypeInit, TypeStep, PTL DEF Spec

(***************************************************************************)
(* The calendar                                                            *)
(***************************************************************************)
\* A step that changes no order, checks no item and adds no row to the history
\* preserves CalendarInv.
LEMMA CalendarUndisturbed ==
    ASSUME CalendarInv, UNCHANGED order,
           \A c \in Bookings :
              /\ standing'[c] \subseteq standing[c]
              /\ \A a \in standing'[c] : status'[a] \in Blocking
              /\ pc'[c] \in {"build", "release", "commit", "done"} => taken'[c] = Len(Items(c))
              /\ Going(c)' => Going(c) /\ Checked(c)' = Checked(c)
    PROVE  CalendarInv'
<1>1. \A c \in Bookings : Items(c)' = Items(c)
  BY DEF Items
<1> SUFFICES ASSUME NEW c \in Bookings
             PROVE  /\ pc'[c] \in {"build", "release", "commit", "done"} =>
                          taken'[c] = Len(Items(c)')
                    /\ \A a \in standing'[c] : status'[a] \in Blocking
                    /\ Going(c)' => \A a \in standing'[c] :
                          \A i \in DOMAIN Items(a)', j \in 1 .. Checked(c)' :
                              ~Overlap(Items(a)'[i], Items(c)'[j])
  BY DEF CalendarInv
<1> QED
  BY <1>1 DEF CalendarInv, Items

LEMMA CalendarStep == TypeOK /\ CalendarInv /\ [Next]_vars => CalendarInv'
<1> SUFFICES ASSUME TypeOK, CalendarInv, [Next]_vars
             PROVE  CalendarInv'
  OBVIOUS
<1>1. ASSUME NEW b \in Bookings, NEW o \in Orders, Begin(b, o)
      PROVE  CalendarInv'
  <2>1. /\ taken[b] = 0 /\ status[b] = "NONE"
        /\ pc' = [pc EXCEPT ![b] = "lock"]
        /\ order' = [order EXCEPT ![b] = o]
        /\ UNCHANGED <<taken, status>>
    BY <1>1 DEF Begin, TypeOK
  <2>2. \A c \in Bookings \ {b} : standing'[c] = standing[c]
    BY <1>1 DEF Begin, TypeOK
  <2>3. standing'[b] = {a \in Bookings : status[a] \in Blocking}
    BY <1>1 DEF Begin, TypeOK
  <2>4. \A c \in Bookings \ {b} : \A a \in standing[c] : a # b
    BY <2>1 DEF CalendarInv, Blocking
  <2>5. \A c \in Bookings \ {b} : \A a \in standing[c] : a \in Bookings /\ Items(a)' = Items(a)
    BY <2>1, <2>4 DEF Items, TypeOK
  <2>6. \A c \in Bookings \ {b} : Items(c)' = Items(c) /\ pc'[c] = pc[c]
    BY <2>1 DEF Items, TypeOK
  <2>7. pc'[b] = "lock" /\ Checked(b)' = 0
    BY <2>1 DEF Checked, TypeOK
  <2> SUFFICES ASSUME NEW c \in Bookings
               PROVE  /\ pc'[c] \in {"build", "release", "commit", "done"} =>
                            taken'[c] = Len(Items(c)')
                      /\ \A a \in standing'[c] : status'[a] \in Blocking
                      /\ Going(c)' => \A a \in standing'[c] :
                            \A i \in DOMAIN Items(a)', j \in 1 .. Checked(c)' :
                                ~Overlap(Items(a)'[i], Items(c)'[j])
    BY DEF CalendarInv
  <2>8. CASE c = b
    BY <2>1, <2>3, <2>7, <2>8
  <2>9. CASE c # b
    BY <2>1, <2>2, <2>5, <2>6, <2>9 DEF CalendarInv, Going, Checked
  <2> QED
    BY <2>8, <2>9
<1>2. ASSUME NEW b \in Bookings, AcquireSlotLock(b)
      PROVE  CalendarInv'
  <2>1. \A c \in Bookings :
          /\ pc'[c] \in {"build", "release", "commit", "done"} => taken'[c] = Len(Items(c))
          /\ Going(c)' => Going(c) /\ Checked(c)' = Checked(c)
    BY <1>2 DEF AcquireSlotLock, CalendarInv, TypeOK, Going, Checked
  <2> QED
    BY <1>2, <2>1, CalendarUndisturbed DEF AcquireSlotLock, CalendarInv, historyVars
<1>3. ASSUME NEW b \in Bookings, CheckConflict(b)
      PROVE  CalendarInv'
  <2> DEFINE it == Items(b)[taken[b]]
  <2>1. CASE HasConflict(it)
    <3>1. \A c \in Bookings :
            /\ pc'[c] \in {"build", "release", "commit", "done"} => taken'[c] = Len(Items(c))
            /\ Going(c)' => Going(c) /\ Checked(c)' = Checked(c)
      BY <1>3, <2>1 DEF CheckConflict, CalendarInv, TypeOK, Going, Checked
    <3> QED
      BY <1>3, <3>1, CalendarUndisturbed DEF CheckConflict, CalendarInv, historyVars
  <2>2. CASE ~HasConflict(it)
    <3>1. /\ pc[b] = "check"
          /\ pc' = [pc EXCEPT ![b] = IF taken[b] = Len(Items(b)) THEN "build" ELSE "lock"]
          /\ UNCHANGED <<order, taken, status, standing>>
      BY <1>3, <2>2 DEF CheckConflict, historyVars
    <3>2. \A a \in standing[b] : \A i \in DOMAIN Items(a) : ~Overlap(Items(a)[i], it)
      BY <2>2 DEF HasConflict, CalendarInv, TypeOK
    <3>3. Going(b) /\ Checked(b) = taken[b] - 1
      BY <3>1 DEF Going, Checked
    <3>4. Checked(b)' = taken[b]
      BY <3>1 DEF Checked, TypeOK
    <3>5. \A j \in 1 .. taken[b] : j \in 1 .. Checked(b) \/ j = taken[b]
      BY <3>3 DEF TypeOK
    <3>6. \A a \in standing[b] : \A i \in DOMAIN Items(a), j \in 1 .. taken[b] :
              ~Overlap(Items(a)[i], Items(b)[j])
      BY <3>2, <3>3, <3>5 DEF CalendarInv
    <3> SUFFICES ASSUME NEW c \in Bookings
                 PROVE  /\ pc'[c] \in {"build", "release", "commit", "done"} =>
                              taken'[c] = Len(Items(c)')
                        /\ \A a \in standing'[c] : status'[a] \in Blocking
                        /\ Going(c)' => \A a \in standing'[c] :
                              \A i \in DOMAIN Items(a)', j \in 1 .. Checked(c)' :
                                  ~Overlap(Items(a)'[i], Items(c)'[j])
      BY DEF CalendarInv
    <3>7. CASE c = b
      BY <3>1, <3>4, <3>6, <3>7 DEF CalendarInv, Items, TypeOK
    <3>8. CASE c # b
      BY <3>1, <3>8 DEF CalendarInv, Items, Going, Checked, TypeOK
    <3> QED
      BY <3>7, <3>8
  <2> QED
    BY <2>1, <2>2
<1>4. ASSUME NEW b \in Bookings, CommitBooking(b)
      PROVE  CalendarInv'
  <2>1. /\ pc[b] = "commit" /\ pc' = [pc EXCEPT ![b] = "done"]
        /\ UNCHANGED <<order, taken, standing>>
        /\ status' = [status EXCEPT ![b] = IF order[b].deposit THEN "PENDING" ELSE "CONFIRMED"]
    BY <1>4 DEF CommitBooking, historyVars
  <2>2. \A a \in Bookings : status[a] \in Blocking => status'[a] \in Blocking
    BY <2>1 DEF Blocking, TypeOK
  <2> QED
    BY <2>1, <2>2 DEF CalendarInv, Items, Going, Checked, TypeOK
<1>5. ASSUME NEW b \in Bookings,
             \/ RefuseSlot(b) \/ Raise(b) \/ LoseLockReply(b) \/ FailRelease(b)
             \/ Crash(b) \/ Rollback(b)
      PROVE  CalendarInv'
  <2>1. /\ UNCHANGED <<order, taken, status, standing>>
        /\ \E s \in {"abort", "failed", "crashed"} : pc' = [pc EXCEPT ![b] = s]
    BY <1>5 DEF RefuseSlot, Raise, LoseLockReply, FailRelease, Crash, Rollback, historyVars
  <2>2. \A c \in Bookings :
          /\ pc'[c] \in {"build", "release", "commit", "done"} => taken'[c] = Len(Items(c))
          /\ Going(c)' => Going(c) /\ Checked(c)' = Checked(c)
    BY <2>1 DEF CalendarInv, TypeOK, Going, Checked
  <2> QED
    BY <2>1, <2>2, CalendarUndisturbed DEF CalendarInv
<1>6. ASSUME NEW b \in Bookings,
             BuildAppointment(b) \/ ReleaseSlotLock(b) \/ QueueNotification(b)
      PROVE  CalendarInv'
  <2>1. /\ UNCHANGED <<order, taken, status, standing>>
        /\ \/ pc' = [pc EXCEPT ![b] = "release"] /\ pc[b] = "build"
           \/ pc' = [pc EXCEPT ![b] = "commit"] /\ pc[b] = "release"
           \/ pc' = pc
    BY <1>6 DEF BuildAppointment, ReleaseSlotLock, QueueNotification, historyVars
  <2>2. \A c \in Bookings :
          /\ pc'[c] \in {"build", "release", "commit", "done"} => taken'[c] = Len(Items(c))
          /\ Going(c)' => Going(c) /\ Checked(c)' = Checked(c)
    BY <2>1 DEF CalendarInv, Going, Checked, TypeOK
  <2>3. \A c \in Bookings : \A a \in standing'[c] : status'[a] \in Blocking
    BY <2>1 DEF CalendarInv
  <2> QED
    BY <2>1, <2>2, <2>3, CalendarUndisturbed
<1>7. ASSUME NEW e \in Editors, CommitEdit(e)
      PROVE  CalendarInv'
  <2> DEFINE a == edit[e].appt
             to == edit[e].to
  <2>1. /\ a \in Bookings
        /\ status' = [status EXCEPT ![a] = to]
        /\ standing' = [b \in Bookings |-> IF to \in Blocking THEN standing[b]
                                           ELSE standing[b] \ {a}]
        /\ UNCHANGED requestVars
    BY <1>7 DEF CommitEdit, TypeOK
  <2> HIDE DEF a, to
  <2>2. \A b \in Bookings : standing'[b] \subseteq standing[b]
    BY <2>1
  <2>3. \A b \in Bookings : \A c \in standing'[b] : status'[c] \in Blocking
    BY <2>1 DEF CalendarInv, TypeOK
  <2>4. \A c \in Bookings :
          /\ pc'[c] \in {"build", "release", "commit", "done"} => taken'[c] = Len(Items(c))
          /\ Going(c)' => Going(c) /\ Checked(c)' = Checked(c)
    BY <2>1 DEF CalendarInv, Going, Checked, requestVars
  <2> QED
    BY <2>1, <2>2, <2>3, <2>4, CalendarUndisturbed DEF requestVars
<1>8. CASE /\ UNCHANGED <<requestVars, status, standing>>
  BY <1>8 DEF CalendarInv, Items, Going, Checked, requestVars
<1>9. ASSUME NEW e \in Editors, EditRead(e) \/ DropEdit(e)
      PROVE  UNCHANGED <<requestVars, status, standing>>
  BY <1>9 DEF EditRead, CancelBooking, UpdateAppointmentStatus, ConfirmDepositPayment, CheckoutCompletes,
              Read, DropEdit, historyVars
<1>10. ASSUME \/ Tick
              \/ \E b \in Bookings : SendConfirmation(b)
              \/ \E k \in SlotKeys : ExpireSlotLock(k)
              \/ UNCHANGED vars
       PROVE  UNCHANGED <<requestVars, status, standing>>
  BY <1>10 DEF Tick, SendConfirmation, ExpireSlotLock, vars, historyVars, requestVars
<1> QED
  BY <1>1, <1>2, <1>3, <1>4, <1>5, <1>6, <1>7, <1>8, <1>9, <1>10
     DEF Next, CreateStep, CreateFault

\* Every item a running request has checked stays clear of the rows that have
\* blocked since the request began.
THEOREM CalendarKept == Spec => []CalendarInv
<1>1. Init => CalendarInv
  BY DEF Init, CalendarInv, Going
<1> QED
  BY <1>1, CalendarStep, TypeCorrect, PTL DEF Spec

\* create_booking never commits over an appointment that was on the calendar
\* when it began and is still there.
THEOREM CommittedIsRespected == Spec => []CommittedBookingIsRespected
<1>1. TypeOK /\ CalendarInv => CommittedBookingIsRespected
  <2> SUFFICES ASSUME TypeOK, CalendarInv, NEW b \in Bookings, status[b] # "NONE",
                      NEW a \in standing[b]
               PROVE  Disjoint(a, b)
    BY DEF CommittedBookingIsRespected
  <2>1. pc[b] = "done" /\ Checked(b) = Len(Items(b)) /\ Going(b)
    BY DEF TypeOK, CalendarInv, Checked, Going
  <2>2. order[b] \in Orders
    BY <2>1 DEF TypeOK
  <2>3. DOMAIN Items(b) = 1 .. Len(Items(b))
    BY <2>2, OrderItems DEF Items
  <2> QED
    BY <2>1, <2>3 DEF CalendarInv, Disjoint
<1> QED
  BY <1>1, TypeCorrect, CalendarKept, PTL

(***************************************************************************)
(* The commission                                                          *)
(***************************************************************************)
LEMMA CustomerStep == TypeOK /\ CustomerInv /\ [Next]_vars => CustomerInv'
<1> SUFFICES ASSUME TypeOK, CustomerInv, [Next]_vars
             PROVE  CustomerInv'
  OBVIOUS
<1>1. ASSUME NEW b \in Bookings, NEW o \in Orders, Begin(b, o)
      PROVE  CustomerInv'
  <2>1. /\ status[b] = "NONE" /\ UNCHANGED <<status, commission>>
        /\ pc' = [pc EXCEPT ![b] = "lock"]
        /\ order' = [order EXCEPT ![b] = o]
        /\ kept' = [kept EXCEPT ![b] = {a \in Bookings : status[a] \notin {"NONE", "CANCELLED"}}]
    BY <1>1 DEF Begin, TypeOK
  <2>2. \A c \in Bookings \ {b} : \A a \in kept[c] : a \in Bookings \ {b}
    BY <2>1 DEF CustomerInv, TypeOK
  <2>3. \A a \in Bookings \ {b} : order'[a] = order[a] /\ pc'[a] = pc[a] /\ kept'[a] = kept[a]
    BY <2>1 DEF TypeOK
  <2>4. pc'[b] = "lock" /\ \A a \in kept'[b] : status'[a] \notin {"NONE", "CANCELLED"}
    BY <2>1 DEF TypeOK
  <2> QED
    BY <2>1, <2>2, <2>3, <2>4 DEF CustomerInv
<1>2. ASSUME NEW b \in Bookings, BuildAppointment(b)
      PROVE  CustomerInv'
  <2> DEFINE charged == order[b].marketplace /\ ~HasPreviousBooking(order[b].customer)
  <2>1. /\ commission' = [commission EXCEPT ![b] = charged]
        /\ pc' = [pc EXCEPT ![b] = "release"]
        /\ UNCHANGED <<order, status, kept>>
    BY <1>2 DEF BuildAppointment, historyVars
  <2>2. charged => \A a \in kept[b] : order[a].customer # order[b].customer
    BY DEF HasPreviousBooking, CustomerInv, TypeOK
  <2> HIDE DEF charged
  <2>3. commission'[b] = charged /\ \A c \in Bookings \ {b} : commission'[c] = commission[c]
    BY <2>1 DEF TypeOK
  <2> QED
    BY <2>1, <2>2, <2>3 DEF CustomerInv, TypeOK
<1>3. ASSUME NEW b \in Bookings, CommitBooking(b)
      PROVE  CustomerInv'
  <2>1. /\ pc[b] = "commit" /\ pc' = [pc EXCEPT ![b] = "done"]
        /\ UNCHANGED <<order, commission, kept>>
        /\ status' = [status EXCEPT ![b] = IF order[b].deposit THEN "PENDING" ELSE "CONFIRMED"]
    BY <1>3 DEF CommitBooking, historyVars
  <2>2. \A a \in Bookings : status[a] \notin {"NONE", "CANCELLED"} =>
                             status'[a] \notin {"NONE", "CANCELLED"}
    BY <2>1 DEF TypeOK
  <2>3. \A c \in Bookings : pc'[c] = "done" => pc[c] \in {"commit", "done"}
    BY <2>1 DEF TypeOK
  <2>4. \A c \in Bookings : pc'[c] \in {"release", "commit"} => pc[c] = pc'[c]
    BY <2>1 DEF TypeOK
  <2>5. \A c \in Bookings : kept[c] \subseteq Bookings
    BY DEF TypeOK
  <2> QED
    BY <2>1, <2>2, <2>3, <2>4, <2>5 DEF CustomerInv
<1>4. ASSUME NEW b \in Bookings,
             \/ AcquireSlotLock(b) \/ RefuseSlot(b) \/ CheckConflict(b)
             \/ ReleaseSlotLock(b) \/ QueueNotification(b) \/ Rollback(b)
             \/ Raise(b) \/ LoseLockReply(b) \/ FailRelease(b) \/ Crash(b)
      PROVE  CustomerInv'
  <2>1. /\ UNCHANGED <<order, status, kept, commission>>
        /\ \/ \E s \in {"lock", "check", "build", "abort", "failed", "crashed"} :
                 pc' = [pc EXCEPT ![b] = s]
           \/ pc[b] = "release" /\ pc' = [pc EXCEPT ![b] = "commit"]
           \/ pc' = pc
    BY <1>4 DEF AcquireSlotLock, RefuseSlot, CheckConflict, ReleaseSlotLock,
                QueueNotification, Rollback, Raise, LoseLockReply, FailRelease, Crash,
                historyVars
  <2>2. \A c \in Bookings : pc'[c] \in {"release", "commit", "done"} =>
                             pc[c] \in {"release", "commit", "done"}
    BY <2>1 DEF TypeOK
  <2> QED
    BY <2>1, <2>2 DEF CustomerInv
<1>5. ASSUME NEW e \in Editors, CommitEdit(e)
      PROVE  CustomerInv'
  <2> DEFINE a == edit[e].appt
             to == edit[e].to
  <2>0. a \in Bookings /\ to # "NONE"
    <3>1. edit[e] \in [appt : Bookings, to : Statuses]
      BY <1>5 DEF CommitEdit, TypeOK
    <3> QED
      BY <3>1 DEF Statuses
  <2>1. /\ status' = [status EXCEPT ![a] = to]
        /\ kept' = [b \in Bookings |-> IF to # "CANCELLED" THEN kept[b] ELSE kept[b] \ {a}]
        /\ UNCHANGED <<pc, order, commission>>
    BY <1>5 DEF CommitEdit, requestVars
  <2> HIDE DEF a, to
  <2>2. \A b \in Bookings : kept'[b] \subseteq kept[b]
    BY <2>1
  <2>3. \A b \in Bookings : \A c \in kept'[b] : status'[c] \notin {"NONE", "CANCELLED"}
    BY <2>0, <2>1 DEF CustomerInv, TypeOK
  <2> QED
    BY <2>1, <2>2, <2>3 DEF CustomerInv
<1>6. CASE UNCHANGED <<pc, order, commission, status, kept>>
  BY <1>6 DEF CustomerInv
<1>7. ASSUME NEW e \in Editors, EditRead(e) \/ DropEdit(e)
      PROVE  UNCHANGED <<pc, order, commission, status, kept>>
  BY <1>7 DEF EditRead, CancelBooking, UpdateAppointmentStatus, ConfirmDepositPayment, CheckoutCompletes,
              Read, DropEdit, historyVars, requestVars
<1>8. ASSUME \/ Tick
             \/ \E b \in Bookings : SendConfirmation(b)
             \/ \E k \in SlotKeys : ExpireSlotLock(k)
             \/ UNCHANGED vars
      PROVE  UNCHANGED <<pc, order, commission, status, kept>>
  BY <1>8 DEF Tick, SendConfirmation, ExpireSlotLock, vars, historyVars, requestVars
<1> QED
  BY <1>1, <1>2, <1>3, <1>4, <1>5, <1>6, <1>7, <1>8 DEF Next, CreateStep, CreateFault

\* _get_previous_booking keeps its promise for every appointment that was there
\* when the request began.
THEOREM NoCommissionForKnownCustomer == Spec => []KnownCustomerCostsNoCommission
<1>1. Init => CustomerInv
  BY DEF Init, CustomerInv
<1>2. TypeOK /\ CustomerInv => KnownCustomerCostsNoCommission
  BY DEF TypeOK, CustomerInv, KnownCustomerCostsNoCommission
<1> QED
  BY <1>1, <1>2, CustomerStep, TypeCorrect, PTL DEF Spec

(***************************************************************************)
(* Confirmations                                                           *)
(***************************************************************************)
\* A row that is there stays: no request deletes one, and none writes "NONE".
LEMMA RowsStay ==
    ASSUME TypeOK, [Next]_vars
    PROVE  \A b \in Bookings : status[b] # "NONE" => status'[b] # "NONE"
<1>1. CASE UNCHANGED status
  BY <1>1
<1>2. ASSUME NEW b \in Bookings, CommitBooking(b)
      PROVE  \A a \in Bookings : status[a] # "NONE" => status'[a] # "NONE"
  BY <1>2 DEF CommitBooking, TypeOK
<1>3. ASSUME NEW e \in Editors, CommitEdit(e)
      PROVE  \A a \in Bookings : status[a] # "NONE" => status'[a] # "NONE"
  <2>1. edit[e].to \in Statuses
    BY <1>3 DEF CommitEdit, TypeOK
  <2>2. status' = [status EXCEPT ![edit[e].appt] = edit[e].to]
    BY <1>3 DEF CommitEdit
  <2> QED
    BY <2>1, <2>2 DEF TypeOK, Statuses
<1>4. ASSUME NEW b \in Bookings,
             \/ \E o \in Orders : Begin(b, o)
             \/ AcquireSlotLock(b) \/ RefuseSlot(b) \/ CheckConflict(b) \/ BuildAppointment(b)
             \/ ReleaseSlotLock(b) \/ QueueNotification(b) \/ Rollback(b)
             \/ CreateFault(b) \/ SendConfirmation(b)
      PROVE  UNCHANGED status
  BY <1>4 DEF Begin, AcquireSlotLock, RefuseSlot, CheckConflict, BuildAppointment, ReleaseSlotLock,
              QueueNotification, Rollback, CreateFault, Raise, LoseLockReply, FailRelease, Crash,
              SendConfirmation
<1>5. ASSUME \/ \E e \in Editors : EditRead(e) \/ DropEdit(e)
             \/ \E k \in SlotKeys : ExpireSlotLock(k)
             \/ Tick \/ UNCHANGED vars
      PROVE  UNCHANGED status
  BY <1>5 DEF EditRead, CancelBooking, UpdateAppointmentStatus, ConfirmDepositPayment,
              CheckoutCompletes, Read, DropEdit, ExpireSlotLock, Tick, vars
<1> QED
  BY <1>1, <1>2, <1>3, <1>4, <1>5 DEF Next, CreateStep

\* The confirmation of a booking that is not there is not sent.
LEMMA NoticeStep == TypeOK /\ OnlyBookingsAreConfirmed /\ [Next]_vars => OnlyBookingsAreConfirmed'
<1> SUFFICES ASSUME TypeOK, OnlyBookingsAreConfirmed, [Next]_vars
             PROVE  OnlyBookingsAreConfirmed'
  OBVIOUS
<1>1. ASSUME NEW a \in Bookings, notice'[a] = "sent"
      PROVE  notice[a] = "sent" \/ status[a] # "NONE"
  <2>1. CASE UNCHANGED notice
    BY <1>1, <2>1
  <2>2. ASSUME NEW b \in Bookings, QueueNotification(b) \/ SendConfirmation(b)
        PROVE  notice[a] = "sent" \/ status[a] # "NONE"
    BY <1>1, <2>2 DEF QueueNotification, SendConfirmation, TypeOK
  <2>3. ASSUME NEW b \in Bookings,
               \/ \E o \in Orders : Begin(b, o)
               \/ AcquireSlotLock(b) \/ RefuseSlot(b) \/ CheckConflict(b) \/ BuildAppointment(b)
               \/ ReleaseSlotLock(b) \/ CommitBooking(b) \/ Rollback(b)
               \/ CreateFault(b)
        PROVE  UNCHANGED notice
    BY <2>3 DEF Begin, AcquireSlotLock, RefuseSlot, CheckConflict, BuildAppointment,
                ReleaseSlotLock, CommitBooking, Rollback, CreateFault, Raise, LoseLockReply,
                FailRelease, Crash
  <2>4. ASSUME \/ \E e \in Editors : EditRead(e) \/ CommitEdit(e) \/ DropEdit(e)
               \/ \E k \in SlotKeys : ExpireSlotLock(k)
               \/ Tick \/ UNCHANGED vars
        PROVE  UNCHANGED notice
    BY <2>4 DEF EditRead, CancelBooking, UpdateAppointmentStatus, ConfirmDepositPayment,
                CheckoutCompletes, Read, CommitEdit, DropEdit, ExpireSlotLock, Tick, vars
  <2> QED
    BY <2>1, <2>2, <2>3, <2>4 DEF Next, CreateStep
<1> QED
  BY <1>1, RowsStay DEF OnlyBookingsAreConfirmed

\* Although the task is queued before the commit, nobody is told of a booking that
\* was not made.
THEOREM ConfirmationsAreOfBookings == Spec => []OnlyBookingsAreConfirmed
<1>1. Init => OnlyBookingsAreConfirmed
  BY DEF Init, OnlyBookingsAreConfirmed
<1> QED
  BY <1>1, NoticeStep, TypeCorrect, PTL DEF Spec

(***************************************************************************)
(* The slot locks                                                          *)
(***************************************************************************)
\* A request that gives keys up, or ends, leaves the others' keys alone.
LEMMA LockShrinks ==
    ASSUME LockInv, UNCHANGED <<order, locks>>,
           \A c \in Bookings :
              /\ Owed(c)' \subseteq Owed(c)
              /\ pc'[c] \in {"lock", "check", "build"} => freed'[c] = 0
    PROVE  LockInv'
<1>1. \A c \in Bookings : Items(c)' = Items(c)
  BY DEF Items
<1>2. \A c \in Bookings : \A i \in Owed(c)' : KeyOf(c, i)' = KeyOf(c, i) /\ i \in Owed(c)
  BY <1>1 DEF KeyOf, LockKey
<1> QED
  BY <1>2 DEF LockInv

LEMMA LockStep ==
    ASSUME ~EarlyExpiry, ~RedisFaults
    PROVE  TypeOK /\ LockInv /\ [Next]_vars => LockInv'
<1> SUFFICES ASSUME TypeOK, LockInv, [Next]_vars
             PROVE  LockInv'
  OBVIOUS
<1>1. ASSUME NEW b \in Bookings, NEW o \in Orders, Begin(b, o)
      PROVE  LockInv'
  <2>1. /\ UNCHANGED <<locks, taken, freed>>
        /\ pc' = [pc EXCEPT ![b] = "lock"]
        /\ order' = [order EXCEPT ![b] = o]
        /\ taken[b] = 0 /\ freed[b] = 0
    BY <1>1 DEF Begin, TypeOK
  <2>2. Owed(b)' = {}
    BY <2>1 DEF Owed
  <2>3. \A c \in Bookings \ {b} : Owed(c)' = Owed(c) /\ pc'[c] = pc[c] /\ order'[c] = order[c]
    BY <2>1 DEF Owed, Live, TypeOK
  <2>4. \A c \in Bookings \ {b} : \A i \in Owed(c) : KeyOf(c, i)' = KeyOf(c, i)
    BY <2>3 DEF KeyOf, LockKey, Items
  <2> QED
    BY <2>1, <2>2, <2>3, <2>4 DEF LockInv
<1>2. ASSUME NEW b \in Bookings, AcquireSlotLock(b)
      PROVE  LockInv'
  <2> DEFINE n == taken[b] + 1
  <2>1. /\ pc[b] = "lock" /\ pc' = [pc EXCEPT ![b] = "check"]
        /\ taken' = [taken EXCEPT ![b] = n] /\ UNCHANGED <<order, freed>>
        /\ KeyOf(b, n) \notin locks /\ locks' = locks \cup {KeyOf(b, n)}
        /\ freed[b] = 0
    BY <1>2 DEF AcquireSlotLock, KeyOf, LockInv
  <2>2. Owed(b) = 1 .. taken[b] /\ Owed(b)' = 1 .. n
    BY <2>1 DEF Owed, Live, TypeOK
  <2>3. Owed(b)' = Owed(b) \cup {n} /\ n \notin Owed(b)
    BY <2>2 DEF TypeOK
  <2>4. \A c \in Bookings \ {b} : Owed(c)' = Owed(c) /\ pc'[c] = pc[c]
    BY <2>1 DEF Owed, Live, TypeOK
  <2>5. \A c \in Bookings : \A i \in Owed(c)' : KeyOf(c, i)' = KeyOf(c, i)
    BY <2>1 DEF KeyOf, LockKey, Items
  <2>6. \A c \in Bookings : \A i \in Owed(c) : KeyOf(c, i) # KeyOf(b, n) /\ KeyOf(c, i) \in locks
    BY <2>1 DEF LockInv
  <2> HIDE DEF n
  <2>7. \A i \in Owed(b)' : KeyOf(b, i)' \in locks'
    BY <2>1, <2>3, <2>5, <2>6
  <2>8. \A i, j \in Owed(b)' : i # j => KeyOf(b, i)' # KeyOf(b, j)'
    BY <2>3, <2>5, <2>6 DEF LockInv
  <2>9. \A c \in Bookings \ {b} : \A i \in Owed(b)', j \in Owed(c)' : KeyOf(b, i)' # KeyOf(c, j)'
    BY <2>3, <2>4, <2>5, <2>6 DEF LockInv
  <2> QED
    BY <2>1, <2>4, <2>5, <2>7, <2>8, <2>9 DEF LockInv
<1>3. ASSUME NEW b \in Bookings, ReleaseSlotLock(b)
      PROVE  LockInv'
  <2> DEFINE n == freed[b] + 1
  <2>1. /\ pc[b] \in {"release", "abort"} /\ freed[b] < taken[b]
        /\ UNCHANGED <<pc, order, taken>>
        /\ freed' = [freed EXCEPT ![b] = n]
        /\ locks' = locks \ {KeyOf(b, n)}
    BY <1>3 DEF ReleaseSlotLock, KeyOf
  <2>2. n \in Owed(b) /\ Owed(b)' = Owed(b) \ {n}
    BY <2>1 DEF Owed, Live, TypeOK
  <2>3. \A c \in Bookings \ {b} : Owed(c)' = Owed(c) /\ freed'[c] = freed[c]
    BY <2>1 DEF Owed, Live, TypeOK
  <2>4. \A c \in Bookings : \A i \in Owed(c)' : KeyOf(c, i)' = KeyOf(c, i)
    BY <2>1 DEF KeyOf, LockKey, Items
  <2>5. \A c \in Bookings : \A i \in Owed(c)' : KeyOf(c, i) \in locks'
    BY <2>1, <2>2, <2>3 DEF LockInv
  <2> HIDE DEF n
  <2> QED
    BY <2>1, <2>2, <2>3, <2>4, <2>5 DEF LockInv
<1>4. ASSUME NEW b \in Bookings,
             \/ RefuseSlot(b) \/ CheckConflict(b) \/ BuildAppointment(b)
             \/ QueueNotification(b) \/ CommitBooking(b) \/ Rollback(b)
             \/ Raise(b) \/ Crash(b)
      PROVE  LockInv'
  <2>1. /\ UNCHANGED <<order, taken, freed, locks>>
        /\ \E s \in {"lock", "check", "build", "release", "abort", "commit", "done",
                      "failed", "crashed"} :
              /\ pc' = [pc EXCEPT ![b] = s]
              /\ s \in {"lock", "check", "build"} => pc[b] \in {"lock", "check", "build"}
              /\ s \in {"lock", "check", "build", "release", "abort"} => Live(b)
    BY <1>4 DEF RefuseSlot, CheckConflict, BuildAppointment, QueueNotification,
                CommitBooking, Rollback, Raise, Crash, Live, historyVars
  <2>2. \A c \in Bookings : Owed(c)' \subseteq Owed(c)
    BY <2>1 DEF Owed, Live, TypeOK
  <2>3. \A c \in Bookings : pc'[c] \in {"lock", "check", "build"} => freed'[c] = 0
    BY <2>1 DEF LockInv, TypeOK
  <2> QED
    BY <2>1, <2>2, <2>3, LockShrinks
<1>5. ASSUME NEW k \in SlotKeys, ExpireSlotLock(k)
      PROVE  LockInv'
  <2>1. /\ UNCHANGED requestVars /\ locks' = locks \ {k}
        /\ \A c \in Bookings : k \notin Held(c)
    BY <1>5 DEF ExpireSlotLock
  <2>2. \A c \in Bookings : \A i \in Owed(c) : KeyOf(c, i) # k
    BY <2>1 DEF Owed, Held, KeyOf
  <2>3. \A c \in Bookings : Owed(c)' = Owed(c)
    BY <2>1 DEF Owed, Live, requestVars
  <2>4. \A c \in Bookings : \A i \in Owed(c) : KeyOf(c, i)' = KeyOf(c, i)
    BY <2>1 DEF KeyOf, LockKey, Items, requestVars
  <2> QED
    BY <2>1, <2>2, <2>3, <2>4 DEF LockInv, requestVars
<1>6. CASE UNCHANGED <<requestVars, locks>>
  BY <1>6, LockShrinks DEF LockInv, Owed, Live, requestVars
<1>7. ASSUME NEW e \in Editors, EditRead(e) \/ CommitEdit(e) \/ DropEdit(e)
      PROVE  UNCHANGED <<requestVars, locks>>
  BY <1>7 DEF EditRead, CancelBooking, UpdateAppointmentStatus, ConfirmDepositPayment, CheckoutCompletes,
              Read, CommitEdit, DropEdit
<1>8. ASSUME Tick \/ (\E b \in Bookings : SendConfirmation(b)) \/ UNCHANGED vars
      PROVE  UNCHANGED <<requestVars, locks>>
  BY <1>8 DEF Tick, SendConfirmation, vars, requestVars
<1>9. ASSUME NEW b \in Bookings, LoseLockReply(b) \/ FailRelease(b)
      PROVE  FALSE
  BY <1>9 DEF LoseLockReply, FailRelease
<1> QED
  BY <1>1, <1>2, <1>3, <1>4, <1>5, <1>6, <1>7, <1>8, <1>9 DEF Next, CreateStep, CreateFault

\* With a Redis that neither fails nor forgets, acquire_slot_lock and
\* release_slot_lock form a mutex although DEL does not name its owner.
THEOREM SlotLockMutex ==
    ASSUME ~EarlyExpiry, ~RedisFaults
    PROVE  Spec => []SlotLockIsHeldByOne
<1>1. Init => LockInv
  BY DEF Init, LockInv, Owed, Live
<1>2. LockInv => SlotLockIsHeldByOne
  BY DEF LockInv, SlotLockIsHeldByOne, Held, Owed, KeyOf
<1>3. TypeOK /\ LockInv /\ [Next]_vars => LockInv'
  BY LockStep
<1> QED
  BY <1>1, <1>2, <1>3, TypeCorrect, PTL DEF Spec

\* A request holds the keys it owes.
LEMMA HeldIsOwed ==
    \A b \in Bookings : /\ Held(b) = {KeyOf(b, i) : i \in Owed(b)}
                        /\ Held(b)' = {KeyOf(b, i)' : i \in Owed(b)'}
BY DEF Held, Owed, KeyOf

\* Two requests never hold the same key, and what is held is set.
LEMMA HeldApart ==
    ASSUME LockInv
    PROVE  \A b \in Bookings : /\ Held(b) \subseteq locks
                               /\ \A c \in Bookings \ {b} : Held(b) \cap Held(c) = {}
BY HeldIsOwed DEF LockInv

\* When nobody's keys change, the lease does not either.
LEMMA LeaseStutters ==
    ASSUME UNCHANGED locks, \A b \in Bookings : Held(b)' = Held(b)
    PROVE  /\ UNCHANGED [b \in Bookings |-> Held(b)]
           /\ UNCHANGED (locks \ UNION {Held(b) : b \in Bookings})
OBVIOUS

\* Every step of the booking engine acquires, releases, abandons or expires a
\* lease, or leaves all of them alone.
LEMMA LeaseStep ==
    ASSUME ~EarlyExpiry, ~RedisFaults, TypeOK, LockInv, [Next]_vars
    PROVE  \/ Lease!Next
           \/ /\ UNCHANGED [b \in Bookings |-> Held(b)]
              /\ UNCHANGED (locks \ UNION {Held(b) : b \in Bookings})
<1> DEFINE Goal == \/ Lease!Next
                   \/ /\ UNCHANGED [b \in Bookings |-> Held(b)]
                      /\ UNCHANGED (locks \ UNION {Held(b) : b \in Bookings})
<1>0. ASSUME UNCHANGED locks, \A b \in Bookings : Held(b)' = Held(b)
      PROVE  Goal
  BY <1>0, LeaseStutters
<1>1. ASSUME NEW b \in Bookings, NEW o \in Orders, Begin(b, o)
      PROVE  Goal
  <2>1. /\ UNCHANGED <<locks, taken, freed>>
        /\ pc' = [pc EXCEPT ![b] = "lock"]
        /\ order' = [order EXCEPT ![b] = o]
        /\ taken[b] = 0 /\ freed[b] = 0
    BY <1>1 DEF Begin, TypeOK
  <2>2. Held(b) = {} /\ Held(b)' = {}
    BY <2>1 DEF Held
  <2>3. \A c \in Bookings \ {b} : Held(c)' = Held(c)
    BY <2>1 DEF Held, Live, Items, LockKey, TypeOK
  <2> QED
    BY <1>0, <2>1, <2>2, <2>3
<1>2. ASSUME NEW b \in Bookings, AcquireSlotLock(b)
      PROVE  Goal
  <2> DEFINE n == taken[b] + 1
             k == KeyOf(b, n)
  <2>1. /\ pc[b] = "lock" /\ pc' = [pc EXCEPT ![b] = "check"]
        /\ taken' = [taken EXCEPT ![b] = n] /\ UNCHANGED <<order, freed>>
        /\ k \notin locks /\ locks' = locks \cup {k}
        /\ freed[b] = 0
    BY <1>2 DEF AcquireSlotLock, KeyOf, LockInv
  <2>2. Owed(b)' = Owed(b) \cup {n}
    BY <2>1 DEF Owed, Live, TypeOK
  <2>3. \A c \in Bookings \ {b} : Owed(c)' = Owed(c)
    BY <2>1 DEF Owed, Live, TypeOK
  <2>4. \A c \in Bookings : \A i : KeyOf(c, i)' = KeyOf(c, i)
    BY <2>1 DEF KeyOf, LockKey, Items
  <2>5. k \in SlotKeys
    <3>1. order[b] \in Orders /\ taken[b] \in Nat /\ taken[b] < Len(Items(b))
      BY <2>1 DEF TypeOK
    <3>2. n \in 1 .. Len(Items(b))
      BY <3>1, OrderItems DEF Items
    <3> QED
      BY <2>1, <3>2, KeysOfOrders DEF KeyOf
  <2> HIDE DEF n, k
  <2>6. Held(b)' = Held(b) \cup {k}
    BY <2>2, <2>4, HeldIsOwed DEF k
  <2>7. \A c \in Bookings \ {b} : Held(c)' = Held(c)
    BY <2>3, <2>4, HeldIsOwed
  <2>8. \A c \in Bookings : k \notin Held(c)
    BY <2>1, HeldApart
  <2>9. [c \in Bookings |-> Held(c)]' = [[c \in Bookings |-> Held(c)] EXCEPT ![b] = @ \cup {k}]
    BY <2>6, <2>7
  <2>10. UNCHANGED (locks \ UNION {Held(c) : c \in Bookings})
    BY <2>1, <2>6, <2>7
  <2>11. Lease!Acquire(b, k)
    BY <2>1, <2>8, <2>9, <2>10 DEF Lease!Acquire, Lease!Leased
  <2> QED
    BY <2>5, <2>11 DEF Lease!Next
<1>3. ASSUME NEW b \in Bookings, ReleaseSlotLock(b)
      PROVE  Goal
  <2> DEFINE n == freed[b] + 1
             k == KeyOf(b, n)
  <2>1. /\ pc[b] \in {"release", "abort"} /\ freed[b] < taken[b]
        /\ UNCHANGED <<pc, order, taken>>
        /\ freed' = [freed EXCEPT ![b] = n]
        /\ locks' = locks \ {k}
    BY <1>3 DEF ReleaseSlotLock, KeyOf
  <2>2. n \in Owed(b) /\ Owed(b)' = Owed(b) \ {n}
    BY <2>1 DEF Owed, Live, TypeOK
  <2>3. \A c \in Bookings \ {b} : Owed(c)' = Owed(c)
    BY <2>1 DEF Owed, Live, TypeOK
  <2>4. \A c \in Bookings : \A i : KeyOf(c, i)' = KeyOf(c, i)
    BY <2>1 DEF KeyOf, LockKey, Items
  <2> HIDE DEF n
  <2>5. \A i \in Owed(b) \ {n} : KeyOf(b, i) # k
    BY <2>2 DEF LockInv
  <2>6. k \in Held(b)
    BY <2>2, HeldIsOwed
  <2> HIDE DEF k
  <2>7. Held(b)' = Held(b) \ {k}
    <3>1. Held(b)' = {KeyOf(b, i) : i \in Owed(b) \ {n}}
      BY <2>2, <2>4, HeldIsOwed
    <3>2. Held(b) = {KeyOf(b, i) : i \in Owed(b)}
      BY HeldIsOwed
    <3> QED
      BY <2>5, <3>1, <3>2 DEF k
  <2>8. \A c \in Bookings \ {b} : Held(c)' = Held(c) /\ k \notin Held(c)
    BY <2>3, <2>4, <2>6, HeldIsOwed, HeldApart
  <2>9. [c \in Bookings |-> Held(c)]' = [[c \in Bookings |-> Held(c)] EXCEPT ![b] = @ \ {k}]
    BY <2>7, <2>8
  <2>10. UNCHANGED (locks \ UNION {Held(c) : c \in Bookings})
    BY <2>1, <2>6, <2>7, <2>8
  <2>11. k \in SlotKeys
    BY <2>6, HeldApart DEF TypeOK
  <2>12. Lease!Release(b, k)
    BY <2>6, <2>9, <2>10 DEF Lease!Release
  <2> QED
    BY <2>11, <2>12 DEF Lease!Next
<1>4. ASSUME NEW b \in Bookings,
             \/ RefuseSlot(b) \/ CheckConflict(b) \/ BuildAppointment(b)
             \/ QueueNotification(b) \/ CommitBooking(b) \/ Rollback(b) \/ Raise(b)
      PROVE  Goal
  <2>1. /\ UNCHANGED <<order, taken, freed, locks>>
        /\ \E s \in {"lock", "check", "build", "release", "abort", "commit", "done", "failed"} :
              /\ pc' = [pc EXCEPT ![b] = s]
              /\ s \in {"lock", "check", "build", "release", "abort"} => Live(b)
              /\ s \in {"commit", "done", "failed"} => (Live(b) => freed[b] = taken[b])
    BY <1>4 DEF RefuseSlot, CheckConflict, BuildAppointment, QueueNotification,
                CommitBooking, Rollback, Raise, Live
  <2>2. \A c \in Bookings \ {b} : Held(c)' = Held(c)
    BY <2>1 DEF Held, Live, Items, LockKey, TypeOK
  <2>3. Live(b)' => Live(b)
    BY <2>1 DEF Live, TypeOK
  <2>4. Live(b) /\ ~Live(b)' => freed[b] = taken[b]
    BY <2>1 DEF Live, TypeOK
  <2>5. Held(b)' = Held(b)
    <3>1. freed[b] = taken[b] => Held(b) = {}
      BY DEF Held, TypeOK
    <3> QED
      BY <2>1, <2>3, <2>4, <3>1 DEF Held, Items, LockKey
  <2> QED
    BY <1>0, <2>1, <2>2, <2>5
<1>5. ASSUME NEW b \in Bookings, Crash(b)
      PROVE  Goal
  <2>1. /\ UNCHANGED <<order, taken, freed, locks>>
        /\ pc' = [pc EXCEPT ![b] = "crashed"]
    BY <1>5 DEF Crash
  <2>2. Held(b)' = {}
    BY <2>1 DEF Held, Live, TypeOK
  <2>3. \A c \in Bookings \ {b} : Held(c)' = Held(c)
    BY <2>1 DEF Held, Live, Items, LockKey, TypeOK
  <2>4. [c \in Bookings |-> Held(c)]' = [[c \in Bookings |-> Held(c)] EXCEPT ![b] = {}]
    BY <2>2, <2>3
  <2>5. locks' \ UNION {Held(c)' : c \in Bookings}
           = (locks \ UNION {Held(c) : c \in Bookings}) \cup Held(b)
    BY <2>1, <2>2, <2>3, HeldApart
  <2>6. Lease!Abandon(b)
    BY <2>4, <2>5 DEF Lease!Abandon
  <2> QED
    BY <2>6 DEF Lease!Next
<1>6. ASSUME NEW k \in SlotKeys, ExpireSlotLock(k)
      PROVE  Goal
  <2>1. /\ UNCHANGED requestVars /\ k \in locks /\ locks' = locks \ {k}
        /\ \A c \in Bookings : k \notin Held(c)
    BY <1>6 DEF ExpireSlotLock
  <2>2. \A c \in Bookings : Held(c)' = Held(c)
    BY <2>1 DEF Held, Live, Items, LockKey, requestVars
  <2>3. Lease!Expire(k)
    BY <2>1, <2>2 DEF Lease!Expire
  <2> QED
    BY <2>3 DEF Lease!Next
<1>7. ASSUME UNCHANGED <<requestVars, locks>>
      PROVE  Goal
  <2>1. \A c \in Bookings : Held(c)' = Held(c)
    BY <1>7 DEF Held, Live, Items, LockKey, requestVars
  <2> QED
    BY <1>0, <1>7, <2>1
<1>8. ASSUME NEW e \in Editors, EditRead(e) \/ CommitEdit(e) \/ DropEdit(e)
      PROVE  UNCHANGED <<requestVars, locks>>
  BY <1>8 DEF EditRead, CancelBooking, UpdateAppointmentStatus, ConfirmDepositPayment, CheckoutCompletes,
              Read, CommitEdit, DropEdit
<1>9. ASSUME Tick \/ (\E b \in Bookings : SendConfirmation(b)) \/ UNCHANGED vars
      PROVE  UNCHANGED <<requestVars, locks>>
  BY <1>9 DEF Tick, SendConfirmation, vars, requestVars
<1>10. ASSUME NEW b \in Bookings, LoseLockReply(b) \/ FailRelease(b)
       PROVE  FALSE
  BY <1>10 DEF LoseLockReply, FailRelease
<1> HIDE DEF Goal
<1>11. ASSUME NEW b \in Bookings, CreateStep(b) \/ CreateFault(b)
       PROVE  Goal
  BY <1>2, <1>3, <1>4, <1>5, <1>10, <1>11 DEF CreateStep, CreateFault
<1>12. Goal
  BY <1>1, <1>6, <1>7, <1>8, <1>9, <1>11 DEF Next
<1> QED
  BY <1>12 DEF Goal

\* With a Redis that neither fails nor forgets, acquire_slot_lock, release_slot_lock
\* and the key's expiry implement a lease: the step simulation of SlotLease.
THEOREM LocksAreLeases ==
    ASSUME ~EarlyExpiry, ~RedisFaults
    PROVE  Spec => SlotLocksAreLeases
<1>1. Init => LockInv /\ Lease!Init
  BY DEF Init, LockInv, Owed, Live, Lease!Init, Held
<1>2. TypeOK /\ LockInv /\ [Next]_vars => LockInv'
  BY LockStep
<1>3. TypeOK /\ LockInv /\ [Next]_vars
         => [Lease!Next]_<<[b \in Bookings |-> Held(b)], locks \ UNION {Held(b) : b \in Bookings}>>
  BY LeaseStep
<1> QED
  BY <1>1, <1>2, <1>3, TypeCorrect, PTL DEF Spec, SlotLocksAreLeases, Lease!Spec

(***************************************************************************)
(* What a customer is shown, and what create_booking then looks at, for    *)
(* any calendar, hours, breaks and services.                               *)
(***************************************************************************)
\* The times at which a visit of an offered slot can begin and end.
LEMMA SlotFits ==
    ASSUME now \in Nat, NEW s \in Staff, NEW v \in Services, NEW d \in Days,
           NEW t \in Slots(s, v, d)
    PROVE  LET total == v.before + v.duration + v.after
           IN  /\ t \in Nat /\ d * DayLength \in Nat
               /\ d * DayLength <= t
               /\ t + total <= (d + 1) * DayLength - 1
               /\ t > now
               /\ \A w \in BookedWindows(s, d) \cup LockedWindows(s, d) : ~Meets(t, t + total, w)
<1> DEFINE day == d * DayLength
           total == v.before + v.duration + v.after
<1>1. PICK h \in HoursOf(s, d), n \in 0 .. DayLength :
         /\ t = day + h.work[1] + n * Interval
         /\ t + total <= day + h.work[2]
         /\ \A w \in BookedWindows(s, d) \cup LockedWindows(s, d) : ~Meets(t, t + total, w)
         /\ t > now
  BY DEF Slots
<1>2. h \in Hours
  BY AvailabilityAssumption DEF HoursOf
<1>3. h.work[1] \in 0 .. DayLength - 1 /\ h.work[2] \in 0 .. DayLength - 1
  BY <1>2 DEF Hours, Period
<1>4. d \in Nat /\ DayLength \in Nat \ {0} /\ Interval \in Nat /\ v \in Service
  BY AvailabilityAssumption
<1>5. day \in Nat /\ n * Interval \in Nat /\ (d + 1) * DayLength = day + DayLength
  BY <1>4
<1>6. total \in Nat
  BY <1>4 DEF Service
<1> HIDE DEF day, total
<1>7. t \in Nat /\ day <= t /\ t + total <= (d + 1) * DayLength - 1
  BY <1>1, <1>3, <1>4, <1>5, <1>6
<1> QED
  BY <1>1, <1>5, <1>7 DEF day, total

\* An offered slot's key is not taken: a lock on it would block the window that
\* begins where the slot begins.
LEMMA SlotIsUnlocked ==
    ASSUME now \in Nat, NEW s \in Staff, NEW v \in Services, NEW d \in Days,
           NEW t \in Slots(s, v, d)
    PROVE  <<s, Utc, t>> \notin locks
<1> DEFINE k == <<s, Utc, t>>
           total == v.before + v.duration + v.after
<1> SUFFICES ASSUME k \in locks
             PROVE  FALSE
  OBVIOUS
<1>1. t \in DayTimes(d) /\ total \in Nat /\ total > 0 /\ t \in Nat
  <2>1. v \in Service /\ d \in Nat /\ DayLength \in Nat
    BY AvailabilityAssumption
  <2>2. total \in Nat /\ total > 0
    BY <2>1 DEF Service
  <2> QED
    BY <2>1, <2>2, SlotFits DEF DayTimes
<1>2. k[1] = s /\ k[3] + Offset[k[2]] = t
  BY <1>1, AvailabilityAssumption
<1>3. <<k[3], k[3] + LockWindow>> \in LockedWindows(s, d)
  BY <1>1, <1>2 DEF LockedWindows
<1>4. Meets(t, t + total, <<t, t + LockWindow>>)
  BY <1>1, AvailabilityAssumption DEF Meets
<1> QED
  BY <1>3, <1>4, SlotFits

\* An offered slot meets no visit of its staff member that begins on its date.
LEMMA SlotIsFree ==
    ASSUME TypeOK, NEW s \in Staff, NEW v \in Services, NEW d \in Days,
           NEW t \in Slots(s, v, d),
           NEW a \in Bookings, status[a] \in Blocking,
           NEW i \in DOMAIN Items(a),
           NEW it, it = [staff |-> s, zone |-> Utc, start |-> t,
                         before |-> v.before, duration |-> v.duration],
           Overlap(Items(a)[i], it)
    PROVE  ItemStart(Items(a)[i]) < d * DayLength
<1> DEFINE x == Items(a)[i]
           total == v.before + v.duration + v.after
<1>1. x \in Item
  <2>1. status[a] # "NONE"
    BY DEF Blocking
  <2>2. order[a] \in Orders
    BY <2>1 DEF TypeOK
  <2> QED
    BY <2>2, OrderItems DEF Items
<1>2. ItemStart(x) \in Nat /\ ItemEnd(x) \in Nat
  BY <1>1 DEF Item, ItemStart, ItemEnd
<1>3. v.before \in Nat /\ v.duration \in Nat /\ v.after \in Nat
  BY AvailabilityAssumption DEF Service
<1>4. /\ t \in Nat /\ d * DayLength \in Nat /\ d * DayLength <= t
      /\ t + total <= (d + 1) * DayLength - 1
      /\ \A w \in BookedWindows(s, d) : ~Meets(t, t + total, w)
  BY SlotFits DEF TypeOK
<1>5. /\ x.staff = s
      /\ ItemStart(x) < t + v.before + v.duration
      /\ ItemEnd(x) > t + v.before
  BY DEF Overlap, ItemStart, ItemEnd
<1> HIDE DEF x
<1>6. Meets(t, t + total, <<ItemStart(x), ItemEnd(x)>>)
  BY <1>2, <1>3, <1>4, <1>5 DEF Meets
<1>7. <<ItemStart(x), ItemEnd(x)>> \notin BookedWindows(s, d)
  BY <1>4, <1>6
<1>8. ItemStart(x) \notin DayTimes(d)
  BY <1>5, <1>7 DEF BookedWindows, x
<1>9. (d + 1) * DayLength \in Nat
  BY AvailabilityAssumption
<1> QED
  BY <1>2, <1>3, <1>4, <1>5, <1>8, <1>9 DEF DayTimes, x

\* get_availability and create_booking agree: what is shown can be booked at
\* once, whatever is on the calendar, in Redis and in the opening hours.
THEOREM OfferedIsAccepted == Spec => []OfferedSlotIsAccepted
<1>1. TypeOK => OfferedSlotIsAccepted
  <2> SUFFICES ASSUME TypeOK,
                      NEW s \in Staff, NEW v \in Services, NEW d \in Days,
                      NEW t \in Slots(s, v, d)
               PROVE  LET it == [staff |-> s, zone |-> Utc, start |-> t,
                                 before |-> v.before, duration |-> v.duration]
                      IN  /\ it.start > now
                          /\ LockKey(it) \notin locks
                          /\ \A a \in Bookings : status[a] \in Blocking =>
                                \A i \in DOMAIN Items(a) :
                                   Overlap(Items(a)[i], it) =>
                                      ItemStart(Items(a)[i]) < d * DayLength
    BY DEF OfferedSlotIsAccepted
  <2> DEFINE it == [staff |-> s, zone |-> Utc, start |-> t,
                    before |-> v.before, duration |-> v.duration]
  <2>1. now \in Nat
    BY ClockAssumption DEF TypeOK
  <2>2. it.start > now
    BY <2>1, SlotFits
  <2>3. LockKey(it) \notin locks
    BY <2>1, SlotIsUnlocked DEF LockKey
  <2>4. \A a \in Bookings : status[a] \in Blocking =>
           \A i \in DOMAIN Items(a) :
              Overlap(Items(a)[i], it) => ItemStart(Items(a)[i]) < d * DayLength
    BY SlotIsFree
  <2> QED
    BY <2>2, <2>3, <2>4
<1> QED
  BY <1>1, TypeCorrect, PTL
=============================================================================
