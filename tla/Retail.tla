------------------------------- MODULE Retail -------------------------------
(***************************************************************************)
(* What a salon keeps count of: POSService.checkout, InventoryService,     *)
(* GiftCardService and PackageService (backend/app/services).  The stock   *)
(* of a product, the balance of a gift card and the open sessions of a     *)
(* customer's package are counters of one kind: a request reads the row    *)
(* with no lock, computes on what its session has loaded, and commits the  *)
(* new value, so that requests on one row can lose each other's updates.   *)
(*                                                                         *)
(* A request may be refused at any time (an inactive or expired card, an   *)
(* expired package, tenders that do not match the total), which rolls back *)
(* everything it did; the reasons are left out.  A checkout that names an  *)
(* appointment completes it: that part is in Booking.                      *)
(***************************************************************************)
EXTENDS Integers, FiniteSets

CONSTANTS
    Products, Cards,
    Sessions,    \* the items of customers' packages, each for a service of its own
    Packages,
    PackageOf,   \* the package an item belongs to
    Opening,     \* opening stock, initial_balance, total_quantity
    Workers,     \* connections that serve requests
    MaxStock,    \* bound on a typed or moved stock, and on what movements sum to
    NoTx

Counters == Products \cup Cards \cup Sessions

ASSUME RetailAssumption ==
    /\ Products \cap Cards = {} /\ Products \cap Sessions = {} /\ Cards \cap Sessions = {}
    /\ PackageOf \in [Sessions -> Packages]
    /\ Opening \in [Counters -> Nat]
    /\ MaxStock \in Nat

VARIABLES
    left,    \* stock_quantity, current_balance, total_quantity - used_quantity
    due,     \* what the opening count and the movements, transactions and visits leave
    closed,  \* packages that are EXHAUSTED
    tx,      \* what each worker's session has loaded and changed
    shared   \* history: counters that two requests had open at once, or that were typed in

vars == <<left, due, closed, tx, shared>>

Tx == [open : BOOLEAN,              \* a checkout with more lines to come
       seen : [Counters -> Int],    \* the value it loaded
       change : [Counters -> Int],  \* what it adds to that, 0 if it did not load it
       closes : SUBSET Packages]    \* the package it marks EXHAUSTED

ASSUME TxAssumption == NoTx \notin Tx

Touched(w, x) == tx[w] # NoTx /\ tx[w].change[x] # 0
Load(x) == [y \in Counters |-> IF y = x THEN left[x] ELSE 0]
Change(x, n) == [y \in Counters |-> IF y = x THEN n ELSE 0]

\* A request opens a counter that another request has open.
Meet(w, x) == shared' = IF \E v \in Workers \ {w} : Touched(v, x) THEN shared \cup {x} ELSE shared

Init ==
    /\ left = Opening
    /\ due = Opening
    /\ closed = {}
    /\ tx = [w \in Workers |-> NoTx]
    /\ shared = {}

(***************************************************************************)
(* checkout                                                                *)
(***************************************************************************)
BeginCheckout(w) ==
    /\ tx[w] = NoTx
    /\ tx' = [tx EXCEPT ![w] = [open |-> TRUE, seen |-> [x \in Counters |-> 0],
                                change |-> [x \in Counters |-> 0], closes |-> {}]]
    /\ UNCHANGED <<left, due, closed, shared>>

\* The value of a row in the session: a second line that names it finds the
\* object the first one changed.
Value(w, x) == IF Touched(w, x) THEN tx[w].seen[x] + tx[w].change[x] ELSE left[x]

\* The bound on what a product's movements sum to.
Recordable(p, n) == due[p] + n \in -MaxStock .. MaxStock

\* The row is loaded if it is not in the session yet, and n is taken from it.
Take(w, x, n) ==
    /\ LET t == tx[w]
           seen == IF Touched(w, x) THEN t.seen[x] ELSE left[x]
       IN  tx' = [tx EXCEPT ![w] = [open |-> t.open, closes |-> t.closes,
                                    seen |-> [t.seen EXCEPT ![x] = seen],
                                    change |-> [t.change EXCEPT ![x] = t.change[x] - n]]]
    /\ Meet(w, x)
    /\ UNCHANGED <<left, due, closed>>

\* Mutant: the quantity is compared with what the row holds, not the session.
SellStoredProduct(w, p, n) ==
    /\ tx[w] # NoTx /\ tx[w].open
    /\ \A c \in Cards : ~Touched(w, c)
    /\ n >= 1 /\ left[p] >= n /\ Recordable(p, -n)
    /\ Take(w, p, n)

\* A PRODUCT line; the lines come before the tenders.
SellProduct(w, p, n) ==
    /\ tx[w] # NoTx /\ tx[w].open
    /\ \A c \in Cards : ~Touched(w, c)
    /\ n >= 1 /\ Value(w, p) >= n /\ Recordable(p, -n)
    /\ Take(w, p, n)

\* A GIFT_CARD tender.
PayWithGiftCard(w, c, n) ==
    /\ tx[w] # NoTx /\ tx[w].open
    /\ n >= 1 /\ Value(w, c) >= n
    /\ Take(w, c, n)

(***************************************************************************)
(* record_stock_movement, redeem_gift_card, redeem_service                 *)
(***************************************************************************)
Request(w, x, n, packages) ==
    /\ tx[w] = NoTx
    /\ tx' = [tx EXCEPT ![w] = [open |-> FALSE, seen |-> Load(x), change |-> Change(x, n),
                                closes |-> packages]]
    /\ Meet(w, x)
    /\ UNCHANGED <<left, due, closed>>

\* OUT and SALE take, IN and RETURN add, ADJUSTMENT does either.
RecordStockMovement(w, p, n) ==
    /\ n # 0
    /\ left[p] + n \in 0 .. MaxStock
    /\ Recordable(p, n)
    /\ Request(w, p, n, {})

RedeemGiftCard(w, c, n) ==
    /\ n >= 1 /\ left[c] >= n
    /\ Request(w, c, -n, {})

\* Mutant: the package is exhausted with the service that is redeemed.
RedeemLastOfService(w, s) ==
    /\ PackageOf[s] \notin closed
    /\ left[s] >= 1
    /\ Request(w, s, -1, IF left[s] = 1 THEN {PackageOf[s]} ELSE {})

\* One session is used.  redeem_service takes the first item with the service,
\* so an item is one that no earlier item of its package hides.  The package is
\* EXHAUSTED when, with that, the session sees every item of it used up.
RedeemService(w, s) ==
    /\ PackageOf[s] \notin closed
    /\ left[s] >= 1
    /\ LET exhausted == \A t \in Sessions : PackageOf[t] = PackageOf[s] =>
                            left[t] = IF t = s THEN 1 ELSE 0
       IN  Request(w, s, -1, IF exhausted THEN {PackageOf[s]} ELSE {})

(***************************************************************************)
(* Commit and rollback                                                     *)
(***************************************************************************)
Close(w) == tx' = [tx EXCEPT ![w] = NoTx]

\* Mutant: tenders write no gift_card_transactions row.
CommitWithoutTransactions(w) ==
    /\ tx[w] # NoTx
    /\ left' = [x \in Counters |-> IF Touched(w, x) THEN Value(w, x) ELSE left[x]]
    /\ due' = [x \in Counters |-> IF x \in Cards THEN due[x] ELSE due[x] + tx[w].change[x]]
    /\ closed' = closed \cup tx[w].closes
    /\ Close(w)
    /\ UNCHANGED shared

\* get_db: the rows that were changed get the session's value, and the
\* movements and transactions are inserted.
Commit(w) ==
    /\ tx[w] # NoTx
    /\ left' = [x \in Counters |-> IF Touched(w, x) THEN Value(w, x) ELSE left[x]]
    /\ due' = [x \in Counters |-> due[x] + tx[w].change[x]]
    /\ closed' = closed \cup tx[w].closes
    /\ Close(w)
    /\ UNCHANGED shared

\* Mutant: what a refused checkout took stays taken.
RefuseHalfway(w) ==
    /\ tx[w] # NoTx
    /\ left' = [x \in Counters |-> IF Touched(w, x) THEN Value(w, x) ELSE left[x]]
    /\ Close(w)
    /\ UNCHANGED <<due, closed, shared>>

\* A refusal, an error or a crash: get_db rolls everything back.  redeem_service
\* marks an expired package EXPIRED and raises, so that is rolled back as well.
Refuse(w) ==
    /\ tx[w] # NoTx
    /\ Close(w)
    /\ UNCHANGED <<left, due, closed, shared>>

\* update_product: the owner types a stock in, a negative one if they like, and
\* no movement is written.
UpdateProduct(p, n) ==
    /\ n \in -MaxStock .. MaxStock
    /\ left' = [left EXCEPT ![p] = n]
    /\ shared' = shared \cup {p}
    /\ UNCHANGED <<due, closed, tx>>

Next ==
    \/ \E w \in Workers :
          \/ BeginCheckout(w)
          \/ \E p \in Products : \E n \in 1 .. MaxStock : SellProduct(w, p, n)
          \/ \E c \in Cards : \E n \in 1 .. Opening[c] : PayWithGiftCard(w, c, n)
          \/ \E p \in Products : \E n \in -MaxStock .. MaxStock : RecordStockMovement(w, p, n)
          \/ \E c \in Cards : \E n \in 1 .. Opening[c] : RedeemGiftCard(w, c, n)
          \/ \E s \in Sessions : RedeemService(w, s)
          \/ Commit(w)
          \/ Refuse(w)
    \/ \E p \in Products : \E n \in -MaxStock .. MaxStock : UpdateProduct(p, n)

Spec == Init /\ [][Next]_vars

(***************************************************************************)
(* Properties                                                              *)
(***************************************************************************)
\* Types; in particular no request takes more than there is: what a session
\* will commit is never negative, and neither is a counter nobody typed in.
TypeOK ==
    /\ left \in [Counters -> Int]
    /\ due \in [Counters -> Int]
    /\ closed \subseteq Packages
    /\ tx \in [Workers -> Tx \cup {NoTx}]
    /\ shared \subseteq Counters
    /\ \A w \in Workers : \A x \in Counters : Touched(w, x) => Value(w, x) >= 0
    /\ \A x \in Counters : left[x] < 0 => x \in Products \cap shared

\* Lost updates never cost the customer: a card's balance is at least what its
\* transactions leave, and a package's open sessions at least what its visits
\* leave, however requests on it interleave.
CreditIsKept == \A x \in Cards \cup Sessions : left[x] >= due[x]

\* A package is EXHAUSTED only when every session the customer paid for was
\* had, although the decision is made on rows other requests are changing.
ExhaustedIsServed == \A s \in Sessions : PackageOf[s] \in closed => due[s] <= 0

\* As long as requests on a counter do not overlap and nobody types it in, it
\* is what its movements or transactions say, after refusals and crashes too.
SerialCountersMatch == \A x \in Counters \ shared : left[x] = due[x]

\* Together, and step by step: the rows and what is recorded for them are the
\* ledger SalonLedger.  A request that is refused, or dies, leaves no trace; one
\* that commits posts all of its changes at once, as if it had run alone, to
\* every count that no other request had open.
Ledger == INSTANCE SalonLedger WITH
            Goods <- Products, Credits <- Cards \cup Sessions, Items <- Sessions,
            row <- left, record <- due, loose <- shared

LedgerIsKept == Ledger!Spec

\* Their inductive form: what the sessions have loaded, and will write.
SpendsCredit(w) ==
    \A x \in Cards \cup Sessions :
        /\ tx[w].change[x] <= 0
        /\ Touched(w, x) => tx[w].seen[x] >= due[x]

ClosesServed(w) ==
    \A s \in Sessions : PackageOf[s] \in tx[w].closes => due[s] + tx[w].change[s] <= 0

IsAlone(w) ==
    \A x \in Counters \ shared : Touched(w, x) =>
        /\ tx[w].seen[x] = left[x]
        /\ \A v \in Workers \ {w} : ~Touched(v, x)

RetailInv ==
    /\ CreditIsKept /\ ExhaustedIsServed /\ SerialCountersMatch
    /\ \A w \in Workers : tx[w] # NoTx => SpendsCredit(w) /\ ClosesServed(w) /\ IsAlone(w)
=============================================================================
