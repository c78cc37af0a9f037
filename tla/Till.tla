-------------------------------- MODULE Till --------------------------------
(***************************************************************************)
(* The checkout terminal (apps/business-web/src/app/dashboard/pos/page.tsx)*)
(* against POSService.checkout: one cart, one sale after the other, while  *)
(* other terminals sell from the same stock.  Prices, discounts and tips   *)
(* are left out: page and server compute the total from one payload.       *)
(***************************************************************************)
EXTENDS Browser

CONSTANTS
    Goods,     \* services and products
    Products,  \* those that have a stock
    MaxUnits   \* bound on the units of one line, and on the stock

ASSUME TillAssumption == Products \subseteq Goods /\ MaxUnits \in Nat

\* server: stock_quantity.
\* past: due, the units at the counter that were not paid yet; meddled, a sale was
\* not carried out as the cart stands: the cart was changed while it was under
\* way, or its answer was lost.
stock == server
due == past.due
meddled == past.meddled

Quantities == [Goods -> 0 .. MaxUnits]
Empty == [g \in Goods |-> 0]
Tenders == {"CASH", "GIFT_CARD"}

TillView ==
    [services : BOOLEAN,                              \* the services were loaded
     shown : [Products -> 0 .. MaxUnits] \cup {Nil},  \* products, with the stock they were loaded with
     tab : {"services", "products"},
     cart : Quantities,
     open : BOOLEAN,                                  \* isCheckoutOpen
     tender : Tenders, code : BOOLEAN,                \* paymentMethod; a giftCardCode is typed
     receipt : BOOLEAN,                               \* completedOrder
     processing : BOOLEAN]

TillInit ==
    /\ page = "pos"
    /\ server \in [Products -> 0 .. MaxUnits]
    /\ view = [services |-> FALSE, shown |-> Nil, tab |-> "services", cart |-> Empty, open |-> FALSE,
               tender |-> "CASH", code |-> FALSE, receipt |-> FALSE, processing |-> FALSE]
    /\ past = [due |-> Empty, meddled |-> FALSE]
    /\ Mount(Request("catalog", Nil))

\* Promise.allSettled: what was not answered is missing from the catalog.
ServeCatalog(c) ==
    /\ Stands(c, "catalog", "sent")
    /\ \E services \in BOOLEAN, shown \in {stock, Nil} :
          /\ ~services \/ shown = Nil => Faults
          /\ Answer(c, [services |-> services, shown |-> shown])
    /\ Keep

ReceiveCatalog(c) ==
    /\ Stands(c, "catalog", "served")
    /\ view' = [view EXCEPT !.services = call[c].data.services, !.shown = call[c].data.shown]
    /\ End(c)
    /\ UNCHANGED <<server, past>>

FailCatalog(c) == Stands(c, "catalog", "failed") /\ End(c) /\ Keep

\* The dialogs cover the page.
Behind == ~view.open /\ ~view.receipt

\* The cart and what is due change together.
Checkouts == Pending("checkout")
SetCart(g, units) ==
    /\ Behind
    /\ view' = [view EXCEPT !.cart[g] = units]
    /\ past' = [due |-> [due EXCEPT ![g] = units], meddled |-> meddled \/ Checkouts # {}]
    /\ UNCHANGED <<call, server>>

\* The catalog of the tab; addToCart asks for the stock that was loaded.
Tile(g) ==
    \/ g \in Products /\ view.tab = "products" /\ view.shown # Nil /\ view.shown[g] > 0
    \/ g \notin Products /\ view.tab = "services" /\ view.services

AddToCart(g) ==
    /\ Tile(g) /\ view.cart[g] < MaxUnits
    /\ g \in Products => view.cart[g] = 0 \/ view.cart[g] < view.shown[g]
    /\ SetCart(g, view.cart[g] + 1)

\* Mutant: a line with no units can be decreased.
UpdateQuantityOfNone(g, delta) ==
    /\ view.cart[g] + delta <= MaxUnits
    /\ SetCart(g, view.cart[g] + delta)

\* updateQuantity, which does not ask for the stock; a line with no units is removed.
UpdateQuantity(g, delta) ==
    /\ view.cart[g] > 0 /\ view.cart[g] + delta <= MaxUnits
    /\ SetCart(g, view.cart[g] + delta)

RemoveItem(g) == view.cart[g] > 0 /\ SetCart(g, 0)

ClearCart ==
    /\ Behind /\ view.cart # Empty
    /\ view' = [view EXCEPT !.cart = Empty]
    /\ past' = [due |-> Empty, meddled |-> meddled \/ Checkouts # {}]
    /\ UNCHANGED <<call, server>>

SelectTab(tab) == Behind /\ Show([view EXCEPT !.tab = tab])

OpenCheckout == Behind /\ view.cart # Empty /\ Show([view EXCEPT !.open = TRUE])

\* The tender dialog can be closed while its sale is under way.
TenderModal ==
    /\ view.open
    /\ \/ Show([view EXCEPT !.open = FALSE])
       \/ \E tender \in Tenders : Show([view EXCEPT !.tender = tender])
       \/ view.tender = "GIFT_CARD" /\ Show([view EXCEPT !.code = TRUE])

HandleCheckout(c) ==
    /\ view.open /\ view.cart # Empty
    /\ ~view.processing /\ (view.tender = "GIFT_CARD" => view.code)
    /\ Send(c, "checkout", [cart |-> view.cart, tender |-> view.tender])
    /\ view' = [view EXCEPT !.processing = TRUE]
    /\ UNCHANGED <<server, past>>

InStock(cart) == \A p \in Products : cart[p] <= stock[p]

\* POSService.checkout: the whole cart, or an error.
ServeCheckout(c) ==
    /\ Stands(c, "checkout", "sent")
    /\ InStock(call[c].arg.cart)
    /\ server' = [p \in Products |-> stock[p] - call[c].arg.cart[p]]
    /\ past' = [past EXCEPT !.due = [g \in Goods |-> IF due[g] > call[c].arg.cart[g]
                                              THEN due[g] - call[c].arg.cart[g] ELSE 0]]
    /\ Answer(c, Nil)
    /\ UNCHANGED view

\* Too little stock, or a gift card that is unknown or does not cover the total.
RefuseCheckout(c) ==
    /\ Stands(c, "checkout", "sent")
    /\ ~InStock(call[c].arg.cart) \/ call[c].arg.tender = "GIFT_CARD"
    /\ Refuse(c)
    /\ Keep

\* Mutant: the cart is left to the "New Sale" button.
ReceiveReceipt(c) ==
    /\ Stands(c, "checkout", "served")
    /\ view' = [view EXCEPT !.open = FALSE, !.receipt = TRUE, !.processing = FALSE]
    /\ End(c)
    /\ UNCHANGED <<server, past>>

\* The tender and the code of the gift card stay.
ReceiveCheckout(c) ==
    /\ Stands(c, "checkout", "served")
    /\ view' = [view EXCEPT !.cart = Empty, !.open = FALSE, !.receipt = TRUE, !.processing = FALSE]
    /\ End(c)
    /\ UNCHANGED <<server, past>>

FailCheckout(c) ==
    /\ Stands(c, "checkout", "failed")
    /\ view' = [view EXCEPT !.processing = FALSE]
    /\ End(c)
    /\ UNCHANGED <<server, past>>

LoseTillCall(c) ==
    /\ Lose(c)
    /\ past' = [past EXCEPT !.meddled = @ \/ Stands(c, "checkout", "served")]
    /\ UNCHANGED <<view, server>>

NewSale == view.receipt /\ Show([view EXCEPT !.receipt = FALSE])

\* Another terminal, or a delivery.
RestockOrSell(p) ==
    /\ \E units \in 0 .. MaxUnits : server' = [server EXCEPT ![p] = units]
    /\ UNCHANGED <<call, view, past>>

TillAnswers(c) ==
    \/ ServeCatalog(c) \/ ReceiveCatalog(c) \/ FailCatalog(c)
    \/ ServeCheckout(c) \/ RefuseCheckout(c) \/ ReceiveCheckout(c) \/ FailCheckout(c)

CartPanel(g) ==
    \/ UpdateQuantity(g, 1) \/ UpdateQuantity(g, -1) \/ RemoveItem(g)

TillNext ==
    /\ page = "pos" /\ UNCHANGED page
    /\ \/ \E g \in Goods : AddToCart(g) \/ CartPanel(g)
       \/ \E tab \in {"services", "products"} : SelectTab(tab)
       \/ ClearCart \/ OpenCheckout \/ TenderModal \/ NewSale
       \/ \E c \in Calls : HandleCheckout(c) \/ TillAnswers(c) \/ LoseTillCall(c)
       \/ \E p \in Products : RestockOrSell(p)

TillSpec == TillInit /\ [][TillNext]_webVars

(***************************************************************************)
(* Properties                                                              *)
(***************************************************************************)
TillTypeOK == page = "pos" =>
    /\ \A c \in Calls : IsCall(call[c], [catalog |-> {Nil}, checkout |-> [cart : Quantities, tender : Tenders]],
                                        [catalog |-> [services : BOOLEAN, shown : [Products -> 0 .. MaxUnits] \cup {Nil}],
                                         checkout |-> {}])
    /\ stock \in [Products -> 0 .. MaxUnits]
    /\ view \in TillView
    /\ due \in Quantities /\ meddled \in BOOLEAN

\* Goods are sold once: what is in the cart was not sold yet, and what is at the
\* counter is in the cart or in the sale whose receipt is on its way, unless the
\* cart was changed during a sale or an answer was lost.
CartIsWhatIsDue == page = "pos" /\ ~meddled =>
    IF \E c \in Calls : Stands(c, "checkout", "served") THEN due = Empty ELSE due = view.cart
=============================================================================
