------------------------------ MODULE StockRoom ------------------------------
(***************************************************************************)
(* The inventory page of a business                                        *)
(* (apps/business-web/src/app/dashboard/inventory/page.tsx): a filtered    *)
(* list of products, a dialog that creates one and a dialog that moves     *)
(* stock.                                                                  *)
(*                                                                         *)
(* Of a product there are its category and its stock; the texts of the     *)
(* forms, and the search in the loaded rows, are left out.                 *)
(***************************************************************************)
EXTENDS Listing

CONSTANTS
    Articles, Categories,  \* ids of products; the categories
    MaxPieces,             \* bound on the stock of a product
    LowMark                \* low_stock_threshold

ASSUME StockRoomAssumption == MaxPieces \in Nat /\ LowMark \in Nat /\ Nil \notin Categories

\* server: stock_quantity of the products there are, and their categories.
pieces == server.pieces
filed == server.filed

Filters == [low : BOOLEAN, category : Categories \cup {Nil}]  \* lowStockOnly, selectedCategory
PieceRows == UNION {[listed -> 0 .. MaxPieces] : listed \in SUBSET Articles}

RoomView ==
    [key : Filters, rows : PieceRows, loading : BOOLEAN,
     adding : BOOLEAN,                 \* isAddProductOpen
     adjusting : BOOLEAN,              \* isStockAdjustOpen
     selected : Articles \cup {Nil}]   \* selectedProduct

\* InventoryService.list_products.
Matching(filter) ==
    [a \in {b \in DOMAIN pieces : /\ filter.low => pieces[b] <= LowMark
                                  /\ filter.category # Nil => filed[b] = filter.category} |-> pieces[a]]

AllProducts == [low |-> FALSE, category |-> Nil]

RoomInit ==
    /\ page = "inventory"
    /\ \E have \in SUBSET Articles :
          server \in [pieces : [have -> 0 .. MaxPieces], filed : [Articles -> Categories]]
    /\ view = [key |-> AllProducts, rows |-> [a \in {} |-> 0], loading |-> TRUE,
               adding |-> FALSE, adjusting |-> FALSE, selected |-> Nil]
    /\ MountList(AllProducts)

NoDialog == ~view.adding /\ ~(view.adjusting /\ view.selected # Nil)

\* Mutant: the effect does not depend on the category.
FilterBarLowOnly(c, filter) ==
    /\ NoDialog
    /\ \/ /\ filter.low # view.key.low /\ filter.category = view.key.category
          /\ LoadList(c, [view EXCEPT !.key = filter])
       \/ /\ filter.low = view.key.low /\ filter.category # view.key.category
          /\ Show([view EXCEPT !.key = filter])

\* The filter bar; the effect on the filters calls loadData.
FilterBar(c, filter) ==
    /\ NoDialog
    /\ \/ filter.low # view.key.low /\ filter.category = view.key.category
       \/ filter.low = view.key.low /\ filter.category # view.key.category
    /\ LoadList(c, [view EXCEPT !.key = filter])

(***************************************************************************)
(* The dialogs: nothing bars a second click on their buttons               *)
(***************************************************************************)
OpenAddProduct == NoDialog /\ Show([view EXCEPT !.adding = TRUE])

AddProductModal(c) ==
    /\ view.adding
    /\ \/ Show([view EXCEPT !.adding = FALSE])
       \/ /\ \E category \in Categories, quantity \in 0 .. MaxPieces :
                Send(c, "create", [category |-> category, quantity |-> quantity, key |-> view.key])
          /\ Keep

\* Adjust, in the row of a product.
Adjust(a) ==
    /\ NoDialog /\ ~view.loading /\ a \in DOMAIN view.rows
    /\ Show([view EXCEPT !.adjusting = TRUE, !.selected = a])

\* The cross and Cancel leave selectedProduct.
AdjustModal(c) ==
    /\ view.adjusting /\ view.selected # Nil
    /\ \/ Show([view EXCEPT !.adjusting = FALSE])
       \/ /\ \E change \in {-1, 1} :
                Send(c, "move", [article |-> view.selected, change |-> change, key |-> view.key])
          /\ Keep

\* create_product.
ServeProduct(c) ==
    /\ Stands(c, "create", "sent")
    /\ \E a \in Articles \ DOMAIN pieces :
          server' = [pieces |-> [b \in DOMAIN pieces \cup {a} |->
                                    IF b = a THEN call[c].arg.quantity ELSE pieces[b]],
                     filed |-> [filed EXCEPT ![a] = call[c].arg.category]]
    /\ Answer(c, Nil)
    /\ UNCHANGED <<view, past>>

\* record_stock_movement, which refuses to go below zero.
ServeMovement(c) ==
    /\ Stands(c, "move", "sent")
    /\ LET after == pieces[call[c].arg.article] + call[c].arg.change
       IN IF after < 0 THEN Refuse(c) /\ UNCHANGED server
          ELSE /\ after <= MaxPieces
               /\ server' = [server EXCEPT !.pieces[call[c].arg.article] = after]
               /\ Answer(c, Nil)
    /\ UNCHANGED <<view, past>>

\* The rest of handleCreateProduct and of handleStockAdjustment: the dialog is
\* closed, whatever it is about by now.
ReceiveProduct(c) ==
    Stands(c, "create", "served") /\ Reload(c, call[c].arg.key, [view EXCEPT !.adding = FALSE])
ReceiveMovement(c) ==
    Stands(c, "move", "served") /\ Reload(c, call[c].arg.key, [view EXCEPT !.adjusting = FALSE, !.selected = Nil])

RoomAnswers(c) ==
    \/ AnswerList(c, Matching(call[c].arg)) \/ ReceiveList(c) \/ FailList(c, view.rows)
    \/ ServeProduct(c) \/ ReceiveProduct(c) \/ FailChange(c, "create", view)
    \/ ServeMovement(c) \/ ReceiveMovement(c) \/ FailChange(c, "move", view)

RoomNext ==
    /\ page = "inventory" /\ UNCHANGED page
    /\ \/ OpenAddProduct
       \/ \E a \in Articles : Adjust(a)
       \/ \E c \in Calls :
             \/ \E filter \in Filters : FilterBar(c, filter)
             \/ AddProductModal(c) \/ AdjustModal(c)
             \/ RoomAnswers(c) \/ LoseInList(c)

(***************************************************************************)
(* Properties                                                              *)
(***************************************************************************)
NewProducts == [category : Categories, quantity : 0 .. MaxPieces, key : Filters]
Movements == [article : Articles, change : {-1, 1}, key : Filters]

RoomTypeOK == page = "inventory" =>
    /\ \A c \in Calls : IsCall(call[c], [list |-> Filters, create |-> NewProducts, move |-> Movements],
                                        [list |-> PieceRows, create |-> {}, move |-> {}])
    /\ pieces \in PieceRows /\ filed \in [Articles -> Categories]
    /\ view \in RoomView
    /\ past \in ListPast

\* With nothing under way the inventory is listed as it is, for the filters that
\* are set, if no answer overtook another one, no reload used filters that had
\* been changed, and no request failed on its way.
InventoryIsCurrent == page = "inventory" => Current(Matching(view.key))
=============================================================================
