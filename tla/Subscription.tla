---------------------------- MODULE Subscription ----------------------------
(***************************************************************************)
(* The plans page of a business                                            *)
(* (apps/business-web/src/app/dashboard/settings/subscription/page.tsx)    *)
(* and the service behind it (backend/app/services/                        *)
(* subscription_service.py): an order is made at the provider, paid in the *)
(* provider's window or taken as paid when there is no provider, verified, *)
(* and activated.  Each step of a checkout passes its arguments on to the  *)
(* next, from the render in which the button was clicked.                  *)
(*                                                                         *)
(* A server with a provider serves a production build of the page, one     *)
(* without a provider a development build.  Prices and end dates are left  *)
(* out, and a session that ends during the refresh after a checkout        *)
(* (BusinessForm has it).                                                  *)
(***************************************************************************)
EXTENDS Listing

CONSTANTS
    PlanIds,
    Orders  \* the orders made at the provider; bound: no others are made

ASSUME SubscriptionAssumption == Nil \notin PlanIds \cup Orders

Periods == {"MONTHLY", "YEARLY"}
Purchases == [plan : PlanIds, cycle : Periods]
OrderedPurchases == [plan : PlanIds, cycle : Periods, order : Orders]
Bought(checkout) == [plan |-> checkout.plan, cycle |-> checkout.cycle]

ASSUME PurchaseAssumption == Nil \notin Purchases

\* server: mock, no provider is configured; what each order is for; the paid ones;
\* the ACTIVE subscription that each order led to; business.subscription_plan_id.
active == server.active
ActiveOrders == {o \in Orders : active[o] # Nil}

PlanRows == [plans : SUBSET PlanIds, current : Purchases \cup {Nil}]
NothingLoaded == [plans |-> {}, current |-> Nil]

SubscriptionView ==
    [key : {Nil}, rows : PlanRows, loading : BOOLEAN,
     cycle : Periods,                                   \* billingCycle
     upgrading : PlanIds \cup {Nil}]                    \* upgradingTier

Opening == [key |-> Nil, rows |-> NothingLoaded, loading |-> TRUE, cycle |-> "MONTHLY", upgrading |-> Nil]

SubscriptionInit ==
    /\ page = "subscription"
    /\ server \in [mock : BOOLEAN, order : [Orders -> {Nil}], paid : {{}}, active : [Orders -> {Nil}], plan : {Nil}]
    /\ view = Opening
    /\ MountList(Nil)

\* get_current_subscription: scalar_one_or_none raises when there are two of them.
CurrentLists ==
    CASE ActiveOrders = {} -> [plans |-> PlanIds, current |-> Nil]
      [] Cardinality(ActiveOrders) = 1 -> [plans |-> PlanIds, current |-> active[CHOOSE o \in ActiveOrders : TRUE]]
      [] OTHER -> [plans |-> PlanIds]

PlansLoad(c) == AnswerParts(c, CurrentLists) \/ ReceiveParts(c)

\* The page is left and opened again.
Reopen(c) == Quiet /\ view.rows.plans # {} /\ LoadList(c, Opening)

BillingToggle ==
    Show([view EXCEPT !.cycle = IF @ = "MONTHLY" THEN "YEARLY" ELSE "MONTHLY"])

\* handleSelectPlan.  Only the button of the plan that is under way is disabled.
HandleSelectPlan(c, plan) ==
    /\ Send(c, "order", [plan |-> plan, cycle |-> view.cycle])
    /\ view' = [view EXCEPT !.upgrading = plan]
    /\ UNCHANGED <<server, past>>

IsCurrent(plan) == view.rows.current # Nil /\ view.rows.current.plan = plan
PricingCards(c) ==
    \E plan \in PlanIds :
        /\ plan \in view.rows.plans /\ ~IsCurrent(plan) /\ view.upgrading # plan
        /\ HandleSelectPlan(c, plan)

\* create_subscription_order: the order is a new one.
NewOrder == CHOOSE o \in Orders : server.order[o] = Nil
ServeOrder(c) ==
    /\ Stands(c, "order", "sent")
    /\ \E o \in Orders : server.order[o] = Nil
    /\ server' = [server EXCEPT !.order[NewOrder] = call[c].arg]
    /\ Answer(c, NewOrder)
    /\ UNCHANGED <<view, past>>

GoOn(c, from, to, checkout) == Stands(c, from, "served") /\ Then(c, to, checkout) /\ Keep

\* loadRazorpayScript: a tag is added to the page, and loads or fails.
LoadRazorpayScript(c) ==
    GoOn(c, "order", "script",
         [plan |-> call[c].arg.plan, cycle |-> call[c].arg.cycle, order |-> call[c].data])

ScriptLoads(c) == Stands(c, "script", "sent") /\ Answer(c, Nil) /\ Keep

Verify(c, checkout) ==
    /\ Then(c, "verify", checkout)
    /\ past' = [past EXCEPT !.mixed = @ \/ Pending("verify") # {}]
    /\ UNCHANGED <<view, server>>

\* The window of the provider is opened; without a provider, the order counts as paid.
OpenWindow(c) ==
    IF server.mock
    THEN call[c].op = "script" /\ call[c].step \in {"served", "failed"} /\ Verify(c, call[c].arg)
    ELSE GoOn(c, "script", "window", call[c].arg)

Pay(c) ==
    /\ Stands(c, "window", "sent")
    /\ server' = [server EXCEPT !.paid = @ \cup {call[c].arg.order}]
    /\ Answer(c, Nil)
    /\ UNCHANGED <<view, past>>

\* Mutant: the period that is set by now is verified.
PaidAsSet(c) ==
    /\ Stands(c, "window", "served")
    /\ Verify(c, [call[c].arg EXCEPT !.cycle = view.cycle])

\* The handler of the window.
Paid(c) == Stands(c, "window", "served") /\ Verify(c, call[c].arg)

\* ondismiss.
Dismiss(c) ==
    /\ Stands(c, "window", "sent")
    /\ view' = [view EXCEPT !.upgrading = Nil]
    /\ End(c)
    /\ UNCHANGED <<server, past>>

\* verify_and_activate_subscription: one more ACTIVE row, for what the page says was bought.
ServeVerify(c) ==
    /\ Stands(c, "verify", "sent")
    /\ LET bought == Bought(call[c].arg) IN
          IF server.mock \/ call[c].arg.order \in server.paid
          THEN /\ server' = [server EXCEPT !.active[call[c].arg.order] = bought, !.plan = bought.plan]
               /\ Answer(c, bought)
          ELSE Refuse(c) /\ UNCHANGED server
    /\ UNCHANGED <<view, past>>

ReceiveVerify(c) ==
    /\ Stands(c, "verify", "served")
    /\ view' = [view EXCEPT !.rows.current = call[c].data]
    /\ Then(c, "refresh", Nil)
    /\ UNCHANGED <<server, past>>

ServeRefreshed(c) == Stands(c, "refresh", "sent") /\ Answer(c, Nil) /\ Keep

\* finally, and the catch of each of the steps.
FinishCheckout(c) ==
    /\ \/ Stands(c, "refresh", "served")
       \/ call[c].step = "failed" /\ call[c].op \in {"order", "window", "verify", "refresh"}
       \/ Stands(c, "script", "failed") /\ ~server.mock
    /\ view' = [view EXCEPT !.upgrading = Nil]
    /\ End(c)
    /\ UNCHANGED <<server, past>>

\* The steps of a checkout after the click.
CheckoutSteps(c) ==
    \/ ServeOrder(c) \/ LoadRazorpayScript(c) \/ ScriptLoads(c) \/ OpenWindow(c)
    \/ Pay(c) \/ Paid(c) \/ Dismiss(c)
    \/ ServeVerify(c) \/ ReceiveVerify(c) \/ ServeRefreshed(c) \/ FinishCheckout(c)

LoseInCheckout(c) == call[c].op # "window" /\ LoseInList(c)

SubscriptionNext ==
    /\ page = "subscription" /\ UNCHANGED page
    /\ \/ BillingToggle
       \/ \E c \in Calls :
             \/ PlansLoad(c) \/ FailList(c, view.rows) \/ Reopen(c)
             \/ PricingCards(c) \/ CheckoutSteps(c) \/ LoseInCheckout(c)

SubscriptionSpec == SubscriptionInit /\ [][SubscriptionNext]_webVars

(***************************************************************************)
(* Properties                                                              *)
(***************************************************************************)
SubscriptionTypeOK == page = "subscription" =>
    /\ \A c \in Calls :
          IsCall(call[c],
                 [list |-> {Nil}, order |-> Purchases, script |-> OrderedPurchases, window |-> OrderedPurchases,
                  verify |-> OrderedPurchases, refresh |-> {Nil}],
                 [list |-> PartsOf(PlanRows), order |-> Orders, script |-> {}, window |-> {},
                  verify |-> Purchases, refresh |-> {}])
    /\ server \in [mock : BOOLEAN, order : [Orders -> Purchases \cup {Nil}], paid : SUBSET Orders,
                   active : [Orders -> Purchases \cup {Nil}], plan : PlanIds \cup {Nil}]
    /\ view \in SubscriptionView
    /\ past \in ListPast

\* A subscription is of the plan and the period that were ordered and priced, and
\* paid for unless there is no provider, whatever is switched and clicked on the
\* page while the provider's window is open.
ActivatedAsOrdered == page = "subscription" =>
    \A o \in ActiveOrders : active[o] = server.order[o] /\ (server.mock \/ o \in server.paid)

\* "Get the current active subscription for a business"
\* (subscription_service.py:215): the page that is opened shows the plan of the business.
OpenedPageShowsThePlan == page = "subscription" /\ ~past.mixed /\ Quiet =>
    /\ (view.rows.current = Nil) <=> (server.plan = Nil)
    /\ view.rows.current # Nil => IsCurrent(server.plan)
=============================================================================
