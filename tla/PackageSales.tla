---------------------------- MODULE PackageSales ----------------------------
(***************************************************************************)
(* The packages page of a business                                         *)
(* (apps/business-web/src/app/dashboard/packages/page.tsx): combos of      *)
(* services, and the packages that were sold, whose sessions are redeemed  *)
(* one by one.                                                             *)
(*                                                                         *)
(* The dialog that sells one needs a customer, and the page asks for them  *)
(* at GET /customers, which the server does not have: it can be opened,    *)
(* and nothing can be chosen in it.  Sold packages come from other clients *)
(* of the API.  Names and prices are left out, and a service in a package  *)
(* is one session of it.                                                   *)
(***************************************************************************)
EXTENDS Listing

CONSTANTS
    Combos,    \* ids of package templates
    Treats,    \* services
    Packs,     \* ids of the packages that were sold
    MaxLines   \* bound on the lines of a package

ASSUME PackageSalesAssumption == MaxLines \in Nat \ {0} /\ Nil \notin Treats

Lines == 1 .. MaxLines
Drafts == UNION {[1 .. n -> BOOLEAN] : n \in Lines}  \* of each line, whether its service is chosen
Bundles == UNION {[1 .. n -> Treats] : n \in Lines}

\* server: the templates there are; the lines of each sold package, how many of
\* their sessions were used, whether it is ACTIVE, whether its time is over.
Sold == [used : [Lines -> 0 .. 1], active : BOOLEAN]
SoldRows == [Packs -> Sold] \cup {[p \in {} |-> Nil]}
sold == server.sold
PackLines(p) == DOMAIN server.lines[p]

PackView ==
    [key : {Nil}, rows : [templates : SUBSET Combos, sold : SoldRows], loading : BOOLEAN,
     tab : {"templates", "customer_packages"},
     creating : BOOLEAN, selling : BOOLEAN,  \* isAddTemplateOpen, isSellOpen
     items : Drafts]                         \* newTemplate.items

Unused == [used |-> [i \in Lines |-> 0], active |-> TRUE]

PackInit ==
    /\ page = "packages"
    /\ server \in [templates : {{}}, sold : {[p \in Packs |-> Unused]}, lines : [Packs -> Bundles], over : [Packs -> BOOLEAN]]
    /\ view = [key |-> Nil, rows |-> [templates |-> {}, sold |-> [p \in {} |-> Nil]], loading |-> TRUE,
               tab |-> "templates", creating |-> FALSE, selling |-> FALSE, items |-> <<FALSE>>]
    /\ MountList(Nil)

(***************************************************************************)
(* The header, the tabs and the dialogs                                    *)
(***************************************************************************)
NoModal == ~view.creating /\ ~view.selling

PackHeader ==
    /\ NoModal
    /\ \/ Show([view EXCEPT !.creating = TRUE])
       \/ Show([view EXCEPT !.selling = TRUE])

PackTabs == NoModal /\ \E tab \in {"templates", "customer_packages"} : Show([view EXCEPT !.tab = tab])

\* Its fields are required, and there is no customer to choose.
SellModal == view.selling /\ Show([view EXCEPT !.selling = FALSE])

HandleAddServiceItem ==
    /\ view.creating /\ Len(view.items) < MaxLines
    /\ Show([view EXCEPT !.items = Append(@, FALSE)])

HandleRemoveServiceItem(i) ==
    /\ view.creating /\ Len(view.items) > 1 /\ i \in DOMAIN view.items
    /\ Show([view EXCEPT !.items = [j \in 1 .. Len(@) - 1 |-> IF j < i THEN @[j] ELSE @[j + 1]]])

ChooseService(i) ==
    /\ view.creating /\ i \in DOMAIN view.items
    /\ Show([view EXCEPT !.items[i] = TRUE])

\* Nothing bars a second click; the draft stays for the next combo.
HandleCreateTemplate(c) ==
    /\ view.creating /\ \A i \in DOMAIN view.items : view.items[i]
    /\ Send(c, "template", Nil)
    /\ Keep

CreatePackageModal(c) ==
    \/ view.creating /\ Show([view EXCEPT !.creating = FALSE])
    \/ HandleAddServiceItem
    \/ \E i \in Lines : HandleRemoveServiceItem(i) \/ ChooseService(i)
    \/ HandleCreateTemplate(c)

ServeTemplate(c) ==
    /\ Stands(c, "template", "sent")
    /\ \E combo \in Combos \ server.templates : server' = [server EXCEPT !.templates = @ \cup {combo}]
    /\ Answer(c, Nil)
    /\ UNCHANGED <<view, past>>

ReceiveTemplate(c) == Stands(c, "template", "served") /\ Reload(c, Nil, [view EXCEPT !.creating = FALSE])

(***************************************************************************)
(* Purchased packages: "Redeem 1"                                          *)
(***************************************************************************)
\* Mutant: the first line, whatever is left of it.
FirstLine(p, used) == CHOOSE i \in PackLines(p) : \A j \in PackLines(p) : i <= j

\* firstAvailable: the first line that has a session left.
Available(p, used) == {i \in PackLines(p) : used[i] = 0}
FirstAvailable(p, used) == CHOOSE i \in Available(p, used) : \A j \in Available(p, used) : i <= j

Redeemable(p) == p \in DOMAIN view.rows.sold /\ view.rows.sold[p].active /\ Available(p, view.rows.sold[p].used) # {}
Asked(p) == server.lines[p][FirstAvailable(p, view.rows.sold[p].used)]

HandleRedeemSession(c, p) ==
    /\ NoModal /\ view.tab = "customer_packages" /\ Redeemable(p)
    /\ Send(c, "redeem", [pack |-> p, treat |-> Asked(p)])
    /\ Keep

\* PackageService.redeem_service: of several lines for the service it takes one,
\* used up or not.
LinesFor(p, treat) == {i \in PackLines(p) : server.lines[p][i] = treat}
Redeems(p, i) == sold[p].active /\ ~server.over[p] /\ sold[p].used[i] = 0

ServeRedeem(c) ==
    /\ Stands(c, "redeem", "sent")
    /\ LET p == call[c].arg.pack IN
       \E i \in LinesFor(p, call[c].arg.treat) :
          IF Redeems(p, i)
          THEN /\ server' = [server EXCEPT !.sold[p] =
                                [used |-> [sold[p].used EXCEPT ![i] = 1],
                                 active |-> \E j \in PackLines(p) \ {i} : sold[p].used[j] = 0]]
               /\ Answer(c, Nil)
          ELSE Refuse(c) /\ UNCHANGED server
    /\ UNCHANGED <<view, past>>

ReceiveRedeem(c) == Stands(c, "redeem", "served") /\ Reload(c, Nil, view)

PackRows == [templates |-> server.templates, sold |-> sold]

PackAnswers(c) ==
    \/ AnswerParts(c, PackRows) \/ ReceiveParts(c) \/ FailList(c, view.rows)
    \/ ServeTemplate(c) \/ ReceiveTemplate(c) \/ FailChange(c, "template", view)
    \/ ServeRedeem(c) \/ ReceiveRedeem(c) \/ FailChange(c, "redeem", view)

PackNext ==
    /\ page = "packages" /\ UNCHANGED page
    /\ \/ PackHeader \/ PackTabs \/ SellModal
       \/ \E c \in Calls :
             \/ CreatePackageModal(c)
             \/ \E p \in Packs : HandleRedeemSession(c, p)
             \/ PackAnswers(c) \/ LoseInList(c)

PackSpec == PackInit /\ [][PackNext]_webVars

(***************************************************************************)
(* Properties                                                              *)
(***************************************************************************)
PackTypeOK == page = "packages" =>
    /\ \A c \in Calls : IsCall(call[c], [list |-> {Nil}, template |-> {Nil}, redeem |-> [pack : Packs, treat : Treats]],
                                        [list |-> PartsOf([templates : SUBSET Combos, sold : [Packs -> Sold]]),
                                         template |-> {}, redeem |-> {}])
    /\ server \in [templates : SUBSET Combos, sold : [Packs -> Sold], lines : [Packs -> Bundles], over : [Packs -> BOOLEAN]]
    /\ view \in PackView
    /\ past \in ListPast

\* A session that the page offers is had: when nothing is under way and no answer
\* was overtaken or lost, the server redeems what "Redeem 1" asks for, unless the
\* package is over or names a service on two lines.
OfferedSessionIsServed == page = "packages" /\ ~past.mixed /\ Quiet =>
    \A p \in Packs : Redeemable(p) =>
        \/ server.over[p]
        \/ \E i, j \in PackLines(p) : i # j /\ server.lines[p][i] = server.lines[p][j]
        \/ \A i \in LinesFor(p, Asked(p)) : Redeems(p, i)
=============================================================================
