---------------------------- MODULE CustomerNotes ----------------------------
(***************************************************************************)
(* The customers page of a business                                        *)
(* (apps/business-web/src/app/dashboard/customers/page.tsx): a searched,   *)
(* paged list of customers, and a panel with the notes about one of them.  *)
(***************************************************************************)
EXTENDS Listing

CONSTANTS
    Clients,  \* the customers
    Queries,  \* what is typed in the search
    Visitors, \* who has booked with the business, in the order of the database
    Finds,    \* whose name or e-mail each search is a part of
    PageSize  \* page_size

ASSUME CustomerNotesAssumption ==
    /\ Visitors \in Seq(Clients)
    /\ Finds \in [Queries \cup {Nil} -> SUBSET Clients] /\ Finds[Nil] = Clients
    /\ Nil \notin Clients \cup Queries /\ PageSize \in Nat \ {0}

\* A note: the customer whose panel was open when it was typed; Nil: no notes.
\* server: the notes of each customer.
Notes == Clients \cup {Nil}
notes == server

Lists == [q : Queries \cup {Nil}, page : Nat \ {0}]
NoteRows == UNION {[found -> Notes] : found \in SUBSET Clients}

NotesView ==
    [key : Lists, rows : NoteRows, loading : BOOLEAN,
     total : Nat,
     selected : [id : Clients, notes : Notes] \cup {Nil},
     editNotes : Notes, saving : BOOLEAN]

FirstList == [q |-> Nil, page |-> 1]

NotesInit ==
    /\ page = "customers"
    /\ server \in {[c \in Clients |-> IF c \in noted THEN c ELSE Nil] : noted \in SUBSET Clients}
    /\ view = [key |-> FirstList, rows |-> [c \in {} |-> Nil], loading |-> TRUE, total |-> 0,
               selected |-> Nil, editNotes |-> Nil, saving |-> FALSE]
    /\ MountList(FirstList)

\* list_business_customers: one page of all customers, without those that the search
\* does not find.  The total is that of all customers, whatever is searched for.
OnPage(key) ==
    {Visitors[i] : i \in {j \in DOMAIN Visitors : (j - 1) \div PageSize = key.page - 1}} \cap Finds[key.q]
PageRows(key) == [c \in OnPage(key) |-> notes[c]]

(***************************************************************************)
(* The list: the callback that loads depends on the search and the page    *)
(***************************************************************************)
SearchBox(c, q) ==
    /\ q # view.key.q
    /\ LoadList(c, [view EXCEPT !.key = [q |-> q, page |-> 1]])

Pagination(c) ==
    /\ view.total > PageSize
    /\ \/ view.key.page > 1 /\ LoadList(c, [view EXCEPT !.key.page = @ - 1])
       \/ /\ view.key.page * PageSize < view.total
          /\ LoadList(c, [view EXCEPT !.key.page = @ + 1])

OpenCustomer(client) ==
    /\ ~view.loading /\ client \in DOMAIN view.rows
    /\ view' = [view EXCEPT !.selected = [id |-> client, notes |-> view.rows[client]], !.editNotes = view.rows[client]]
    /\ past' = [past EXCEPT !.mixed = @ \/ Pending("notes") # {}]
    /\ UNCHANGED <<call, server>>

ReceiveClients(c) ==
    /\ Stands(c, "list", "served")
    /\ view' = [view EXCEPT !.rows = call[c].data, !.total = Len(Visitors), !.loading = FALSE]
    /\ SettleList(c)

(***************************************************************************)
(* The panel                                                               *)
(***************************************************************************)
SaveNotes(c) ==
    /\ view.selected # Nil /\ ~view.saving
    /\ Send(c, "notes", [client |-> view.selected.id, notes |-> view.editNotes, key |-> view.key])
    /\ view' = [view EXCEPT !.saving = TRUE]
    /\ UNCHANGED <<server, past>>

DetailPanel(c) ==
    \/ /\ view.selected # Nil
       /\ \E text \in {view.selected.id, Nil} : Show([view EXCEPT !.editNotes = text])
    \/ SaveNotes(c)

\* Empty notes are sent as undefined, and change nothing.
ServeNotes(c) ==
    /\ Stands(c, "notes", "sent")
    /\ server' = IF call[c].arg.notes = Nil THEN server
                 ELSE [server EXCEPT ![call[c].arg.client] = call[c].arg.notes]
    /\ Answer(c, Nil)
    /\ UNCHANGED <<view, past>>

\* The panel shows the customer of the render that saved; the text stays.
ReceiveNotes(c) ==
    /\ Stands(c, "notes", "served")
    /\ Reload(c, call[c].arg.key,
              [view EXCEPT !.selected = [id |-> call[c].arg.client, notes |-> call[c].arg.notes], !.saving = FALSE])

NotesAnswers(c) ==
    \/ AnswerList(c, PageRows(call[c].arg)) \/ ReceiveClients(c) \/ FailList(c, [d \in {} |-> Nil])
    \/ ServeNotes(c) \/ ReceiveNotes(c) \/ FailChange(c, "notes", [view EXCEPT !.saving = FALSE])

NotesNext ==
    /\ page = "customers" /\ UNCHANGED page
    /\ \/ \E client \in Clients : OpenCustomer(client)
       \/ \E c \in Calls :
             \/ \E q \in Queries \cup {Nil} : SearchBox(c, q)
             \/ Pagination(c) \/ DetailPanel(c) \/ NotesAnswers(c) \/ LoseInList(c)

(***************************************************************************)
(* Properties                                                              *)
(***************************************************************************)
NotesTypeOK == page = "customers" =>
    /\ \A c \in Calls : IsCall(call[c], [list |-> Lists, notes |-> [client : Clients, notes : Notes, key : Lists]],
                                        [list |-> NoteRows, notes |-> {}])
    /\ notes \in [Clients -> Notes]
    /\ view \in NotesView
    /\ past \in ListPast

\* Notes are stored for the customer they were typed about, and the list shows, of
\* the page of customers that is set, those whom the search finds, with their notes:
\* if nobody else was opened while notes were being saved, no answer overtook another
\* one, and no request failed on its way.
NotesStayWithTheirClient == page = "customers" /\ ~past.mixed =>
    (\A client \in Clients : notes[client] \in {client, Nil}) /\ Current(PageRows(view.key))
=============================================================================
