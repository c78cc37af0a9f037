----------------------------- MODULE EditorPage -----------------------------
(***************************************************************************)
(* The services page and the staff page of a business                      *)
(* (apps/business-web/src/app/dashboard/services/page.tsx, staff/page.tsx).*)
(* Each is a list, one dialog that creates an entry or edits the one it    *)
(* was opened for, and a button that deletes.                              *)
(***************************************************************************)
EXTENDS Listing

CONSTANTS Entries  \* ids

ASSUME EditorAssumption == Nil \notin Entries

\* The fields of an entry: the entry they were filled in for, and one text.
Content == [of : Entries, edited : BOOLEAN]
DialogForms == [of : Entries \cup {Nil}, edited : BOOLEAN]
EntryRows == UNION {[have -> Content] : have \in SUBSET Entries}

\* server: the entries there are, and the ids of those that were deleted.
\* view.editing: the entry the dialog was opened for, Nil: a new one.
entries == server.rows

EditorView ==
    [key : {Nil}, rows : EntryRows, loading : BOOLEAN, modal : BOOLEAN, editing : Entries \cup {Nil},
     form : DialogForms, submitting : BOOLEAN]

Blank == [of |-> Nil, edited |-> FALSE]

EditorInit ==
    /\ server \in [rows : {[e \in have |-> [of |-> e, edited |-> FALSE]] : have \in SUBSET Entries}, gone : {{}}]
    /\ view = [key |-> Nil, rows |-> [e \in {} |-> Nil], loading |-> TRUE, modal |-> FALSE, editing |-> Nil,
               form |-> Blank, submitting |-> FALSE]
    /\ MountList(Nil)

\* The list, behind its spinner while it loads, and behind the dialog.
Listed(e) == ~view.modal /\ ~view.loading /\ e \in DOMAIN view.rows

\* "reset" also ends isSubmitting.
OpenDialog(editing, form) ==
    Show([view EXCEPT !.modal = TRUE, !.editing = editing, !.form = form, !.submitting = FALSE])

TypeInForm == view.modal /\ Show([view EXCEPT !.form.edited = TRUE])
CloseDialog == view.modal /\ Show([view EXCEPT !.modal = FALSE])

SubmitForm(c) ==
    /\ view.modal /\ ~view.submitting
    /\ Send(c, "save", [entry |-> view.editing, form |-> view.form])
    /\ view' = [view EXCEPT !.submitting = TRUE]
    /\ UNCHANGED <<server, past>>

\* Deleting asks first, and asks no more when it is under way.
SendDelete(c, e) == Listed(e) /\ Send(c, "delete", [entry |-> e]) /\ Keep

ServeCreate(c) ==
    /\ Stands(c, "save", "sent") /\ call[c].arg.entry = Nil
    /\ \E e \in Entries \ (DOMAIN entries \cup server.gone) :
          server' = [server EXCEPT !.rows = [f \in DOMAIN entries \cup {e} |->
                         IF f = e THEN [of |-> e, edited |-> call[c].arg.form.edited] ELSE entries[f]]]
    /\ Answer(c, Nil)
    /\ UNCHANGED <<view, past>>

\* Every field of the form is written.
ServeUpdate(c) ==
    /\ Stands(c, "save", "sent") /\ call[c].arg.entry # Nil
    /\ IF call[c].arg.entry \in DOMAIN entries
       THEN server' = [server EXCEPT !.rows[call[c].arg.entry] = call[c].arg.form] /\ Answer(c, Nil)
       ELSE UNCHANGED server /\ Refuse(c)
    /\ UNCHANGED <<view, past>>

ServeDelete(c) ==
    /\ Stands(c, "delete", "sent")
    /\ LET e == call[c].arg.entry IN
       IF e \in DOMAIN entries
       THEN /\ server' = [rows |-> [f \in DOMAIN entries \ {e} |-> entries[f]], gone |-> server.gone \cup {e}]
            /\ Answer(c, Nil)
       ELSE UNCHANGED server /\ Refuse(c)
    /\ UNCHANGED <<view, past>>

\* The dialog is closed, whichever entry it shows by now.
ReceiveSaved(c) ==
    Stands(c, "save", "served") /\ Reload(c, Nil, [view EXCEPT !.modal = FALSE, !.submitting = FALSE])

EditorTypeOK ==
    /\ \A c \in Calls :
          IsCall(call[c], [list |-> {Nil},
                           save |-> [entry : Entries \cup {Nil}, form : DialogForms],
                           delete |-> [entry : Entries]],
                          [list |-> EntryRows, save |-> {}, delete |-> {}])
    /\ entries \in EntryRows /\ server.gone \subseteq Entries
    /\ view \in EditorView
    /\ past \in ListPast

\* The dialog shows the fields of the entry that Save writes them to.
KeepsIdentity == \A e \in DOMAIN entries : entries[e].of = e

(***************************************************************************)
(* services/page.tsx                                                       *)
(***************************************************************************)
ServicesInit == page = "services" /\ EditorInit

\* "Add service".
ServicesOpenCreate == ~view.modal /\ OpenDialog(Nil, Blank)

ServicesOpenEdit(e) == Listed(e) /\ OpenDialog(e, view.rows[e])

ServicesList(c) == \E e \in Entries : ServicesOpenEdit(e) \/ SendDelete(c, e)

ServicesModal(c) == TypeInForm \/ CloseDialog \/ SubmitForm(c)

ServicesAnswers(c) ==
    \/ AnswerList(c, entries) \/ ReceiveList(c) \/ FailList(c, view.rows)
    \/ ServeCreate(c) \/ ServeUpdate(c) \/ ServeDelete(c)

\* onSubmit and handleDelete after their answers.
ServicesSettle(c) ==
    \/ ReceiveSaved(c) \/ FailChange(c, "save", [view EXCEPT !.submitting = FALSE])
    \/ Stands(c, "delete", "served") /\ Reload(c, Nil, view)
    \/ FailChange(c, "delete", view)

ServicesNext ==
    /\ page = "services" /\ UNCHANGED page
    /\ \/ ServicesOpenCreate
       \/ \E c \in Calls : ServicesList(c) \/ ServicesModal(c) \/ ServicesAnswers(c) \/ ServicesSettle(c) \/ LoseInList(c)

ServicesTypeOK == page = "services" => EditorTypeOK

\* A service holds what was filled in for it, whatever dialogs were opened, left
\* and opened again while its save was under way.
ServicesKeepTheirIdentity == page = "services" => KeepsIdentity

\* With nothing under way, the services are listed as they are, if no answer
\* overtook another one and no request failed on its way.
ServicesAreCurrent == page = "services" => Current(entries)

(***************************************************************************)
(* staff/page.tsx                                                          *)
(***************************************************************************)
StaffInit == page = "staff" /\ EditorInit

\* "Add staff".  What "reset({})" leaves in the form is left open.
StaffOpenCreate == ~view.modal /\ \E form \in {Blank, [view.form EXCEPT !.of = Nil]} : OpenDialog(Nil, form)

StaffOpenEdit(e) == Listed(e) /\ OpenDialog(e, view.rows[e])

StaffList(c) == \E e \in Entries : StaffOpenEdit(e) \/ SendDelete(c, e)

StaffModal(c) == TypeInForm \/ CloseDialog \/ SubmitForm(c)

\* The plan allows no more staff, or the form sent an empty email, which is not valid.
RefuseStaff(c) == Stands(c, "save", "sent") /\ Refuse(c) /\ Keep

StaffAnswers(c) ==
    \/ AnswerList(c, entries) \/ ReceiveList(c) \/ FailList(c, view.rows)
    \/ ServeCreate(c) \/ RefuseStaff(c) \/ ServeUpdate(c) \/ ServeDelete(c)

\* onSubmit and handleDelete after their answers.
StaffSettle(c) ==
    \/ ReceiveSaved(c) \/ FailChange(c, "save", [view EXCEPT !.submitting = FALSE])
    \/ Stands(c, "delete", "served") /\ Reload(c, Nil, view)
    \/ FailChange(c, "delete", view)

StaffNext ==
    /\ page = "staff" /\ UNCHANGED page
    /\ \/ StaffOpenCreate
       \/ \E c \in Calls : StaffList(c) \/ StaffModal(c) \/ StaffAnswers(c) \/ StaffSettle(c) \/ LoseInList(c)

StaffTypeOK == page = "staff" => EditorTypeOK

\* A person's row holds what was filled in for that person, and is listed as it is.
StaffAreCurrent == page = "staff" => KeepsIdentity /\ Current(entries)
=============================================================================
