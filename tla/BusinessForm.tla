---------------------------- MODULE BusinessForm ----------------------------
(***************************************************************************)
(* The general and booking tabs of the settings page                       *)
(* (apps/business-web/src/app/dashboard/settings/page.tsx), one form over  *)
(* both, and the session that the form is filled from                      *)
(* (components/providers/AuthProvider.tsx).                                *)
(*                                                                         *)
(* The page is left and opened again only when nothing is under way, and   *)
(* only this browser changes the business.                                 *)
(***************************************************************************)
EXTENDS Browser

CONSTANTS
    Fields,    \* the fields of the form
    Required,  \* those that must not be empty
    Optional,  \* email, deposit_percentage: sent as undefined when they are empty or zero
    Links,     \* the three URLs, which the form lets be empty and the server does not
    Texts      \* what a field can hold

ASSUME BusinessFormAssumption == Required \subseteq Fields /\ Optional \cup Links \subseteq Fields /\ Nil \in Texts

Forms == [Fields -> Texts]  \* Nil: empty

\* server: the row of the business.
\* view: business, the session's copy of the row (Nil: signed out); the form; isSubmitting.
\* past: typed, the fields typed in since the last save; opened, nothing was typed
\* since the page was opened; reverted, the page was opened again after a save.
stored == server

FormInit ==
    /\ page = "settings"
    /\ server \in {form \in Forms : \A f \in Required : form[f] # Nil}
    /\ view = [business |-> server, form |-> server, submitting |-> FALSE]
    /\ past = [typed |-> {}, opened |-> TRUE, reverted |-> FALSE]
    /\ call = [c \in Calls |-> Free]

Shows == view.business # Nil

\* The inputs of the two tabs.
Type(f, text) ==
    /\ Shows
    /\ view' = [view EXCEPT !.form[f] = text]
    /\ past' = [past EXCEPT !.typed = @ \cup {f}, !.opened = FALSE]
    /\ UNCHANGED <<call, server>>

\* onSaveGeneral: whatever was typed in, all the fields are sent.
OnSaveGeneral(c) ==
    /\ Shows /\ ~view.submitting
    /\ \A f \in Required : view.form[f] # Nil
    /\ Send(c, "patch", view.form)
    /\ view' = [view EXCEPT !.submitting = TRUE]
    /\ past' = [past EXCEPT !.typed = {}, !.opened = FALSE]
    /\ UNCHANGED server

\* update_business: what was not sent is kept.  An empty URL is not valid.
Sent(form, f) == f \in Optional => form[f] # Nil
ServePatch(c) ==
    /\ Stands(c, "patch", "sent")
    /\ IF \E f \in Links : call[c].arg[f] = Nil
       THEN Refuse(c) /\ UNCHANGED server
       ELSE /\ server' = [f \in Fields |-> IF Sent(call[c].arg, f) THEN call[c].arg[f] ELSE stored[f]]
            /\ Answer(c, Nil)
    /\ UNCHANGED <<view, past>>

ReceivePatch(c) == Stands(c, "patch", "served") /\ Then(c, "refresh", Nil) /\ Keep

FailPatch(c) ==
    /\ Stands(c, "patch", "failed")
    /\ view' = [view EXCEPT !.submitting = FALSE]
    /\ past' = [past EXCEPT !.typed = Fields]
    /\ End(c)
    /\ UNCHANGED server

(***************************************************************************)
(* The session: refreshUser and login                                      *)
(***************************************************************************)
ServeRefresh(c) ==
    \/ Stands(c, "refresh", "sent") /\ Answer(c, stored) /\ Keep
    \/ Stands(c, "login", "sent") /\ Answer(c, stored) /\ Keep

\* Mutant: every refresh fills the form from the session.
ReceiveRefreshReset(c) ==
    /\ Stands(c, "refresh", "served")
    /\ view' = [view EXCEPT !.form = view.business, !.submitting = FALSE]
    /\ End(c)
    /\ UNCHANGED <<server, past>>

\* "prev ?? bizList[0]": the session keeps the copy it has.
ReceiveRefresh(c) ==
    /\ Stands(c, "refresh", "served")
    /\ view' = [view EXCEPT !.submitting = FALSE]
    /\ End(c)
    /\ UNCHANGED <<server, past>>

\* The session ends, and the login page replaces this one.
FailRefresh(c) ==
    /\ Stands(c, "refresh", "failed")
    /\ view' = [view EXCEPT !.business = Nil, !.submitting = FALSE]
    /\ End(c)
    /\ UNCHANGED <<server, past>>

Login(c) == ~Shows /\ Send(c, "login", Nil) /\ Keep

Opened(business) ==
    /\ view' = [business |-> business, form |-> business, submitting |-> FALSE]
    /\ past' = [typed |-> {}, opened |-> TRUE, reverted |-> past.reverted \/ business # stored]
    /\ UNCHANGED server

\* Signed in, the settings are opened.
ReceiveLogin(c) == Stands(c, "login", "served") /\ (IF Shows THEN Keep ELSE Opened(call[c].data)) /\ End(c)
FailLogin(c) == Stands(c, "login", "failed") /\ End(c) /\ Keep

\* Another page of the dashboard, and back: the form is filled from the session.
Revisit == Shows /\ Quiet /\ ~past.opened /\ Opened(view.business) /\ UNCHANGED call

FormAnswers(c) ==
    \/ ServePatch(c) \/ ReceivePatch(c) \/ FailPatch(c)
    \/ ServeRefresh(c) \/ ReceiveRefresh(c) \/ FailRefresh(c)
    \/ ReceiveLogin(c) \/ FailLogin(c)

GeneralTab(c, fields) ==
    \/ \E f \in fields, text \in Texts : Type(f, text)
    \/ OnSaveGeneral(c)

FormNext ==
    /\ page = "settings" /\ UNCHANGED page
    /\ \/ Revisit
       \/ \E c \in Calls : GeneralTab(c, Fields) \/ Login(c) \/ FormAnswers(c) \/ LoseCall(c)

FormSpec == FormInit /\ [][FormNext]_webVars

(***************************************************************************)
(* Properties                                                              *)
(***************************************************************************)
FormTypeOK == page = "settings" =>
    /\ \A c \in Calls : IsCall(call[c], [patch |-> Forms, refresh |-> {Nil}, login |-> {Nil}],
                                        [patch |-> {}, refresh |-> Forms, login |-> Forms])
    /\ stored \in Forms
    /\ view \in [business : Forms \cup {Nil}, form : Forms, submitting : BOOLEAN]
    /\ past \in [typed : SUBSET Fields, opened : BOOLEAN, reverted : BOOLEAN]

\* A field that nobody typed in since the last save holds what is stored, and so
\* the save of another field leaves it alone: unless the page was opened again
\* with an old copy, or the field was emptied and emptying it is not sent.
UntouchedFieldsAreStored == page = "settings" /\ ~past.reverted /\ Pending("patch") = {} =>
    \A f \in Fields \ past.typed : view.form[f] = stored[f] \/ ~Sent(view.form, f)
=============================================================================
