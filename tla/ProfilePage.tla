----------------------------- MODULE ProfilePage -----------------------------
(***************************************************************************)
(* The profile of a customer (apps/customer-web/src/app/profile/page.tsx)  *)
(* and the session it is filled from                                       *)
(* (apps/customer-web/src/components/providers/AuthProvider.tsx): every    *)
(* new copy of the user fills the form, over what was typed meanwhile.     *)
(***************************************************************************)
EXTENDS Browser

CONSTANTS
    Details,      \* the fields of the form
    Needed,       \* those that must not be empty; the others are not sent when they are
    Contents,     \* what a field can hold; Nil: nothing
    Passwords

ASSUME ProfilePageAssumption == Needed \subseteq Details /\ Nil \in Contents /\ Nil \notin Passwords

Profiles == [Details -> Contents]

\* server: the row of the user, and the password.
ProfileView ==
    [user : Profiles \cup {Nil},         \* Nil: signed out
     tab : {"profile", "password"}, form : Profiles, saving : BOOLEAN,
     current : Passwords \cup {Nil}, new : Passwords \cup {Nil}, savingPw : BOOLEAN]

\* past.typed: something was typed since the form was filled.
ProfileInit ==
    /\ page = "profile"
    /\ server \in [user : {p \in Profiles : \A d \in Needed : p[d] # Nil}, password : Passwords]
    /\ view = [user |-> server.user, tab |-> "profile", form |-> server.user, saving |-> FALSE,
               current |-> Nil, new |-> Nil, savingPw |-> FALSE]
    /\ past = [typed |-> FALSE]
    /\ call = [c \in Calls |-> Free]

SignedIn == view.user # Nil

ProfileTabs == SignedIn /\ \E tab \in {"profile", "password"} : Show([view EXCEPT !.tab = tab])

TypeDetail(d, text) ==
    /\ view' = [view EXCEPT !.form[d] = text]
    /\ past' = [past EXCEPT !.typed = TRUE]
    /\ UNCHANGED <<call, server>>

OnSaveProfile(c) ==
    /\ ~view.saving /\ \A d \in Needed : view.form[d] # Nil
    /\ Send(c, "patch", [form |-> view.form])
    /\ view' = [view EXCEPT !.saving = TRUE]
    /\ UNCHANGED <<server, past>>

ProfileTab(c) ==
    /\ SignedIn /\ view.tab = "profile"
    /\ \/ \E d \in Details, text \in Contents : TypeDetail(d, text)
       \/ OnSaveProfile(c)

OnChangePassword(c) ==
    /\ ~view.savingPw /\ view.current # Nil /\ view.new # Nil
    /\ Send(c, "password", [current |-> view.current, new |-> view.new])
    /\ view' = [view EXCEPT !.savingPw = TRUE]
    /\ UNCHANGED <<server, past>>

PasswordTab(c) ==
    /\ SignedIn /\ view.tab = "password"
    /\ \/ \E current, new \in Passwords : Show([view EXCEPT !.current = current, !.new = new])
       \/ OnChangePassword(c)

\* update_me keeps what is not sent.
ServeProfile(c) ==
    /\ Stands(c, "patch", "sent")
    /\ LET form == call[c].arg.form IN
          server' = [server EXCEPT !.user =
                        [d \in Details |-> IF d \notin Needed /\ form[d] = Nil THEN @[d] ELSE form[d]]]
    /\ Answer(c, Nil)
    /\ UNCHANGED <<view, past>>

ServePassword(c) ==
    /\ Stands(c, "password", "sent")
    /\ IF call[c].arg.current = server.password
       THEN server' = [server EXCEPT !.password = call[c].arg.new] /\ Answer(c, Nil)
       ELSE Refuse(c) /\ UNCHANGED server
    /\ UNCHANGED <<view, past>>

ServeMe(c) == Stands(c, "me", "sent") /\ Answer(c, server.user) /\ Keep

\* await refreshUser().
ReceiveProfile(c) == Stands(c, "patch", "served") /\ Then(c, "me", Nil) /\ Keep

\* Mutant: the form is not filled again.
ReceiveMeOnly(c) ==
    /\ Stands(c, "me", "served")
    /\ view' = [view EXCEPT !.user = call[c].data, !.saving = FALSE]
    /\ past' = [past EXCEPT !.typed = FALSE]
    /\ End(c)
    /\ UNCHANGED server

\* setUser, and the effect that resets the form.
ReceiveMe(c) ==
    /\ Stands(c, "me", "served")
    /\ view' = [view EXCEPT !.user = call[c].data, !.form = call[c].data, !.saving = FALSE]
    /\ past' = [past EXCEPT !.typed = FALSE]
    /\ End(c)
    /\ UNCHANGED server

ReceivePassword(c) ==
    /\ Stands(c, "password", "served")
    /\ view' = [view EXCEPT !.current = Nil, !.new = Nil, !.savingPw = FALSE]
    /\ End(c)
    /\ UNCHANGED <<server, past>>

\* A refresh that fails signs the customer out.
FailedProfile(c) ==
    /\ call[c].step = "failed"
    /\ view' = CASE call[c].op = "patch" -> [view EXCEPT !.saving = FALSE]
                 [] call[c].op = "me" -> [view EXCEPT !.user = Nil, !.saving = FALSE]
                 [] OTHER -> [view EXCEPT !.savingPw = FALSE]
    /\ End(c)
    /\ UNCHANGED <<server, past>>

ProfileAnswers(c) ==
    \/ ServeProfile(c) \/ ReceiveProfile(c) \/ ServeMe(c) \/ ReceiveMe(c)
    \/ ServePassword(c) \/ ReceivePassword(c) \/ FailedProfile(c)

ProfileNext ==
    /\ page = "profile" /\ UNCHANGED page
    /\ \/ ProfileTabs
       \/ \E c \in Calls : ProfileTab(c) \/ PasswordTab(c) \/ ProfileAnswers(c) \/ LoseCall(c)

ProfileSpec == ProfileInit /\ [][ProfileNext]_webVars

(***************************************************************************)
(* Properties                                                              *)
(***************************************************************************)
ProfileTypeOK == page = "profile" =>
    /\ \A c \in Calls :
          IsCall(call[c], [patch |-> [form : Profiles], me |-> {Nil}, password |-> [current : Passwords, new : Passwords]],
                          [patch |-> {}, me |-> Profiles, password |-> {}])
    /\ server \in [user : Profiles, password : Passwords]
    /\ view \in ProfileView
    /\ past \in [typed : BOOLEAN]

\* Nothing is saved that nobody typed: a form in which nothing was typed since it was
\* filled holds what is stored, also after a field that cannot be emptied was.
UntypedFormIsStored == page = "profile" /\ SignedIn /\ ~past.typed => view.form = server.user
=============================================================================
