----------------------------- MODULE Onboarding -----------------------------
(***************************************************************************)
(* The onboarding of a business                                            *)
(* (apps/business-web/src/app/onboarding/page.tsx): three forms, and one   *)
(* handler that registers the account, logs it in, creates the business    *)
(* and refreshes the session, in four requests, each of which may fail     *)
(* after the ones before it were committed.                                *)
(*                                                                         *)
(* The page can be loaded again at any time: its requests go on without a  *)
(* handler.  The password is that of the account throughout; the tokens    *)
(* are left to Auth: the business is created with those of the login.      *)
(***************************************************************************)
EXTENDS Browser

CONSTANTS
    Emails,  \* the accounts that are tried
    Names    \* the names of the businesses

ASSUME OnboardingAssumption == Nil \notin Emails \cup Names

Launch == [email : Emails, name : Names]
Founding == [owner : Emails, name : Names]

\* server: the accounts, and the businesses in the order in which they were created.
\* view: orphans, the requests of a page that is gone; left, the dashboard is shown.
OnboardingView ==
    [step : 1..3, accountData : Emails \cup {Nil}, bizData : Names \cup {Nil}, isSubmitting : BOOLEAN,
     orphans : SUBSET Calls, left : BOOLEAN]

Fresh(orphans) ==
    [step |-> 1, accountData |-> Nil, bizData |-> Nil, isSubmitting |-> FALSE, orphans |-> orphans, left |-> FALSE]

\* past.meant: the business that was being launched when the account was registered.
OnboardingInit ==
    /\ page = "onboarding"
    /\ call = [c \in Calls |-> Free]
    /\ server = [accounts |-> {}, founded |-> <<>>]
    /\ view = Fresh({})
    /\ past = [meant |-> [e \in Emails |-> Nil]]

(***************************************************************************)
(* The page                                                                *)
(***************************************************************************)
OnStep1 == view.step = 1 /\ \E email \in Emails : Show([view EXCEPT !.accountData = email, !.step = 2])
OnStep2 == view.step = 2 /\ \E name \in Names : Show([view EXCEPT !.bizData = name, !.step = 3])

\* Back is there while the business is being created.
Back == view.step > 1 /\ Show([view EXCEPT !.step = @ - 1])

OnStep3(c) ==
    /\ view.step = 3 /\ ~view.isSubmitting
    /\ Send(c, "register", [email |-> view.accountData, name |-> view.bizData])
    /\ view' = [view EXCEPT !.isSubmitting = TRUE]
    /\ UNCHANGED <<server, past>>

LoadAgain == Show(Fresh({c \in Calls : call[c] # Free}))

(***************************************************************************)
(* The server                                                              *)
(***************************************************************************)
\* Mutant: registering again is no conflict.
ServeRegisterAgain(c) ==
    /\ Stands(c, "register", "sent")
    /\ LET email == call[c].arg.email IN
          /\ server' = [server EXCEPT !.accounts = @ \cup {email}]
          /\ past' = [past EXCEPT !.meant[email] = IF email \in server.accounts THEN @ ELSE call[c].arg.name]
    /\ Answer(c, Nil)
    /\ UNCHANGED view

ServeRegister(c) ==
    /\ Stands(c, "register", "sent")
    /\ LET email == call[c].arg.email IN
          IF email \in server.accounts
          THEN Refuse(c) /\ UNCHANGED <<server, past>>
          ELSE /\ server' = [server EXCEPT !.accounts = @ \cup {email}]
               /\ past' = [past EXCEPT !.meant[email] = call[c].arg.name]
               /\ Answer(c, Nil)
    /\ UNCHANGED view

ServeLogin(c) == Stands(c, "login", "sent") /\ Answer(c, call[c].arg.email) /\ Keep

\* create_business is for whoever sends it, and finds a free slug for any name.
ServeBusiness(c) ==
    /\ Stands(c, "create", "sent")
    /\ server' = [server EXCEPT !.founded = Append(@, call[c].arg)]
    /\ Answer(c, Nil)
    /\ UNCHANGED <<view, past>>

ServeSession(c) == Stands(c, "session", "sent") /\ Answer(c, Nil) /\ Keep

(***************************************************************************)
(* The handler goes on                                                     *)
(***************************************************************************)
ReceiveRegister(c) == Stands(c, "register", "served") /\ Then(c, "login", call[c].arg) /\ Keep

ReceiveTokens(c) ==
    /\ Stands(c, "login", "served")
    /\ Then(c, "create", [owner |-> call[c].data, name |-> call[c].arg.name])
    /\ Keep

ReceiveCreate(c) == Stands(c, "create", "served") /\ Then(c, "session", Nil) /\ Keep

\* refreshUser does not throw: it signs out when it fails.
ReceiveSession(c) ==
    /\ call[c].op = "session" /\ call[c].step # "sent"
    /\ view' = [view EXCEPT !.left = TRUE, !.isSubmitting = FALSE]
    /\ End(c)
    /\ UNCHANGED <<server, past>>

FailLaunch(c) ==
    /\ call[c].op # "session" /\ call[c].step = "failed"
    /\ view' = [view EXCEPT !.isSubmitting = FALSE]
    /\ End(c)
    /\ UNCHANGED <<server, past>>

\* Nobody waits for the answer.
DropAnswer(c) ==
    /\ c \in view.orphans /\ call[c].step \in {"served", "failed"}
    /\ view' = [view EXCEPT !.orphans = @ \ {c}]
    /\ End(c)
    /\ UNCHANGED <<server, past>>

LaunchAnswers(c) ==
    \/ ServeRegister(c) \/ ServeLogin(c) \/ ServeBusiness(c) \/ ServeSession(c)
    \/ DropAnswer(c)
    \/ c \notin view.orphans /\ (ReceiveRegister(c) \/ ReceiveTokens(c) \/ ReceiveCreate(c)
                                    \/ ReceiveSession(c) \/ FailLaunch(c))

OnboardingNext ==
    /\ page = "onboarding" /\ UNCHANGED page
    /\ \/ ~view.left /\ (OnStep1 \/ OnStep2 \/ Back \/ LoadAgain \/ \E c \in Calls : OnStep3(c))
       \/ \E c \in Calls : LaunchAnswers(c) \/ LoseCall(c)

OnboardingSpec == OnboardingInit /\ [][OnboardingNext]_webVars

(***************************************************************************)
(* Properties                                                              *)
(***************************************************************************)
OnboardingTypeOK == page = "onboarding" =>
    /\ \A c \in Calls :
          IsCall(call[c], [register |-> Launch, login |-> Launch, create |-> Founding, session |-> {Nil}],
                          [register |-> {}, login |-> Emails, create |-> {}, session |-> {}])
    /\ server.accounts \subseteq Emails /\ server.founded \in Seq(Founding)
    /\ view \in OnboardingView
    /\ past \in [meant : [Emails -> Names \cup {Nil}]]

\* A launch that is tried again, after an answer was lost or the page was loaded again
\* in the middle of it, founds no second business for the account, and the one that it
\* has is the one that was described when the account was registered.
OwnerHasOneBusiness == page = "onboarding" =>
    LET founded == server.founded IN
    \A i \in DOMAIN founded :
        /\ founded[i].name = past.meant[founded[i].owner]
        /\ \A j \in DOMAIN founded : founded[i].owner = founded[j].owner => i = j
=============================================================================
