-------------------------------- MODULE Auth --------------------------------
(***************************************************************************)
(* Staying signed in: the request() helper of the web apps                 *)
(* (apps/customer-web/src/lib/api.ts and, the same, business-web) against  *)
(* AuthService and get_current_user in the backend.                        *)
(*                                                                         *)
(* All tabs of a browser share one pair of tokens in localStorage.  Every  *)
(* call that gets a 401 exchanges the refresh token for a new pair by      *)
(* itself, sends itself again, and on a refusal removes the stored pair.   *)
(* The server keeps nothing but the hashes of revoked tokens in Redis, and *)
(* looks a hash up in one await and sets it in a later one.                *)
(*                                                                         *)
(* A JWT holds the user and whole seconds only, so two pairs issued in one *)
(* second are the same pair: a pair is named by its second.                *)
(***************************************************************************)
EXTENDS Integers, FiniteSets

CONSTANTS
    Calls,       \* the places of the calls a browser has running at once
    AccessTTL,   \* ACCESS_TOKEN_EXPIRE_MINUTES, in seconds
    RefreshTTL,  \* REFRESH_TOKEN_EXPIRE_DAYS, in seconds
    MaxNow,      \* bound on the clock
    Faults,      \* TRUE: the network and Redis may fail
    NoToken

ASSUME AuthAssumption ==
    /\ AccessTTL \in Nat /\ RefreshTTL \in Nat /\ AccessTTL < RefreshTTL
    /\ MaxNow \in Nat /\ Faults \in BOOLEAN /\ NoToken \notin Nat

VARIABLES
    now,        \* seconds
    store,      \* the pair in localStorage
    revoked,    \* revoked:refresh:* keys in Redis
    closed,     \* revoked:access:* keys in Redis
    call,       \* where each call stands
    latest,     \* history: the second in which a pair was last issued
    spent,      \* history: refresh tokens that were exchanged, or revoked by a logout
    disturbed   \* history: two calls, or a call and a login, overlapped, or something failed

vars == <<now, store, revoked, closed, call, latest, spent, disturbed>>

Tokens == 0 .. MaxNow

\* used: its token was spent before the call was sent.
Ended == {"done", "rejected", "expired", "failed"}
Refreshing == {"refreshing", "checked", "revoked", "issued", "refused", "lapsed"}
Steps == {"idle", "sent", "unauthorized", "revoking", "answered"} \cup Refreshing \cup Ended

Call == [pc : Steps,
         token : Tokens \cup {NoToken},  \* the access or refresh token it sent
         body : Tokens \cup {NoToken},   \* logout: the refresh token in the body
         used : BOOLEAN]

Idle == [pc |-> "idle", token |-> NoToken, body |-> NoToken, used |-> FALSE]
Runs(c) == call[c].pc \notin {"idle"} \cup Ended

\* decode_token: jose refuses a token from the second after "exp".
Fresh(token, ttl) == token # NoToken /\ now <= token + ttl

Init ==
    /\ now = 0
    /\ store = NoToken
    /\ revoked = {} /\ closed = {}
    /\ call = [c \in Calls |-> Idle]
    /\ latest = NoToken /\ spent = {}
    /\ disturbed = FALSE

Put(c, pc, token, body, used) ==
    call' = [call EXCEPT ![c] = [pc |-> pc, token |-> token, body |-> body, used |-> used]]
Goto(c, pc) == Put(c, pc, call[c].token, call[c].body, call[c].used)
End(c, pc) == Put(c, pc, NoToken, NoToken, FALSE)

(***************************************************************************)
(* The browser                                                             *)
(***************************************************************************)
\* login and setTokens.  People take a second from one login to the next.
Login ==
    /\ store = NoToken /\ latest # now
    /\ store' = now
    /\ latest' = now
    /\ disturbed' = (disturbed \/ \E c \in Calls : Runs(c))
    /\ UNCHANGED <<now, revoked, closed, call, spent>>

Begin(c, body) ==
    /\ ~Runs(c)
    /\ Put(c, "sent", store, body, FALSE)
    /\ disturbed' = (disturbed \/ \E d \in Calls \ {c} : Runs(d))
    /\ UNCHANGED <<now, store, revoked, closed, latest, spent>>

Request(c) == Begin(c, NoToken)

\* logout: the refresh token in the body is the one that is stored by now.
Logout(c) == store # NoToken /\ Begin(c, store)

\* A 401: without a refresh token the call gives up, else it posts the one
\* that is stored now to /auth/refresh.
Receive401(c) ==
    /\ call[c].pc = "unauthorized"
    /\ \/ store = NoToken /\ End(c, "expired")
       \/ store # NoToken /\ Put(c, "refreshing", store, call[c].body, store \in spent)
    /\ UNCHANGED <<now, store, revoked, closed, latest, spent, disturbed>>

\* Mutant: the new pair is used and not stored.
ReceiveUnstored(c) ==
    /\ call[c].pc = "issued"
    /\ Goto(c, "sent")
    /\ UNCHANGED <<now, store, revoked, closed, latest, spent, disturbed>>

\* setTokens, and the call is sent again with the new pair.
ReceiveTokens(c) ==
    /\ call[c].pc = "issued"
    /\ store' = call[c].token
    /\ Goto(c, "sent")
    /\ UNCHANGED <<now, revoked, closed, latest, spent, disturbed>>

\* clearTokens, whatever pair is stored by now.
ReceiveRefusal(c) ==
    /\ call[c].pc \in {"refused", "lapsed"}
    /\ store' = NoToken
    /\ End(c, IF call[c].pc = "refused" THEN "rejected" ELSE "expired")
    /\ UNCHANGED <<now, revoked, closed, latest, spent, disturbed>>

\* The finally of logout.
FinishLogout(c) ==
    /\ call[c].pc = "answered"
    /\ store' = NoToken
    /\ End(c, "done")
    /\ UNCHANGED <<now, revoked, closed, latest, spent, disturbed>>

\* fetch rejects: the request or its answer is lost.  logout, and the
\* AuthProvider that loads the user, then clear the tokens.
LoseCall(c) ==
    /\ Faults
    /\ call[c].pc \in {"sent", "answered", "refreshing", "issued", "refused", "lapsed"}
    /\ store' \in {store, NoToken}
    /\ call[c].body # NoToken => store' = NoToken
    /\ End(c, "failed")
    /\ disturbed' = TRUE
    /\ UNCHANGED <<now, revoked, closed, latest, spent>>

(***************************************************************************)
(* The server                                                              *)
(***************************************************************************)
\* get_current_user.  When Redis raises, the revocation check is skipped.
Authorized(c) ==
    /\ Fresh(call[c].token, AccessTTL)
    /\ call[c].token \notin closed

Serve(c) ==
    /\ call[c].pc = "sent"
    /\ \/ ~Authorized(c) /\ Goto(c, "unauthorized") /\ UNCHANGED <<closed, disturbed>>
       \/ /\ Authorized(c) \/ (Faults /\ Fresh(call[c].token, AccessTTL))
          /\ disturbed' = (disturbed \/ ~Authorized(c))
          /\ \/ call[c].body = NoToken /\ End(c, "done") /\ UNCHANGED closed
             \/ call[c].body # NoToken /\ Goto(c, "revoking") /\ closed' = closed \cup {call[c].token}
    /\ UNCHANGED <<now, store, revoked, latest, spent>>

\* The second half of logout; an expired refresh token is passed over.
RevokeBody(c) ==
    /\ call[c].pc = "revoking"
    /\ IF Fresh(call[c].body, RefreshTTL)
       THEN revoked' = revoked \cup {call[c].body} /\ spent' = spent \cup {call[c].body}
       ELSE UNCHANGED <<revoked, spent>>
    /\ Goto(c, "answered")
    /\ UNCHANGED <<now, store, closed, latest, disturbed>>

\* refresh: decode and look up.
CheckRefresh(c) ==
    /\ call[c].pc = "refreshing"
    /\ Goto(c, IF ~Fresh(call[c].token, RefreshTTL) THEN "lapsed"
               ELSE IF call[c].token \in revoked THEN "refused" ELSE "checked")
    /\ UNCHANGED <<now, store, revoked, closed, latest, spent, disturbed>>

\* Redis raises in refresh: a 500, which the client takes for a refusal.
FailRefresh(c) ==
    /\ Faults
    /\ call[c].pc \in {"refreshing", "checked"}
    /\ Goto(c, "refused")
    /\ disturbed' = TRUE
    /\ UNCHANGED <<now, store, revoked, closed, latest, spent>>

\* _revoke_refresh_token.
RevokeOld(c) ==
    /\ call[c].pc = "checked"
    /\ revoked' = revoked \cup {call[c].token}
    /\ spent' = spent \cup {call[c].token}
    /\ Goto(c, "revoked")
    /\ UNCHANGED <<now, store, closed, latest, disturbed>>

\* _issue_tokens: from here on the call's token is the new one.
IssueTokens(c) ==
    /\ call[c].pc = "revoked"
    /\ Put(c, "issued", now, call[c].body, FALSE)
    /\ latest' = now
    /\ UNCHANGED <<now, store, revoked, closed, spent, disturbed>>

\* Mutant: the key lives as long as an access token.
ForgetEarly(token) ==
    /\ token \in revoked /\ now >= token + AccessTTL
    /\ revoked' = revoked \ {token}
    /\ UNCHANGED <<now, store, closed, call, latest, spent, disturbed>>

\* EX runs out: the key is set for exp - now seconds, and goes in the second
\* of "exp", in which the token still counts.
ForgetRevoked(token) ==
    /\ token \in revoked /\ now >= token + RefreshTTL
    /\ revoked' = revoked \ {token}
    /\ UNCHANGED <<now, store, closed, call, latest, spent, disturbed>>

Tick ==
    /\ now < MaxNow
    /\ now' = now + 1
    /\ UNCHANGED <<store, revoked, closed, call, latest, spent, disturbed>>

CallStep(c) ==
    \/ Receive401(c) \/ ReceiveTokens(c) \/ ReceiveRefusal(c) \/ FinishLogout(c)
    \/ Serve(c) \/ RevokeBody(c) \/ CheckRefresh(c) \/ RevokeOld(c) \/ IssueTokens(c)

Next ==
    \/ Login \/ Tick
    \/ \E c \in Calls : Request(c) \/ Logout(c) \/ CallStep(c) \/ LoseCall(c) \/ FailRefresh(c)
    \/ \E token \in Tokens : ForgetRevoked(token)

Spec == Init /\ [][Next]_vars

(***************************************************************************)
(* Properties                                                              *)
(***************************************************************************)
TypeOK ==
    /\ now \in 0 .. MaxNow
    /\ store \in Tokens \cup {NoToken}
    /\ revoked \subseteq Tokens /\ closed \subseteq Tokens
    /\ call \in [Calls -> Call]
    /\ \A c \in Calls : call[c].pc \in Refreshing => call[c].token # NoToken
    /\ latest \in Tokens \cup {NoToken} /\ spent \subseteq Tokens
    /\ disturbed \in BOOLEAN

\* Rotation and logout: a refresh token that was exchanged or revoked is not
\* accepted from a call sent afterwards, before its last second.
SpentTokensAreDead ==
    \A c \in Calls : call[c].pc = "checked" /\ call[c].used =>
        now >= call[c].token + RefreshTTL

\* Calls that do not overlap are never refused for a revoked token.
SerialCallsStaySignedIn ==
    ~disturbed => \A c \in Calls : call[c].pc # "rejected"

\* The inductive form of the two.
SpentInv ==
    /\ \A token \in spent : token \in revoked \/ now >= token + RefreshTTL
    /\ \A c \in Calls : call[c].pc \in {"refreshing", "checked"} /\ call[c].used =>
          call[c].token \in spent

\* A pair that calls are changing hands over.
InExchange == {"revoking", "answered", "revoked", "issued"}

OneAtATime == \A c, d \in Calls : Runs(c) /\ Runs(d) => c = d

\* Revoked tokens are older than the pair that is stored, or the pair itself
\* while a call is about to replace it.
PairInv ==
    /\ latest # NoToken => latest <= now
    /\ \A token \in revoked \cup closed : latest # NoToken /\ token <= latest
    /\ store # NoToken /\ (\A c \in Calls : call[c].pc # "issued") => store = latest
    /\ store # NoToken /\ (\A c \in Calls : call[c].pc \notin InExchange) =>
          store \notin revoked \cup closed

\* A call works with the pair that is stored; it only comes to refresh it in a
\* later second, so that the new pair is a different one.
CallInv(c) ==
    /\ call[c].pc \notin {"refused", "rejected"}
    /\ call[c].body # NoToken => latest # NoToken /\ call[c].body <= latest
    /\ call[c].pc \in {"sent", "unauthorized"} => call[c].token = store
    /\ call[c].pc \in {"unauthorized", "refreshing", "checked", "revoked"} /\ store # NoToken
          => latest # NoToken /\ now > latest
    /\ call[c].pc \in {"refreshing", "checked", "revoked"} =>
          store # NoToken /\ call[c].token = store
    /\ call[c].pc = "revoking" => call[c].token = latest
    /\ call[c].pc = "issued" =>
          call[c].token = latest /\ call[c].token \notin revoked \cup closed

SerialInv == ~disturbed => OneAtATime /\ PairInv /\ \A c \in Calls : CallInv(c)
=============================================================================
