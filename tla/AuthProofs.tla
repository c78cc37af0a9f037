----------------------------- MODULE AuthProofs -----------------------------
(***************************************************************************)
(* What Auth guarantees for any number of concurrent calls, any lifetimes  *)
(* of tokens, and with faults.                                             *)
(***************************************************************************)
EXTENDS Auth, TLAPS

\* A call is a record with these fields.
LEMMA CallType ==
    ASSUME TypeOK, NEW c \in Calls
    PROVE  /\ call[c] \in Call
           /\ call[c].token \in Tokens \cup {NoToken}
           /\ call[c].body \in Tokens \cup {NoToken}
           /\ call[c].used \in BOOLEAN
    BY DEF TypeOK, Call

\* An update of a call replaces its fields and leaves the others alone.
LEMMA PutEffect ==
    ASSUME TypeOK, NEW c \in Calls, NEW pc \in Steps, NEW token \in Tokens \cup {NoToken},
           NEW body \in Tokens \cup {NoToken}, NEW used \in BOOLEAN,
           Put(c, pc, token, body, used)
    PROVE  /\ call'[c].pc = pc /\ call'[c].token = token
           /\ call'[c].body = body /\ call'[c].used = used
           /\ \A d \in Calls \ {c} : call'[d] = call[d]
           /\ call' \in [Calls -> Call]
    <1>1. call \in [Calls -> Call]
        BY DEF TypeOK
    <1> DEFINE r == [pc |-> pc, token |-> token, body |-> body, used |-> used]
    <1>2. r \in Call
        BY DEF Call
    <1>3. call' = [call EXCEPT ![c] = r]
        BY DEF Put
    <1>4. call'[c] = r /\ (\A d \in Calls \ {c} : call'[d] = call[d]) /\ call' \in [Calls -> Call]
        BY <1>1, <1>2, <1>3
    <1> QED
        BY <1>4

LEMMA GotoEffect ==
    ASSUME TypeOK, NEW c \in Calls, NEW pc \in Steps, Goto(c, pc)
    PROVE  /\ call'[c].pc = pc /\ call'[c].token = call[c].token
           /\ call'[c].body = call[c].body /\ call'[c].used = call[c].used
           /\ \A d \in Calls \ {c} : call'[d] = call[d]
           /\ call' \in [Calls -> Call]
    <1>1. /\ call[c].token \in Tokens \cup {NoToken} /\ call[c].body \in Tokens \cup {NoToken}
          /\ call[c].used \in BOOLEAN
        BY CallType
    <1>2. PICK token \in Tokens \cup {NoToken}, body \in Tokens \cup {NoToken}, used \in BOOLEAN :
              token = call[c].token /\ body = call[c].body /\ used = call[c].used
        BY <1>1
    <1>3. Put(c, pc, token, body, used)
        BY <1>2 DEF Goto
    <1>4. /\ call'[c].pc = pc /\ call'[c].token = token
          /\ call'[c].body = body /\ call'[c].used = used
          /\ \A d \in Calls \ {c} : call'[d] = call[d]
          /\ call' \in [Calls -> Call]
        BY <1>3, PutEffect
    <1> QED
        BY <1>2, <1>4

LEMMA EndEffect ==
    ASSUME TypeOK, NEW c \in Calls, NEW pc \in Ended, End(c, pc)
    PROVE  /\ call'[c].pc = pc /\ call'[c].token = NoToken /\ call'[c].body = NoToken
           /\ \A d \in Calls \ {c} : call'[d] = call[d]
           /\ call' \in [Calls -> Call]
    BY PutEffect DEF End, Steps

LEMMA BeginEffect ==
    ASSUME TypeOK, NEW c \in Calls, NEW body \in Tokens \cup {NoToken}, Begin(c, body)
    PROVE  /\ call'[c].pc = "sent" /\ call'[c].token = store /\ call'[c].body = body
           /\ \A d \in Calls \ {c} : call'[d] = call[d]
           /\ call' \in [Calls -> Call]
    BY PutEffect DEF Begin, Steps, TypeOK

LEMMA RefreshEffect ==
    ASSUME TypeOK, NEW c \in Calls, Receive401(c), store # NoToken
    PROVE  /\ call'[c].pc = "refreshing" /\ call'[c].token = store
           /\ call'[c].body = call[c].body /\ call'[c].used = (store \in spent)
           /\ \A d \in Calls \ {c} : call'[d] = call[d]
           /\ call' \in [Calls -> Call]
    <1>1. /\ call[c].body \in Tokens \cup {NoToken} /\ store \in Tokens \cup {NoToken}
          /\ (store \in spent) \in BOOLEAN /\ "refreshing" \in Steps
        BY CallType DEF TypeOK, Steps, Refreshing
    <1>2. Put(c, "refreshing", store, call[c].body, store \in spent)
        BY DEF Receive401
    <1> QED
        BY <1>1, <1>2, PutEffect

LEMMA IssueEffect ==
    ASSUME TypeOK, NEW c \in Calls, IssueTokens(c)
    PROVE  /\ call'[c].pc = "issued" /\ call'[c].token = now
           /\ call'[c].body = call[c].body /\ ~call'[c].used
           /\ \A d \in Calls \ {c} : call'[d] = call[d]
           /\ call' \in [Calls -> Call]
    <1>1. /\ call[c].body \in Tokens \cup {NoToken} /\ now \in Tokens \cup {NoToken}
          /\ FALSE \in BOOLEAN /\ "issued" \in Steps
        BY CallType DEF TypeOK, Steps, Refreshing, Tokens
    <1>2. Put(c, "issued", now, call[c].body, FALSE)
        BY DEF IssueTokens
    <1> QED
        BY <1>1, <1>2, PutEffect

(***************************************************************************)
(* Types                                                                   *)
(***************************************************************************)
LEMMA TypeCall ==
    ASSUME TypeOK, NEW c \in Calls,
           Request(c) \/ Logout(c) \/ CallStep(c) \/ LoseCall(c) \/ FailRefresh(c)
    PROVE  TypeOK'
    <1>t. now \in Tokens /\ NoToken \notin Tokens
        BY AuthAssumption DEF TypeOK, Tokens
    <1>n. ASSUME \A d \in Calls \ {c} : call'[d] = call[d],
                 call'[c].pc \in Refreshing => call'[c].token # NoToken
          PROVE  \A d \in Calls : call'[d].pc \in Refreshing => call'[d].token # NoToken
        BY <1>n DEF TypeOK
    <1>1. CASE Request(c) \/ Logout(c)
        <2>1. PICK body \in Tokens \cup {NoToken} : Begin(c, body)
            BY <1>1 DEF Request, Logout, TypeOK
        <2>2. \A d \in Calls : call'[d].pc \in Refreshing => call'[d].token # NoToken
            BY <1>n, <2>1, BeginEffect DEF Refreshing
        <2> QED
            BY <2>1, <2>2, BeginEffect DEF Begin, TypeOK
    <1>3. CASE Receive401(c)
        <2>1. CASE store = NoToken
            <3>1. End(c, "expired")
                BY <1>3, <2>1 DEF Receive401
            <3>2. \A d \in Calls : call'[d].pc \in Refreshing => call'[d].token # NoToken
                BY <1>n, <3>1, EndEffect DEF Refreshing, Ended
            <3> QED
                BY <1>3, <3>1, <3>2, EndEffect DEF Receive401, TypeOK, Ended
        <2>2. CASE store # NoToken
            <3>2. \A d \in Calls : call'[d].pc \in Refreshing => call'[d].token # NoToken
                BY <1>3, <1>n, <2>2, RefreshEffect
            <3> QED
                BY <1>3, <2>2, <3>2, RefreshEffect DEF Receive401, TypeOK
        <2> QED
            BY <2>1, <2>2
    <1>4. CASE ReceiveTokens(c)
        <2>1. Goto(c, "sent") /\ "sent" \in Steps
            BY <1>4 DEF ReceiveTokens, Steps
        <2>2. \A d \in Calls : call'[d].pc \in Refreshing => call'[d].token # NoToken
            BY <1>n, <2>1, GotoEffect DEF Refreshing
        <2> QED
            BY <1>4, <2>1, <2>2, GotoEffect, CallType DEF ReceiveTokens, TypeOK
    <1>5. CASE ReceiveRefusal(c) \/ FinishLogout(c) \/ LoseCall(c)
        <2>1. PICK pc \in Ended : End(c, pc)
            BY <1>5 DEF ReceiveRefusal, FinishLogout, LoseCall, Ended
        <2>2. \A d \in Calls : call'[d].pc \in Refreshing => call'[d].token # NoToken
            BY <1>n, <2>1, EndEffect DEF Refreshing, Ended
        <2>3. store' \in Tokens \cup {NoToken} /\ disturbed' \in BOOLEAN
            BY <1>5 DEF ReceiveRefusal, FinishLogout, LoseCall, TypeOK
        <2> QED
            BY <1>5, <2>1, <2>2, <2>3, EndEffect DEF ReceiveRefusal, FinishLogout, LoseCall, TypeOK
    <1>7. CASE Serve(c)
        <2>1. PICK pc \in {"unauthorized", "revoking", "done"} :
                  Goto(c, pc) \/ (pc = "done" /\ End(c, pc))
            BY <1>7 DEF Serve
        <2>2. pc \in Steps /\ pc \notin Refreshing
            BY DEF Steps, Refreshing, Ended
        <2>3. /\ call' \in [Calls -> Call]
              /\ \A d \in Calls : call'[d].pc \in Refreshing => call'[d].token # NoToken
            BY <1>n, <2>1, <2>2, GotoEffect, EndEffect DEF Ended
        <2>4. closed' \subseteq Tokens
            BY <1>7, CallType DEF Serve, Authorized, Fresh, TypeOK
        <2>5. disturbed' \in BOOLEAN
            BY <1>7 DEF Serve, TypeOK
        <2> QED
            BY <1>7, <2>3, <2>4, <2>5 DEF Serve, TypeOK
    <1>8. CASE RevokeBody(c)
        <2>1. revoked' \subseteq Tokens /\ spent' \subseteq Tokens
            BY <1>8, CallType DEF RevokeBody, Fresh, TypeOK
        <2>2. Goto(c, "answered") /\ "answered" \in Steps
            BY <1>8 DEF RevokeBody, Steps
        <2>3. \A d \in Calls : call'[d].pc \in Refreshing => call'[d].token # NoToken
            BY <1>n, <2>2, GotoEffect DEF Refreshing
        <2> QED
            BY <1>8, <2>1, <2>2, <2>3, GotoEffect DEF RevokeBody, TypeOK
    <1>9. CASE CheckRefresh(c) \/ FailRefresh(c) \/ RevokeOld(c)
        <2>1. call[c].pc \in Refreshing /\ call[c].token \in Tokens
            BY <1>9, CallType DEF CheckRefresh, FailRefresh, RevokeOld, Refreshing, TypeOK
        <2>2. PICK pc \in Steps : Goto(c, pc)
            BY <1>9 DEF CheckRefresh, FailRefresh, RevokeOld, Steps, Refreshing
        <2>3. \A d \in Calls : call'[d].pc \in Refreshing => call'[d].token # NoToken
            BY <1>n, <1>t, <2>1, <2>2, GotoEffect
        <2>4. revoked' \subseteq Tokens /\ spent' \subseteq Tokens /\ disturbed' \in BOOLEAN
            BY <1>9, <2>1 DEF CheckRefresh, FailRefresh, RevokeOld, TypeOK
        <2> QED
            BY <1>9, <2>2, <2>3, <2>4, GotoEffect DEF CheckRefresh, FailRefresh, RevokeOld, TypeOK
    <1>11. CASE IssueTokens(c)
        <2>1. \A d \in Calls : call'[d].pc \in Refreshing => call'[d].token # NoToken
            BY <1>11, <1>n, <1>t, IssueEffect
        <2> QED
            BY <1>11, <1>t, <2>1, IssueEffect DEF IssueTokens, TypeOK
    <1> QED
        BY <1>1, <1>3, <1>4, <1>5, <1>7, <1>8, <1>9, <1>11 DEF CallStep

LEMMA TypeInit == Init => TypeOK
    <1>1. Idle \in Call /\ Idle.pc \notin Refreshing
        BY DEF Idle, Call, Steps, Refreshing
    <1> SUFFICES ASSUME Init PROVE TypeOK
        OBVIOUS
    <1>2. call = [c \in Calls |-> Idle]
        BY DEF Init
    <1>3. call \in [Calls -> Call] /\ \A c \in Calls : call[c].pc \notin Refreshing
        BY <1>1, <1>2
    <1>4. now \in 0 .. MaxNow
        BY AuthAssumption DEF Init
    <1> QED
        BY <1>3, <1>4 DEF Init, TypeOK

LEMMA TypeStep == TypeOK /\ [Next]_vars => TypeOK'
    <1> SUFFICES ASSUME TypeOK, [Next]_vars PROVE TypeOK'
        OBVIOUS
    <1>1. CASE UNCHANGED vars
        BY <1>1 DEF vars, TypeOK
    <1>2. CASE Login
        <2>1. now \in Tokens
            BY DEF TypeOK, Tokens
        <2> QED
            BY <1>2, <2>1 DEF Login, TypeOK
    <1>3. CASE Tick
        BY <1>3, AuthAssumption DEF Tick, TypeOK
    <1>4. ASSUME NEW token \in Tokens, ForgetRevoked(token) PROVE TypeOK'
        BY <1>4 DEF ForgetRevoked, TypeOK
    <1> QED
        BY <1>1, <1>2, <1>3, <1>4, TypeCall DEF Next

\* The types, for any number of calls and any lifetimes.
THEOREM TypeCorrect == Spec => []TypeOK
    <1> QED
        BY TypeInit, TypeStep, PTL DEF Spec

(***************************************************************************)
(* Rotation                                                                *)
(***************************************************************************)
LEMMA SpentCall ==
    ASSUME TypeOK, SpentInv, SpentTokensAreDead, NEW c \in Calls,
           Request(c) \/ Logout(c) \/ CallStep(c) \/ LoseCall(c) \/ FailRefresh(c)
    PROVE  SpentInv' /\ SpentTokensAreDead'
    <1>1. /\ now' = now /\ spent \subseteq spent'
          /\ \A token \in spent' : token \in revoked' \/ now >= token + RefreshTTL
        BY DEF SpentInv, Request, Logout, Begin, CallStep, Receive401, ReceiveTokens, ReceiveRefusal,
               FinishLogout, Serve, RevokeBody, CheckRefresh, RevokeOld, IssueTokens, LoseCall, FailRefresh
    <1> DEFINE Frame == \A d \in Calls \ {c} : call'[d] = call[d]
               Quiet == call'[c].pc \notin {"refreshing", "checked"}
               Good == /\ call'[c].pc \in {"refreshing", "checked"} /\ call'[c].used =>
                              call'[c].token \in spent'
                       /\ call'[c].pc = "checked" /\ call'[c].used =>
                              now >= call'[c].token + RefreshTTL
    <1>2. Frame /\ (Quiet \/ Good)
        <2>1. CASE Request(c) \/ Logout(c)
            <3>1. PICK body \in Tokens \cup {NoToken} : Begin(c, body)
                BY <2>1 DEF Request, Logout, TypeOK
            <3> QED
                BY <3>1, BeginEffect
        <2>2. CASE Receive401(c)
            <3>1. CASE store = NoToken
                <4>1. End(c, "expired") /\ "expired" \in Ended
                    BY <2>2, <3>1 DEF Receive401, Ended
                <4> QED
                    BY <4>1, EndEffect
            <3>2. CASE store # NoToken
                <4>1. Frame /\ call'[c].pc = "refreshing" /\ call'[c].token = store
                      /\ call'[c].used = (store \in spent)
                    BY <2>2, <3>2, RefreshEffect
                <4>2. spent' = spent
                    BY <2>2 DEF Receive401
                <4> QED
                    BY <4>1, <4>2
            <3> QED
                BY <3>1, <3>2
        <2>3. CASE ReceiveRefusal(c) \/ FinishLogout(c) \/ LoseCall(c)
            <3>1. PICK pc \in Ended : End(c, pc)
                BY <2>3 DEF ReceiveRefusal, FinishLogout, LoseCall, Ended
            <3> QED
                BY <3>1, EndEffect DEF Ended
        <2>4. CASE Serve(c)
            <3>1. PICK pc \in {"unauthorized", "revoking", "done"} :
                      Goto(c, pc) \/ (pc = "done" /\ End(c, pc))
                BY <2>4 DEF Serve
            <3>2. pc \in Steps /\ pc \notin {"refreshing", "checked"}
                BY DEF Steps, Ended
            <3> QED
                BY <3>1, <3>2, GotoEffect, EndEffect DEF Ended
        <2>5. CASE ReceiveTokens(c) \/ RevokeBody(c) \/ FailRefresh(c) \/ RevokeOld(c)
            <3>1. PICK pc \in {"sent", "answered", "refused", "revoked"} : Goto(c, pc)
                BY <2>5 DEF ReceiveTokens, RevokeBody, FailRefresh, RevokeOld
            <3>2. pc \in Steps /\ pc \notin {"refreshing", "checked"}
                BY DEF Steps, Refreshing
            <3> QED
                BY <3>1, <3>2, GotoEffect
        <2>6. CASE IssueTokens(c)
            BY <2>6, IssueEffect
        <2>7. CASE CheckRefresh(c)
            <3>1. PICK pc \in {"lapsed", "refused", "checked"} :
                      Goto(c, pc) /\ (pc = "checked" => call[c].token \notin revoked)
                BY <2>7 DEF CheckRefresh
            <3>2. pc \in Steps
                BY DEF Steps, Refreshing
            <3>3. Frame /\ call'[c].pc = pc /\ call'[c].token = call[c].token /\ call'[c].used = call[c].used
                BY <3>1, <3>2, GotoEffect
            <3>4. call[c].used => call[c].token \in spent
                BY <2>7 DEF CheckRefresh, SpentInv
            <3>5. call[c].used /\ pc = "checked" => now >= call[c].token + RefreshTTL
                BY <3>1, <3>4 DEF SpentInv
            <3> QED
                BY <1>1, <3>1, <3>3, <3>4, <3>5
        <2> QED
            BY <2>1, <2>2, <2>3, <2>4, <2>5, <2>6, <2>7 DEF CallStep
    <1>3. \A d \in Calls \ {c} :
              /\ call'[d].pc \in {"refreshing", "checked"} /\ call'[d].used => call'[d].token \in spent'
              /\ call'[d].pc = "checked" /\ call'[d].used => now >= call'[d].token + RefreshTTL
        BY <1>1, <1>2 DEF SpentInv, SpentTokensAreDead
    <1>4. Good
        BY <1>2
    <1> HIDE DEF Frame, Quiet
    <1> QED
        BY <1>1, <1>3, <1>4 DEF SpentInv, SpentTokensAreDead

LEMMA SpentStep ==
    TypeOK /\ SpentInv /\ SpentTokensAreDead /\ [Next]_vars => SpentInv' /\ SpentTokensAreDead'
    <1> SUFFICES ASSUME TypeOK, SpentInv, SpentTokensAreDead, [Next]_vars
                 PROVE  SpentInv' /\ SpentTokensAreDead'
        OBVIOUS
    <1>t. /\ now \in Nat /\ RefreshTTL \in Nat /\ spent \subseteq Nat
          /\ \A c \in Calls : call[c].token \in Tokens \cup {NoToken}
          /\ \A c \in Calls : call[c].pc = "checked" => call[c].token \in Nat
        BY AuthAssumption, CallType DEF TypeOK, Tokens, Refreshing
    <1>1. CASE UNCHANGED vars \/ Login
        BY <1>1 DEF vars, Login, SpentInv, SpentTokensAreDead
    <1>2. CASE Tick
        <2>1. \A token \in spent' : token \in revoked' \/ now' >= token + RefreshTTL
            BY <1>2, <1>t DEF Tick, SpentInv
        <2>2. \A c \in Calls : call'[c].pc = "checked" /\ call'[c].used => now' >= call'[c].token + RefreshTTL
            BY <1>2, <1>t DEF Tick, SpentTokensAreDead
        <2> QED
            BY <1>2, <2>1, <2>2 DEF Tick, SpentInv, SpentTokensAreDead
    <1>3. ASSUME NEW token \in Tokens, ForgetRevoked(token) PROVE SpentInv' /\ SpentTokensAreDead'
        BY <1>3 DEF ForgetRevoked, SpentInv, SpentTokensAreDead
    <1> QED
        BY <1>1, <1>2, <1>3, SpentCall DEF Next

\* Rotation and logout hold to the last second of a token, whatever overlaps
\* and whatever fails.
THEOREM SpentTokensStayDead == Spec => []SpentTokensAreDead
    <1>1. Init => SpentInv /\ SpentTokensAreDead
        BY DEF Init, Idle, SpentInv, SpentTokensAreDead
    <1> QED
        BY <1>1, TypeInit, TypeStep, SpentStep, PTL DEF Spec

(***************************************************************************)
(* One call at a time                                                      *)
(***************************************************************************)
\* Who is not running has nothing to keep but what it has sent.
LEMMA Resting ==
    ASSUME TypeOK, NEW c \in Calls, ~Runs(c)
    PROVE  /\ call[c].pc \in {"idle"} \cup Ended
           /\ CallInv(c) <=> /\ call[c].pc # "rejected"
                             /\ call[c].body # NoToken => latest # NoToken /\ call[c].body <= latest
    BY CallType DEF Runs, CallInv, Ended

\* The calls that a step of c leaves alone.
LEMMA Bystanders ==
    ASSUME TypeOK, TypeOK', SerialInv, ~disturbed, NEW c \in Calls,
           \A d \in Calls \ {c} : call'[d] = call[d] /\ ~Runs(d),
           latest # NoToken => latest' # NoToken /\ latest <= latest'
    PROVE  /\ OneAtATime'
           /\ \A d \in Calls \ {c} : CallInv(d)' /\ call'[d].pc \in {"idle"} \cup Ended
    <1>1. \A d \in Calls \ {c} : ~Runs(d)'
        BY DEF Runs
    <1>2. ASSUME NEW d \in Calls \ {c} PROVE CallInv(d)' /\ call'[d].pc \in {"idle"} \cup Ended
        <2>1. /\ call[d].pc \in {"idle"} \cup Ended /\ call[d].pc # "rejected"
              /\ call[d].body # NoToken => latest # NoToken /\ call[d].body <= latest
            BY Resting DEF SerialInv
        <2>2. call[d].body # NoToken => latest' # NoToken /\ call[d].body <= latest'
            BY <2>1, CallType, AuthAssumption DEF TypeOK, Tokens
        <2> QED
            BY <2>1, <2>2 DEF CallInv, Ended
    <1> QED
        BY <1>1, <1>2 DEF OneAtATime

\* The only running call.
LEMMA Alone ==
    ASSUME SerialInv, ~disturbed, NEW c \in Calls, Runs(c)
    PROVE  \A d \in Calls \ {c} : ~Runs(d)
    BY DEF SerialInv, OneAtATime

\* A pair that is neither reissued nor revoked stays as it is.
LEMMA PairKept ==
    ASSUME PairInv, now' = now, store' \in {store, NoToken}, latest' = latest,
           revoked' = revoked, closed' = closed,
           (\A d \in Calls : call'[d].pc # "issued") => (\A d \in Calls : call[d].pc # "issued"),
           store' # NoToken => ((\A d \in Calls : call'[d].pc \notin InExchange) =>
                                   (\A d \in Calls : call[d].pc \notin InExchange))
    PROVE  PairInv'
    BY DEF PairInv

LEMMA SerialCall ==
    ASSUME TypeOK, TypeOK', SerialInv, ~disturbed, ~disturbed', NEW c \in Calls,
           Request(c) \/ Logout(c) \/ CallStep(c) \/ LoseCall(c) \/ FailRefresh(c)
    PROVE  SerialInv'
    <1> DEFINE Frame == \A d \in Calls \ {c} : call'[d] = call[d]
    <1>t. /\ now \in Nat /\ NoToken \notin Nat /\ AccessTTL \in Nat /\ RefreshTTL \in Nat
          /\ store \in Nat \cup {NoToken} /\ latest \in Nat \cup {NoToken}
          /\ revoked \subseteq Nat /\ closed \subseteq Nat
          /\ call[c].token \in Nat \cup {NoToken} /\ call[c].body \in Nat \cup {NoToken}
        BY AuthAssumption, CallType DEF TypeOK, Tokens
    <1>i. PairInv /\ CallInv(c)
        BY DEF SerialInv
    <1>a. \A d \in Calls \ {c} : ~Runs(d)
        <2>1. CASE Runs(c)
            BY <2>1, Alone
        <2>2. CASE ~Runs(c)
            BY <2>2 DEF Request, Logout, Begin, CallStep, Receive401, ReceiveTokens, ReceiveRefusal,
                   FinishLogout, Serve, RevokeBody, CheckRefresh, RevokeOld, IssueTokens, LoseCall,
                   FailRefresh, Runs, Ended
        <2> QED
            BY <2>1, <2>2
    <1>b. \A d \in Calls \ {c} : call[d].pc \notin InExchange
        BY <1>a, Resting DEF InExchange, Ended
    <1>c. ASSUME Frame, latest # NoToken => latest' # NoToken /\ latest <= latest',
                 PairInv', CallInv(c)'
          PROVE  SerialInv'
        BY <1>c, <1>a, Bystanders DEF SerialInv
    <1>p. ASSUME Frame, now' = now, latest' = latest, revoked' = revoked, closed' = closed,
                 store' \in {store, NoToken}, call[c].pc # "issued",
                 store' = NoToken \/ call[c].pc \notin InExchange
          PROVE  PairInv'
        BY <1>p, <1>i, <1>b, PairKept DEF InExchange
    <1>k. ASSUME latest' = latest, latest # NoToken
          PROVE  latest' # NoToken /\ latest <= latest'
        BY <1>k, <1>t
    <1>0. call[c].pc \in InExchange => Runs(c)
        BY DEF InExchange, Runs, Ended
    <1>1. CASE Request(c) \/ Logout(c)
        <2>1. PICK body \in Tokens \cup {NoToken} : Begin(c, body) /\ body \in {store, NoToken}
            BY <1>1 DEF Request, Logout, TypeOK
        <2>2. Frame /\ call'[c].pc = "sent" /\ call'[c].token = store /\ call'[c].body = body
            BY <2>1, BeginEffect
        <2>3. ~Runs(c)
            BY <2>1 DEF Begin
        <2>4. \A d \in Calls : call[d].pc # "issued"
            BY <1>b, <1>0, <2>3 DEF InExchange
        <2>5. body # NoToken => body = latest
            BY <1>i, <2>1, <2>4 DEF PairInv
        <2>6. CallInv(c)'
            BY <1>t, <2>1, <2>2, <2>5 DEF CallInv, Begin
        <2>7. PairInv'
            BY <1>p, <1>0, <2>1, <2>2, <2>3, <2>4 DEF Begin
        <2> QED
            BY <1>c, <1>k, <2>1, <2>2, <2>6, <2>7 DEF Begin
    <1>2. CASE Receive401(c)
        <2>1. CASE store = NoToken
            <3>1. End(c, "expired") /\ "expired" \in Ended
                BY <1>2, <2>1 DEF Receive401, Ended
            <3>2. Frame /\ call'[c].pc = "expired" /\ call'[c].body = NoToken
                BY <3>1, EndEffect
            <3>3. CallInv(c)'
                BY <3>2 DEF CallInv
            <3> QED
                BY <1>c, <1>k, <1>p, <1>2, <2>1, <3>2, <3>3 DEF Receive401
        <2>2. CASE store # NoToken
            <3>1. Frame /\ call'[c].pc = "refreshing" /\ call'[c].token = store /\ call'[c].body = call[c].body
                BY <1>2, <2>2, RefreshEffect
            <3>2. CallInv(c)'
                BY <1>2, <1>i, <2>2, <3>1 DEF CallInv, Receive401
            <3> QED
                BY <1>c, <1>k, <1>p, <1>2, <3>1, <3>2 DEF Receive401, InExchange
        <2> QED
            BY <2>1, <2>2
    <1>3. CASE ReceiveTokens(c)
        <2>1. Goto(c, "sent") /\ "sent" \in Steps
            BY <1>3 DEF ReceiveTokens, Steps
        <2>2. Frame /\ call'[c].pc = "sent" /\ call'[c].token = call[c].token /\ call'[c].body = call[c].body
            BY <2>1, GotoEffect
        <2>3. CallInv(c)'
            BY <1>3, <1>i, <2>2 DEF CallInv, ReceiveTokens
        <2>4. PairInv'
            BY <1>3, <1>i, <1>t DEF PairInv, CallInv, ReceiveTokens
        <2> QED
            BY <1>3, <1>c, <1>k, <2>2, <2>3, <2>4 DEF ReceiveTokens
    <1>4. CASE ReceiveRefusal(c)
        <2>1. call[c].pc = "lapsed"
            BY <1>4, <1>i DEF ReceiveRefusal, CallInv
        <2>2. End(c, "expired") /\ "expired" \in Ended
            BY <1>4, <2>1 DEF ReceiveRefusal, Ended
        <2>3. Frame /\ call'[c].pc = "expired" /\ call'[c].body = NoToken
            BY <2>2, EndEffect
        <2>4. CallInv(c)'
            BY <2>3 DEF CallInv
        <2> QED
            BY <1>c, <1>k, <1>p, <1>4, <2>1, <2>3, <2>4 DEF ReceiveRefusal
    <1>5. CASE FinishLogout(c)
        <2>1. End(c, "done") /\ "done" \in Ended
            BY <1>5 DEF FinishLogout, Ended
        <2>2. Frame /\ call'[c].pc = "done" /\ call'[c].body = NoToken
            BY <2>1, EndEffect
        <2>3. CallInv(c)'
            BY <2>2 DEF CallInv
        <2> QED
            BY <1>c, <1>k, <1>p, <1>5, <2>2, <2>3 DEF FinishLogout
    <1>6. CASE Serve(c)
        <2>1. CASE ~Authorized(c) /\ Goto(c, "unauthorized") /\ closed' = closed
            <3>1. "unauthorized" \in Steps
                BY DEF Steps
            <3>2. /\ Frame /\ call'[c].pc = "unauthorized"
                  /\ call'[c].token = call[c].token /\ call'[c].body = call[c].body
                BY <2>1, <3>1, GotoEffect
            <3>3. store # NoToken => latest # NoToken /\ now > latest
                <4>1. \A d \in Calls : call[d].pc \notin InExchange /\ call[d].pc # "issued"
                    BY <1>6, <1>b DEF Serve, InExchange
                <4>2. store # NoToken => store = latest /\ store \notin closed /\ call[c].token = store
                    BY <1>6, <1>i, <4>1 DEF PairInv, CallInv, Serve
                <4> QED
                    BY <1>t, <2>1, <4>2 DEF Authorized, Fresh
            <3>4. CallInv(c)'
                BY <1>6, <1>i, <3>2, <3>3 DEF CallInv, Serve
            <3> QED
                BY <1>c, <1>k, <1>p, <1>6, <2>1, <3>2, <3>4 DEF Serve, InExchange
        <2>2. CASE End(c, "done") /\ closed' = closed
            <3>1. Frame /\ call'[c].pc = "done" /\ call'[c].body = NoToken
                BY <2>2, EndEffect DEF Ended
            <3>2. CallInv(c)'
                BY <3>1 DEF CallInv
            <3> QED
                BY <1>c, <1>k, <1>p, <1>6, <2>2, <3>1, <3>2 DEF Serve, InExchange
        <2>3. CASE Authorized(c) /\ Goto(c, "revoking") /\ closed' = closed \cup {call[c].token}
            <3>1. /\ Frame /\ call'[c].pc = "revoking"
                  /\ call'[c].token = call[c].token /\ call'[c].body = call[c].body
                BY <2>3, GotoEffect DEF Steps
            <3>2. \A d \in Calls : call[d].pc # "issued"
                BY <1>6, <1>b DEF Serve, InExchange
            <3>3. call[c].token # NoToken /\ call[c].token = store /\ store = latest
                BY <1>6, <1>i, <2>3, <3>2 DEF Serve, PairInv, CallInv, Authorized, Fresh
            <3>4. CallInv(c)'
                BY <1>6, <1>i, <3>1, <3>3 DEF CallInv, Serve
            <3>5. PairInv'
                BY <1>6, <1>i, <1>t, <2>3, <3>1, <3>2, <3>3 DEF PairInv, Serve, InExchange
            <3> QED
                BY <1>c, <1>k, <1>6, <3>1, <3>4, <3>5 DEF Serve
        <2> QED
            BY <1>6, <2>1, <2>2, <2>3 DEF Serve
    <1>7. CASE RevokeBody(c)
        <2>1. "answered" \in Steps
            BY DEF Steps
        <2>2. Frame /\ call'[c].pc = "answered" /\ call'[c].body = call[c].body
            BY <1>7, <2>1, GotoEffect DEF RevokeBody
        <2>3. CallInv(c)'
            BY <1>7, <1>i, <2>2 DEF CallInv, RevokeBody
        <2>4. \A token \in revoked' : token \in revoked \/ (token = call[c].body /\ token # NoToken)
            <3>1. CASE Fresh(call[c].body, RefreshTTL)
                BY <1>7, <3>1 DEF RevokeBody, Fresh
            <3>2. CASE ~Fresh(call[c].body, RefreshTTL)
                BY <1>7, <3>2 DEF RevokeBody
            <3> QED
                BY <3>1, <3>2
        <2>5. \A d \in Calls : call[d].pc # "issued"
            BY <1>7, <1>b DEF RevokeBody, InExchange
        <2>6. PairInv'
            BY <1>7, <1>i, <2>2, <2>4, <2>5 DEF PairInv, CallInv, RevokeBody, InExchange
        <2> QED
            BY <1>c, <1>k, <1>7, <2>2, <2>3, <2>6 DEF RevokeBody
    <1>8. CASE CheckRefresh(c)
        <2>1. call[c].token \notin revoked
            <3>1. \A d \in Calls : call[d].pc \notin InExchange
                BY <1>8, <1>b DEF CheckRefresh, InExchange
            <3> QED
                BY <1>8, <1>i, <3>1 DEF PairInv, CallInv, CheckRefresh
        <2>2. PICK pc \in {"lapsed", "checked"} : Goto(c, pc)
            BY <1>8, <2>1 DEF CheckRefresh
        <2>3. pc \in Steps
            BY DEF Steps, Refreshing
        <2>4. Frame /\ call'[c].pc = pc /\ call'[c].token = call[c].token /\ call'[c].body = call[c].body
            BY <2>2, <2>3, GotoEffect
        <2>5. CallInv(c)'
            BY <1>8, <1>i, <2>4 DEF CallInv, CheckRefresh
        <2> QED
            BY <1>c, <1>k, <1>p, <1>8, <2>4, <2>5 DEF CheckRefresh, InExchange
    <1>9. CASE RevokeOld(c)
        <2>1. "revoked" \in Steps
            BY DEF Steps, Refreshing
        <2>2. Frame /\ call'[c].pc = "revoked" /\ call'[c].token = call[c].token /\ call'[c].body = call[c].body
            BY <1>9, <2>1, GotoEffect DEF RevokeOld
        <2>3. \A d \in Calls : call[d].pc # "issued"
            BY <1>9, <1>b DEF RevokeOld, InExchange
        <2>4. store # NoToken /\ call[c].token = store /\ store = latest
            BY <1>9, <1>i, <2>3 DEF PairInv, CallInv, RevokeOld
        <2>5. CallInv(c)'
            BY <1>9, <1>i, <2>2 DEF CallInv, RevokeOld
        <2>6. PairInv'
            BY <1>9, <1>i, <1>t, <2>2, <2>3, <2>4 DEF PairInv, RevokeOld, InExchange
        <2> QED
            BY <1>c, <1>k, <1>9, <2>2, <2>5, <2>6 DEF RevokeOld
    <1>10. CASE IssueTokens(c)
        <2>0. latest' = now /\ now' = now /\ revoked' = revoked /\ closed' = closed /\ now # NoToken
            BY <1>10, <1>t DEF IssueTokens
        <2>1. Frame /\ call'[c].pc = "issued" /\ call'[c].token = now /\ call'[c].body = call[c].body
            BY <1>10, IssueEffect
        <2>2. latest \in Nat /\ now > latest
            BY <1>10, <1>i, <1>t, <1>b DEF IssueTokens, CallInv, PairInv, InExchange
        <2>3. CallInv(c)'
            <3>1. now \notin revoked \cup closed
                BY <1>i, <1>t, <2>2 DEF PairInv
            <3>2. call[c].body # NoToken => call[c].body <= now
                BY <1>i, <1>t, <2>2 DEF CallInv
            <3> QED
                BY <2>0, <2>1, <3>1, <3>2 DEF CallInv
        <2>4. PairInv'
            <3>1. now <= now /\ \A token \in revoked \cup closed : token <= now
                <4>1. \A token \in revoked \cup closed : token \in Nat /\ token <= latest
                    BY <1>i, <1>t DEF PairInv
                <4>2. now \in Nat /\ now <= now
                    BY <1>t
                <4>3. ASSUME NEW token \in revoked \cup closed PROVE token <= now
                    BY <4>1, <4>2, <2>2
                <4> QED
                    BY <4>2, <4>3
            <3>2. store' = store
                BY <1>10 DEF IssueTokens
            <3> QED
                BY <2>0, <2>1, <3>1, <3>2 DEF PairInv, InExchange
        <2> QED
            BY <1>c, <1>t, <1>10, <2>1, <2>2, <2>3, <2>4 DEF IssueTokens
    <1>11. CASE LoseCall(c) \/ FailRefresh(c)
        BY <1>11 DEF LoseCall, FailRefresh
    <1> QED
        BY <1>1, <1>2, <1>3, <1>4, <1>5, <1>6, <1>7, <1>8, <1>9, <1>10, <1>11 DEF CallStep

LEMMA SerialStep ==
    TypeOK /\ TypeOK' /\ SerialInv /\ [Next]_vars => SerialInv'
    <1> SUFFICES ASSUME TypeOK, TypeOK', SerialInv, [Next]_vars, ~disturbed' PROVE SerialInv'
        BY DEF SerialInv
    <1>d. ~disturbed
        BY DEF Next, vars, Login, Tick, ForgetRevoked, Request, Logout, Begin, CallStep, Receive401,
               ReceiveTokens, ReceiveRefusal, FinishLogout, Serve, RevokeBody, CheckRefresh,
               RevokeOld, IssueTokens, LoseCall, FailRefresh
    <1>t. /\ now \in Nat /\ NoToken \notin Nat /\ latest \in Nat \cup {NoToken}
          /\ revoked \subseteq Nat /\ closed \subseteq Nat
          /\ \A c \in Calls : call[c].body \in Nat \cup {NoToken}
        BY AuthAssumption, CallType DEF TypeOK, Tokens
    <1>i. OneAtATime /\ PairInv /\ \A c \in Calls : CallInv(c)
        BY <1>d DEF SerialInv
    <1>1. CASE UNCHANGED vars
        BY <1>1, <1>i DEF vars, SerialInv, OneAtATime, Runs, PairInv, CallInv
    <1>2. CASE Login
        <2>1. \A c \in Calls : ~Runs(c) /\ call'[c] = call[c]
            BY <1>2, <1>d DEF Login
        <2>2. \A c \in Calls : call[c].pc \in {"idle"} \cup Ended
            BY <2>1, Resting
        <2>3. \A token \in revoked \cup closed : token < now
            BY <1>2, <1>i, <1>t DEF Login, PairInv
        <2>4. PairInv'
            <3>1. store' = now /\ latest' = now /\ now' = now /\ revoked' = revoked /\ closed' = closed
                BY <1>2 DEF Login
            <3>2. now # NoToken /\ now <= now /\ now \notin revoked \cup closed
                BY <1>t, <2>3
            <3>3. \A token \in revoked \cup closed : token <= now
                BY <1>t, <2>3
            <3> QED
                BY <3>1, <3>2, <3>3 DEF PairInv
        <2>5. ASSUME NEW c \in Calls PROVE CallInv(c)'
            <3>1. call[c].body # NoToken => call[c].body <= now
                BY <1>i, <1>t DEF CallInv, PairInv
            <3> QED
                <4>1. latest' = now /\ now # NoToken
                    BY <1>2, <1>t DEF Login
                <4>2. call'[c] = call[c] /\ call[c].pc \in {"idle"} \cup Ended /\ call[c].pc # "rejected"
                    BY <1>i, <2>1, <2>2 DEF CallInv
                <4> QED
                    BY <3>1, <4>1, <4>2 DEF CallInv, Ended
        <2>6. OneAtATime'
            BY <2>1 DEF OneAtATime, Runs
        <2> QED
            BY <2>4, <2>5, <2>6 DEF SerialInv
    <1>3. CASE Tick
        <2>0. latest # NoToken => latest <= now' /\ (now > latest => now' > latest)
            BY <1>3, <1>i, <1>t DEF Tick, PairInv
        <2>1. PairInv'
            BY <1>3, <1>i, <2>0 DEF Tick, PairInv
        <2>2. ASSUME NEW c \in Calls PROVE CallInv(c)'
            <3>1. (call[c].pc \in {"unauthorized", "refreshing", "checked", "revoked"} /\ store # NoToken)
                    => latest # NoToken /\ now' > latest
                BY <1>3, <1>i, <1>t, <2>0 DEF Tick, CallInv
            <3> QED
                <4>1. /\ store' = store /\ latest' = latest /\ call' = call
                      /\ revoked' = revoked /\ closed' = closed
                    BY <1>3 DEF Tick
                <4>2. CallInv(c)
                    BY <1>i
                <4> QED
                    BY <3>1, <4>1, <4>2 DEF CallInv
        <2> QED
            BY <1>3, <1>i, <2>1, <2>2 DEF Tick, SerialInv, OneAtATime, Runs
    <1>4. ASSUME NEW token \in Tokens, ForgetRevoked(token) PROVE SerialInv'
        BY <1>4, <1>i DEF ForgetRevoked, SerialInv, OneAtATime, Runs, PairInv, CallInv
    <1> QED
        BY <1>1, <1>2, <1>3, <1>4, <1>d, SerialCall DEF Next

\* A browser that makes one call at a time is never told that its token was
\* revoked, however the clock and the calls fall.
THEOREM SerialCallsSignedIn == Spec => []SerialCallsStaySignedIn
    <1>1. Init => SerialInv
        BY DEF Init, Idle, SerialInv, OneAtATime, Runs, PairInv, CallInv
    <1>2. SerialInv => SerialCallsStaySignedIn
        BY DEF SerialInv, CallInv, SerialCallsStaySignedIn
    <1> QED
        BY <1>1, <1>2, TypeInit, TypeStep, SerialStep, PTL DEF Spec

=============================================================================
