---------------------------- MODULE RequestProofs ----------------------------
(***************************************************************************)
(* What the proofs about the pages share: the requests under way, the     *)
(* queues a page waits for, and the lists that are loaded again.           *)
(***************************************************************************)
EXTENDS Listing, FiniteSetTheorems, TLAPS

(***************************************************************************)
(* Requests: records of four fields, and what each step leaves of them     *)
(***************************************************************************)
IsRequest(r) == \E s, o, a, d : r = [step |-> s, op |-> o, arg |-> a, data |-> d]
CallsOK == call = [c \in Calls |-> call[c]] /\ \A c \in Calls : IsRequest(call[c])

LEMMA FreeIsRequest == IsRequest(Free)
    BY DEF IsRequest, Free

LEMMA RequestIsRequest == \A op, arg : IsRequest(Request(op, arg))
    BY DEF IsRequest, Request

\* One call is replaced, and the others stay.
LEMMA OneCall ==
    ASSUME CallsOK, NEW c \in Calls, NEW r, IsRequest(r), call' = [call EXCEPT ![c] = r]
    PROVE  CallsOK' /\ call'[c] = r /\ \A e \in Calls \ {c} : call'[e] = call[e]
    <1>1. call = [e \in Calls |-> call[e]]
        BY DEF CallsOK
    <1>2. call' = [e \in Calls |-> IF e = c THEN r ELSE call[e]]
        BY <1>1
    <1>3. call'[c] = r /\ \A e \in Calls \ {c} : call'[e] = call[e]
        BY <1>2
    <1>4. call' = [e \in Calls |-> call'[e]]
        BY <1>2
    <1>5. ASSUME NEW e \in Calls PROVE IsRequest(call'[e])
        <2>1. CASE e = c
            BY <2>1, <1>3
        <2>2. CASE e # c
            BY <2>2, <1>3 DEF CallsOK
        <2> QED
            BY <2>1, <2>2
    <1>6. CallsOK'
        BY <1>4, <1>5 DEF CallsOK, IsRequest
    <1> QED
        BY <1>3, <1>6

LEMMA AnswerEffect ==
    ASSUME CallsOK, NEW c \in Calls, NEW d, Answer(c, d)
    PROVE  /\ CallsOK'
           /\ call'[c] = [step |-> "served", op |-> call[c].op, arg |-> call[c].arg, data |-> d]
           /\ \A e \in Calls \ {c} : call'[e] = call[e]
    <1> DEFINE r == [step |-> "served", op |-> call[c].op, arg |-> call[c].arg, data |-> d]
    <1>1. IsRequest(r)
        BY DEF IsRequest
    <1>p. PICK s, o, a, x : call[c] = [step |-> s, op |-> o, arg |-> a, data |-> x]
        BY DEF CallsOK, IsRequest
    <1> DEFINE q == [step |-> "served", op |-> o, arg |-> a, data |-> x]
    <1>2. [call[c] EXCEPT !.step = "served"] = q
        BY <1>p
    <1>4. [q EXCEPT !.data = d] = r
        BY <1>p
    <1>3. call' = [call EXCEPT ![c] = r]
        BY <1>2, <1>4 DEF Answer, CallsOK
    <1> QED
        BY <1>1, <1>3, OneCall

LEMMA RefuseEffect ==
    ASSUME CallsOK, NEW c \in Calls, Refuse(c)
    PROVE  /\ CallsOK'
           /\ call'[c] = [step |-> "failed", op |-> call[c].op, arg |-> call[c].arg, data |-> call[c].data]
           /\ \A e \in Calls \ {c} : call'[e] = call[e]
    <1> DEFINE r == [step |-> "failed", op |-> call[c].op, arg |-> call[c].arg, data |-> call[c].data]
    <1>1. IsRequest(r)
        BY DEF IsRequest
    <1>p. PICK s, o, a, x : call[c] = [step |-> s, op |-> o, arg |-> a, data |-> x]
        BY DEF CallsOK, IsRequest
    <1>2. [call[c] EXCEPT !.step = "failed"] = r
        BY <1>p
    <1>3. call' = [call EXCEPT ![c] = r]
        BY <1>2 DEF Refuse, CallsOK
    <1> QED
        BY <1>1, <1>3, OneCall

LEMMA LoseEffect ==
    ASSUME CallsOK, NEW c \in Calls, Lose(c)
    PROVE  /\ CallsOK'
           /\ call[c].step \in {"sent", "served"}
           /\ call'[c] = [step |-> "failed", op |-> call[c].op, arg |-> call[c].arg, data |-> Nil]
           /\ \A e \in Calls \ {c} : call'[e] = call[e]
    <1> DEFINE r == [step |-> "failed", op |-> call[c].op, arg |-> call[c].arg, data |-> Nil]
    <1>1. IsRequest(r)
        BY DEF IsRequest
    <1>p. PICK s, o, a, x : call[c] = [step |-> s, op |-> o, arg |-> a, data |-> x]
        BY DEF CallsOK, IsRequest
    <1> DEFINE q == [step |-> "failed", op |-> o, arg |-> a, data |-> x]
    <1>2. [call[c] EXCEPT !.step = "failed"] = q
        BY <1>p
    <1>4. [q EXCEPT !.data = Nil] = r
        BY <1>p
    <1>3. call' = [call EXCEPT ![c] = r]
        BY <1>2, <1>4 DEF Lose, CallsOK
    <1> QED
        BY <1>1, <1>3, OneCall DEF Lose

LEMMA EndEffect ==
    ASSUME CallsOK, NEW c \in Calls, End(c)
    PROVE  CallsOK' /\ call'[c] = Free /\ \A e \in Calls \ {c} : call'[e] = call[e]
    BY OneCall, FreeIsRequest DEF End

LEMMA SendEffect ==
    ASSUME CallsOK, NEW c \in Calls, NEW op, NEW arg, Send(c, op, arg)
    PROVE  /\ CallsOK' /\ call[c] = Free /\ call'[c] = Request(op, arg)
           /\ \A e \in Calls \ {c} : call'[e] = call[e]
    BY OneCall, RequestIsRequest DEF Send

LEMMA ThenEffect ==
    ASSUME CallsOK, NEW c \in Calls, NEW op, NEW arg, Then(c, op, arg)
    PROVE  /\ CallsOK' /\ call'[c] = Request(op, arg)
           /\ \A e \in Calls \ {c} : call'[e] = call[e]
    BY OneCall, RequestIsRequest DEF Then

LEMMA MountEffect ==
    ASSUME NEW op, NEW arg, Mount(Request(op, arg))
    PROVE  /\ CallsOK
           /\ \E c \in Calls : call[c] = Request(op, arg) /\ \A e \in Calls \ {c} : call[e] = Free
    BY FreeIsRequest, RequestIsRequest DEF Mount, CallsOK

\* A request of this kind is under way.
Busy(c, op) == call[c].step # "free" /\ call[c].op = op

LEMMA SameCalls ==
    ASSUME CallsOK, UNCHANGED call
    PROVE  CallsOK'
    BY DEF CallsOK, IsRequest

(***************************************************************************)
(* The types of requests                                                   *)
(*                                                                         *)
(* args and results give, for each kind of request, its arguments and what *)
(* it is answered with: {Nil} when nothing is.                             *)
(***************************************************************************)
CallAllowed(r, args, results) ==
    r = Free \/ /\ r.op \in DOMAIN args /\ r.step \in Steps
                /\ r.arg \in args[r.op] /\ r.data \in results[r.op] \cup {Nil}
                /\ r.step = "served" => r.data \in results[r.op]

Typed(args, results) == CallsOK /\ \A c \in Calls : CallAllowed(call[c], args, results)

LEMMA TypedIsCall ==
    ASSUME NEW args, NEW results, Typed(args, results), NEW public,
           \A op \in DOMAIN args : results[op] \subseteq public[op] \cup {Nil}
    PROVE  \A c \in Calls : IsCall(call[c], args, public)
    <1> SUFFICES ASSUME NEW c \in Calls, call[c] # Free PROVE IsCall(call[c], args, public)
        BY DEF IsCall
    <1>1. PICK s, o, a, d : call[c] = [step |-> s, op |-> o, arg |-> a, data |-> d]
        BY DEF Typed, CallsOK, IsRequest
    <1>2. o \in DOMAIN args /\ s \in Steps /\ a \in args[o] /\ d \in public[o] \cup {Nil}
        BY <1>1 DEF Typed, CallAllowed
    <1>3. call[c] \in [step : Steps, op : {o}, arg : args[o], data : public[o] \cup {Nil}] /\ call[c].op = o
        BY <1>1, <1>2
    <1> QED
        BY <1>2, <1>3 DEF IsCall

LEMMA ArgsAndData ==
    ASSUME NEW args, NEW results, Typed(args, results), NEW c \in Calls, NEW op, NEW step, Stands(c, op, step), step # "free"
    PROVE  /\ op \in DOMAIN args /\ call[c].arg \in args[op] /\ call[c].op = op /\ call[c].step = step
           /\ step = "served" => call[c].data \in results[op]
    BY DEF Typed, CallAllowed, Stands, Free

LEMMA OneCallTyped ==
    ASSUME NEW args, NEW results, Typed(args, results), NEW c \in Calls, CallsOK',
           CallAllowed(call'[c], args, results), \A e \in Calls \ {c} : call'[e] = call[e]
    PROVE  Typed(args, results)'
    <1>1. ASSUME NEW e \in Calls PROVE CallAllowed(call'[e], args, results)
        <2>1. CASE e = c
            BY <2>1
        <2>2. CASE e # c
            BY <2>2 DEF Typed
        <2> QED
            BY <2>1, <2>2
    <1> QED
        BY <1>1 DEF Typed, CallAllowed

LEMMA RequestIsAllowed ==
    ASSUME NEW args, NEW results, NEW op \in DOMAIN args, NEW arg \in args[op]
    PROVE  CallAllowed(Request(op, arg), args, results)
    BY DEF CallAllowed, Request, Steps

LEMMA MountTyped ==
    ASSUME NEW args, NEW results, NEW op \in DOMAIN args, NEW arg \in args[op], Mount(Request(op, arg))
    PROVE  Typed(args, results)
    <1>1. CallsOK
        BY MountEffect
    <1>2. PICK c \in Calls : call[c] = Request(op, arg) /\ \A e \in Calls \ {c} : call[e] = Free
        BY MountEffect
    <1>3. CallAllowed(Request(op, arg), args, results) /\ CallAllowed(Free, args, results)
        BY RequestIsAllowed DEF CallAllowed
    <1> QED
        BY <1>1, <1>2, <1>3 DEF Typed

LEMMA SendTyped ==
    ASSUME NEW args, NEW results, Typed(args, results), NEW c \in Calls,
           NEW op \in DOMAIN args, NEW arg \in args[op], Send(c, op, arg) \/ Then(c, op, arg)
    PROVE  Typed(args, results)'
    <1>1. CallsOK
        BY DEF Typed
    <1>2. CallsOK' /\ call'[c] = Request(op, arg) /\ \A e \in Calls \ {c} : call'[e] = call[e]
        BY <1>1, SendEffect, ThenEffect
    <1> QED
        BY <1>2, OneCallTyped, RequestIsAllowed

LEMMA EndTyped ==
    ASSUME NEW args, NEW results, Typed(args, results), NEW c \in Calls, End(c)
    PROVE  Typed(args, results)'
    <1>1. CallsOK' /\ call'[c] = Free /\ \A e \in Calls \ {c} : call'[e] = call[e]
        BY EndEffect DEF Typed
    <1> QED
        BY <1>1, OneCallTyped DEF CallAllowed

LEMMA AnswerTyped ==
    ASSUME NEW args, NEW results, Typed(args, results), NEW c \in Calls, NEW op, Stands(c, op, "sent"),
           NEW data, op \in DOMAIN args => data \in results[op], Answer(c, data)
    PROVE  Typed(args, results)'
    <1>1. /\ CallsOK' /\ \A e \in Calls \ {c} : call'[e] = call[e]
          /\ call'[c] = [step |-> "served", op |-> call[c].op, arg |-> call[c].arg, data |-> data]
        BY AnswerEffect DEF Typed
    <1>2. op \in DOMAIN args /\ call[c].arg \in args[op] /\ call[c].op = op
        BY ArgsAndData
    <1>3. CallAllowed(call'[c], args, results)
        BY <1>1, <1>2 DEF CallAllowed, Steps
    <1> QED
        BY <1>1, <1>3, OneCallTyped

LEMMA RefuseTyped ==
    ASSUME NEW args, NEW results, Typed(args, results), NEW c \in Calls, NEW op, Stands(c, op, "sent"), Refuse(c)
    PROVE  Typed(args, results)'
    <1>1. /\ CallsOK' /\ \A e \in Calls \ {c} : call'[e] = call[e]
          /\ call'[c] = [step |-> "failed", op |-> call[c].op, arg |-> call[c].arg, data |-> call[c].data]
        BY RefuseEffect DEF Typed
    <1>2. call[c] # Free /\ CallAllowed(call[c], args, results)
        BY DEF Typed, Stands, Free
    <1>3. CallAllowed(call'[c], args, results)
        BY <1>1, <1>2 DEF CallAllowed, Steps
    <1> QED
        BY <1>1, <1>3, OneCallTyped

LEMMA LoseTyped ==
    ASSUME NEW args, NEW results, Typed(args, results), NEW c \in Calls, Lose(c)
    PROVE  Typed(args, results)'
    <1>1. /\ CallsOK' /\ \A e \in Calls \ {c} : call'[e] = call[e]
          /\ call[c].step \in {"sent", "served"}
          /\ call'[c] = [step |-> "failed", op |-> call[c].op, arg |-> call[c].arg, data |-> Nil]
        BY LoseEffect DEF Typed
    <1>2. call[c] # Free /\ CallAllowed(call[c], args, results)
        BY <1>1 DEF Typed, Free
    <1>3. CallAllowed(call'[c], args, results)
        BY <1>1, <1>2 DEF CallAllowed, Steps
    <1> QED
        BY <1>1, <1>3, OneCallTyped

\* A request that has read goes on, with what it read.
LEMMA ReadTyped ==
    ASSUME NEW args, NEW results, Typed(args, results), NEW c \in Calls, NEW op, Stands(c, op, "sent"),
           NEW data \in results[op], call' = [call EXCEPT ![c].data = data]
    PROVE  Typed(args, results)'
    <1>0. CallsOK /\ CallAllowed(call[c], args, results) /\ call[c].op = op /\ call[c].step = "sent" /\ call[c] # Free
        BY DEF Typed, Stands, Free
    <1>1. PICK s, o, a, d : call[c] = [step |-> s, op |-> o, arg |-> a, data |-> d]
        BY <1>0 DEF CallsOK, IsRequest
    <1> DEFINE r == [step |-> s, op |-> o, arg |-> a, data |-> data]
    <1>2. r.step = "sent" /\ r.op = op /\ r.arg = call[c].arg /\ r.data = data /\ IsRequest(r)
        <2>1. s = "sent" /\ o = op /\ a = call[c].arg
            BY <1>0, <1>1
        <2>2. r.step = s /\ r.op = o /\ r.arg = a /\ r.data = data
            OBVIOUS
        <2>3. IsRequest(r)
            BY DEF IsRequest
        <2> QED
            BY <2>1, <2>2, <2>3
    <1>3. [call[c] EXCEPT !.data = data] = r
        BY <1>1
    <1> HIDE DEF r
    <1>4. CallsOK' /\ call'[c] = r /\ \A e \in Calls \ {c} : call'[e] = call[e]
        BY <1>0, <1>2, <1>3, OneCall
    <1>5. CallAllowed(r, args, results)
        BY <1>0, <1>2 DEF CallAllowed
    <1> QED
        BY <1>4, <1>5, OneCallTyped

LEMMA StillTyped ==
    ASSUME NEW args, NEW results, Typed(args, results), UNCHANGED call
    PROVE  Typed(args, results)'
    <1>1. CallsOK'
        BY SameCalls DEF Typed
    <1>2. \A c \in Calls : CallAllowed(call'[c], args, results)
        BY DEF Typed
    <1> QED
        BY <1>1, <1>2 DEF Typed, CallAllowed

(***************************************************************************)
(* Queues of the requests under way                                        *)
(***************************************************************************)
Under(op) == {c \in Calls : Busy(c, op)}

\* Each request of a set is once in the queue, and no other one is.
IsQueueOf(queue, S) ==
    /\ queue \in Seq(Calls) /\ S \subseteq Calls
    /\ \A i \in DOMAIN queue : queue[i] \in S
    /\ \A c \in S : \E i \in DOMAIN queue : queue[i] = c
    /\ \A i, j \in DOMAIN queue : queue[i] = queue[j] => i = j

Newest(queue) == queue[Len(queue)]

LEMMA QueueOfNone == IsQueueOf(<<>>, {})
    BY DEF IsQueueOf

LEMMA QueueOfOne == \A c \in Calls : IsQueueOf(<<c>>, {c}) /\ <<c>> # <<>> /\ Newest(<<c>>) = c
    BY DEF IsQueueOf, Newest

LEMMA NewestIsListed ==
    ASSUME NEW queue, NEW S, IsQueueOf(queue, S), queue # <<>>
    PROVE  Newest(queue) \in S /\ Head(queue) \in S
    BY DEF IsQueueOf, Newest

LEMMA QueueGrows ==
    ASSUME NEW queue, NEW S, IsQueueOf(queue, S), NEW c \in Calls \ S
    PROVE  /\ IsQueueOf(Append(queue, c), S \cup {c})
           /\ Append(queue, c) # <<>> /\ Newest(Append(queue, c)) = c
    <1> DEFINE new == Append(queue, c)
    <1>1. /\ new \in Seq(Calls) /\ Len(new) = Len(queue) + 1 /\ new # <<>> /\ new[Len(queue) + 1] = c
          /\ DOMAIN new = DOMAIN queue \cup {Len(queue) + 1}
          /\ \A i \in DOMAIN queue : new[i] = queue[i]
        BY DEF IsQueueOf
    <1> HIDE DEF new
    <1>2. Newest(new) = c
        BY <1>1 DEF Newest
    <1>3. IsQueueOf(new, S \cup {c})
        <2>1. \A e \in S \cup {c} : \E i \in DOMAIN new : new[i] = e
            BY <1>1 DEF IsQueueOf
        <2> QED
            BY <1>1, <2>1 DEF IsQueueOf
    <1> QED
        BY <1>1, <1>2, <1>3 DEF new

\* A request leaves the queue: what is first or last of the others stays so.
LEMMA QueueShrinks ==
    ASSUME NEW queue, NEW S, IsQueueOf(queue, S), NEW c \in S
    PROVE  /\ IsQueueOf(Without(queue, c), S \ {c}) /\ queue # <<>>
           /\ Without(queue, c) = <<>> => Newest(queue) = c
           /\ Without(queue, c) # <<>> /\ (Newest(queue) # c \/ Head(queue) = c) =>
                  Newest(Without(queue, c)) = Newest(queue)
    <1> DEFINE place == CHOOSE i \in DOMAIN queue : queue[i] = c
    <1> DEFINE new == [i \in 1 .. Len(queue) - 1 |-> IF i < place THEN queue[i] ELSE queue[i + 1]]
    <1>q. queue \in Seq(Calls) /\ DOMAIN queue = 1 .. Len(queue) /\ Len(queue) \in Nat
        BY DEF IsQueueOf
    <1>p. place \in DOMAIN queue /\ queue[place] = c
        BY DEF IsQueueOf
    <1>n. Without(queue, c) = new
        BY DEF Without
    <1>1. /\ Len(queue) \in Nat \ {0} /\ place \in 1 .. Len(queue)
          /\ \A i \in 1 .. Len(queue) : queue[i] \in S /\ queue[i] \in Calls
        BY <1>q, <1>p DEF IsQueueOf
    <1>2. \A i, j \in 1 .. Len(queue) : queue[i] = queue[j] => i = j
        BY <1>q DEF IsQueueOf
    <1>3. \A e \in S : \E i \in 1 .. Len(queue) : queue[i] = e
        BY <1>q DEF IsQueueOf
    <1> HIDE DEF place
    <1>4. new \in Seq(Calls) /\ Len(new) = Len(queue) - 1 /\ DOMAIN new = 1 .. Len(queue) - 1
        BY <1>1
    <1>5. \A i \in 1 .. Len(queue) - 1 : new[i] = IF i < place THEN queue[i] ELSE queue[i + 1]
        OBVIOUS
    <1> HIDE DEF new
    <1>6. \A i \in 1 .. Len(queue) - 1 : new[i] \in S \ {c}
        <2>1. ASSUME NEW i \in 1 .. Len(queue) - 1, i < place PROVE new[i] \in S \ {c}
            BY <1>1, <1>2, <1>5, <1>p, <2>1
        <2>2. ASSUME NEW i \in 1 .. Len(queue) - 1, ~(i < place) PROVE new[i] \in S \ {c}
            <3>1. i + 1 \in 1 .. Len(queue) /\ i + 1 # place /\ new[i] = queue[i + 1]
                BY <1>1, <1>5, <2>2
            <3> QED
                BY <1>1, <1>2, <1>p, <3>1
        <2> QED
            BY <2>1, <2>2
    <1>7. ASSUME NEW e \in S \ {c} PROVE \E i \in 1 .. Len(queue) - 1 : new[i] = e
        <2>1. PICK k \in 1 .. Len(queue) : queue[k] = e
            BY <1>3
        <2>2. k # place
            BY <1>p, <2>1
        <2>3. CASE k < place
            <3>1. k \in 1 .. Len(queue) - 1 /\ new[k] = queue[k]
                BY <1>1, <1>5, <2>3
            <3> QED
                BY <2>1, <3>1
        <2>4. CASE k > place
            <3>1. k - 1 \in 1 .. Len(queue) - 1 /\ ~(k - 1 < place) /\ (k - 1) + 1 = k
                BY <1>1, <2>4
            <3>2. new[k - 1] = queue[k]
                BY <1>5, <3>1
            <3> QED
                BY <2>1, <3>1, <3>2
        <2> QED
            BY <1>1, <2>2, <2>3, <2>4
    <1>8. ASSUME NEW i \in 1 .. Len(queue) - 1, NEW j \in 1 .. Len(queue) - 1, new[i] = new[j] PROVE i = j
        <2> DEFINE at(k) == IF k < place THEN k ELSE k + 1
        <2>1. \A k \in 1 .. Len(queue) - 1 : at(k) \in 1 .. Len(queue) /\ new[k] = queue[at(k)]
            BY <1>1, <1>5
        <2>2. at(i) = at(j)
            BY <1>2, <1>8, <2>1
        <2> QED
            BY <1>1, <2>2
    <1>9. IsQueueOf(new, S \ {c})
        BY <1>4, <1>6, <1>7, <1>8 DEF IsQueueOf
    <1>a. queue # <<>>
        BY <1>1, <1>q
    <1>b. ASSUME new = <<>> PROVE Newest(queue) = c
        <2>1. Len(queue) = 1
            BY <1>1, <1>4, <1>b
        <2> QED
            BY <1>1, <1>p, <2>1 DEF Newest
    <1>c. ASSUME new # <<>>, Newest(queue) # c \/ Head(queue) = c PROVE Newest(new) = Newest(queue)
        <2>1. Len(queue) > 1
            BY <1>1, <1>4, <1>c
        <2>2. place # Len(queue)
            <3>1. Head(queue) = queue[1]
                BY <1>q, <1>a
            <3>2. Head(queue) = c => place = 1
                BY <1>1, <1>2, <1>p, <3>1
            <3> QED
                BY <1>c, <1>p, <2>1, <3>2 DEF Newest
        <2>3. new[Len(queue) - 1] = queue[(Len(queue) - 1) + 1] /\ (Len(queue) - 1) + 1 = Len(queue)
            BY <1>1, <1>5, <2>1, <2>2
        <2> QED
            BY <1>4, <2>3 DEF Newest
    <1> QED
        BY <1>9, <1>a, <1>b, <1>c, <1>n

(***************************************************************************)
(* Lists that are loaded again                                             *)
(*                                                                         *)
(* Nothing is mixed up, and then the list shows what the server has; or    *)
(* the last load under way will bring it, or has it; or a request that     *)
(* changed it was answered, and its handler is about to load it.           *)
(***************************************************************************)
HasFields(r, names) == r = [x \in DOMAIN r |-> r[x]] /\ names \subseteq DOMAIN r

ListPage ==
    /\ CallsOK /\ HasFields(view, {"key", "rows", "loading"})
    /\ HasFields(past, {"loads", "mixed"}) /\ past.mixed \in BOOLEAN
    /\ IsQueueOf(past.loads, Under("list"))

\* Of a page with these requests, history and state: rows, what the server has for
\* the key of the page; changers, the requests that change it.
UpToDate(requests, history, state, rows, changers) ==
    \/ history.mixed
    \/ \E d \in Calls : requests[d].op \in changers /\ requests[d].step = "served"
    \/ history.loads = <<>> /\ state.rows = rows
    \/ /\ history.loads # <<>>
       /\ LET load == requests[Newest(history.loads)] IN
          load.arg = state.key /\ (load.step = "served" => load.data = rows)

LEMMA UpToDateIsCurrent ==
    ASSUME ListPage, NEW rows, NEW changers, UpToDate(call, past, view, rows, changers)
    PROVE  Current(rows)
    <1> SUFFICES ASSUME ~past.mixed, Quiet PROVE view.rows = rows
        BY DEF Current
    <1>1. \A c \in Calls : ~Busy(c, "list") /\ call[c].step # "served"
        BY DEF Quiet, Free, Busy
    <1>2. past.loads = <<>>
        BY <1>1, NewestIsListed DEF ListPage, Under
    <1> QED
        BY <1>1, <1>2 DEF UpToDate

LEMMA MountedIsUpToDate ==
    ASSUME NEW key, MountList(key), HasFields(view, {"key", "rows", "loading"}), view.key = key, NEW rows, NEW changers
    PROVE  ListPage /\ UpToDate(call, past, view, rows, changers)
    <1>1. PICK c \in Calls : call = [d \in Calls |-> IF d = c THEN Request("list", key) ELSE Free] /\ past = [loads |-> <<c>>, mixed |-> FALSE]
        BY DEF MountList
    <1>2. CallsOK /\ call[c] = Request("list", key) /\ \A d \in Calls \ {c} : call[d] = Free
        BY <1>1, FreeIsRequest, RequestIsRequest DEF CallsOK
    <1>3. Under("list") = {c}
        BY <1>2 DEF Under, Busy, Request, Free
    <1>4. IsQueueOf(past.loads, Under("list")) /\ past.loads # <<>> /\ Newest(past.loads) = c
        BY <1>1, <1>3, QueueOfOne
    <1> QED
        BY <1>1, <1>2, <1>4 DEF ListPage, UpToDate, HasFields, Request

\* A load is sent: for the key of the page, or mixed up.
LEMMA LoadIsUpToDate ==
    ASSUME ListPage, NEW c \in Calls, ~Busy(c, "list"), NEW key, CallsOK', call'[c] = Request("list", key),
           \A e \in Calls \ {c} : call'[e] = call[e],
           HasFields(view', {"key", "rows", "loading"}), HasFields(past', {"loads", "mixed"}), past'.mixed \in BOOLEAN,
           past'.loads = Append(past.loads, c), key = view'.key \/ past'.mixed, NEW rows, NEW changers
    PROVE  ListPage' /\ UpToDate(call', past', view', rows, changers)
    <1>0. \A e \in Calls : Busy(e, "list")' <=> e = c \/ Busy(e, "list")
        <2>1. Busy(c, "list")'
            BY DEF Busy, Request
        <2> QED
            <3>1. \A e \in Calls \ {c} : Busy(e, "list")' <=> Busy(e, "list")
                BY DEF Busy
            <3> QED
                BY <2>1, <3>1
    <1>1. c \in Calls \ Under("list") /\ Under("list")' = Under("list") \cup {c}
        <2>1. c \notin Under("list")
            BY DEF Under
        <2>2. \A e \in Calls : e \in Under("list")' <=> e \in Under("list") \cup {c}
            BY <1>0 DEF Under
        <2>3. Under("list")' \subseteq Calls /\ Under("list") \subseteq Calls
            BY DEF Under
        <2> QED
            BY <2>1, <2>2, <2>3
    <1>3. /\ IsQueueOf(Append(past.loads, c), Under("list") \cup {c})
          /\ Append(past.loads, c) # <<>> /\ Newest(Append(past.loads, c)) = c
        BY <1>1, QueueGrows DEF ListPage
    <1>2. IsQueueOf(past'.loads, Under("list")') /\ past'.loads # <<>> /\ Newest(past'.loads) = c
        BY <1>1, <1>3
    <1> QED
        BY <1>2 DEF ListPage, UpToDate, Request

LEMMA LoadListKeeps ==
    ASSUME ListPage, NEW c \in Calls, NEW state, HasFields(state, {"key", "rows", "loading"}), LoadList(c, state),
           NEW rows, NEW changers
    PROVE  /\ ListPage' /\ UpToDate(call', past', view', rows, changers)
           /\ CallsOK' /\ call[c] = Free /\ call'[c] = Request("list", state.key) /\ \A e \in Calls \ {c} : call'[e] = call[e]
           /\ view' = [state EXCEPT !.loading = TRUE] /\ view'.key = state.key /\ view'.rows = state.rows
    <1>1. /\ Send(c, "list", state.key) /\ view' = [state EXCEPT !.loading = TRUE]
          /\ past' = [past EXCEPT !.loads = Append(past.loads, c)]
        BY DEF LoadList
    <1>2. /\ CallsOK' /\ call[c] = Free /\ call'[c] = Request("list", state.key)
          /\ \A e \in Calls \ {c} : call'[e] = call[e]
        BY <1>1, SendEffect DEF ListPage
    <1>3. HasFields(view', {"key", "rows", "loading"}) /\ view'.key = state.key /\ view'.rows = state.rows
        BY <1>1 DEF HasFields
    <1>4. /\ HasFields(past', {"loads", "mixed"}) /\ past'.loads = Append(past.loads, c) /\ past'.mixed \in BOOLEAN
        BY <1>1 DEF HasFields, ListPage
    <1>5. ~Busy(c, "list")
        BY <1>2 DEF Busy, Free
    <1>6. ListPage' /\ UpToDate(call', past', view', rows, changers)
        BY <1>2, <1>3, <1>4, <1>5, LoadIsUpToDate
    <1> QED
        BY <1>1, <1>2, <1>3, <1>6

LEMMA ReloadKeeps ==
    ASSUME ListPage, NEW c \in Calls, call[c].op # "list", NEW key, NEW state, HasFields(state, {"key", "rows", "loading"}),
           Reload(c, key, state), NEW rows, NEW changers
    PROVE  /\ ListPage' /\ UpToDate(call', past', view', rows, changers)
           /\ CallsOK' /\ call'[c] = Request("list", key) /\ \A e \in Calls \ {c} : call'[e] = call[e]
           /\ view' = [state EXCEPT !.loading = TRUE] /\ view'.key = state.key /\ view'.rows = state.rows
    <1>1. /\ Then(c, "list", key) /\ view' = [state EXCEPT !.loading = TRUE]
          /\ past' = [past EXCEPT !.loads = Append(past.loads, c), !.mixed = past.mixed \/ key # state.key]
        BY DEF Reload
    <1>2. /\ CallsOK' /\ call'[c] = Request("list", key) /\ \A e \in Calls \ {c} : call'[e] = call[e]
        BY <1>1, ThenEffect DEF ListPage
    <1>3. HasFields(view', {"key", "rows", "loading"}) /\ view'.key = state.key /\ view'.rows = state.rows
        BY <1>1 DEF HasFields
    <1>4. /\ HasFields(past', {"loads", "mixed"}) /\ past'.loads = Append(past.loads, c) /\ past'.mixed \in BOOLEAN
          /\ past'.mixed = (past.mixed \/ key # state.key)
        BY <1>1 DEF HasFields, ListPage
    <1>5. ~Busy(c, "list")
        BY DEF Busy
    <1>7. key = view'.key \/ past'.mixed
        BY <1>3, <1>4
    <1>6. ListPage' /\ UpToDate(call', past', view', rows, changers)
        BY <1>2, <1>3, <1>4, <1>5, <1>7, LoadIsUpToDate
    <1> QED
        BY <1>1, <1>2, <1>3, <1>6

\* A load is answered: with what the server has for the key it was sent with.
LEMMA AnswerIsUpToDate ==
    ASSUME ListPage, NEW c \in Calls, Stands(c, "list", "sent"), NEW data, Answer(c, data),
           view'.key = view.key, view'.rows = view.rows, HasFields(view', {"key", "rows", "loading"}),
           HasFields(past', {"loads", "mixed"}), past'.mixed \in BOOLEAN,
           past'.loads = past.loads, past.mixed => past'.mixed, NEW rows, NEW changers,
           past'.mixed \/ (call[c].arg = view.key => data = rows),
           "list" \notin changers, UpToDate(call, past, view, rows, changers)
    PROVE  /\ ListPage' /\ UpToDate(call', past', view', rows, changers)
           /\ CallsOK' /\ \A e \in Calls \ {c} : call'[e] = call[e]
           /\ call'[c] = [step |-> "served", op |-> "list", arg |-> call[c].arg, data |-> data]
    <1>1. /\ CallsOK' /\ \A e \in Calls \ {c} : call'[e] = call[e]
          /\ call'[c] = [step |-> "served", op |-> "list", arg |-> call[c].arg, data |-> data]
        BY AnswerEffect DEF ListPage, Stands
    <1>2. \A e \in Calls : Busy(e, "list")' <=> Busy(e, "list")
        BY <1>1 DEF Busy, Stands
    <1>3. Under("list")' = Under("list")
        BY <1>2 DEF Under
    <1>4. ListPage'
        BY <1>1, <1>3 DEF ListPage
    <1>5. ASSUME ~past'.mixed, NEW d \in Calls, call[d].op \in changers, call[d].step = "served"
          PROVE  call'[d] = call[d]
        BY <1>1, <1>5 DEF Stands
    <1>6. CASE past.loads # <<>>
        <2>1. Newest(past.loads) \in Calls
            BY <1>6, NewestIsListed DEF ListPage, Under
        <2> QED
            BY <1>1, <1>4, <1>5, <1>6, <2>1 DEF UpToDate
    <1> QED
        BY <1>1, <1>4, <1>5, <1>6 DEF UpToDate

LEMMA AnswerListKeeps ==
    ASSUME ListPage, NEW c \in Calls, NEW data, AnswerList(c, data), NEW rows, NEW changers,
           call[c].arg = view.key => data = rows, "list" \notin changers, UpToDate(call, past, view, rows, changers)
    PROVE  /\ ListPage' /\ UpToDate(call', past', view', rows, changers)
           /\ CallsOK' /\ \A e \in Calls \ {c} : call'[e] = call[e]
           /\ call'[c] = [step |-> "served", op |-> "list", arg |-> call[c].arg, data |-> data]
    <1>1. Stands(c, "list", "sent") /\ Answer(c, data) /\ UNCHANGED <<view, past>>
        BY DEF AnswerList, Keep
    <1> QED
        BY <1>1, AnswerIsUpToDate DEF ListPage

LEMMA AnswerPartsKeeps ==
    ASSUME ListPage, NEW c \in Calls, NEW rows, rows = [k \in DOMAIN rows |-> rows[k]], AnswerParts(c, rows),
           NEW changers, "list" \notin changers, UpToDate(call, past, view, rows, changers)
    PROVE  ListPage' /\ UpToDate(call', past', view', rows, changers)
    <1>1. PICK part \in SUBSET DOMAIN rows :
              /\ Stands(c, "list", "sent") /\ Answer(c, [k \in part |-> rows[k]]) /\ UNCHANGED view
              /\ past' = [past EXCEPT !.mixed = past.mixed \/ part # DOMAIN rows]
        BY DEF AnswerParts
    <1> DEFINE data == [k \in part |-> rows[k]]
    <1>2. part = DOMAIN rows => data = rows
        OBVIOUS
    <1> HIDE DEF data
    <1>3. /\ HasFields(past', {"loads", "mixed"}) /\ past'.mixed \in BOOLEAN /\ past'.loads = past.loads
          /\ past'.mixed = (past.mixed \/ part # DOMAIN rows)
        BY <1>1 DEF HasFields, ListPage
    <1>4. /\ HasFields(view', {"key", "rows", "loading"}) /\ view'.key = view.key /\ view'.rows = view.rows
          /\ Stands(c, "list", "sent")
        BY <1>1 DEF ListPage
    <1>5. Answer(c, data)
        BY <1>1 DEF data
    <1>6. past'.mixed \/ (call[c].arg = view.key => data = rows)
        BY <1>2, <1>3
    <1>7. past.mixed => past'.mixed
        BY <1>3
    <1> QED
        BY <1>3, <1>4, <1>5, <1>6, <1>7, AnswerIsUpToDate

\* An answered load is shown; an older load that is answered last is mixed up.
LEMMA SettleListKeeps ==
    ASSUME ListPage, NEW c \in Calls, Stands(c, "list", "served"), SettleList(c),
           HasFields(view', {"key", "rows", "loading"}), view'.key = view.key, NEW rows, NEW changers,
           call[c].data = rows => view'.rows = rows,
           "list" \notin changers, UpToDate(call, past, view, rows, changers)
    PROVE  /\ ListPage' /\ UpToDate(call', past', view', rows, changers)
           /\ CallsOK' /\ call'[c] = Free /\ \A e \in Calls \ {c} : call'[e] = call[e]
    <1>1. /\ CallsOK' /\ call'[c] = Free /\ \A e \in Calls \ {c} : call'[e] = call[e]
          /\ call[c].op = "list" /\ call[c].step = "served"
        BY EndEffect DEF ListPage, SettleList, Stands
    <1>2. /\ HasFields(past', {"loads", "mixed"}) /\ past'.loads = Without(past.loads, c) /\ past'.mixed \in BOOLEAN
          /\ past'.mixed = (past.mixed \/ Head(past.loads) # c)
        BY DEF HasFields, ListPage, SettleList
    <1>3. c \in Under("list") /\ Under("list")' = Under("list") \ {c}
        <2>1. Busy(c, "list") /\ ~Busy(c, "list")'
            BY <1>1 DEF Busy, Free
        <2>2. \A e \in Calls \ {c} : Busy(e, "list")' <=> Busy(e, "list")
            BY <1>1 DEF Busy
        <2> QED
            BY <2>1, <2>2 DEF Under
    <1>4. /\ IsQueueOf(Without(past.loads, c), Under("list") \ {c}) /\ past.loads # <<>>
          /\ Without(past.loads, c) = <<>> => Newest(past.loads) = c
          /\ Without(past.loads, c) # <<>> /\ (Newest(past.loads) # c \/ Head(past.loads) = c) =>
                 Newest(Without(past.loads, c)) = Newest(past.loads)
        BY <1>3, QueueShrinks DEF ListPage
    <1>5. ListPage'
        BY <1>1, <1>2, <1>3, <1>4 DEF ListPage
    <1>6. ASSUME ~past'.mixed, NEW d \in Calls, call[d].op \in changers, call[d].step = "served"
          PROVE  call'[d] = call[d]
        BY <1>1, <1>6
    <1>7. ASSUME ~past'.mixed, past'.loads = <<>>, call[c].data = rows PROVE view'.rows = rows
        BY <1>7
    <1>8. ASSUME ~past'.mixed, past'.loads # <<>>
          PROVE  Newest(past'.loads) = Newest(past.loads) /\ Newest(past'.loads) \in Calls \ {c}
        <2>1. Newest(past'.loads) \in Under("list") \ {c}
            BY <1>2, <1>4, <1>8, NewestIsListed
        <2> QED
            BY <1>2, <1>4, <1>8, <2>1 DEF Under
    <1>9. ASSUME ~past'.mixed PROVE UpToDate(call', past', view', rows, changers)
        <2>1. ~past.mixed
            BY <1>2, <1>9
        <2>2. CASE \E d \in Calls : call[d].op \in changers /\ call[d].step = "served"
            BY <1>6, <1>9, <2>2 DEF UpToDate
        <2>3. ASSUME call[Newest(past.loads)].arg = view.key,
                     call[Newest(past.loads)].step = "served" => call[Newest(past.loads)].data = rows
              PROVE  UpToDate(call', past', view', rows, changers)
            <3>1. CASE past'.loads = <<>>
                <4>1. Newest(past.loads) = c
                    BY <1>2, <1>4, <3>1
                <4> QED
                    BY <1>1, <1>7, <1>9, <2>3, <3>1, <4>1 DEF UpToDate
            <3>2. CASE past'.loads # <<>>
                BY <1>1, <1>8, <1>9, <2>3, <3>2 DEF UpToDate
            <3> QED
                BY <3>1, <3>2
        <2> QED
            BY <1>4, <2>1, <2>2, <2>3 DEF UpToDate
    <1>a. past'.mixed => UpToDate(call', past', view', rows, changers)
        BY DEF UpToDate
    <1> QED
        BY <1>1, <1>5, <1>9, <1>a

LEMMA ReceiveRowsKeeps ==
    ASSUME ListPage, NEW c \in Calls, NEW shown, ReceiveRows(c, shown), NEW rows, NEW changers,
           call[c].data = rows => shown = rows, "list" \notin changers, UpToDate(call, past, view, rows, changers)
    PROVE  /\ ListPage' /\ UpToDate(call', past', view', rows, changers)
           /\ CallsOK' /\ call'[c] = Free /\ \A e \in Calls \ {c} : call'[e] = call[e]
           /\ view' = [view EXCEPT !.rows = shown, !.loading = FALSE]
    <1>1. /\ Stands(c, "list", "served") /\ SettleList(c)
          /\ view' = [view EXCEPT !.rows = shown, !.loading = FALSE]
        BY DEF ReceiveRows
    <1>2. HasFields(view', {"key", "rows", "loading"}) /\ view'.key = view.key /\ view'.rows = shown
        BY <1>1 DEF HasFields, ListPage
    <1> QED
        BY <1>1, <1>2, SettleListKeeps

LEMMA FailListKeeps ==
    ASSUME ListPage, NEW c \in Calls, NEW shown, FailList(c, shown), NEW rows, NEW changers
    PROVE  /\ ListPage' /\ UpToDate(call', past', view', rows, changers)
           /\ CallsOK' /\ call'[c] = Free /\ \A e \in Calls \ {c} : call'[e] = call[e]
           /\ view' = [view EXCEPT !.rows = shown, !.loading = FALSE]
    <1>1. /\ Stands(c, "list", "failed") /\ End(c)
          /\ view' = [view EXCEPT !.rows = shown, !.loading = FALSE]
          /\ past' = [past EXCEPT !.loads = Without(past.loads, c), !.mixed = TRUE]
        BY DEF FailList
    <1>2. HasFields(view', {"key", "rows", "loading"})
        BY <1>1 DEF HasFields, ListPage
    <1>3. HasFields(past', {"loads", "mixed"}) /\ past'.loads = Without(past.loads, c) /\ past'.mixed = TRUE
        BY <1>1 DEF HasFields, ListPage
    <1>4. /\ CallsOK' /\ call'[c] = Free /\ \A e \in Calls \ {c} : call'[e] = call[e]
          /\ call[c].op = "list" /\ call[c].step = "failed"
        BY <1>1, EndEffect DEF ListPage, Stands
    <1>5. c \in Under("list") /\ Under("list")' = Under("list") \ {c}
        <2>1. Busy(c, "list") /\ ~Busy(c, "list")'
            BY <1>4 DEF Busy, Free
        <2>2. \A e \in Calls \ {c} : Busy(e, "list")' <=> Busy(e, "list")
            BY <1>4 DEF Busy
        <2> QED
            BY <2>1, <2>2 DEF Under
    <1>6. IsQueueOf(Without(past.loads, c), Under("list") \ {c})
        BY <1>5, QueueShrinks DEF ListPage
    <1>7. ListPage'
        BY <1>2, <1>3, <1>4, <1>5, <1>6 DEF ListPage
    <1> QED
        BY <1>1, <1>3, <1>4, <1>7 DEF UpToDate

LEMMA LoseInListKeeps ==
    ASSUME ListPage, NEW c \in Calls, LoseInList(c), NEW rows, NEW changers
    PROVE  /\ ListPage' /\ UpToDate(call', past', view', rows, changers) /\ UNCHANGED <<view, server>>
           /\ CallsOK' /\ \A e \in Calls \ {c} : call'[e] = call[e]
           /\ call[c].step \in {"sent", "served"}
           /\ call'[c] = [step |-> "failed", op |-> call[c].op, arg |-> call[c].arg, data |-> Nil]
    <1>1. Lose(c) /\ past' = [past EXCEPT !.mixed = TRUE] /\ UNCHANGED <<view, server>>
        BY DEF LoseInList
    <1>2. /\ CallsOK' /\ \A e \in Calls \ {c} : call'[e] = call[e]
          /\ call[c].step \in {"sent", "served"}
          /\ call'[c] = [step |-> "failed", op |-> call[c].op, arg |-> call[c].arg, data |-> Nil]
        BY <1>1, LoseEffect DEF ListPage
    <1>3. HasFields(past', {"loads", "mixed"}) /\ past'.loads = past.loads /\ past'.mixed = TRUE
        BY <1>1 DEF HasFields, ListPage
    <1>4. \A e \in Calls : Busy(e, "list")' <=> Busy(e, "list")
        BY <1>2 DEF Busy
    <1>5. Under("list")' = Under("list")
        BY <1>4 DEF Under
    <1>6. ListPage'
        BY <1>1, <1>2, <1>3, <1>5 DEF ListPage
    <1> QED
        BY <1>1, <1>2, <1>3, <1>6 DEF UpToDate

\* A request that changes the rows is answered: its handler is about to load them.
LEMMA ChangeIsUpToDate ==
    ASSUME ListPage, NEW c \in Calls, NEW changers, call[c].op \in changers, "list" \notin changers, NEW data, Answer(c, data),
           UNCHANGED <<view, past>>, NEW rows
    PROVE  /\ ListPage' /\ UpToDate(call', past', view', rows, changers)
           /\ CallsOK' /\ \A e \in Calls \ {c} : call'[e] = call[e]
           /\ call'[c] = [step |-> "served", op |-> call[c].op, arg |-> call[c].arg, data |-> data]
    <1>1. /\ CallsOK' /\ \A e \in Calls \ {c} : call'[e] = call[e]
          /\ call'[c] = [step |-> "served", op |-> call[c].op, arg |-> call[c].arg, data |-> data]
        BY AnswerEffect DEF ListPage
    <1>2. \A e \in Calls : Busy(e, "list")' <=> Busy(e, "list")
        BY <1>1 DEF Busy
    <1>3. Under("list")' = Under("list")
        BY <1>2 DEF Under
    <1>4. ListPage'
        BY <1>1, <1>3 DEF ListPage
    <1> QED
        BY <1>1, <1>4 DEF UpToDate

\* Other steps: they leave the loads, the answered changes and what is shown.
LEMMA ListStays ==
    ASSUME ListPage, CallsOK', NEW changers,
           \A e \in Calls : Busy(e, "list")' <=> Busy(e, "list"),
           \A e \in Calls : Busy(e, "list") => call'[e] = call[e],
           \A e \in Calls : call[e].op \in changers /\ call[e].step = "served" => call'[e] = call[e],
           HasFields(view', {"key", "rows", "loading"}), view'.key = view.key, view'.rows = view.rows,
           HasFields(past', {"loads", "mixed"}), past'.loads = past.loads, past'.mixed \in BOOLEAN, past.mixed => past'.mixed,
           NEW rows, UpToDate(call, past, view, rows, changers)
    PROVE  ListPage' /\ UpToDate(call', past', view', rows, changers)
    <1>1. Under("list")' = Under("list")
        BY DEF Under
    <1>2. ListPage'
        BY <1>1 DEF ListPage
    <1>3. past.loads # <<>> => call'[Newest(past.loads)] = call[Newest(past.loads)]
        <2>1. past.loads # <<>> => Newest(past.loads) \in Under("list")
            BY NewestIsListed DEF ListPage
        <2> QED
            BY <2>1 DEF Under
    <1> QED
        BY <1>2, <1>3 DEF UpToDate

LEMMA ShowKeepsTheList ==
    ASSUME ListPage, NEW state, Show(state), HasFields(state, {"key", "rows", "loading"}),
           state.key = view.key, state.rows = view.rows,
           NEW rows, NEW changers, UpToDate(call, past, view, rows, changers)
    PROVE  ListPage' /\ UpToDate(call', past', view', rows, changers)
    <1>1. view' = state /\ UNCHANGED <<call, past>>
        BY DEF Show
    <1>2. CallsOK' /\ \A e \in Calls : Busy(e, "list")' <=> Busy(e, "list")
        BY <1>1 DEF ListPage, CallsOK, IsRequest, Busy
    <1> QED
        BY <1>1, <1>2, ListStays DEF ListPage

\* A handler of the page sends a request that changes the rows.
LEMMA SendKeepsTheList ==
    ASSUME ListPage, NEW c \in Calls, NEW op, op # "list", NEW arg, Send(c, op, arg),
           HasFields(view', {"key", "rows", "loading"}), view'.key = view.key, view'.rows = view.rows,
           HasFields(past', {"loads", "mixed"}), past'.loads = past.loads, past'.mixed \in BOOLEAN, past.mixed => past'.mixed,
           NEW rows, NEW changers, UpToDate(call, past, view, rows, changers)
    PROVE  /\ ListPage' /\ UpToDate(call', past', view', rows, changers)
           /\ CallsOK' /\ call[c] = Free /\ call'[c] = Request(op, arg) /\ \A e \in Calls \ {c} : call'[e] = call[e]
    <1>1. CallsOK' /\ call[c] = Free /\ call'[c] = Request(op, arg) /\ \A e \in Calls \ {c} : call'[e] = call[e]
        BY SendEffect DEF ListPage
    <1>2. /\ ~Busy(c, "list") /\ ~Busy(c, "list")' /\ call[c].step # "served"
          /\ \A e \in Calls \ {c} : Busy(e, "list")' <=> Busy(e, "list")
        BY <1>1 DEF Busy, Free, Request
    <1>3. \A e \in Calls : Busy(e, "list")' <=> Busy(e, "list")
        BY <1>2
    <1>4. \A e \in Calls : Busy(e, "list") => call'[e] = call[e]
        BY <1>1, <1>2
    <1>5. \A e \in Calls : call[e].op \in changers /\ call[e].step = "served" => call'[e] = call[e]
        BY <1>1, <1>2
    <1> QED
        BY <1>1, <1>3, <1>4, <1>5, ListStays

\* A request of another kind is refused, or ends in a way that leaves the rows.
LEMMA OtherKeepsTheList ==
    ASSUME ListPage, NEW c \in Calls, CallsOK', \A e \in Calls \ {c} : call'[e] = call[e],
           ~Busy(c, "list"), ~Busy(c, "list")', NEW changers, call[c].op \in changers => call[c].step # "served",
           HasFields(view', {"key", "rows", "loading"}), view'.key = view.key, view'.rows = view.rows,
           HasFields(past', {"loads", "mixed"}), past'.loads = past.loads, past'.mixed \in BOOLEAN, past.mixed => past'.mixed,
           NEW rows, UpToDate(call, past, view, rows, changers)
    PROVE  ListPage' /\ UpToDate(call', past', view', rows, changers)
    <1>1. \A e \in Calls \ {c} : Busy(e, "list")' <=> Busy(e, "list")
        BY DEF Busy
    <1>2. \A e \in Calls : Busy(e, "list")' <=> Busy(e, "list")
        BY <1>1
    <1>3. \A e \in Calls : Busy(e, "list") => call'[e] = call[e]
        OBVIOUS
    <1>4. \A e \in Calls : call[e].op \in changers /\ call[e].step = "served" => call'[e] = call[e]
        OBVIOUS
    <1> QED
        BY <1>2, <1>3, <1>4, ListStays

LEMMA FailChangeKeeps ==
    ASSUME ListPage, NEW c \in Calls, NEW op, op # "list", NEW state, FailChange(c, op, state),
           HasFields(state, {"key", "rows", "loading"}), state.key = view.key, state.rows = view.rows,
           NEW rows, NEW changers, UpToDate(call, past, view, rows, changers)
    PROVE  /\ ListPage' /\ UpToDate(call', past', view', rows, changers) /\ view' = state /\ UNCHANGED <<server, past>>
           /\ CallsOK' /\ call'[c] = Free /\ \A e \in Calls \ {c} : call'[e] = call[e]
    <1>1. /\ call[c].op = op /\ call[c].step = "failed" /\ End(c) /\ view' = state /\ UNCHANGED <<server, past>>
        BY DEF FailChange, Stands
    <1>2. CallsOK' /\ call'[c] = Free /\ \A e \in Calls \ {c} : call'[e] = call[e]
        BY <1>1, EndEffect DEF ListPage
    <1>3. ~Busy(c, "list") /\ ~Busy(c, "list")'
        BY <1>1, <1>2 DEF Busy, Free
    <1>4. ListPage' /\ UpToDate(call', past', view', rows, changers)
        BY <1>1, <1>2, <1>3, OtherKeepsTheList DEF ListPage
    <1> QED
        BY <1>1, <1>2, <1>4

LEMMA RefuseKeepsTheList ==
    ASSUME ListPage, NEW c \in Calls, NEW op, op # "list", Stands(c, op, "sent"), Refuse(c), UNCHANGED <<view, past>>,
           NEW rows, NEW changers, UpToDate(call, past, view, rows, changers)
    PROVE  /\ ListPage' /\ UpToDate(call', past', view', rows, changers)
           /\ CallsOK' /\ \A e \in Calls \ {c} : call'[e] = call[e]
           /\ call'[c] = [step |-> "failed", op |-> op, arg |-> call[c].arg, data |-> call[c].data]
    <1>1. /\ CallsOK' /\ \A e \in Calls \ {c} : call'[e] = call[e]
          /\ call[c].op = op /\ call[c].step = "sent"
          /\ call'[c] = [step |-> "failed", op |-> op, arg |-> call[c].arg, data |-> call[c].data]
        BY RefuseEffect DEF ListPage, Stands
    <1>2. ~Busy(c, "list") /\ ~Busy(c, "list")'
        BY <1>1 DEF Busy
    <1>3. ListPage' /\ UpToDate(call', past', view', rows, changers)
        BY <1>1, <1>2, OtherKeepsTheList DEF ListPage
    <1> QED
        BY <1>1, <1>3

\* The page stays as it is.
LEMMA NothingChangesTheList ==
    ASSUME ListPage, UNCHANGED <<call, past, view>>, NEW rows, NEW changers, UpToDate(call, past, view, rows, changers)
    PROVE  ListPage' /\ UpToDate(call', past', view', rows, changers)
    <1>1. CallsOK' /\ \A e \in Calls : Busy(e, "list")' <=> Busy(e, "list")
        BY DEF ListPage, CallsOK, IsRequest, Busy
    <1> QED
        BY <1>1, ListStays DEF ListPage

\* The lists that were answered are shown, and the others stay.
LEMMA ReceivePartsKeeps ==
    ASSUME ListPage, NEW c \in Calls, ReceiveParts(c), NEW rows, rows = [k \in DOMAIN rows |-> rows[k]],
           DOMAIN view.rows = DOMAIN rows, NEW changers, "list" \notin changers, UpToDate(call, past, view, rows, changers)
    PROVE  /\ ListPage' /\ UpToDate(call', past', view', rows, changers)
           /\ view'.key = view.key /\ DOMAIN view'.rows = DOMAIN rows /\ UNCHANGED server
    <1> DEFINE data == call[c].data
    <1> DEFINE shown == [k \in DOMAIN view.rows |-> IF k \in DOMAIN data THEN data[k] ELSE view.rows[k]]
    <1>1. ReceiveRows(c, shown) /\ UNCHANGED server
        BY DEF ReceiveParts, ReceiveRows, SettleList
    <1>2. (data = rows => shown = rows) /\ DOMAIN shown = DOMAIN rows
        OBVIOUS
    <1> HIDE DEF shown
    <1>3. /\ ListPage' /\ UpToDate(call', past', view', rows, changers)
          /\ view' = [view EXCEPT !.rows = shown, !.loading = FALSE]
        BY <1>1, <1>2, ReceiveRowsKeeps
    <1>4. view'.rows = shown /\ view'.key = view.key
        BY <1>3 DEF ListPage, HasFields
    <1> QED
        BY <1>1, <1>2, <1>3, <1>4

\* What every list page does with its loads, and with changes that failed.
Loading(c, data) ==
    \/ AnswerList(c, data) \/ ReceiveList(c) \/ LoseInList(c)
    \/ \E shown : FailList(c, shown)
    \/ \E op : op # "list" /\ FailChange(c, op, view)

LEMMA LoadingKeepsTheList ==
    ASSUME ListPage, NEW c \in Calls, NEW data, Loading(c, data),
           NEW rows, NEW changers, "list" \notin changers, UpToDate(call, past, view, rows, changers),
           call[c].arg = view.key => data = rows
    PROVE  ListPage' /\ UpToDate(call', past', view', rows, changers) /\ view'.key = view.key /\ UNCHANGED server
    <1>1. HasFields(view, {"key", "rows", "loading"})
        BY DEF ListPage
    <1>2. CASE AnswerList(c, data)
        BY <1>2, AnswerListKeeps DEF AnswerList, Keep
    <1>3. CASE ReceiveList(c)
        <2>1. /\ ListPage' /\ UpToDate(call', past', view', rows, changers)
              /\ view' = [view EXCEPT !.rows = call[c].data, !.loading = FALSE]
            BY <1>3, ReceiveRowsKeeps DEF ReceiveList
        <2> QED
            BY <1>1, <1>3, <2>1 DEF HasFields, ReceiveList, ReceiveRows, SettleList
    <1>4. ASSUME NEW shown, FailList(c, shown)
          PROVE  ListPage' /\ UpToDate(call', past', view', rows, changers) /\ view'.key = view.key /\ UNCHANGED server
        <2>1. /\ ListPage' /\ UpToDate(call', past', view', rows, changers)
              /\ view' = [view EXCEPT !.rows = shown, !.loading = FALSE]
            BY <1>4, FailListKeeps
        <2> QED
            BY <1>1, <1>4, <2>1 DEF HasFields, FailList
    <1>5. ASSUME NEW op, op # "list", FailChange(c, op, view)
          PROVE  ListPage' /\ UpToDate(call', past', view', rows, changers) /\ view'.key = view.key /\ UNCHANGED server
        BY <1>1, <1>5, FailChangeKeeps
    <1>6. CASE LoseInList(c)
        BY <1>6, LoseInListKeeps
    <1> QED
        BY <1>2, <1>3, <1>4, <1>5, <1>6 DEF Loading

(***************************************************************************)
(* The types of a list                                                     *)
(***************************************************************************)
LEMMA WithoutIsAQueue ==
    ASSUME NEW queue \in Seq(Calls), NEW c
    PROVE  Without(queue, c) \in Seq(Calls)
    <1> DEFINE place == CHOOSE i \in DOMAIN queue : queue[i] = c
    <1> HIDE DEF place
    <1> DEFINE new == [i \in 1 .. Len(queue) - 1 |-> IF i < place THEN queue[i] ELSE queue[i + 1]]
    <1>1. Len(queue) \in Nat /\ \A i \in 1 .. Len(queue) : queue[i] \in Calls
        OBVIOUS
    <1>2. \A i \in 1 .. Len(queue) - 1 : (IF i < place THEN queue[i] ELSE queue[i + 1]) \in Calls
        BY <1>1
    <1>3. CASE queue = <<>>
        <2>1. 1 .. Len(queue) - 1 = 1 .. 0
            BY <1>3
        <2>2. new \in [1 .. 0 -> Calls]
            BY <1>2, <2>1
        <2> QED
            BY <2>2 DEF Without, place
    <1>4. CASE queue # <<>>
        <2>1. Len(queue) - 1 \in Nat /\ new \in [1 .. Len(queue) - 1 -> Calls]
            BY <1>1, <1>2, <1>4
        <2> QED
            BY <2>1 DEF Without, place
    <1> QED
        BY <1>3, <1>4

ListTyped(args, results) == Typed(args, results) /\ past \in ListPast

\* What a step of the list writes of its history.
LEMMA HistoryIsTyped ==
    ASSUME past \in ListPast, NEW c \in Calls
    PROVE  /\ past.mixed \in BOOLEAN
           /\ \A m \in BOOLEAN : /\ [past EXCEPT !.mixed = m] \in ListPast
                                 /\ [past EXCEPT !.loads = Append(past.loads, c), !.mixed = m] \in ListPast
                                 /\ [past EXCEPT !.loads = Without(past.loads, c), !.mixed = m] \in ListPast
           /\ [past EXCEPT !.loads = Append(past.loads, c)] \in ListPast
    <1>1. /\ past = [loads |-> past.loads, mixed |-> past.mixed] /\ past.loads \in Seq(Calls) /\ past.mixed \in BOOLEAN
        BY DEF ListPast
    <1>2. Append(past.loads, c) \in Seq(Calls) /\ Without(past.loads, c) \in Seq(Calls)
        BY <1>1, WithoutIsAQueue
    <1>3. \A l \in Seq(Calls), m \in BOOLEAN : [past EXCEPT !.loads = l, !.mixed = m] \in ListPast
        BY <1>1 DEF ListPast
    <1>4. \A l \in Seq(Calls) : [past EXCEPT !.loads = l] \in ListPast
        BY <1>1 DEF ListPast
    <1>5. \A m \in BOOLEAN : [past EXCEPT !.mixed = m] \in ListPast
        BY <1>1 DEF ListPast
    <1> QED
        BY <1>1, <1>2, <1>3, <1>4, <1>5

LEMMA MountListTyped ==
    ASSUME NEW args, NEW results, "list" \in DOMAIN args, NEW key \in args["list"], MountList(key)
    PROVE  ListTyped(args, results)
    <1>1. PICK c \in Calls : call = [d \in Calls |-> IF d = c THEN Request("list", key) ELSE Free] /\ past = [loads |-> <<c>>, mixed |-> FALSE]
        BY DEF MountList
    <1>2. Mount(Request("list", key))
        BY <1>1 DEF Mount
    <1>3. past \in ListPast
        BY <1>1 DEF ListPast
    <1> QED
        BY <1>2, <1>3, MountTyped DEF ListTyped

LEMMA LoadTyped ==
    ASSUME NEW args, NEW results, ListTyped(args, results), NEW c \in Calls, "list" \in DOMAIN args,
           NEW key \in args["list"], NEW state,
           (LoadList(c, state) /\ key = state.key) \/ Reload(c, key, state)
    PROVE  ListTyped(args, results)'
    <1>1. Send(c, "list", key) \/ Then(c, "list", key)
        BY DEF LoadList, Reload
    <1>2. past' \in ListPast
        <2>1. CASE LoadList(c, state)
            BY <2>1, HistoryIsTyped DEF LoadList, ListTyped
        <2>2. CASE Reload(c, key, state)
            <3>1. past' = [past EXCEPT !.loads = Append(past.loads, c), !.mixed = past.mixed \/ key # state.key]
                BY <2>2 DEF Reload
            <3>2. (past.mixed \/ key # state.key) \in BOOLEAN
                OBVIOUS
            <3> QED
                BY <3>1, <3>2, HistoryIsTyped DEF ListTyped
        <2> QED
            BY <2>1, <2>2
    <1>3. Typed(args, results)'
        BY <1>1, SendTyped DEF ListTyped
    <1> QED
        BY <1>2, <1>3 DEF ListTyped, ListPast

LEMMA AnswerListTyped ==
    ASSUME NEW args, NEW results, ListTyped(args, results), NEW c \in Calls, NEW rows \in results["list"], AnswerList(c, rows)
    PROVE  ListTyped(args, results)'
    BY AnswerTyped DEF AnswerList, Keep, ListTyped, ListPast

LEMMA PartIsOf ==
    ASSUME NEW rows, NEW r \in rows, NEW part \in SUBSET DOMAIN r
    PROVE  [k \in part |-> r[k]] \in PartsOf(rows)
    <1>1. [k \in part |-> r[k]] \in {[k \in p |-> r[k]] : p \in SUBSET DOMAIN r}
        OBVIOUS
    <1> QED
        BY <1>1 DEF PartsOf

LEMMA AnswerPartsTyped ==
    ASSUME NEW args, NEW results, ListTyped(args, results), NEW c \in Calls, NEW lists,
           \A part \in SUBSET DOMAIN lists : [k \in part |-> lists[k]] \in results["list"], AnswerParts(c, lists)
    PROVE  ListTyped(args, results)'
    <1>1. PICK part \in SUBSET DOMAIN lists :
              Answer(c, [k \in part |-> lists[k]]) /\ past' = [past EXCEPT !.mixed = past.mixed \/ part # DOMAIN lists]
        BY DEF AnswerParts
    <1>2. Typed(args, results)'
        BY <1>1, AnswerTyped DEF AnswerParts, ListTyped
    <1>3. past' \in ListPast
        <2>1. (past.mixed \/ part # DOMAIN lists) \in BOOLEAN
            OBVIOUS
        <2> QED
            BY <1>1, <2>1, HistoryIsTyped DEF ListTyped
    <1> QED
        BY <1>2, <1>3 DEF ListTyped, ListPast

\* A load is settled, or a request of the page.
LEMMA SettleTyped ==
    ASSUME NEW args, NEW results, ListTyped(args, results), NEW c \in Calls, NEW rows, NEW op, NEW state,
           ReceiveRows(c, rows) \/ FailList(c, rows) \/ FailChange(c, op, state) \/ (End(c) /\ UNCHANGED past)
    PROVE  ListTyped(args, results)'
    <1>1. End(c)
        BY DEF ReceiveRows, SettleList, FailList, FailChange
    <1>2. past' \in ListPast
        <2>1. CASE ReceiveRows(c, rows)
            <3>1. past' = [past EXCEPT !.loads = Without(past.loads, c), !.mixed = past.mixed \/ Head(past.loads) # c]
                BY <2>1 DEF ReceiveRows, SettleList
            <3>2. (past.mixed \/ Head(past.loads) # c) \in BOOLEAN
                OBVIOUS
            <3> QED
                BY <3>1, <3>2, HistoryIsTyped DEF ListTyped
        <2>2. CASE FailList(c, rows)
            BY <2>2, HistoryIsTyped DEF FailList, ListTyped
        <2>3. CASE UNCHANGED past
            BY <2>3 DEF ListTyped
        <2> QED
            BY <2>1, <2>2, <2>3 DEF FailChange
    <1> QED
        BY <1>1, <1>2, EndTyped DEF ListTyped, ListPast

LEMMA LoseInListTyped ==
    ASSUME NEW args, NEW results, ListTyped(args, results), NEW c \in Calls, LoseInList(c)
    PROVE  ListTyped(args, results)'
    <1>1. Lose(c) /\ past' = [past EXCEPT !.mixed = TRUE]
        BY DEF LoseInList
    <1>2. past' \in ListPast
        BY <1>1, HistoryIsTyped DEF ListTyped
    <1> QED
        BY <1>1, <1>2, LoseTyped DEF ListTyped, ListPast

LEMMA ListStillTyped ==
    ASSUME NEW args, NEW results, ListTyped(args, results), UNCHANGED <<call, past>>
    PROVE  ListTyped(args, results)'
    BY StillTyped DEF ListTyped, ListPast

(***************************************************************************)
(* The types of a page with a list: V of its view, S of its rows           *)
(***************************************************************************)
PageTyped(args, results, V, S) == ListTyped(args, results) /\ view \in V /\ server \in S

LEMMA PageStays ==
    ASSUME NEW args, NEW results, NEW V, NEW S, PageTyped(args, results, V, S),
           view' \in V, server' \in S, ListTyped(args, results)'
    PROVE  PageTyped(args, results, V, S)'
    BY DEF PageTyped, ListTyped, ListPast, Typed, CallAllowed

LEMMA ShowTyped ==
    ASSUME NEW args, NEW results, NEW V, NEW S, PageTyped(args, results, V, S), NEW state \in V, Show(state)
    PROVE  PageTyped(args, results, V, S)'
    BY PageStays, ListStillTyped DEF PageTyped, Show

LEMMA AskTyped ==
    ASSUME NEW args, NEW results, NEW V, NEW S, PageTyped(args, results, V, S), NEW c \in Calls,
           NEW op \in DOMAIN args, NEW arg \in args[op], Send(c, op, arg) \/ Then(c, op, arg),
           view' \in V, UNCHANGED <<server, past>>
    PROVE  PageTyped(args, results, V, S)'
    <1>1. Typed(args, results)'
        BY SendTyped DEF PageTyped, ListTyped
    <1> QED
        BY <1>1, PageStays DEF PageTyped, ListTyped, ListPast

LEMMA ServeTyped ==
    ASSUME NEW args, NEW results, NEW V, NEW S, PageTyped(args, results, V, S), NEW c \in Calls,
           NEW op, Stands(c, op, "sent"), NEW data, op \in DOMAIN args => data \in results[op],
           Answer(c, data) \/ Refuse(c), server' \in S, UNCHANGED <<view, past>>
    PROVE  PageTyped(args, results, V, S)'
    <1>1. Typed(args, results)'
        BY AnswerTyped, RefuseTyped DEF PageTyped, ListTyped
    <1> QED
        BY <1>1, PageStays DEF PageTyped, ListTyped, ListPast

LEMMA LoadPageTyped ==
    ASSUME NEW args, NEW results, NEW V, NEW S, PageTyped(args, results, V, S), NEW c \in Calls,
           "list" \in DOMAIN args, NEW key \in args["list"], NEW state, [state EXCEPT !.loading = TRUE] \in V,
           (LoadList(c, state) /\ key = state.key) \/ Reload(c, key, state)
    PROVE  PageTyped(args, results, V, S)'
    <1>1. ListTyped(args, results)'
        BY LoadTyped DEF PageTyped
    <1>2. view' \in V /\ UNCHANGED server
        BY DEF LoadList, Reload
    <1> QED
        BY <1>1, <1>2, PageStays DEF PageTyped

LEMMA ListPageTyped ==
    ASSUME NEW args, NEW results, NEW V, NEW S, PageTyped(args, results, V, S), NEW c \in Calls,
           NEW fresh \in results["list"], NEW old, [view EXCEPT !.rows = old, !.loading = FALSE] \in V,
           \A rows \in results["list"] : [view EXCEPT !.rows = rows, !.loading = FALSE] \in V,
           AnswerList(c, fresh) \/ ReceiveList(c) \/ FailList(c, old) \/ LoseInList(c)
    PROVE  PageTyped(args, results, V, S)'
    <1>0. ListTyped(args, results) /\ view \in V /\ server \in S
        BY DEF PageTyped
    <1>1. UNCHANGED server
        BY DEF AnswerList, Keep, ReceiveList, ReceiveRows, SettleList, FailList, LoseInList
    <1>2. CASE AnswerList(c, fresh)
        <2>1. ListTyped(args, results)' /\ UNCHANGED view
            BY <1>0, <1>2, AnswerListTyped DEF AnswerList, Keep
        <2> QED
            BY <1>0, <1>1, <2>1, PageStays
    <1>3. CASE ReceiveList(c)
        <2>1. ReceiveRows(c, call[c].data) /\ Stands(c, "list", "served") /\ "served" # "free"
            BY <1>3 DEF ReceiveList, ReceiveRows
        <2>2. call[c].data \in results["list"]
            BY <1>0, <2>1, ArgsAndData DEF ListTyped
        <2>3. view' \in V
            BY <2>1, <2>2 DEF ReceiveRows
        <2>4. ListTyped(args, results)'
            BY <1>0, <2>1, SettleTyped
        <2> QED
            BY <1>0, <1>1, <2>3, <2>4, PageStays
    <1>4. CASE FailList(c, old)
        <2>1. ListTyped(args, results)' /\ view' \in V
            BY <1>0, <1>4, SettleTyped DEF FailList
        <2> QED
            BY <1>0, <1>1, <2>1, PageStays
    <1>5. CASE LoseInList(c)
        <2>1. ListTyped(args, results)' /\ UNCHANGED view
            BY <1>0, <1>5, LoseInListTyped DEF LoseInList
        <2> QED
            BY <1>0, <1>1, <2>1, PageStays
    <1> QED
        BY <1>2, <1>3, <1>4, <1>5

LEMMA FailChangeTyped ==
    ASSUME NEW args, NEW results, NEW V, NEW S, PageTyped(args, results, V, S), NEW c \in Calls,
           NEW op, NEW state \in V, FailChange(c, op, state)
    PROVE  PageTyped(args, results, V, S)'
    <1>1. ListTyped(args, results)'
        BY SettleTyped DEF PageTyped
    <1> QED
        BY <1>1, PageStays DEF PageTyped, FailChange

\* What the requests, the rows and the history of a page are, for its type invariant.
LEMMA PageTypes ==
    ASSUME NEW args, NEW results, NEW V, NEW S, PageTyped(args, results, V, S), NEW public,
           \A op \in DOMAIN args : results[op] \subseteq public[op] \cup {Nil}
    PROVE  /\ \A c \in Calls : IsCall(call[c], args, public)
           /\ view \in V /\ server \in S /\ past \in ListPast
    BY TypedIsCall DEF PageTyped, ListTyped
=============================================================================
