------------------------------- MODULE Browser -------------------------------
(***************************************************************************)
(* What the pages of the web apps have in common: the requests that one    *)
(* mounted page has under way.  Every page module extends this one.        *)
(*                                                                         *)
(* A handler reads its arguments from the render it was made in, sends     *)
(* them, and goes on in the state of the page at the time of the answer.   *)
(* So a request keeps a copy of its arguments ("arg"), and its answer a    *)
(* copy of the rows the server read ("data"): sent -> served -> free, with *)
(* any other event of the page in between, in any order across requests.   *)
(* A request that is refused, or lost on either way, rejects its promise.  *)
(* Leaving a page, which drops its state, is left out where the page does  *)
(* not model it, and so is choosing another of the user's businesses.      *)
(*                                                                         *)
(* Bound: a page has at most one request per member of Calls under way.    *)
(***************************************************************************)
EXTENDS Integers, Sequences, FiniteSets

CONSTANTS
    Calls,   \* the places of the requests under way
    Faults,  \* TRUE: requests and answers are lost
    Nil      \* null

ASSUME BrowserAssumption == Faults \in BOOLEAN

VARIABLES
    page,    \* the route that is mounted
    call,    \* the requests under way
    view,    \* the React state of the mounted page
    server,  \* the rows of the server that the page is about
    past     \* history variable of the page

webVars == <<page, call, view, server, past>>

Free == [step |-> "free", op |-> Nil, arg |-> Nil, data |-> Nil]
Request(op, arg) == [step |-> "sent", op |-> op, arg |-> arg, data |-> Nil]

Steps == {"sent", "served", "failed"}
IsCall(r, args, results) ==
    r = Free \/ \E op \in DOMAIN args :
        r.op = op /\ r \in [step : Steps, op : {op}, arg : args[op], data : results[op] \cup {Nil}]

Stands(c, op, step) == call[c].op = op /\ call[c].step = step
Pending(op) == {c \in Calls : call[c].op = op /\ call[c].step # "free"}

\* api.get, api.post, ...: the call is under way.
Send(c, op, arg) ==
    /\ call[c] = Free
    /\ call' = [call EXCEPT ![c] = Request(op, arg)]

\* The server commits and answers with data; or it refuses, and changes nothing.
Answer(c, data) == call' = [call EXCEPT ![c].step = "served", ![c].data = data]
Refuse(c) == call' = [call EXCEPT ![c].step = "failed"]

Keep == UNCHANGED <<view, server, past>>

\* A click that sends nothing.
Show(state) == view' = state /\ UNCHANGED <<call, server, past>>

\* The page as it is mounted, with one request under way.
Mount(request) == \E c \in Calls : call = [d \in Calls |-> IF d = c THEN request ELSE Free]

\* fetch rejects: the request never arrived, or its answer never did.
Lose(c) ==
    /\ Faults
    /\ call[c].step \in {"sent", "served"}
    /\ call' = [call EXCEPT ![c].step = "failed", ![c].data = Nil]

\* The promise is settled, and its handler runs to its next await or its end.
End(c) == call' = [call EXCEPT ![c] = Free]
Then(c, op, arg) == call' = [call EXCEPT ![c] = Request(op, arg)]

LoseCall(c) == Lose(c) /\ Keep

\* What is left of a queue of requests without one of them, which is once in it.
Without(queue, c) ==
    LET place == CHOOSE i \in DOMAIN queue : queue[i] = c
    IN [i \in 1 .. Len(queue) - 1 |-> IF i < place THEN queue[i] ELSE queue[i + 1]]

Quiet == \A c \in Calls : call[c] = Free
=============================================================================
