------------------------------- MODULE Listing -------------------------------
(***************************************************************************)
(* The part of the list pages that is the same: rows that are loaded for a *)
(* key (a filter, a search, a page of results, a date), and loaded again   *)
(* whenever the key changes or a request of the page changed them.         *)
(*                                                                         *)
(* Nothing keeps the answer of an old load from arriving last, and a       *)
(* handler reloads with the key of the render it was made in.              *)
(***************************************************************************)
EXTENDS Browser

(***************************************************************************)
(* view: key, rows (Nil before the first answer), loading, and the rest of *)
(*       the page.                                                         *)
(* past: loads, the loads under way in the order they were sent; mixed, an *)
(*       answer overtook another one, a reload used an old key, or a       *)
(*       request failed on its way.                                        *)
(***************************************************************************)
\* The first load.
MountList(key) ==
    \E c \in Calls :
        /\ call = [d \in Calls |-> IF d = c THEN Request("list", key) ELSE Free]
        /\ past = [loads |-> <<c>>, mixed |-> FALSE]

\* An effect: the key changed.
LoadList(c, state) ==
    /\ Send(c, "list", state.key)
    /\ view' = [state EXCEPT !.loading = TRUE]
    /\ past' = [past EXCEPT !.loads = Append(@, c)]
    /\ UNCHANGED server

\* A handler whose request was answered loads again, with its own key.
Reload(c, key, state) ==
    /\ Then(c, "list", key)
    /\ view' = [state EXCEPT !.loading = TRUE]
    /\ past' = [past EXCEPT !.loads = Append(@, c), !.mixed = @ \/ key # state.key]
    /\ UNCHANGED server

AnswerList(c, rows) ==
    /\ Stands(c, "list", "sent")
    /\ Answer(c, rows)
    /\ Keep

\* Promise.allSettled: some of the lists of a page are not answered.
AnswerParts(c, lists) ==
    /\ Stands(c, "list", "sent")
    /\ \E part \in SUBSET DOMAIN lists :
          /\ part # DOMAIN lists => Faults
          /\ Answer(c, [k \in part |-> lists[k]])
          /\ past' = [past EXCEPT !.mixed = @ \/ part # DOMAIN lists]
    /\ UNCHANGED <<view, server>>

SettleList(c) ==
    /\ past' = [past EXCEPT !.loads = Without(@, c), !.mixed = @ \/ Head(past.loads) # c]
    /\ End(c)
    /\ UNCHANGED server

\* Whatever load is answered last is shown.
ReceiveRows(c, rows) ==
    /\ Stands(c, "list", "served")
    /\ view' = [view EXCEPT !.rows = rows, !.loading = FALSE]
    /\ SettleList(c)

ReceiveList(c) == ReceiveRows(c, call[c].data)

\* The lists that were not answered stay as they are.
ReceiveParts(c) ==
    ReceiveRows(c, [k \in DOMAIN view.rows |-> IF k \in DOMAIN call[c].data THEN call[c].data[k] ELSE view.rows[k]])

\* The rows stay, or are emptied.
FailList(c, rows) ==
    /\ Stands(c, "list", "failed")
    /\ view' = [view EXCEPT !.rows = rows, !.loading = FALSE]
    /\ past' = [past EXCEPT !.loads = Without(@, c), !.mixed = TRUE]
    /\ End(c)
    /\ UNCHANGED server

\* A request that fails leaves the list alone.
FailChange(c, op, state) ==
    /\ Stands(c, op, "failed")
    /\ view' = state
    /\ End(c)
    /\ UNCHANGED <<server, past>>

LoseInList(c) ==
    /\ Lose(c)
    /\ past' = [past EXCEPT !.mixed = TRUE]
    /\ UNCHANGED <<view, server>>

\* The list is what the server has for the key that is set.
Current(rows) == ~past.mixed /\ Quiet => view.rows = rows

\* What AnswerParts answers.
PartsOf(rows) == UNION {{[k \in part |-> r[k]] : part \in SUBSET DOMAIN r} : r \in rows}

ListPast == [loads : Seq(Calls), mixed : BOOLEAN]
=============================================================================
