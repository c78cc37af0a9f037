----------------------------- MODULE SalonLedger -----------------------------
(***************************************************************************)
(* What a salon's counts promise: every count is a row and the sum of what *)
(* is recorded for it, and a request changes both at once or not at all.   *)
(* A count that is loose (two requests met on it, or somebody typed it in) *)
(* loses the tie between the two; what is promised of it then is that the  *)
(* customer's credit is no less than what is recorded.                     *)
(***************************************************************************)
EXTENDS Integers

CONSTANTS
    Goods,    \* counts of the salon: stock
    Credits,  \* counts of a customer: balances and sessions
    Items,    \* the sessions, each of a package
    Packages, PackageOf,
    Opening   \* the counts at the start

VARIABLES row, record, loose, closed

Counts == Goods \cup Credits

Init ==
    /\ row = Opening
    /\ record = Opening
    /\ loose = {}
    /\ closed = {}

\* A request takes effect.  It takes no more than there is, never adds to a
\* credit, and closes packages only of which nothing is left.
Post ==
    /\ row' \in [Counts -> Int] /\ record' \in [Counts -> Int]
    /\ \A x \in Counts \ loose : row'[x] - row[x] = record'[x] - record[x] /\ row'[x] >= 0
    /\ \A x \in Credits : record'[x] <= record[x] /\ record'[x] <= row'[x]
    /\ closed \subseteq closed' /\ closed' \subseteq Packages
    /\ \A s \in Items : PackageOf[s] \in closed' => record'[s] <= 0
    /\ UNCHANGED loose

Meet(x) ==
    /\ loose' = loose \cup {x}
    /\ UNCHANGED <<row, record, closed>>

\* Only the salon's own counts are typed in.
TypeIn(x) ==
    /\ row' \in [Counts -> Int] /\ \A y \in Counts \ {x} : row'[y] = row[y]
    /\ loose' = loose \cup {x}
    /\ UNCHANGED <<record, closed>>

Next ==
    \/ Post
    \/ \E x \in Counts : Meet(x)
    \/ \E x \in Goods : TypeIn(x)

Spec == Init /\ [][Next]_<<row, record, loose, closed>>
==============================================================================
