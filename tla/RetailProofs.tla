---------------------------- MODULE RetailProofs ----------------------------
(***************************************************************************)
(* Proofs about Retail: types, and the inductive invariant RetailInv, for  *)
(* any products, cards, packages, opening counts, workers and bounds.      *)
(***************************************************************************)
EXTENDS Retail, TLAPS

(***************************************************************************)
(* What the helpers return                                                 *)
(***************************************************************************)
LEMMA CounterKinds ==
    /\ \A p \in Products : p \in Counters /\ p \notin Cards /\ p \notin Sessions
    /\ \A c \in Cards : c \in Counters /\ c \notin Products /\ c \notin Sessions
    /\ \A s \in Sessions : s \in Counters /\ s \notin Products /\ s \notin Cards
    BY RetailAssumption DEF Counters

\* A session as a record: what Take and Request leave in tx[w].
LEMMA TxIsRecord ==
    ASSUME NEW t \in Tx \cup {NoTx}, t # NoTx
    PROVE  /\ t \in Tx
           /\ t.open \in BOOLEAN /\ t.seen \in [Counters -> Int]
           /\ t.change \in [Counters -> Int] /\ t.closes \in SUBSET Packages
    BY DEF Tx

LEMMA RecordIsTx ==
    ASSUME NEW o \in BOOLEAN, NEW f \in [Counters -> Int], NEW g \in [Counters -> Int],
           NEW c \in SUBSET Packages
    PROVE  [open |-> o, seen |-> f, change |-> g, closes |-> c] \in Tx \cup {NoTx}
    BY DEF Tx

\* A record of the type is never the null value.
LEMMA TxIsSomething == \A t \in Tx : t # NoTx
    BY TxAssumption

\* What a session holds of a row is an integer.
LEMMA ValueType ==
    ASSUME TypeOK, NEW w \in Workers, tx[w] # NoTx, NEW x \in Counters
    PROVE  Value(w, x) \in Int /\ left[x] \in Int /\ due[x] \in Int
           /\ tx[w].change[x] \in Int /\ tx[w].seen[x] \in Int
    <1>1. tx[w] \in Tx \cup {NoTx}
        BY DEF TypeOK
    <1>2. tx[w].seen \in [Counters -> Int] /\ tx[w].change \in [Counters -> Int]
        BY <1>1, TxIsRecord
    <1>3. left[x] \in Int /\ due[x] \in Int
        BY DEF TypeOK
    <1> QED
        BY <1>2, <1>3 DEF Value


(***************************************************************************)
(* What a step leaves in the sessions                                      *)
(***************************************************************************)
\* Take changes one entry of one session, and Meet only adds to shared.
LEMMA TakeEffect ==
    ASSUME TypeOK, NEW w \in Workers, tx[w] # NoTx, NEW x \in Counters, NEW n \in Int,
           Take(w, x, n)
    PROVE  /\ tx'[w] \in Tx /\ tx'[w] # NoTx
           /\ \A v \in Workers \ {w} : tx'[v] = tx[v]
           /\ tx'[w].seen[x] = IF Touched(w, x) THEN tx[w].seen[x] ELSE left[x]
           /\ tx'[w].change[x] = tx[w].change[x] - n
           /\ \A y \in Counters \ {x} : /\ tx'[w].seen[y] = tx[w].seen[y]
                                       /\ tx'[w].change[y] = tx[w].change[y]
           /\ tx'[w].closes = tx[w].closes
           /\ tx' \in [Workers -> Tx \cup {NoTx}]
           /\ shared \subseteq shared' /\ shared' \subseteq Counters
    <1>1. /\ tx \in [Workers -> Tx \cup {NoTx}] /\ tx[w] \in Tx
          /\ left[x] \in Int /\ shared \subseteq Counters
        BY DEF TypeOK
    <1> DEFINE s == IF Touched(w, x) THEN tx[w].seen[x] ELSE left[x]
               f == [tx[w].seen EXCEPT ![x] = s]
               g == [tx[w].change EXCEPT ![x] = tx[w].change[x] - n]
               t == [open |-> tx[w].open, seen |-> f, change |-> g, closes |-> tx[w].closes]
    <1>2. /\ tx[w].open \in BOOLEAN /\ tx[w].closes \in SUBSET Packages
          /\ tx[w].seen \in [Counters -> Int] /\ tx[w].change \in [Counters -> Int]
        BY <1>1 DEF Tx
    <1>3. s \in Int /\ tx[w].change[x] - n \in Int
        BY <1>1, <1>2
    <1>4. f \in [Counters -> Int] /\ g \in [Counters -> Int]
        BY <1>2, <1>3
    <1>5. t \in Tx
        BY <1>2, <1>4 DEF Tx
    <1>6. tx' = [tx EXCEPT ![w] = t]
        BY DEF Take
    <1>7. tx'[w] = t /\ \A v \in Workers \ {w} : tx'[v] = tx[v]
        BY <1>1, <1>6
    <1>8. t # NoTx
        BY <1>5, TxIsSomething
    <1>9. tx' \in [Workers -> Tx \cup {NoTx}]
        BY <1>1, <1>5, <1>6
    <1>10. f[x] = s /\ g[x] = tx[w].change[x] - n
        BY <1>2
    <1>11. \A y \in Counters \ {x} : f[y] = tx[w].seen[y] /\ g[y] = tx[w].change[y]
        BY <1>2
    <1>12. shared \subseteq shared' /\ shared' \subseteq Counters
        BY <1>1 DEF Take, Meet
    <1>13. t.seen = f /\ t.change = g /\ t.closes = tx[w].closes
        OBVIOUS
    <1> HIDE DEF t, f, g
    <1> QED
        BY <1>5, <1>7, <1>8, <1>9, <1>10, <1>11, <1>12, <1>13

\* Request opens a session on one counter.
LEMMA RequestEffect ==
    ASSUME TypeOK, NEW w \in Workers, NEW x \in Counters, NEW n \in Int,
           NEW packages \in SUBSET Packages, Request(w, x, n, packages)
    PROVE  /\ tx'[w] \in Tx /\ tx'[w] # NoTx
           /\ \A v \in Workers \ {w} : tx'[v] = tx[v]
           /\ tx'[w].seen[x] = left[x] /\ tx'[w].change[x] = n
           /\ \A y \in Counters \ {x} : tx'[w].change[y] = 0
           /\ tx'[w].closes = packages
           /\ tx' \in [Workers -> Tx \cup {NoTx}]
           /\ shared \subseteq shared' /\ shared' \subseteq Counters
    <1>1. /\ tx \in [Workers -> Tx \cup {NoTx}]
          /\ left \in [Counters -> Int] /\ shared \subseteq Counters
        BY DEF TypeOK
    <1> DEFINE f == Load(x)
               g == Change(x, n)
               t == [open |-> FALSE, seen |-> f, change |-> g, closes |-> packages]
    <1>2. f \in [Counters -> Int] /\ f[x] = left[x]
        BY <1>1 DEF Load
    <1>3. g \in [Counters -> Int] /\ g[x] = n /\ \A y \in Counters \ {x} : g[y] = 0
        BY DEF Change
    <1>4. t \in Tx
        BY <1>2, <1>3 DEF Tx
    <1>5. tx' = [tx EXCEPT ![w] = t]
        BY DEF Request
    <1>6. tx'[w] = t /\ (\A v \in Workers \ {w} : tx'[v] = tx[v])
          /\ tx' \in [Workers -> Tx \cup {NoTx}]
        BY <1>1, <1>4, <1>5
    <1>7. t # NoTx
        BY <1>4, TxIsSomething
    <1>8. shared \subseteq shared' /\ shared' \subseteq Counters
        BY <1>1 DEF Request, Meet
    <1>9. t.seen = f /\ t.change = g /\ t.closes = packages
        OBVIOUS
    <1> HIDE DEF t, f, g
    <1> QED
        BY <1>2, <1>3, <1>4, <1>6, <1>7, <1>8, <1>9

(***************************************************************************)
(* Types                                                                   *)
(***************************************************************************)
LEMMA TypeTake ==
    ASSUME TypeOK, NEW w \in Workers, tx[w] # NoTx, NEW x \in Counters, NEW n \in Int,
           Value(w, x) >= n, Take(w, x, n)
    PROVE  TypeOK'
    <1>1. UNCHANGED <<left, due, closed>>
        BY DEF Take
    <1>2. \A v \in Workers, y \in Counters : Touched(v, y)' => Value(v, y)' >= 0
        <2> SUFFICES ASSUME NEW v \in Workers, NEW y \in Counters, Touched(v, y)'
                     PROVE  Value(v, y)' >= 0
            OBVIOUS
        <2>1. CASE v # w
            <3>1. tx'[v] = tx[v]
                BY <2>1, TakeEffect
            <3> QED
                BY <1>1, <3>1 DEF Touched, Value, TypeOK
        <2>2. CASE v = w /\ y # x
            <3>1. tx'[w].seen[y] = tx[w].seen[y] /\ tx'[w].change[y] = tx[w].change[y]
                BY <2>2, TakeEffect
            <3> QED
                BY <1>1, <2>2, <3>1 DEF Touched, Value, TypeOK
        <2>3. CASE v = w /\ y = x
            <3>1. /\ tx'[w].seen[x] = IF Touched(w, x) THEN tx[w].seen[x] ELSE left[x]
                  /\ tx'[w].change[x] = tx[w].change[x] - n
                BY TakeEffect
            <3>2. Value(w, x)' = tx'[w].seen[x] + tx'[w].change[x]
                BY <2>3 DEF Value, Touched
            <3>3. /\ left[x] \in Int /\ Value(w, x) \in Int
                  /\ tx[w].change[x] \in Int /\ tx[w].seen[x] \in Int
                BY ValueType
            <3>4. Value(w, x)' = Value(w, x) - n
                <4>1. CASE Touched(w, x)
                    BY <3>1, <3>2, <3>3, <4>1 DEF Value
                <4>2. CASE ~Touched(w, x)
                    <5>1. tx[w].change[x] = 0
                        BY <4>2 DEF Touched
                    <5> QED
                        BY <3>1, <3>2, <3>3, <4>2, <5>1 DEF Value
                <4> QED
                    BY <4>1, <4>2
            <3> QED
                BY <2>3, <3>3, <3>4
        <2> QED
            BY <2>1, <2>2, <2>3
    <1>3. /\ tx' \in [Workers -> Tx \cup {NoTx}]
          /\ shared \subseteq shared' /\ shared' \subseteq Counters
        BY TakeEffect
    <1> QED
        BY <1>1, <1>2, <1>3 DEF TypeOK

LEMMA TypeRequest ==
    ASSUME TypeOK, NEW w \in Workers, NEW x \in Counters, NEW n \in Int,
           NEW packages \in SUBSET Packages, left[x] + n >= 0, Request(w, x, n, packages)
    PROVE  TypeOK'
    <1>1. UNCHANGED <<left, due, closed>>
        BY DEF Request
    <1>2. \A v \in Workers, y \in Counters : Touched(v, y)' => Value(v, y)' >= 0
        <2> SUFFICES ASSUME NEW v \in Workers, NEW y \in Counters, Touched(v, y)'
                     PROVE  Value(v, y)' >= 0
            OBVIOUS
        <2>1. CASE v # w
            <3>1. tx'[v] = tx[v]
                BY <2>1, RequestEffect
            <3> QED
                BY <1>1, <3>1 DEF Touched, Value, TypeOK
        <2>2. CASE v = w
            <3>1. y = x
                BY <2>2, RequestEffect DEF Touched
            <3>2. tx'[w].seen[x] = left[x] /\ tx'[w].change[x] = n
                BY RequestEffect
            <3> QED
                BY <2>2, <3>1, <3>2 DEF Touched, Value
        <2> QED
            BY <2>1, <2>2
    <1>3. /\ tx' \in [Workers -> Tx \cup {NoTx}]
          /\ shared \subseteq shared' /\ shared' \subseteq Counters
        BY RequestEffect
    <1> QED
        BY <1>1, <1>2, <1>3 DEF TypeOK

\* A committed session writes what it holds, and that is not negative.
LEMMA CommitEffect ==
    ASSUME TypeOK, NEW w \in Workers, Commit(w)
    PROVE  /\ tx[w] \in Tx
           /\ tx'[w] = NoTx /\ \A v \in Workers \ {w} : tx'[v] = tx[v]
           /\ \A x \in Counters :
                 /\ left'[x] = IF Touched(w, x) THEN Value(w, x) ELSE left[x]
                 /\ due'[x] = due[x] + tx[w].change[x]
           /\ left' \in [Counters -> Int] /\ due' \in [Counters -> Int]
           /\ tx' \in [Workers -> Tx \cup {NoTx}]
           /\ closed' \subseteq Packages
    <1>1. tx \in [Workers -> Tx \cup {NoTx}] /\ tx[w] \in Tx
        BY DEF TypeOK, Commit
    <1>2. \A x \in Counters : /\ Value(w, x) \in Int /\ left[x] \in Int /\ due[x] \in Int
                             /\ tx[w].change[x] \in Int
        BY ValueType DEF Commit
    <1>3. tx' = [tx EXCEPT ![w] = NoTx]
        BY DEF Commit, Close
    <1>4. tx'[w] = NoTx /\ (\A v \in Workers \ {w} : tx'[v] = tx[v])
          /\ tx' \in [Workers -> Tx \cup {NoTx}]
        BY <1>1, <1>3
    <1>5. /\ left' = [x \in Counters |-> IF Touched(w, x) THEN Value(w, x) ELSE left[x]]
          /\ due' = [x \in Counters |-> due[x] + tx[w].change[x]]
        BY DEF Commit
    <1>6. left' \in [Counters -> Int] /\ due' \in [Counters -> Int]
        <2>1. \A x \in Counters : due[x] + tx[w].change[x] \in Int
            BY <1>2
        <2> QED
            BY <1>2, <1>5, <2>1
    <1>7. closed' \subseteq Packages
        BY <1>1, TxIsRecord DEF Commit, TypeOK
    <1> QED
        BY <1>1, <1>4, <1>5, <1>6, <1>7

LEMMA TypeCommit ==
    ASSUME TypeOK, NEW w \in Workers, Commit(w)
    PROVE  TypeOK'
    <1>1. \A v \in Workers : \A x \in Counters : Touched(v, x)' => Value(v, x)' >= 0
        <2> SUFFICES ASSUME NEW v \in Workers, NEW x \in Counters, Touched(v, x)'
                     PROVE  Value(v, x)' >= 0
            OBVIOUS
        <2>1. v # w /\ tx'[v] = tx[v]
            BY CommitEffect DEF Touched
        <2> QED
            BY <2>1 DEF Touched, Value, TypeOK
    <1>2. \A x \in Counters : left'[x] < 0 => x \in Products \cap shared
        <2> SUFFICES ASSUME NEW x \in Counters, left'[x] < 0
                     PROVE  x \in Products \cap shared
            OBVIOUS
        <2>1. Value(w, x) \in Int /\ left[x] \in Int
            BY ValueType DEF Commit
        <2>2. ~Touched(w, x)
            BY <2>1, CommitEffect DEF TypeOK
        <2>3. left'[x] = left[x]
            BY <2>2, CommitEffect
        <2> QED
            BY <2>3 DEF TypeOK
    <1>3. shared' = shared
        BY DEF Commit
    <1> QED
        BY <1>1, <1>2, <1>3, CommitEffect DEF TypeOK

\* Sessions that begin, end or stay, and a stock that is typed in: nothing a
\* session holds changes.
LEMMA TypeOther ==
    ASSUME TypeOK, NEW w \in Workers,
           \/ BeginCheckout(w) \/ Refuse(w)
           \/ \E p \in Products : \E n \in Int : UpdateProduct(p, n)
    PROVE  TypeOK'
    <1>1. CASE BeginCheckout(w)
        <2> DEFINE t == [open |-> TRUE, seen |-> [x \in Counters |-> 0],
                         change |-> [x \in Counters |-> 0], closes |-> {}]
        <2>1. t \in Tx
            BY DEF Tx
        <2>2. tx' = [tx EXCEPT ![w] = t]
            BY <1>1 DEF BeginCheckout
        <2>3. tx \in [Workers -> Tx \cup {NoTx}]
            BY DEF TypeOK
        <2>4. tx' \in [Workers -> Tx \cup {NoTx}]
            BY <2>1, <2>2, <2>3
        <2>5. tx'[w] = t /\ \A v \in Workers \ {w} : tx'[v] = tx[v]
            BY <2>2, <2>3
        <2>6. \A x \in Counters : t.change[x] = 0
            OBVIOUS
        <2> HIDE DEF t
        <2>7. \A v \in Workers : \A x \in Counters : Touched(v, x)' => Value(v, x)' >= 0
            BY <1>1, <2>5, <2>6 DEF Touched, Value, TypeOK, BeginCheckout
        <2> QED
            BY <1>1, <2>4, <2>7 DEF TypeOK, BeginCheckout
    <1>2. CASE Refuse(w)
        <2>1. tx' = [tx EXCEPT ![w] = NoTx] /\ tx \in [Workers -> Tx \cup {NoTx}]
            BY <1>2 DEF Refuse, Close, TypeOK
        <2>2. tx' \in [Workers -> Tx \cup {NoTx}]
            BY <2>1
        <2>3. tx'[w] = NoTx /\ \A v \in Workers \ {w} : tx'[v] = tx[v]
            BY <2>1
        <2>4. \A v \in Workers : \A x \in Counters : Touched(v, x)' => Value(v, x)' >= 0
            BY <1>2, <2>3 DEF Touched, Value, TypeOK, Refuse
        <2> QED
            BY <1>2, <2>2, <2>4 DEF TypeOK, Refuse
    <1>3. ASSUME NEW p \in Products, NEW n \in Int, UpdateProduct(p, n)
          PROVE  TypeOK'
        <2>1. p \in Counters
            BY CounterKinds
        <2>2. /\ left' = [left EXCEPT ![p] = n] /\ shared' = shared \cup {p}
              /\ UNCHANGED <<due, closed, tx>>
            BY <1>3 DEF UpdateProduct
        <2>3. left' \in [Counters -> Int] /\ \A x \in Counters \ {p} : left'[x] = left[x]
            BY <2>2 DEF TypeOK
        <2>4. \A x \in Counters : left'[x] < 0 => x \in Products \cap shared'
            BY <2>2, <2>3 DEF TypeOK
        <2>5. \A v \in Workers : \A x \in Counters : Touched(v, x)' => Value(v, x)' >= 0
            BY <2>2 DEF Touched, Value, TypeOK
        <2> QED
            BY <2>1, <2>2, <2>3, <2>4, <2>5 DEF TypeOK
    <1> QED
        BY <1>1, <1>2, <1>3

\* Every action of a worker is a Take, a Request, a commit or one of those.
LEMMA WorkerSteps ==
    ASSUME TypeOK, [Next]_vars
    PROVE  \/ UNCHANGED vars
           \/ \E p \in Products : \E n \in Int : UpdateProduct(p, n)
           \/ \E w \in Workers :
                \/ BeginCheckout(w) \/ Commit(w) \/ Refuse(w)
                \/ \E x \in Products \cup Cards : \E n \in Int :
                      tx[w] # NoTx /\ n >= 1 /\ Value(w, x) >= n /\ Take(w, x, n)
                \/ \E p \in Products : \E n \in Int : RecordStockMovement(w, p, n)
                \/ \E c \in Cards : \E n \in Int : RedeemGiftCard(w, c, n)
                \/ \E s \in Sessions : RedeemService(w, s)
    <1>1. -MaxStock .. MaxStock \subseteq Int /\ 1 .. MaxStock \subseteq Int
          /\ \A c \in Cards : 1 .. Opening[c] \subseteq Int
        OBVIOUS
    <1>2. \A w \in Workers, p \in Products, n \in Int : SellProduct(w, p, n) =>
                tx[w] # NoTx /\ n >= 1 /\ Value(w, p) >= n /\ Take(w, p, n)
        BY DEF SellProduct
    <1>3. \A w \in Workers, c \in Cards, n \in Int : PayWithGiftCard(w, c, n) =>
                tx[w] # NoTx /\ n >= 1 /\ Value(w, c) >= n /\ Take(w, c, n)
        BY DEF PayWithGiftCard
    <1> QED
        BY <1>1, <1>2, <1>3 DEF Next

LEMMA TypeStep == TypeOK /\ [Next]_vars => TypeOK'
    <1> SUFFICES ASSUME TypeOK, [Next]_vars PROVE TypeOK'
        OBVIOUS
    <1>1. CASE UNCHANGED vars
        BY <1>1 DEF vars, TypeOK, Touched, Value
    <1>2. ASSUME NEW p \in Products, NEW n \in Int, UpdateProduct(p, n) PROVE TypeOK'
        <2>1. CASE Workers = {}
            <3>1. p \in Counters
                BY CounterKinds
            <3> QED
                BY <1>2, <2>1, <3>1 DEF UpdateProduct, TypeOK
        <2>2. CASE Workers # {}
            BY <1>2, <2>2, TypeOther
        <2> QED
            BY <2>1, <2>2
    <1>3. ASSUME NEW w \in Workers, BeginCheckout(w) \/ Refuse(w) PROVE TypeOK'
        BY <1>3, TypeOther
    <1>4. ASSUME NEW w \in Workers, Commit(w) PROVE TypeOK'
        BY <1>4, TypeCommit
    <1>5. ASSUME NEW w \in Workers, NEW x \in Products \cup Cards, NEW n \in Int,
                 tx[w] # NoTx, Value(w, x) >= n, Take(w, x, n)
          PROVE  TypeOK'
        <2>1. x \in Counters
            BY CounterKinds
        <2> QED
            BY <1>5, <2>1, TypeTake
    <1>6. ASSUME NEW w \in Workers, NEW p \in Products, NEW n \in Int,
                 RecordStockMovement(w, p, n)
          PROVE  TypeOK'
        <2>1. p \in Counters /\ left[p] + n >= 0 /\ Request(w, p, n, {})
            BY <1>6, CounterKinds DEF RecordStockMovement
        <2> QED
            BY <2>1, TypeRequest
    <1>7. ASSUME NEW w \in Workers, NEW c \in Cards, NEW n \in Int, RedeemGiftCard(w, c, n)
          PROVE  TypeOK'
        <2>1. c \in Counters /\ left[c] \in Int
            BY CounterKinds DEF TypeOK
        <2>2. -n \in Int /\ left[c] + (-n) >= 0 /\ Request(w, c, -n, {})
            BY <1>7, <2>1 DEF RedeemGiftCard
        <2> QED
            BY <2>1, <2>2, TypeRequest
    <1>8. ASSUME NEW w \in Workers, NEW s \in Sessions, RedeemService(w, s) PROVE TypeOK'
        <2>1. s \in Counters /\ left[s] \in Int /\ {PackageOf[s]} \in SUBSET Packages
            BY CounterKinds, RetailAssumption DEF TypeOK
        <2>2. PICK packages \in SUBSET Packages : Request(w, s, -1, packages)
            BY <1>8, <2>1 DEF RedeemService
        <2>3. left[s] + (-1) >= 0
            BY <1>8, <2>1 DEF RedeemService
        <2> QED
            BY <2>1, <2>2, <2>3, TypeRequest
    <1> QED
        BY <1>1, <1>2, <1>3, <1>4, <1>5, <1>6, <1>7, <1>8, WorkerSteps

LEMMA TypeInit == Init => TypeOK
    BY RetailAssumption DEF Init, TypeOK, Touched

\* No request takes more than there is, however requests interleave: what any
\* session will write is a count that is not negative.
THEOREM TypeCorrect == Spec => []TypeOK
    <1> QED
        BY TypeInit, TypeStep, PTL DEF Spec

(***************************************************************************)
(* The inductive invariant                                                 *)
(***************************************************************************)
\* A step that only changes what one session holds keeps the invariant when
\* that session keeps its part, and is not alone with a counter it touches
\* only if the counter is noted as shared.
LEMMA InvSession ==
    ASSUME TypeOK, RetailInv, NEW w \in Workers,
           UNCHANGED <<left, due, closed>>, shared \subseteq shared',
           \A v \in Workers \ {w} : tx'[v] = tx[v],
           tx'[w] # NoTx => SpendsCredit(w)' /\ ClosesServed(w)',
           \A x \in Counters \ shared' : Touched(w, x)' =>
              tx'[w].seen[x] = left[x] /\ \A v \in Workers \ {w} : ~Touched(v, x)
    PROVE  RetailInv'
    <1>1. CreditIsKept' /\ ExhaustedIsServed' /\ SerialCountersMatch'
        BY DEF RetailInv, CreditIsKept, ExhaustedIsServed, SerialCountersMatch
    <1>2. ASSUME NEW v \in Workers, tx'[v] # NoTx
          PROVE  SpendsCredit(v)' /\ ClosesServed(v)'
        <2>1. CASE v = w
            BY <1>2, <2>1
        <2>2. CASE v # w
            <3>1. tx'[v] = tx[v]
                BY <2>2
            <3> QED
                BY <1>2, <3>1 DEF RetailInv, SpendsCredit, ClosesServed, Touched
        <2> QED
            BY <2>1, <2>2
    <1>3. ASSUME NEW v \in Workers, tx'[v] # NoTx, NEW x \in Counters \ shared', Touched(v, x)',
                 NEW u \in Workers \ {v}
          PROVE  tx'[v].seen[x] = left'[x] /\ ~Touched(u, x)'
        <2>1. CASE v = w
            <3>1. tx'[u] = tx[u] /\ ~Touched(u, x)
                BY <1>3, <2>1
            <3> QED
                BY <1>3, <2>1, <3>1 DEF Touched
        <2>2. CASE v # w
            <3>1. tx'[v] = tx[v] /\ Touched(v, x)
                BY <1>3, <2>2 DEF Touched
            <3>2. ~Touched(w, x)'
                BY <1>3, <2>2, <3>1
            <3>3. x \in Counters \ shared
                OBVIOUS
            <3>4. tx[v].seen[x] = left[x] /\ ~Touched(u, x)
                BY <1>3, <3>1, <3>3 DEF RetailInv, IsAlone, Touched
            <3>5. CASE u = w
                BY <3>1, <3>2, <3>4, <3>5
            <3>6. CASE u # w
                <4>1. tx'[u] = tx[u]
                    BY <3>6
                <4> QED
                    BY <3>1, <3>4, <4>1 DEF Touched
            <3> QED
                BY <3>5, <3>6
        <2> QED
            BY <2>1, <2>2
    <1>4. ASSUME NEW v \in Workers, tx'[v] # NoTx, NEW x \in Counters \ shared', Touched(v, x)'
          PROVE  tx'[v].seen[x] = left'[x]
        <2>1. CASE v = w
            BY <1>4, <2>1
        <2>2. CASE v # w
            <3>1. tx'[v] = tx[v] /\ Touched(v, x) /\ x \in Counters \ shared
                BY <1>4, <2>2 DEF Touched
            <3> QED
                BY <1>4, <3>1 DEF RetailInv, IsAlone, Touched
        <2> QED
            BY <2>1, <2>2
    <1>5. \A v \in Workers : tx'[v] # NoTx => IsAlone(v)'
        BY <1>3, <1>4 DEF IsAlone
    <1> QED
        BY <1>1, <1>2, <1>5 DEF RetailInv

LEMMA InvTake ==
    ASSUME TypeOK, RetailInv, NEW w \in Workers, tx[w] # NoTx,
           NEW x \in Counters, x \notin Sessions, NEW n \in Int, n >= 1, Take(w, x, n)
    PROVE  RetailInv'
    <1>1. /\ \A v \in Workers \ {w} : tx'[v] = tx[v]
          /\ tx'[w].seen[x] = IF Touched(w, x) THEN tx[w].seen[x] ELSE left[x]
          /\ tx'[w].change[x] = tx[w].change[x] - n
          /\ \A y \in Counters \ {x} : /\ tx'[w].seen[y] = tx[w].seen[y]
                                      /\ tx'[w].change[y] = tx[w].change[y]
          /\ tx'[w].closes = tx[w].closes
          /\ shared \subseteq shared' /\ tx'[w] # NoTx
        BY TakeEffect
    <1>2. UNCHANGED <<left, due, closed>>
        BY DEF Take
    <1>3. SpendsCredit(w) /\ ClosesServed(w) /\ IsAlone(w)
        BY DEF RetailInv
    <1>4. SpendsCredit(w)'
        <2> SUFFICES ASSUME NEW y \in Cards \cup Sessions
                     PROVE  /\ tx'[w].change[y] <= 0
                            /\ Touched(w, y)' => tx'[w].seen[y] >= due[y]
            BY <1>2 DEF SpendsCredit
        <2>1. y \in Counters
            BY CounterKinds
        <2>2. tx[w].change[y] <= 0 /\ (Touched(w, y) => tx[w].seen[y] >= due[y])
            BY <1>3 DEF SpendsCredit
        <2>3. CASE y # x
            BY <1>1, <2>1, <2>2, <2>3 DEF Touched
        <2>4. CASE y = x
            <3>1. /\ left[x] \in Int /\ due[x] \in Int
                  /\ tx[w].change[x] \in Int
                BY ValueType
            <3>2. left[x] >= due[x]
                BY <2>4 DEF RetailInv, CreditIsKept
            <3> QED
                BY <1>1, <2>2, <2>4, <3>1, <3>2
        <2> QED
            BY <2>3, <2>4
    <1>5. ClosesServed(w)'
        <2>1. \A s \in Sessions : s \in Counters \ {x}
            BY CounterKinds
        <2> QED
            BY <1>1, <1>2, <1>3, <2>1 DEF ClosesServed
    <1>6. ASSUME NEW y \in Counters \ shared', Touched(w, y)'
          PROVE  tx'[w].seen[y] = left[y] /\ \A v \in Workers \ {w} : ~Touched(v, y)
        <2>1. y \in Counters \ shared
            BY <1>1
        <2>2. CASE y # x
            BY <1>1, <1>3, <1>6, <2>1, <2>2 DEF IsAlone, Touched
        <2>3. CASE y = x
            <3>1. \A v \in Workers \ {w} : ~Touched(v, y)
                BY <1>6, <2>3 DEF Take, Meet
            <3>2. Touched(w, x) => tx[w].seen[x] = left[x]
                BY <1>3, <2>1, <2>3 DEF IsAlone
            <3> QED
                BY <1>1, <2>3, <3>1, <3>2
        <2> QED
            BY <2>2, <2>3
    <1> QED
        BY <1>1, <1>2, <1>4, <1>5, <1>6, InvSession

LEMMA InvRequest ==
    ASSUME TypeOK, RetailInv, NEW w \in Workers, NEW x \in Counters, NEW n \in Int,
           NEW packages \in SUBSET Packages, Request(w, x, n, packages),
           x \in Products \/ n <= 0,
           \A s \in Sessions : PackageOf[s] \in packages =>
              left[s] + (IF s = x THEN n ELSE 0) <= 0
    PROVE  RetailInv'
    <1>1. /\ \A v \in Workers \ {w} : tx'[v] = tx[v]
          /\ tx'[w].seen[x] = left[x] /\ tx'[w].change[x] = n
          /\ \A y \in Counters \ {x} : tx'[w].change[y] = 0
          /\ tx'[w].closes = packages
          /\ shared \subseteq shared' /\ tx'[w] # NoTx
        BY RequestEffect
    <1>2. UNCHANGED <<left, due, closed>>
        BY DEF Request
    <1>3. SpendsCredit(w)'
        <2> SUFFICES ASSUME NEW y \in Cards \cup Sessions
                     PROVE  /\ tx'[w].change[y] <= 0
                            /\ Touched(w, y)' => tx'[w].seen[y] >= due[y]
            BY <1>2 DEF SpendsCredit
        <2>1. y \in Counters /\ y \notin Products
            BY CounterKinds
        <2>2. CASE y # x
            BY <1>1, <2>1, <2>2 DEF Touched
        <2>3. CASE y = x
            BY <1>1, <2>1, <2>3 DEF RetailInv, CreditIsKept
        <2> QED
            BY <2>2, <2>3
    <1>4. ClosesServed(w)'
        <2> SUFFICES ASSUME NEW s \in Sessions, PackageOf[s] \in packages
                     PROVE  due[s] + tx'[w].change[s] <= 0
            BY <1>1, <1>2 DEF ClosesServed
        <2>1. s \in Counters /\ left[s] \in Int /\ due[s] \in Int
            BY CounterKinds DEF TypeOK
        <2>2. left[s] >= due[s]
            BY DEF RetailInv, CreditIsKept
        <2>3. tx'[w].change[s] = IF s = x THEN n ELSE 0
            BY <1>1, <2>1
        <2> QED
            BY <2>1, <2>2, <2>3
    <1>5. ASSUME NEW y \in Counters \ shared', Touched(w, y)'
          PROVE  tx'[w].seen[y] = left[y] /\ \A v \in Workers \ {w} : ~Touched(v, y)
        <2>1. y = x
            BY <1>1, <1>5 DEF Touched
        <2> QED
            BY <1>1, <1>5, <2>1 DEF Request, Meet
    <1> QED
        BY <1>1, <1>2, <1>3, <1>4, <1>5, InvSession

LEMMA InvCommit ==
    ASSUME TypeOK, RetailInv, NEW w \in Workers, Commit(w)
    PROVE  RetailInv'
    <1>1. /\ tx'[w] = NoTx /\ \A v \in Workers \ {w} : tx'[v] = tx[v]
          /\ \A x \in Counters :
                /\ left'[x] = IF Touched(w, x) THEN Value(w, x) ELSE left[x]
                /\ due'[x] = due[x] + tx[w].change[x]
          /\ shared' = shared /\ closed' = closed \cup tx[w].closes /\ tx[w] # NoTx
        BY CommitEffect DEF Commit
    <1>2. \A x \in Counters : /\ Value(w, x) \in Int /\ left[x] \in Int /\ due[x] \in Int
                             /\ tx[w].change[x] \in Int /\ tx[w].seen[x] \in Int
        BY <1>1, ValueType
    <1>3. SpendsCredit(w) /\ ClosesServed(w) /\ IsAlone(w)
        BY <1>1 DEF RetailInv
    <1>4. \A x \in Counters : Touched(w, x) => Value(w, x) = tx[w].seen[x] + tx[w].change[x]
        BY DEF Value
    <1>5. \A x \in Counters : ~Touched(w, x) => tx[w].change[x] = 0
        BY <1>1 DEF Touched
    <1>6. \A x \in Cards \cup Sessions :
              /\ x \in Counters /\ left[x] >= due[x] /\ tx[w].change[x] <= 0
              /\ Touched(w, x) => tx[w].seen[x] >= due[x]
        BY <1>3, CounterKinds DEF RetailInv, CreditIsKept, SpendsCredit
    <1>7. \A x \in Cards \cup Sessions : left'[x] >= due'[x] /\ due'[x] <= due[x]
        <2> TAKE x \in Cards \cup Sessions
        <2>1. CASE Touched(w, x)
            <3>1. left'[x] = tx[w].seen[x] + tx[w].change[x] /\ due'[x] = due[x] + tx[w].change[x]
                BY <1>1, <1>4, <1>6, <2>1
            <3> QED
                BY <1>2, <1>6, <2>1, <3>1
        <2>2. CASE ~Touched(w, x)
            <3>1. left'[x] = left[x] /\ due'[x] = due[x] + 0
                BY <1>1, <1>5, <1>6, <2>2
            <3> QED
                BY <1>2, <1>6, <3>1
        <2> QED
            BY <2>1, <2>2
    <1>8. ExhaustedIsServed'
        <2> SUFFICES ASSUME NEW s \in Sessions, PackageOf[s] \in closed \cup tx[w].closes
                     PROVE  due'[s] <= 0
            BY <1>1 DEF ExhaustedIsServed
        <2>1. s \in Counters /\ due'[s] = due[s] + tx[w].change[s] /\ due[s] \in Int /\ due'[s] <= due[s]
            BY <1>1, <1>2, <1>6, <1>7
        <2>2. CASE PackageOf[s] \in closed
            BY <1>2, <2>1, <2>2 DEF RetailInv, ExhaustedIsServed
        <2>3. CASE PackageOf[s] \in tx[w].closes
            BY <1>3, <2>1, <2>3 DEF ClosesServed
        <2> QED
            BY <2>2, <2>3
    <1>9. SerialCountersMatch'
        <2> SUFFICES ASSUME NEW x \in Counters \ shared PROVE left'[x] = due'[x]
            BY <1>1 DEF SerialCountersMatch
        <2>1. left[x] = due[x]
            BY DEF RetailInv, SerialCountersMatch
        <2>2. CASE Touched(w, x)
            <3>1. tx[w].seen[x] = left[x]
                BY <1>3, <2>2 DEF IsAlone
            <3> QED
                BY <1>1, <1>4, <2>1, <2>2, <3>1
        <2>3. CASE ~Touched(w, x)
            BY <1>1, <1>2, <1>5, <2>1, <2>3
        <2> QED
            BY <2>2, <2>3
    <1>10. ASSUME NEW v \in Workers, tx'[v] # NoTx
           PROVE  SpendsCredit(v)' /\ ClosesServed(v)' /\ IsAlone(v)'
        <2>1. v # w /\ tx'[v] = tx[v]
            BY <1>1, <1>10
        <2>2. /\ SpendsCredit(v) /\ ClosesServed(v) /\ IsAlone(v)
              /\ \A x \in Counters : tx[v].seen[x] \in Int /\ tx[v].change[x] \in Int
            BY <1>10, <2>1, ValueType DEF RetailInv
        <2>3. SpendsCredit(v)'
            <3> SUFFICES ASSUME NEW x \in Cards \cup Sessions
                         PROVE  /\ tx'[v].change[x] <= 0
                                /\ Touched(v, x)' => tx'[v].seen[x] >= due'[x]
                BY DEF SpendsCredit
            <3>1. due'[x] <= due[x] /\ due[x] \in Int /\ tx[v].seen[x] \in Int /\ due'[x] \in Int
                BY <1>1, <1>2, <1>6, <1>7, <2>2
            <3> QED
                BY <2>1, <2>2, <3>1 DEF SpendsCredit, Touched
        <2>4. ClosesServed(v)'
            <3> SUFFICES ASSUME NEW s \in Sessions, PackageOf[s] \in tx[v].closes
                         PROVE  due'[s] + tx[v].change[s] <= 0
                BY <2>1 DEF ClosesServed
            <3>1. due'[s] <= due[s] /\ due[s] \in Int /\ due'[s] \in Int /\ tx[v].change[s] \in Int
                BY <1>1, <1>2, <1>6, <1>7, <2>2
            <3> QED
                BY <2>2, <3>1 DEF ClosesServed
        <2>5. IsAlone(v)'
            <3> SUFFICES ASSUME NEW x \in Counters \ shared, Touched(v, x)'
                         PROVE  /\ tx'[v].seen[x] = left'[x]
                                /\ \A u \in Workers \ {v} : ~Touched(u, x)'
                BY <1>1 DEF IsAlone
            <3>1. Touched(v, x)
                BY <2>1 DEF Touched
            <3>2. tx[v].seen[x] = left[x] /\ \A u \in Workers \ {v} : ~Touched(u, x)
                BY <2>2, <3>1 DEF IsAlone
            <3>3. ~Touched(w, x)
                BY <2>1, <3>2
            <3>4. left'[x] = left[x]
                BY <1>1, <3>3
            <3>5. \A u \in Workers \ {v} : ~Touched(u, x)'
                BY <1>1, <3>2 DEF Touched
            <3> QED
                BY <2>1, <3>2, <3>4, <3>5
        <2> QED
            BY <2>3, <2>4, <2>5
    <1> QED
        BY <1>7, <1>8, <1>9, <1>10 DEF RetailInv, CreditIsKept

\* A session that begins or ends touches nothing.
LEMMA InvEmpty ==
    ASSUME TypeOK, RetailInv, NEW w \in Workers, BeginCheckout(w) \/ Refuse(w)
    PROVE  RetailInv'
    <1>1. UNCHANGED <<left, due, closed, shared>>
        BY DEF BeginCheckout, Refuse
    <1>2. tx \in [Workers -> Tx \cup {NoTx}]
        BY DEF TypeOK
    <1>3. \A v \in Workers \ {w} : tx'[v] = tx[v]
        BY <1>2 DEF BeginCheckout, Refuse, Close
    <1>4. tx'[w] # NoTx => tx'[w].closes = {} /\ \A x \in Counters : tx'[w].change[x] = 0
        BY <1>2 DEF BeginCheckout, Refuse, Close
    <1>5. tx'[w] # NoTx => SpendsCredit(w)' /\ ClosesServed(w)'
        BY <1>4, CounterKinds DEF SpendsCredit, ClosesServed, Touched
    <1>6. \A x \in Counters : ~Touched(w, x)'
        BY <1>4 DEF Touched
    <1> QED
        BY <1>1, <1>3, <1>5, <1>6, InvSession

LEMMA InvUpdateProduct ==
    ASSUME TypeOK, RetailInv, NEW p \in Products, NEW n \in Int, UpdateProduct(p, n)
    PROVE  RetailInv'
    <1>1. /\ left' = [left EXCEPT ![p] = n] /\ shared' = shared \cup {p}
          /\ UNCHANGED <<due, closed, tx>>
        BY DEF UpdateProduct
    <1>2. \A x \in Counters \ {p} : left'[x] = left[x]
        BY <1>1 DEF TypeOK
    <1>3. \A x \in Cards \cup Sessions : x \in Counters \ {p}
        BY CounterKinds
    <1>4. CreditIsKept' /\ ExhaustedIsServed' /\ SerialCountersMatch'
        BY <1>1, <1>2, <1>3 DEF RetailInv, CreditIsKept, ExhaustedIsServed, SerialCountersMatch
    <1>5. ASSUME NEW w \in Workers, tx[w] # NoTx
          PROVE  SpendsCredit(w)' /\ ClosesServed(w)' /\ IsAlone(w)'
        BY <1>1, <1>2, <1>5 DEF RetailInv, SpendsCredit, ClosesServed, IsAlone, Touched
    <1> QED
        BY <1>1, <1>4, <1>5 DEF RetailInv

LEMMA InvStep == TypeOK /\ RetailInv /\ [Next]_vars => RetailInv'
    <1> SUFFICES ASSUME TypeOK, RetailInv, [Next]_vars PROVE RetailInv'
        OBVIOUS
    <1>1. CASE UNCHANGED vars
        BY <1>1 DEF vars, RetailInv, CreditIsKept, ExhaustedIsServed, SerialCountersMatch,
                    SpendsCredit, ClosesServed, IsAlone, Touched
    <1>2. ASSUME NEW p \in Products, NEW n \in Int, UpdateProduct(p, n) PROVE RetailInv'
        BY <1>2, InvUpdateProduct
    <1>3. ASSUME NEW w \in Workers, BeginCheckout(w) \/ Refuse(w) PROVE RetailInv'
        BY <1>3, InvEmpty
    <1>4. ASSUME NEW w \in Workers, Commit(w) PROVE RetailInv'
        BY <1>4, InvCommit
    <1>5. ASSUME NEW w \in Workers, NEW x \in Products \cup Cards, NEW n \in Int,
                 tx[w] # NoTx, n >= 1, Take(w, x, n)
          PROVE  RetailInv'
        <2>1. x \in Counters /\ x \notin Sessions
            BY CounterKinds
        <2> QED
            BY <1>5, <2>1, InvTake
    <1>6. ASSUME NEW w \in Workers, NEW p \in Products, NEW n \in Int,
                 RecordStockMovement(w, p, n)
          PROVE  RetailInv'
        <2>1. p \in Counters /\ Request(w, p, n, {})
            BY <1>6, CounterKinds DEF RecordStockMovement
        <2> QED
            BY <2>1, InvRequest
    <1>7. ASSUME NEW w \in Workers, NEW c \in Cards, NEW n \in Int, RedeemGiftCard(w, c, n)
          PROVE  RetailInv'
        <2>1. c \in Counters /\ -n \in Int /\ -n <= 0 /\ Request(w, c, -n, {})
            BY <1>7, CounterKinds DEF RedeemGiftCard
        <2> QED
            BY <2>1, InvRequest
    <1>8. ASSUME NEW w \in Workers, NEW s \in Sessions, RedeemService(w, s) PROVE RetailInv'
        <2> DEFINE exhausted == \A t \in Sessions : PackageOf[t] = PackageOf[s] =>
                                    left[t] = IF t = s THEN 1 ELSE 0
                   packages == IF exhausted THEN {PackageOf[s]} ELSE {}
        <2>1. s \in Counters /\ packages \in SUBSET Packages
            BY CounterKinds, RetailAssumption
        <2>2. Request(w, s, -1, packages)
            BY <1>8 DEF RedeemService
        <2>3. ASSUME NEW t \in Sessions, PackageOf[t] \in packages
              PROVE  left[t] + (IF t = s THEN -1 ELSE 0) <= 0
            <3>1. exhausted /\ PackageOf[t] = PackageOf[s]
                BY <2>3
            <3>2. left[t] = IF t = s THEN 1 ELSE 0
                BY <3>1
            <3> QED
                BY <3>2
        <2> HIDE DEF packages
        <2> QED
            BY <2>1, <2>2, <2>3, InvRequest
    <1> QED
        BY <1>1, <1>2, <1>3, <1>4, <1>5, <1>6, <1>7, <1>8, WorkerSteps

LEMMA InvInit == Init => RetailInv
    <1> SUFFICES ASSUME Init PROVE RetailInv
        OBVIOUS
    <1>1. \A x \in Counters : left[x] = due[x] /\ left[x] \in Int
        BY RetailAssumption DEF Init
    <1>2. \A x \in Cards \cup Sessions : x \in Counters
        BY CounterKinds
    <1>3. closed = {} /\ \A w \in Workers : tx[w] = NoTx
        BY DEF Init
    <1> QED
        BY <1>1, <1>2, <1>3 DEF RetailInv, CreditIsKept, ExhaustedIsServed, SerialCountersMatch

\* The invariant the three results below are read off.
THEOREM RetailInvariant == Spec => [](TypeOK /\ RetailInv)
    <1> QED
        BY TypeInit, TypeStep, InvInit, InvStep, PTL DEF Spec

\* Requests on a card or a package that lose each other's updates never leave
\* the customer with less than what was redeemed leaves.
THEOREM CustomersKeepCredit == Spec => []CreditIsKept
    <1>1. RetailInv => CreditIsKept
        BY DEF RetailInv
    <1> QED
        BY <1>1, RetailInvariant, PTL

\* A package is marked EXHAUSTED only after every session of it was had.
THEOREM ExhaustedPackagesAreServed == Spec => []ExhaustedIsServed
    <1>1. RetailInv => ExhaustedIsServed
        BY DEF RetailInv
    <1> QED
        BY <1>1, RetailInvariant, PTL

\* Counts that no two requests had open at once match their ledger.
THEOREM SerialLedgersMatch == Spec => []SerialCountersMatch
    <1>1. RetailInv => SerialCountersMatch
        BY DEF RetailInv
    <1> QED
        BY <1>1, RetailInvariant, PTL

(***************************************************************************)
(* The ledger                                                              *)
(***************************************************************************)
\* The counts of the ledger are the counters.
LEMMA LedgerCounts ==
    /\ Ledger!Counts = Counters
    /\ \A x \in Cards \cup Sessions : x \in Counters
    BY DEF Ledger!Counts, Counters

\* A request that opens a counter is nothing to the ledger, or a meeting on it.
LEMMA OpeningMeets ==
    ASSUME NEW w \in Workers, NEW x \in Counters, Meet(w, x), UNCHANGED <<left, due, closed>>
    PROVE  Ledger!Next \/ UNCHANGED <<left, due, shared, closed>>
    <1>1. shared' = shared \/ Ledger!Meet(x)
        BY DEF Meet, Ledger!Meet
    <1> QED
        BY <1>1, LedgerCounts DEF Ledger!Next

\* A commit posts what the session holds: to a counter that no other request
\* had open, what it would have posted alone.
LEMMA CommitPosts ==
    ASSUME TypeOK, RetailInv, RetailInv', NEW w \in Workers, Commit(w)
    PROVE  Ledger!Post
    <1>1. /\ \A x \in Counters :
                /\ left'[x] = IF Touched(w, x) THEN Value(w, x) ELSE left[x]
                /\ due'[x] = due[x] + tx[w].change[x]
          /\ left' \in [Counters -> Int] /\ due' \in [Counters -> Int]
          /\ closed' \subseteq Packages
        BY CommitEffect
    <1>2. \A x \in Counters : /\ Value(w, x) \in Int /\ left[x] \in Int /\ due[x] \in Int
                             /\ tx[w].change[x] \in Int /\ tx[w].seen[x] \in Int
        BY ValueType DEF Commit
    <1>3. SpendsCredit(w) /\ IsAlone(w)
        BY DEF RetailInv, Commit
    <1>4. ASSUME NEW x \in Counters \ shared
          PROVE  left'[x] - left[x] = due'[x] - due[x] /\ left'[x] >= 0
        <2>1. CASE Touched(w, x)
            <3>1. Value(w, x) = left[x] + tx[w].change[x] /\ Value(w, x) >= 0
                BY <1>3, <2>1 DEF IsAlone, Value, TypeOK
            <3> QED
                BY <1>1, <1>2, <2>1, <3>1
        <2>2. CASE ~Touched(w, x)
            <3>1. tx[w].change[x] = 0
                BY <2>2 DEF Touched, Commit
            <3>2. left[x] >= 0
                BY <1>2 DEF TypeOK
            <3> QED
                BY <1>1, <1>2, <2>2, <3>1, <3>2
        <2> QED
            BY <2>1, <2>2
    <1>5. \A x \in Cards \cup Sessions : due'[x] <= due[x] /\ due'[x] <= left'[x]
        <2> TAKE x \in Cards \cup Sessions
        <2>1. x \in Counters /\ tx[w].change[x] <= 0
            BY <1>3, LedgerCounts DEF SpendsCredit
        <2>2. left'[x] >= due'[x]
            BY DEF RetailInv, CreditIsKept
        <2>3. left'[x] \in Int /\ due'[x] \in Int
            BY <1>1, <2>1
        <2> QED
            BY <1>1, <1>2, <2>1, <2>2, <2>3
    <1>6. closed \subseteq closed' /\ shared' = shared
        BY DEF Commit
    <1>7. \A s \in Sessions : PackageOf[s] \in closed' => due'[s] <= 0
        BY DEF RetailInv, ExhaustedIsServed
    <1> QED
        BY <1>1, <1>4, <1>5, <1>6, <1>7, LedgerCounts DEF Ledger!Post

\* Every step of a request or of the owner is a step of the ledger, or none.
LEMMA LedgerStep ==
    ASSUME TypeOK, RetailInv, RetailInv', [Next]_vars
    PROVE  [Ledger!Next]_<<left, due, shared, closed>>
    <1>1. CASE UNCHANGED vars
        BY <1>1 DEF vars
    <1>2. ASSUME NEW p \in Products, NEW n \in Int, UpdateProduct(p, n) PROVE Ledger!Next
        <2>1. left' = [left EXCEPT ![p] = n] /\ left \in [Counters -> Int]
            BY <1>2 DEF UpdateProduct, TypeOK
        <2>2. left' \in [Counters -> Int] /\ \A y \in Counters \ {p} : left'[y] = left[y]
            BY <2>1
        <2>3. Ledger!TypeIn(p)
            BY <1>2, <2>2, LedgerCounts DEF Ledger!TypeIn, UpdateProduct
        <2> QED
            BY <2>3 DEF Ledger!Next
    <1>3. ASSUME NEW w \in Workers, BeginCheckout(w) \/ Refuse(w)
          PROVE  UNCHANGED <<left, due, shared, closed>>
        BY <1>3 DEF BeginCheckout, Refuse
    <1>4. ASSUME NEW w \in Workers, Commit(w) PROVE Ledger!Next
        BY <1>4, CommitPosts DEF Ledger!Next
    <1>5. ASSUME NEW w \in Workers, NEW x \in Products \cup Cards, NEW n \in Int, Take(w, x, n)
          PROVE  Ledger!Next \/ UNCHANGED <<left, due, shared, closed>>
        <2>1. x \in Counters /\ Meet(w, x) /\ UNCHANGED <<left, due, closed>>
            BY <1>5, CounterKinds DEF Take
        <2> QED
            BY <2>1, OpeningMeets
    <1>6. ASSUME NEW w \in Workers,
                 \/ \E p \in Products : \E n \in Int : RecordStockMovement(w, p, n)
                 \/ \E c \in Cards : \E n \in Int : RedeemGiftCard(w, c, n)
                 \/ \E s \in Sessions : RedeemService(w, s)
          PROVE  Ledger!Next \/ UNCHANGED <<left, due, shared, closed>>
        <2>1. PICK x \in Products \cup Cards \cup Sessions :
                  Meet(w, x) /\ UNCHANGED <<left, due, closed>>
            BY <1>6 DEF RecordStockMovement, RedeemGiftCard, RedeemService, Request
        <2>2. x \in Counters
            BY CounterKinds
        <2> QED
            BY <2>1, <2>2, OpeningMeets
    <1> QED
        BY <1>1, <1>2, <1>3, <1>4, <1>5, <1>6, WorkerSteps

\* POSService, InventoryService, GiftCardService and PackageService keep the
\* ledger SalonLedger: the step simulation, for any number of requests at once.
THEOREM LedgerIsKeptAlways == Spec => LedgerIsKept
    <1>1. Init => Ledger!Init
        BY DEF Init, Ledger!Init
    <1>2. (TypeOK /\ RetailInv) /\ (TypeOK /\ RetailInv)' /\ [Next]_vars
              => [Ledger!Next]_<<left, due, shared, closed>>
        BY LedgerStep
    <1> QED
        BY <1>1, <1>2, RetailInvariant, PTL DEF Spec, LedgerIsKept, Ledger!Spec

=============================================================================
