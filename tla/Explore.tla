------------------------------- MODULE Explore -------------------------------
(***************************************************************************)
(* The search for a business                                               *)
(* (apps/customer-web/src/app/(public)/explore/page.tsx): every change of  *)
(* the words, the city or the category searches, and so does the button.   *)
(* The first 24 results are all.                                           *)
(***************************************************************************)
EXTENDS Listing

CONSTANTS
    Shops,       \* ids of the businesses
    Words,       \* what is searched for
    Cities,      \* what is typed as a city
    Kinds        \* the categories of businesses

ASSUME ExploreAssumption == Nil \notin Shops \cup Words \cup Cities \cup Kinds

Searches == [words : Words \cup {Nil}, city : Cities \cup {Nil}, category : Kinds \cup {Nil}]

\* server: the words and the category that each business is found by.  The city
\* of a search comes as far as BusinessRepository.search, which does not use it.
Found(search) ==
    {s \in Shops :
        /\ search.words \in {server[s].words, Nil}
        /\ search.category \in {server[s].category, Nil}}

\* The search that a link opened the page with.
ExploreInit ==
    /\ page = "explore"
    /\ server \in [Shops -> [words : Words, category : Kinds]]
    /\ \E key \in Searches :
          /\ view = [key |-> key, rows |-> {}, loading |-> TRUE]
          /\ MountList(key)

SetKey(c, key) == key # view.key /\ LoadList(c, [view EXCEPT !.key = key])

\* The inputs, and the button.
ExploreForm(c) ==
    \/ \E words \in Words \cup {Nil} : SetKey(c, [view.key EXCEPT !.words = words])
    \/ \E city \in Cities \cup {Nil} : SetKey(c, [view.key EXCEPT !.city = city])
    \/ LoadList(c, view)

CategoryPills(c) ==
    \E category \in Kinds \cup {Nil} : SetKey(c, [view.key EXCEPT !.category = category])

FetchBusinesses(c) == AnswerList(c, Found(call[c].arg)) \/ ReceiveList(c) \/ FailList(c, {})

ExploreNext ==
    /\ page = "explore" /\ UNCHANGED page
    /\ \E c \in Calls : ExploreForm(c) \/ CategoryPills(c) \/ FetchBusinesses(c) \/ LoseInList(c)

(***************************************************************************)
(* Properties                                                              *)
(***************************************************************************)
ExploreTypeOK == page = "explore" =>
    /\ \A c \in Calls : IsCall(call[c], [list |-> Searches], [list |-> SUBSET Shops])
    /\ server \in [Shops -> [words : Words, category : Kinds]]
    /\ view \in [key : Searches, rows : SUBSET Shops, loading : BOOLEAN]
    /\ past \in ListPast

\* The businesses that are shown are those that the server finds for the search that
\* is set, by its words and its category in whatever city, if no answer overtook
\* another one and none was lost.
ResultsAreOfTheSearch == page = "explore" => Current(Found(view.key))
=============================================================================
