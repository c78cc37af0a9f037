------------------------------ MODULE ReplyDesk ------------------------------
(***************************************************************************)
(* The reviews page of a business                                          *)
(* (apps/business-web/src/app/dashboard/reviews/page.tsx): its reviews,    *)
(* filtered in the page, and one form that replies to one of them.         *)
(***************************************************************************)
EXTENDS Listing

CONSTANTS
    Posts,   \* ids of the reviews
    Ratings

ASSUME ReplyDeskAssumption == Nil \notin Posts \cup Ratings

\* A reply: the review in whose form it was typed; Nil: none.
\* server: the rating and the owner_reply of each review.
Replies == Posts \cup {Nil}
reply == server.reply
rated == server.rated

PostRows == [Posts -> Replies] \cup {[p \in {} |-> Nil]}

DeskOfReplies ==
    [key : {Nil}, rows : PostRows, loading : BOOLEAN,
     rating : Ratings \cup {Nil},                                    \* selectedRating
     filter : {"all", "unreplied", "replied"},                       \* replyFilter
     replying : Posts \cup {Nil}, text : Replies,                    \* replyingReviewId, replyText
     submitting : BOOLEAN]

ReplyInit ==
    /\ page = "reviews"
    /\ server \in [rated : [Posts -> Ratings],
                   reply : {[p \in Posts |-> IF p \in old THEN p ELSE Nil] : old \in SUBSET Posts}]
    /\ view = [key |-> Nil, rows |-> [p \in {} |-> Nil], loading |-> TRUE, rating |-> Nil, filter |-> "all",
               replying |-> Nil, text |-> Nil, submitting |-> FALSE]
    /\ MountList(Nil)

\* The page is a spinner while it loads.
Loaded == ~view.loading

\* The bars and buttons of a rating take it back when it is set.
RatingFilter(r) == Loaded /\ Show([view EXCEPT !.rating = IF view.rating = r THEN Nil ELSE r])
FilterTabs ==
    \/ \E r \in Ratings : RatingFilter(r)
    \/ Loaded /\ \E filter \in {"all", "unreplied", "replied"} : Show([view EXCEPT !.filter = filter])

FilteredReviews ==
    {p \in DOMAIN view.rows :
        /\ view.rating # Nil => rated[p] = view.rating
        /\ view.filter = "unreplied" => view.rows[p] = Nil
        /\ view.filter = "replied" => view.rows[p] # Nil}

\* Mutant: the text that was being typed stays in the form.
HandleStartReplyOver(p) ==
    /\ Loaded /\ p \in FilteredReviews /\ view.replying # p
    /\ Show([view EXCEPT !.replying = p])

\* Reply, and Edit.
HandleStartReply(p) ==
    /\ Loaded /\ p \in FilteredReviews /\ view.replying # p
    /\ Show([view EXCEPT !.replying = p, !.text = view.rows[p]])

FormShown == Loaded /\ view.replying \in FilteredReviews
HandleCancelReply == FormShown /\ Show([view EXCEPT !.replying = Nil, !.text = Nil])

HandleSubmitReply(c) ==
    /\ FormShown /\ ~view.submitting /\ view.text # Nil
    /\ Send(c, "reply", [post |-> view.replying, text |-> view.text])
    /\ view' = [view EXCEPT !.submitting = TRUE]
    /\ UNCHANGED <<server, past>>

\* The list of reviews, with the form in the one that is replied to.
ReviewsList(c) ==
    \/ \E p \in Posts : HandleStartReply(p)
    \/ FormShown /\ \E text \in {view.replying, Nil} : Show([view EXCEPT !.text = text])
    \/ HandleCancelReply
    \/ HandleSubmitReply(c)

\* reply_to_review: a reply replaces the one there was.
ServeReply(c) ==
    /\ Stands(c, "reply", "sent")
    /\ server' = [server EXCEPT !.reply[call[c].arg.post] = call[c].arg.text]
    /\ Answer(c, Nil)
    /\ UNCHANGED <<view, past>>

\* The form is closed and emptied, whatever review it is for by now.
ReceiveReply(c) ==
    Stands(c, "reply", "served") /\ Reload(c, Nil, [view EXCEPT !.replying = Nil, !.text = Nil, !.submitting = FALSE])

ReplyAnswers(c) ==
    \/ AnswerList(c, reply) \/ ReceiveList(c) \/ FailList(c, view.rows)
    \/ ServeReply(c) \/ ReceiveReply(c) \/ FailChange(c, "reply", [view EXCEPT !.submitting = FALSE])

ReplyNext ==
    /\ page = "reviews" /\ UNCHANGED page
    /\ \/ FilterTabs
       \/ \E c \in Calls : ReviewsList(c) \/ ReplyAnswers(c) \/ LoseInList(c)

(***************************************************************************)
(* Properties                                                              *)
(***************************************************************************)
ReplyTypeOK == page = "reviews" =>
    /\ \A c \in Calls : IsCall(call[c], [list |-> {Nil}, reply |-> [post : Posts, text : Posts]],
                                        [list |-> PostRows, reply |-> {}])
    /\ server \in [rated : [Posts -> Ratings], reply : [Posts -> Replies]]
    /\ view \in DeskOfReplies
    /\ past \in ListPast

\* A public reply stands under the review it was typed for, whichever forms were
\* opened, filtered away and closed by old answers meanwhile; and the page lists
\* the replies there are, if no request failed on its way or was overtaken.
RepliesStayWithTheirReview == page = "reviews" =>
    /\ \A p \in Posts : reply[p] \in {p, Nil}
    /\ Current(reply)
=============================================================================
