----------------------------- MODULE MCSitePages -----------------------------
(***************************************************************************)
(* The pages that are lists with dialogs in the business app, the pages of *)
(* the customer app, the onboarding, and the verification queue, on small  *)
(* instances: the page that is mounted is chosen at the start.             *)
(***************************************************************************)
EXTENDS StockRoom, MembershipDesk, GiftCardDesk, EditorPage,
        CalendarPage, PaymentDesk, ReplyDesk, CustomerNotes,
        BookPage, VisitPages, ProfilePage, Explore, Verification, Onboarding, TLC

CONSTANTS color, nails, ana, amy, bob, beard

\* There is nobody for the second service.
Trained == (color :> {ana}) @@ (nails :> {})

\* There is one customer on each page, and the search finds the one on the second.
Regulars == <<amy, bob>>
Matches == (Nil :> {amy, bob}) @@ (beard :> {bob})

ListsInit ==
    \/ RoomInit \/ MembershipInit \/ DeskInit \/ ServicesInit
    \/ StaffInit \/ CalendarInit \/ PaymentsInit \/ ReplyInit \/ NotesInit

ListsNext ==
    \/ RoomNext \/ MembershipNext \/ DeskNext \/ ServicesNext
    \/ StaffNext \/ CalendarNext \/ PaymentsNext \/ ReplyNext \/ NotesNext

SiteInit == ListsInit \/ BookInit \/ VisitInit \/ ProfileInit \/ ExploreInit \/ VerificationInit
            \/ OnboardingInit
SiteNext == ListsNext \/ BookNext \/ VisitNext \/ ProfileNext \/ ExploreNext \/ VerificationNext
            \/ OnboardingNext
SiteSpec == SiteInit /\ [][SiteNext]_webVars

SiteTypeOK ==
    /\ RoomTypeOK /\ MembershipTypeOK /\ DeskTypeOK /\ ServicesTypeOK
    /\ StaffTypeOK /\ CalendarTypeOK /\ PaymentsTypeOK /\ ReplyTypeOK /\ NotesTypeOK
    /\ BookTypeOK /\ VisitTypeOK /\ ProfileTypeOK /\ ExploreTypeOK /\ VerificationTypeOK
    /\ OnboardingTypeOK

\* Every list shows what the server finds for the filter or search that is set, once
\* nothing is under way: unless a request failed on its way, an answer overtook
\* another one, or a handler reloaded with the filter it was made with.  A day of
\* the calendar never shows the visits of another one; a code that was looked up is
\* answered for; and a listed payment has at most one refund under way.
ListsAreCurrent ==
    /\ InventoryIsCurrent /\ MembershipsAreCurrent /\ GiftCardsAreCurrent
    /\ ServicesAreCurrent /\ StaffAreCurrent /\ ResultsAreOfTheSearch
    /\ GridShowsEachDay /\ LookupAnswersTheLastQuestion /\ EachPaymentIsRefundedOnce

\* What is typed in a dialog, a form or a panel is stored for the row that it was
\* opened for: of services, of public replies and of the notes about customers,
\* whatever was opened, left and filtered away while a save was under way.
DialogsKeepToTheirRow ==
    ServicesKeepTheirIdentity /\ RepliesStayWithTheirReview /\ NotesStayWithTheirClient
=============================================================================
