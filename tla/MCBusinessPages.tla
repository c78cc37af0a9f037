--------------------------- MODULE MCBusinessPages ---------------------------
(***************************************************************************)
(* The pages of the business app on which something is planned, sold or    *)
(* filled in, on small instances: the page that is mounted is chosen at    *)
(* the start.                                                              *)
(***************************************************************************)
EXTENDS Schedule, Till, BranchHours, BusinessForm, Subscription, PackageSales, TLC

CONSTANTS cut

\* The services of a package are interchangeable: its first line is for a cut.
PackInitOfOneOrder == PackInit /\ \A p \in Packs : server.lines[p][1] = cut

PagesInit ==
    \/ ScheduleInit \/ LeaveInit \/ TillInit \/ HoursInit
    \/ FormInit \/ SubscriptionInit \/ PackInitOfOneOrder

PagesNext ==
    \/ ScheduleNext \/ LeaveNext \/ TillNext \/ HoursNext
    \/ FormNext \/ SubscriptionNext \/ PackNext

PagesSpec == PagesInit /\ [][PagesNext]_webVars

PagesTypeOK ==
    /\ ScheduleTypeOK /\ LeaveTypeOK /\ TillTypeOK /\ HoursTypeOK
    /\ FormTypeOK /\ SubscriptionTypeOK /\ PackTypeOK
=============================================================================
