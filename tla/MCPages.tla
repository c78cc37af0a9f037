------------------------------- MODULE MCPages -------------------------------
(***************************************************************************)
(* All pages, one of which is mounted at the start, with two requests      *)
(* under way at most.                                                      *)
(***************************************************************************)
EXTENDS MCBusinessPages, MCSitePages

AppInit == PagesInit \/ SiteInit
AppNext == PagesNext \/ SiteNext
AppSpec == AppInit /\ [][AppNext]_webVars

Interchangeable == Permutations(Calls) \cup Permutations(Entries)
=============================================================================
