------------------------------ MODULE MCRetail ------------------------------
(***************************************************************************)
(* Retail on small instances: one product, one gift card, and one package  *)
(* of two services.                                                        *)
(***************************************************************************)
EXTENDS Retail, TLC

CONSTANTS p1, c1, cut, color, bundle

OneProduct == {p1}
OneCard == {c1}
TwoSessions == {cut, color}
OnePackage == {bundle}
Bundle == [s \in TwoSessions |-> bundle]
Stock == [x \in Counters |-> IF x = c1 THEN 2 ELSE 1]

RetailSymmetry == Permutations(Workers)
=============================================================================
