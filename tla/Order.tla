-------------------------------- MODULE Order --------------------------------
(***************************************************************************)
(* The order of the lists that the API answers with, and their pages. Rows *)
(* are numbers, numbered in the order in which the API lists them, and a   *)
(* page is one row long.                                                   *)
(***************************************************************************)
EXTENDS Naturals, Sequences, FiniteSets

\* The rows in their order.
InOrder(rows) ==
  CHOOSE s \in [1..Cardinality(rows) -> rows] : \A i, j \in DOMAIN s : i < j => s[i] < s[j]

\* The page that was asked for: LIMIT and OFFSET.
Slice(s, page) == IF page \in DOMAIN s THEN <<s[page]>> ELSE <<>>
=============================================================================
