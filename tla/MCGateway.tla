----------------------------- MODULE MCGateway -----------------------------
(* Instances of Gateway for TLC: tracker n1 may change between two URLs, and *)
(* the URL of n2 has the same hash as one of n1's.                           *)
EXTENDS Gateway

CONSTANTS n1, n2, n3, a1, a2, b, c, h1, h2

MCTrackerUrls ==
  [n \in Nodes |-> Urls \cap CASE n = n1 -> {a1, a2} [] n = n2 -> {b} [] OTHER -> {c}]
MCHashOf == [u \in Urls |-> IF u \in {a1, b} THEN h1 ELSE h2]
=============================================================================
