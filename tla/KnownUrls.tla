----------------------------- MODULE KnownUrls -----------------------------
(***************************************************************************)
(* What a gateway promises about the URLs of the trackers it serves: an    *)
(* address book.  It knows at most Capacity trackers and the URLs of some  *)
(* of them; a newcomer displaces one tracker, and only from a full book;   *)
(* after a restart the book holds what had been stored, which is every URL *)
(* but perhaps the one learnt last.                                        *)
(***************************************************************************)
EXTENDS Naturals, FiniteSets

CONSTANTS Trackers, Urls, NoUrl,
          Announced,   \* the URLs a tracker may announce
          Capacity

VARIABLES
  book,    \* tracker -> URL, or NoUrl while the gateway only waits for it
  stored   \* the trackers whose URL survives a restart

vars == <<book, stored>>

WithUrl == {t \in DOMAIN book : book[t] # NoUrl}
Unstored == WithUrl \ stored

Init == book = [t \in {} |-> NoUrl] /\ stored = {}

\* A tracker enters; of a full book one other leaves with all that was known.
Meet(t) ==
  /\ Unstored = {} /\ t \notin DOMAIN book
  /\ \E out \in SUBSET DOMAIN book :
       /\ Cardinality(out) = IF Cardinality(DOMAIN book) < Capacity THEN 0 ELSE 1
       /\ book' = [x \in (DOMAIN book \ out) \cup {t} |-> IF x = t THEN NoUrl ELSE book[x]]
       /\ stored' = stored \ out

\* Its URL arrives, the first or a changed one; it need not be stored at once ...
Learn(t, u) ==
  /\ Unstored = {} /\ t \in DOMAIN book
  /\ book' = [book EXCEPT ![t] = u]
  /\ stored' \in {stored, stored \cup {t}}

\* ... but it is before anything else changes.
Store == stored' = WithUrl /\ UNCHANGED book

Restart == book' = [t \in stored |-> book[t]] /\ UNCHANGED stored

Next ==
  \/ Store
  \/ \E t \in Trackers : Meet(t) \/ \E u \in Announced[t] : Learn(t, u)
  \/ Restart

Spec == Init /\ [][Next]_vars
=============================================================================
