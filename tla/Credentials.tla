---------------------------- MODULE Credentials ----------------------------
(***************************************************************************)
(* How a request URL travels: encodeCredentials and decodeCredentials of   *)
(* meshproto.cpp.  A URL is a sequence of characters; if it starts with    *)
(* the usual prefix only the rest is sent.  The hash of the URL goes along *)
(* and is also what later positions refer to.                              *)
(***************************************************************************)
EXTENDS Integers, Sequences

CONSTANTS
  Char,          \* characters
  UrlPrefix,     \* kUrlPrefix
  MaxUrlLen,     \* kMaxUrlLen
  urlHash(_),    \* FNV-1a, folded to 16 bits
  IsHttp(_)      \* starts with http:// or https://

\* A URL that consists of the prefix only is sent as it is.
HasPrefix(url) ==
  Len(url) > Len(UrlPrefix) /\ SubSeq(url, 1, Len(UrlPrefix)) = UrlPrefix

Body(url) == IF HasPrefix(url) THEN SubSeq(url, Len(UrlPrefix) + 1, Len(url)) ELSE url

\* An empty or longer URL is not sent at all.
CanBeSent(url) == Len(url) > 0 /\ Len(url) <= MaxUrlLen

encodeCredentials(url) ==
  [urlHash |-> urlHash(url), prefix |-> HasPrefix(url), body |-> Body(url)]

\* messageType: a message without a body is not taken for credentials.
IsCredentials(m) == Len(m.body) > 0

DecodedUrl(m) == (IF m.prefix THEN UrlPrefix ELSE <<>>) \o m.body

\* decodeCredentials returns TRUE.
decodeCredentials(m) ==
  /\ IsCredentials(m)
  /\ Len(DecodedUrl(m)) <= MaxUrlLen
  /\ urlHash(DecodedUrl(m)) = m.urlHash
  /\ IsHttp(DecodedUrl(m))
=============================================================================
