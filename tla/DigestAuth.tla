----------------------------- MODULE DigestAuth -----------------------------
(***************************************************************************)
(* The authentication providers of nxnet/auth that an RTSP client makes of  *)
(* a challenge: basic and digest.  A provider is a record.  A hash is stood *)
(* for by its name and what is hashed, a cnonce by a number.                *)
(***************************************************************************)
EXTENDS Naturals, Sequences, SequencesExt

\* AuthChallenge; an optional field that is not there is "" or, for the nonce, 0.
NoChallenge == [scheme |-> "none", realm |-> "", nonce |-> 0, algorithm |-> "",
                qop |-> ""]

NoProvider == [scheme |-> "none", challenge |-> NoChallenge, count |-> 0]

-----------------------------------------------------------------------------
(* AuthChallengeParser.  The header is a scheme and its parameters, each a   *)
(* key with a value; quoted says whether the value ends: "open" is a quote  *)
(* that is never closed.                                                   *)

Schemes == {"basic", "digest", "bearer"}

Parameter(key, value) == [key |-> key, value |-> value, quoted |-> "closed"]

\* A key that comes twice has its last value.
ValueOf(params, key, default) ==
  LET at == {i \in DOMAIN params : params[i].key = key} IN
  IF at = {} THEN default
  ELSE params[CHOOSE i \in at : \A j \in at : j <= i].value

ParsesAsChallenge(h) ==
  /\ h.scheme \in Schemes
  /\ \A i \in DOMAIN h.params : h.params[i].quoted # "open"

ParsedChallenge(h) ==
  [scheme |-> h.scheme,
   realm |-> ValueOf(h.params, "realm", ""), nonce |-> ValueOf(h.params, "nonce", 0),
   algorithm |-> ValueOf(h.params, "algorithm", ""),
   qop |-> ValueOf(h.params, "qop", "")]

-----------------------------------------------------------------------------
(* DigestAuthProvider *)

\* A digest provider takes a digest challenge with a nonce, and starts counting
\* anew; the others take no challenge.
ProcessChallenge(p, c) ==
  IF p.scheme = "digest" /\ c.scheme = "digest" /\ c.nonce # 0
  THEN [p EXCEPT !.challenge = c, !.count = 0] ELSE p

\* The provider send_request_with_auth makes of a challenge, whatever is no
\* digest being basic.
ProviderFor(c) ==
  ProcessChallenge(
    [NoProvider EXCEPT !.scheme = IF c.scheme = "digest" THEN "digest" ELSE "basic"], c)

\* Without a challenge or a nonce a digest provider makes no header.
MakesHeader(p) ==
  p.scheme = "basic" \/ (p.scheme = "digest" /\ p.challenge.nonce # 0)

CountKept(p)   == p.count
CountRaised(p) == p.count + 1

\* compute_hash: MD5 where nothing is said, SHA-256 for what it does not know.
IsSession(c) == c.algorithm \in {"MD5-sess", "SHA-256-sess"}
HashOf(c) ==
  CASE c.algorithm \in {"", "MD5", "MD5-sess"} -> "MD5"
    [] c.algorithm \in {"SHA-512", "SHA-512-256"} -> c.algorithm
    [] OTHER -> "SHA-256"
Hash(c, parts) == <<HashOf(c), parts>>

Ha1(c, user, cnonce) ==
  LET base == Hash(c, <<user, c.realm>>) IN
  IF IsSession(c) THEN Hash(c, <<base, c.nonce, cnonce>>) ELSE base

Ha2(c, method, uri) == Hash(c, <<method, uri>>)

\* compute_response.
Response(c, user, nc, cnonce, method, uri) ==
  IF c.qop # ""
  THEN Hash(c, <<Ha1(c, user, cnonce), c.nonce, nc, cnonce, c.qop, Ha2(c, method, uri)>>)
  ELSE Hash(c, <<Ha1(c, user, cnonce), c.nonce, Ha2(c, method, uri)>>)

NoHeader == [scheme |-> "none", nonce |-> 0, nc |-> 0, cnonce |-> 0, response |-> <<>>]

\* generate_authorization_header of the provider whose count has been raised.
Header(p, user, cnonce, method, uri) ==
  IF p.scheme = "basic" THEN [NoHeader EXCEPT !.scheme = "basic", !.response = <<user>>]
  ELSE [scheme |-> "digest", nonce |-> p.challenge.nonce, nc |-> p.count,
        cnonce |-> cnonce,
        response |-> Response(p.challenge, user, p.count, cnonce, method, uri)]

\* generate_authorization_header counts the nonce up.
Counted(p) == IF p.scheme = "digest" /\ MakesHeader(p)
              THEN [p EXCEPT !.count = CountRaised(p)] ELSE p
=============================================================================
