-------------------------------- MODULE Jwt --------------------------------
(***************************************************************************)
(* The part of the bundled jwt-cpp library that the server uses: building  *)
(* and signing a token for GET /api/ws, and deciding whether the token of  *)
(* a WebSocket upgrade is accepted.                                        *)
(*                                                                         *)
(* A token is the sequence of its segments (the parts between the dots).   *)
(* A segment is what its base64url text decodes to:                        *)
(*    garbage  - nothing: it is not base64url                              *)
(*    bytes    - bytes that are not JSON                                   *)
(*    value    - JSON, but not an object                                   *)
(*    object   - a JSON object, of which only the claims matter            *)
(*    hmac     - the HMAC of an algorithm over the two segments before it  *)
(* The HMAC is ideal: different inputs have different HMACs.               *)
(*                                                                         *)
(* A claim is a JSON value [type |-> ..., val |-> ...], and a JSON object  *)
(* is a function from the names in it to claims.  A point of system_clock  *)
(* time is a whole number of clock ticks and one second is TicksPerSecond  *)
(* of them.  An operator with Error in its name gives "ok", or the error   *)
(* that the call sets or throws.                                           *)
(***************************************************************************)
EXTENDS Integers, Sequences

CONSTANTS TicksPerSecond,   \* resolution of system_clock (10^9 in libstdc++)
          ClockLimit,       \* first tick the clock cannot hold (2^63)
          LifetimeSeconds   \* of an issued token (3600)

ASSUME ClockAssumption ==
  /\ TicksPerSecond \in Nat \ {0}
  /\ ClockLimit \in Nat \ {0}
  /\ LifetimeSeconds \in Nat

(* operator[] of a JSON object or an unordered_map, assigned to. *)
Put(map, name, value) ==
  [n \in DOMAIN map \cup {name} |-> IF n = name THEN value ELSE map[n]]

Empty == [n \in {} |-> n]

-----------------------------------------------------------------------------
(* basic_claim. *)

Claim(t, v) == [type |-> t, val |-> v]

(* get_type(): there is no type for a JSON null. *)
TypeError(c) == IF c.type = "null" THEN "logic_error" ELSE "ok"

(* as_string() and its siblings, each for one type. *)
CastError(c, t) == IF c.type = t THEN "ok" ELSE "bad_cast"

(* as_set(), for an array: its val is the sequence of its elements. *)
SetError(c) ==
  IF \A i \in DOMAIN c.val : CastError(c.val[i], "string") = "ok" THEN "ok" ELSE "bad_cast"

as_set(c) == {c.val[i].val : i \in DOMAIN c.val}

(* system_clock::to_time_t: whole seconds, rounded towards the past. *)
to_time_t(tick) == tick \div TicksPerSecond

(* The signed tick counter.  Turning seconds into ticks overflows for dates
   beyond the year 2262; the generated multiplication wraps. *)
Wrap(tick) ==
  IF tick \in (-ClockLimit)..(ClockLimit - 1)
  THEN tick
  ELSE ((tick + ClockLimit) % (2 * ClockLimit)) - ClockLimit

from_time_t(seconds) == Wrap(seconds * TicksPerSecond)

(* std::round of a JSON number, given in tenths: nearest integer, halves away
   from zero. *)
Round(tenths) ==
  IF tenths >= 0 THEN (tenths + 5) \div 10 ELSE -((5 - tenths) \div 10)

(* as_date() takes a number or an integer. *)
DateError(c) ==
  IF TypeError(c) # "ok" THEN TypeError(c)
  ELSE IF c.type = "number" THEN "ok"
  ELSE CastError(c, "integer")

as_date(c) ==
  from_time_t(IF c.type = "number" THEN Round(c.val) ELSE c.val)

(* basic_claim(date). *)
DateClaim(tick) == Claim("integer", to_time_t(tick))

-----------------------------------------------------------------------------
(* Segments and their claims. *)

Garbage == [kind |-> "garbage"]
Bytes(b) == [kind |-> "bytes", bytes |-> b]
Value == [kind |-> "value"]
Object(claims) == [kind |-> "object", claims |-> claims]

has_claim(claims, name) == name \in DOMAIN claims

(* get_claim() throws if there is none of that name. *)
ClaimError(claims, name) == IF has_claim(claims, name) THEN "ok" ELSE "claim_not_present"

(* json::parse() throws on what is not JSON, as_object() on another value. *)
ParseError(segment) ==
  CASE segment.kind = "object" -> "ok"
    [] segment.kind = "value" -> "bad_cast"
    [] OTHER -> "system_error"

-----------------------------------------------------------------------------
(* algorithm::hs256, an hmacsha. *)

hs256(key) == [name |-> "HS256", key |-> key]

Hmac(algo, data) == [kind |-> "hmac", algo |-> algo, data |-> data]

(* Faulty variant: only the bytes present in both signatures are compared, so
   an empty one matches. *)
Matches_NoLength(algo, data, signature) ==
  signature = Bytes("") \/ signature = Hmac(algo, data)

(* hmacsha::verify: sign again and compare. *)
Matches(algo, data, signature) == signature = Hmac(algo, data)

-----------------------------------------------------------------------------
(* builder. *)

builder == [header_claims |-> Empty, payload_claims |-> Empty]

set_header_claim(b, id, c) == [b EXCEPT !.header_claims = Put(@, id, c)]
set_payload_claim(b, id, c) == [b EXCEPT !.payload_claims = Put(@, id, c)]
set_issuer(b, str) == set_payload_claim(b, "iss", Claim("string", str))
set_audience(b, aud) == set_payload_claim(b, "aud", Claim("string", aud))
set_expires_at(b, d) == set_payload_claim(b, "exp", DateClaim(d))
set_issued_at(b, d) == set_payload_claim(b, "iat", DateClaim(d))

(* The header gets an "alg" if it has none. *)
sign(b, algo) ==
  LET alg == IF has_claim(b.header_claims, "alg") THEN b
             ELSE set_header_claim(b, "alg", Claim("string", algo.name))
      h == Object(alg.header_claims)
      p == Object(b.payload_claims)
  IN  <<h, p, Hmac(algo, <<h, p>>)>>

Secret == "secret"
Issuer == "auth0"
Audience == "aud0"

(* What handle_request answers to GET /api/ws.  The clock is read twice, at
   ticks t1 and t2, for iat and exp. *)
Issued(t1, t2) ==
  LET b == set_issued_at(set_audience(set_issuer(builder, Issuer), Audience), t1)
  IN  set_expires_at(b, t2 + LifetimeSeconds * TicksPerSecond)

IssuedToken(t1, t2) == sign(Issued(t1, t2), hs256(Secret))

-----------------------------------------------------------------------------
(* decoded_jwt: three segments, of which the first two are JSON objects.
   Whatever follows the second dot is the third segment, and a further dot in
   it is not base64url. *)

DecodeError(token) ==
  IF Len(token) < 3 THEN "invalid_argument"
  ELSE IF Len(token) > 3 \/ \E i \in 1..3 : token[i].kind = "garbage" THEN "runtime_error"
  ELSE IF ParseError(token[1]) # "ok" THEN ParseError(token[1])
  ELSE ParseError(token[2])

decoded_jwt(token) ==
  [header_claims |-> token[1].claims, payload_claims |-> token[2].claims,
   data |-> <<token[1], token[2]>>, signature |-> token[3]]

(* get_algorithm(). *)
AlgorithmError(jwt) ==
  IF ClaimError(jwt.header_claims, "alg") # "ok" THEN ClaimError(jwt.header_claims, "alg")
  ELSE CastError(jwt.header_claims["alg"], "string")

-----------------------------------------------------------------------------
(* The checks of single claims. *)

(* What a check is given: [current_time, jwt, default_leeway, claim_key]. *)
verify_context(v, jwt, now, name) ==
  [current_time |-> now, jwt |-> jwt, default_leeway |-> v.default_leeway, claim_key |-> name]

claim(ctx) == ctx.jwt.payload_claims[ctx.claim_key]

(* verify_context::get_claim, without and with a type. *)
MissingError(ctx) ==
  IF has_claim(ctx.jwt.payload_claims, ctx.claim_key) THEN "ok" ELSE "missing_claim"

MismatchError(ctx, t) ==
  IF MissingError(ctx) # "ok" THEN MissingError(ctx)
  ELSE IF TypeError(claim(ctx)) # "ok" THEN TypeError(claim(ctx))
  ELSE IF claim(ctx).type # t THEN "claim_type_missmatch" ELSE "ok"

equals_claim(expected, ctx) ==
  IF MismatchError(ctx, expected.type) # "ok" THEN MismatchError(ctx, expected.type)
  ELSE IF claim(ctx).val = expected.val THEN "ok" ELSE "claim_value_missmatch"

(* A token's audience is a string or an array. *)
is_subset_claim(expected, ctx) ==
  LET c == claim(ctx)
      held == IF c.type = "string" THEN expected = {c.val} ELSE expected \subseteq as_set(c)
  IN  IF MissingError(ctx) # "ok" THEN MissingError(ctx)
      ELSE IF TypeError(c) # "ok" THEN TypeError(c)
      ELSE IF c.type \notin {"string", "array"} THEN "claim_type_missmatch"
      ELSE IF c.type = "array" /\ SetError(c) # "ok" THEN SetError(c)
      ELSE IF held THEN "ok" ELSE "audience_missmatch"

(* Faulty variant: the leeway is taken for ticks. *)
Slack_Ticks(l) == l

Slack(l) == l * TicksPerSecond

(* Faulty variant: times are compared as whole seconds. *)
Expired_Seconds(c, l, now) == to_time_t(now) > to_time_t(as_date(c) + Slack(l))

Expired(c, l, now) == now > Wrap(as_date(c) + Slack(l))

(* Faulty variant: a token is not yet good at the second it was issued. *)
NotYet_Inclusive(c, l, now) == now <= Wrap(as_date(c) - Slack(l))

NotYet(c, l, now) == now < Wrap(as_date(c) - Slack(l))

(* The checks that a new verifier has: of "exp"; of "iat", and likewise "nbf". *)
ExpiresError(ctx) ==
  IF MissingError(ctx) # "ok" THEN "ok"
  ELSE IF DateError(claim(ctx)) # "ok" THEN DateError(claim(ctx))
  ELSE IF Expired(claim(ctx), ctx.default_leeway, ctx.current_time) THEN "token_expired" ELSE "ok"

IssuedError(ctx) ==
  IF MissingError(ctx) # "ok" THEN "ok"
  ELSE IF DateError(claim(ctx)) # "ok" THEN DateError(claim(ctx))
  ELSE IF NotYet(claim(ctx), ctx.default_leeway, ctx.current_time) THEN "token_expired" ELSE "ok"

(* The checks with a leeway of their own, which insist on a date and on an
   integer. *)
date_before_claim(l, ctx) ==
  IF MismatchError(ctx, "integer") # "ok" THEN MismatchError(ctx, "integer")
  ELSE IF Expired(claim(ctx), l, ctx.current_time) THEN "token_expired" ELSE "ok"

date_after_claim(l, ctx) ==
  IF MismatchError(ctx, "integer") # "ok" THEN MismatchError(ctx, "integer")
  ELSE IF NotYet(claim(ctx), l, ctx.current_time) THEN "token_expired" ELSE "ok"

CheckError(check, ctx) ==
  CASE check.op = "expires" -> ExpiresError(ctx)
    [] check.op = "issued" -> IssuedError(ctx)
    [] check.op = "date_before" -> date_before_claim(check.leeway, ctx)
    [] check.op = "date_after" -> date_after_claim(check.leeway, ctx)
    [] check.op = "equals" -> equals_claim(check.expected, ctx)
    [] check.op = "is_subset" -> is_subset_claim(check.expected, ctx)

-----------------------------------------------------------------------------
(* verifier: one check for each of its claims. *)

verifier ==
  [default_leeway |-> 0, algs |-> Empty,
   claims |-> [n \in {"exp", "iat", "nbf"} |-> [op |-> IF n = "exp" THEN "expires" ELSE "issued"]]]

with_claim(v, name, check) == [v EXCEPT !.claims = Put(@, name, check)]
with_issuer(v, iss) == with_claim(v, "iss", [op |-> "equals", expected |-> Claim("string", iss)])
with_audience(v, aud) == with_claim(v, "aud", [op |-> "is_subset", expected |-> {aud}])
allow_algorithm(v, alg) == [v EXCEPT !.algs = Put(@, alg.name, alg)]

(* A leeway for all dates, and one for a date of its own, which replaces the
   check of that date. *)
leeway(v, l) == [v EXCEPT !.default_leeway = l]
expires_at_leeway(v, l) == with_claim(v, "exp", [op |-> "date_before", leeway |-> l])
issued_at_leeway(v, l) == with_claim(v, "iat", [op |-> "date_after", leeway |-> l])

ClaimErrors(v, jwt, now) ==
  {CheckError(v.claims[n], verify_context(v, jwt, now, n)) : n \in DOMAIN v.claims} \ {"ok"}

(* verifier::verify(): every outcome the call may have.  The checks sit in an
   unordered_map, so which of several failing ones is reported is not
   determined. *)
Outcomes(v, jwt, now) ==
  LET alg == jwt.header_claims["alg"].val
  IN  IF AlgorithmError(jwt) # "ok" THEN {AlgorithmError(jwt)}
      ELSE IF alg \notin DOMAIN v.algs THEN {"wrong_algorithm"}
      ELSE IF ~Matches(v.algs[alg], jwt.data, jwt.signature) THEN {"invalid_signature"}
      ELSE IF ClaimErrors(v, jwt, now) = {} THEN {"ok"}
      ELSE ClaimErrors(v, jwt, now)

(* decode(), then verify(). *)
VerifyWith(v, token, now) ==
  IF DecodeError(token) # "ok" THEN {DecodeError(token)}
  ELSE Outcomes(v, decoded_jwt(token), now)

(* The verifier that websocket_session::run sets up. *)
Verifier == with_audience(with_issuer(allow_algorithm(verifier, hs256(Secret)), Issuer), Audience)

Verify(token, now) == VerifyWith(Verifier, token, now)

Accepts(token, now) == "ok" \in Verify(token, now)

=============================================================================
