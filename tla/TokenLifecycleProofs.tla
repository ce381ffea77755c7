------------------------ MODULE TokenLifecycleProofs ------------------------
(***************************************************************************)
(* What the life of a token looks like for every resolution of the clock,  *)
(* every lifetime and every number of tokens and inventions.               *)
(***************************************************************************)
EXTENDS TokenLifecycle, TLAPS

-----------------------------------------------------------------------------
(* Lemmas about the operators of Jwt. *)

(* Whole seconds lose less than one second. *)
LEMMA WholeSeconds ==
  ASSUME NEW a \in Nat, NEW n \in Nat \ {0}
  PROVE  /\ a \div n \in Nat
         /\ (a \div n) * n \in Nat
         /\ (a \div n) * n <= a
         /\ a < (a \div n) * n + n
BY SMT

(* A date written into a claim comes back rounded down to a whole second. *)
LEMMA DateComesBack ==
  ASSUME NEW tick \in Nat, tick < ClockLimit
  PROVE  /\ as_date(DateClaim(tick)) = (tick \div TicksPerSecond) * TicksPerSecond
         /\ as_date(DateClaim(tick)) \in 0..tick
         /\ tick < as_date(DateClaim(tick)) + TicksPerSecond
<1> DEFINE date == (tick \div TicksPerSecond) * TicksPerSecond
<1>1. /\ date \in Nat
      /\ date <= tick
      /\ tick < date + TicksPerSecond
  BY WholeSeconds, ClockAssumption DEF ClockAssumption
<1>2. as_date(DateClaim(tick)) = Wrap(date)
  BY DEF as_date, DateClaim, Claim, from_time_t, to_time_t
<1>3. Wrap(date) = date
  <2>1. date \in (-ClockLimit)..(ClockLimit - 1)
    BY <1>1, ClockAssumption DEF ClockAssumption
  <2> QED
    BY <2>1 DEF Wrap
<1> QED
  BY <1>1, <1>2, <1>3

(* The two checks of a date that the server wrote itself: those of a new
   verifier with its default leeway, and those with a leeway of their own. *)
LEMMA DateChecks ==
  ASSUME NEW tick \in Nat, NEW l, Slack(l) \in Nat, tick + Slack(l) < ClockLimit,
         NEW ctx, ctx.current_time \in Int, NEW check,
         has_claim(ctx.jwt.payload_claims, ctx.claim_key), claim(ctx) = DateClaim(tick)
  PROVE  LET date == as_date(DateClaim(tick))
             before == \/ check = [op |-> "expires"] /\ ctx.default_leeway = l
                       \/ check = [op |-> "date_before", leeway |-> l]
             after == \/ check = [op |-> "issued"] /\ ctx.default_leeway = l
                      \/ check = [op |-> "date_after", leeway |-> l]
             error(late) == IF late THEN "token_expired" ELSE "ok"
         IN  /\ before => CheckError(check, ctx) = error(ctx.current_time > date + Slack(l))
             /\ after => CheckError(check, ctx) = error(ctx.current_time < date - Slack(l))
<1> DEFINE c == DateClaim(tick)
<1>1. c.type = "integer" /\ claim(ctx) = c
  BY DEF DateClaim, Claim
<1>2. /\ TypeError(c) = "ok" /\ DateError(c) = "ok"
      /\ MissingError(ctx) = "ok" /\ MismatchError(ctx, "integer") = "ok"
  BY <1>1 DEF TypeError, DateError, CastError, MissingError, MismatchError
<1>3. ClockLimit \in Nat
  BY ClockAssumption DEF ClockAssumption
<1>4. as_date(c) \in 0..tick
  BY <1>3, DateComesBack
<1>5. Wrap(as_date(c) + Slack(l)) = as_date(c) + Slack(l) /\ Wrap(as_date(c) - Slack(l)) = as_date(c) - Slack(l)
  BY <1>3, <1>4 DEF Wrap
<1> HIDE DEF c
<1>6. /\ Expired(c, l, ctx.current_time) <=> ctx.current_time > as_date(c) + Slack(l)
      /\ NotYet(c, l, ctx.current_time) <=> ctx.current_time < as_date(c) - Slack(l)
  BY <1>5 DEF Expired, NotYet
<1>7. ASSUME check = [op |-> "expires"], ctx.default_leeway = l
      PROVE  CheckError(check, ctx) = IF Expired(c, l, ctx.current_time) THEN "token_expired" ELSE "ok"
  <2>1. CheckError(check, ctx) = ExpiresError(ctx)
    BY <1>7 DEF CheckError
  <2> QED
    BY <1>1, <1>2, <1>7, <2>1 DEF ExpiresError
<1>8. ASSUME check = [op |-> "date_before", leeway |-> l]
      PROVE  CheckError(check, ctx) = IF Expired(c, l, ctx.current_time) THEN "token_expired" ELSE "ok"
  <2>1. CheckError(check, ctx) = date_before_claim(l, ctx)
    BY <1>8 DEF CheckError
  <2> QED
    BY <1>1, <1>2, <2>1 DEF date_before_claim
<1>9. ASSUME check = [op |-> "issued"], ctx.default_leeway = l
      PROVE  CheckError(check, ctx) = IF NotYet(c, l, ctx.current_time) THEN "token_expired" ELSE "ok"
  <2>1. CheckError(check, ctx) = IssuedError(ctx)
    BY <1>9 DEF CheckError
  <2> QED
    BY <1>1, <1>2, <1>9, <2>1 DEF IssuedError
<1>10. ASSUME check = [op |-> "date_after", leeway |-> l]
       PROVE  CheckError(check, ctx) = IF NotYet(c, l, ctx.current_time) THEN "token_expired" ELSE "ok"
  <2>1. CheckError(check, ctx) = date_after_claim(l, ctx)
    BY <1>10 DEF CheckError
  <2> QED
    BY <1>1, <1>2, <2>1 DEF date_after_claim
<1> QED
  BY <1>6, <1>7, <1>8, <1>9, <1>10 DEF c

(* The server's verifier, with a leeway of l for the dates of its tokens, given
   in either way. *)
Checks(v, l) ==
  /\ "HS256" \in DOMAIN v.algs
  /\ v.algs["HS256"] = hs256(Secret)
  /\ DOMAIN v.claims = {"exp", "iat", "nbf", "iss", "aud"}
  /\ v.claims["iss"] = [op |-> "equals", expected |-> Claim("string", Issuer)]
  /\ v.claims["aud"] = [op |-> "is_subset", expected |-> {Audience}]
  /\ v.claims["nbf"] = [op |-> "issued"]
  /\ \/ v.claims["exp"] = [op |-> "expires"] /\ v.default_leeway = l
     \/ v.claims["exp"] = [op |-> "date_before", leeway |-> l]
  /\ \/ v.claims["iat"] = [op |-> "issued"] /\ v.default_leeway = l
     \/ v.claims["iat"] = [op |-> "date_after", leeway |-> l]

LEMMA VerifierIsNew ==
  /\ Checks(Verifier, 0)
  /\ Verifier.claims["exp"] = [op |-> "expires"]
  /\ Verifier.claims["iat"] = [op |-> "issued"]
<1> DEFINE allowed == allow_algorithm(verifier, hs256(Secret))
           issuer == with_issuer(allowed, Issuer)
<1>1. /\ allowed.algs = Put(Empty, "HS256", hs256(Secret))
      /\ allowed.claims = verifier.claims
      /\ allowed.default_leeway = 0
  BY DEF allow_algorithm, verifier, hs256
<1>2. /\ issuer.algs = allowed.algs /\ issuer.default_leeway = 0
      /\ issuer.claims = Put(allowed.claims, "iss", [op |-> "equals", expected |-> Claim("string", Issuer)])
  BY DEF with_issuer, with_claim, allow_algorithm, verifier
<1>3. /\ Verifier.algs = allowed.algs /\ Verifier.default_leeway = 0
      /\ Verifier.claims = Put(issuer.claims, "aud", [op |-> "is_subset", expected |-> {Audience}])
  BY DEF Verifier, with_audience, with_issuer, with_claim, allow_algorithm, verifier
<1>4. /\ DOMAIN verifier.claims = {"exp", "iat", "nbf"}
      /\ verifier.claims["exp"] = [op |-> "expires"]
      /\ verifier.claims["iat"] = [op |-> "issued"]
      /\ verifier.claims["nbf"] = [op |-> "issued"]
  BY DEF verifier
<1> HIDE DEF allowed, issuer
<1>5. /\ "HS256" \in DOMAIN Verifier.algs
      /\ Verifier.algs["HS256"] = hs256(Secret)
  BY <1>1, <1>3 DEF Put
<1>6. /\ DOMAIN issuer.claims = {"exp", "iat", "nbf", "iss"}
      /\ issuer.claims["iss"] = [op |-> "equals", expected |-> Claim("string", Issuer)]
      /\ \A n \in {"exp", "iat", "nbf"} : issuer.claims[n] = verifier.claims[n]
  BY <1>1, <1>2, <1>4 DEF Put
<1>7. /\ DOMAIN Verifier.claims = {"exp", "iat", "nbf", "iss", "aud"}
      /\ Verifier.claims["aud"] = [op |-> "is_subset", expected |-> {Audience}]
      /\ \A n \in {"exp", "iat", "nbf", "iss"} : Verifier.claims[n] = issuer.claims[n]
  BY <1>3, <1>6 DEF Put
<1> QED
  BY <1>3, <1>4, <1>5, <1>6, <1>7 DEF Checks

(* It allows no other algorithm. *)
LEMMA VerifierKnows == \A alg \in DOMAIN Verifier.algs : Verifier.algs[alg] = hs256(Secret)
<1>1. Verifier.algs = Put(Empty, "HS256", hs256(Secret))
  BY DEF Verifier, with_audience, with_issuer, with_claim, allow_algorithm, verifier, hs256
<1>2. DOMAIN Empty = {}
  BY DEF Empty
<1> QED
  BY <1>1, <1>2 DEF Put

LEMMA LenientChecks ==
  ASSUME NEW l, NEW v \in Lenient(l)
  PROVE  Checks(v, l)
<1>1. CASE v = leeway(Verifier, l)
  <2>1. v.algs = Verifier.algs /\ v.claims = Verifier.claims /\ v.default_leeway = l
    BY <1>1 DEF leeway, Verifier, with_audience, with_issuer, with_claim, allow_algorithm, verifier
  <2>2. /\ v.claims["exp"] = [op |-> "expires"]
        /\ v.claims["iat"] = [op |-> "issued"]
    BY <2>1, VerifierIsNew
  <2> QED
    BY <2>1, <2>2, VerifierIsNew DEF Checks
<1>2. CASE v = issued_at_leeway(expires_at_leeway(Verifier, l), l)
  <2> DEFINE before == [op |-> "date_before", leeway |-> l]
             after == [op |-> "date_after", leeway |-> l]
             claims == Put(Verifier.claims, "exp", before)
  <2>1. v.algs = Verifier.algs /\ v.claims = Put(claims, "iat", after)
    BY <1>2 DEF issued_at_leeway, expires_at_leeway, Verifier, with_audience, with_issuer, with_claim,
                allow_algorithm, verifier
  <2>2. DOMAIN Verifier.claims = {"exp", "iat", "nbf", "iss", "aud"}
    BY VerifierIsNew DEF Checks
  <2>3. /\ DOMAIN claims = {"exp", "iat", "nbf", "iss", "aud"}
        /\ claims["exp"] = before
        /\ \A n \in {"nbf", "iss", "aud"} : claims[n] = Verifier.claims[n]
    BY <2>2 DEF Put
  <2> HIDE DEF before, after, claims
  <2>4. /\ DOMAIN v.claims = {"exp", "iat", "nbf", "iss", "aud"}
        /\ v.claims["exp"] = before
        /\ v.claims["iat"] = after
        /\ \A n \in {"nbf", "iss", "aud"} : v.claims[n] = Verifier.claims[n]
    BY <2>1, <2>3 DEF Put
  <2> QED
    BY <2>1, <2>4, VerifierIsNew DEF Checks, before, after
<1> QED
  BY <1>1, <1>2 DEF Lenient

(* The two parts of an issued token, and what is in them. *)
Header == Object(Put(Empty, "alg", Claim("string", "HS256")))
Payload(t1, t2) == Object(Issued(t1, t2).payload_claims)

LEMMA HeaderClaims ==
  /\ Header.kind = "object"
  /\ has_claim(Header.claims, "alg")
  /\ Header.claims["alg"] = Claim("string", "HS256")
BY DEF Header, Object, has_claim, Put

LEMMA PayloadClaims ==
  ASSUME NEW t1, NEW t2
  PROVE  LET claims == Payload(t1, t2).claims
         IN  /\ Payload(t1, t2).kind = "object"
             /\ DOMAIN claims = {"iss", "aud", "iat", "exp"}
             /\ claims["iss"] = Claim("string", Issuer)
             /\ claims["aud"] = Claim("string", Audience)
             /\ claims["iat"] = DateClaim(t1)
             /\ claims["exp"] = DateClaim(t2 + LifetimeSeconds * TicksPerSecond)
<1> DEFINE last == t2 + LifetimeSeconds * TicksPerSecond
           iss == Put(Empty, "iss", Claim("string", Issuer))
           aud == Put(iss, "aud", Claim("string", Audience))
           iat == Put(aud, "iat", DateClaim(t1))
           exp == Put(iat, "exp", DateClaim(last))
<1>1. Issued(t1, t2).payload_claims = exp
  <2> HIDE DEF iss, aud, iat, exp
  <2> DEFINE b1 == set_issuer(builder, Issuer)
             b2 == set_audience(b1, Audience)
             b3 == set_issued_at(b2, t1)
  <2>1. b1 = [header_claims |-> Empty, payload_claims |-> iss]
    BY DEF builder, set_issuer, set_payload_claim, iss
  <2>2. b2 = [header_claims |-> Empty, payload_claims |-> aud]
    BY <2>1 DEF set_audience, set_payload_claim, aud
  <2>3. b3 = [header_claims |-> Empty, payload_claims |-> iat]
    BY <2>2 DEF set_issued_at, set_payload_claim, iat
  <2> HIDE DEF b3
  <2>4. set_expires_at(b3, last) = [header_claims |-> Empty, payload_claims |-> exp]
    BY <2>3 DEF set_expires_at, set_payload_claim, exp
  <2> QED
    BY <2>4 DEF Issued, b3
<1>2. /\ DOMAIN iss = {"iss"}
      /\ iss["iss"] = Claim("string", Issuer)
  BY DEF Put, Empty
<1> HIDE DEF iss
<1>3. /\ DOMAIN aud = {"iss", "aud"}
      /\ aud["iss"] = Claim("string", Issuer) /\ aud["aud"] = Claim("string", Audience)
  BY <1>2 DEF Put
<1> HIDE DEF aud
<1>4. /\ DOMAIN iat = {"iss", "aud", "iat"}
      /\ iat["iss"] = Claim("string", Issuer) /\ iat["aud"] = Claim("string", Audience)
      /\ iat["iat"] = DateClaim(t1)
  BY <1>3 DEF Put
<1> HIDE DEF iat
<1>5. /\ DOMAIN exp = {"iss", "aud", "iat", "exp"}
      /\ exp["iss"] = Claim("string", Issuer) /\ exp["aud"] = Claim("string", Audience)
      /\ exp["iat"] = DateClaim(t1)
      /\ exp["exp"] = DateClaim(last)
  BY <1>4 DEF Put
<1>6. Payload(t1, t2).claims = exp /\ Payload(t1, t2).kind = "object"
  BY <1>1 DEF Payload, Object
<1> HIDE DEF exp
<1> QED
  BY <1>5, <1>6 DEF last

LEMMA IssuedShape ==
  ASSUME NEW t1, NEW t2
  PROVE  LET p == Payload(t1, t2)
         IN  IssuedToken(t1, t2) = <<Header, p, Hmac(hs256(Secret), <<Header, p>>)>>
<1>1. Issued(t1, t2).header_claims = Empty
  BY DEF Issued, builder, set_issuer, set_audience, set_issued_at, set_expires_at, set_payload_claim
<1>2. ~has_claim(Empty, "alg")
  BY DEF has_claim, Empty
<1>3. set_header_claim(Issued(t1, t2), "alg", Claim("string", "HS256")).header_claims
        = Put(Empty, "alg", Claim("string", "HS256"))
  BY <1>1 DEF set_header_claim, Issued, builder, set_issuer, set_audience, set_issued_at, set_expires_at,
              set_payload_claim
<1>4. hs256(Secret).name = "HS256"
  BY DEF hs256
<1> QED
  BY <1>1, <1>2, <1>3, <1>4 DEF IssuedToken, sign, Header, Payload

(* The verdict on an issued token hangs on its two dates alone. *)
LEMMA IssuedVerdict ==
  ASSUME NEW t1, NEW t2, NEW time, NEW l, NEW v, Checks(v, l)
  PROVE  LET jwt == decoded_jwt(IssuedToken(t1, t2))
             exp == CheckError(v.claims["exp"], verify_context(v, jwt, time, "exp"))
             iat == CheckError(v.claims["iat"], verify_context(v, jwt, time, "iat"))
         IN  VerifyWith(v, IssuedToken(t1, t2), time)
               = IF exp = "ok" /\ iat = "ok" THEN {"ok"} ELSE {exp, iat} \ {"ok"}
<1> DEFINE token == IssuedToken(t1, t2)
           jwt == decoded_jwt(token)
           ctx(n) == verify_context(v, jwt, time, n)
           outcome(n) == CheckError(v.claims[n], ctx(n))
<1>1. /\ token = <<Header, Payload(t1, t2), Hmac(hs256(Secret), <<Header, Payload(t1, t2)>>)>>
      /\ token[1] = Header /\ token[2] = Payload(t1, t2)
  BY IssuedShape
<1> HIDE DEF token
<1>2. /\ jwt.header_claims = Header.claims
      /\ jwt.payload_claims = Payload(t1, t2).claims
      /\ jwt.signature = Hmac(hs256(Secret), jwt.data)
  BY <1>1 DEF decoded_jwt
<1> HIDE DEF jwt
<1>3. DecodeError(token) = "ok"
  <2>1. token[3].kind = "hmac" /\ Len(token) = 3
    BY <1>1 DEF Hmac
  <2> QED
    BY <1>1, <2>1, HeaderClaims, PayloadClaims DEF DecodeError, ParseError
<1>4. AlgorithmError(jwt) = "ok" /\ jwt.header_claims["alg"].val = "HS256"
  BY <1>2, HeaderClaims DEF AlgorithmError, ClaimError, CastError, Claim
<1>5. Matches(v.algs["HS256"], jwt.data, jwt.signature)
  BY <1>2 DEF Matches, Checks
<1>6. \A n : ctx(n).jwt = jwt /\ ctx(n).claim_key = n
  BY DEF verify_context
<1>7. outcome("iss") = "ok"
  <2>1. /\ claim(ctx("iss")) = Claim("string", Issuer)
        /\ MissingError(ctx("iss")) = "ok"
    BY <1>2, <1>6, PayloadClaims DEF claim, MissingError, has_claim
  <2> HIDE DEF ctx
  <2>2. equals_claim(Claim("string", Issuer), ctx("iss")) = "ok"
    BY <2>1 DEF equals_claim, MismatchError, TypeError, Claim
  <2>3. v.claims["iss"] = [op |-> "equals", expected |-> Claim("string", Issuer)]
    BY DEF Checks
  <2> QED
    BY <2>2, <2>3 DEF CheckError
<1>8. outcome("aud") = "ok"
  <2>1. /\ claim(ctx("aud")) = Claim("string", Audience)
        /\ MissingError(ctx("aud")) = "ok"
    BY <1>2, <1>6, PayloadClaims DEF claim, MissingError, has_claim
  <2> HIDE DEF ctx
  <2>2. is_subset_claim({Audience}, ctx("aud")) = "ok"
    BY <2>1 DEF is_subset_claim, TypeError, Claim
  <2>3. v.claims["aud"] = [op |-> "is_subset", expected |-> {Audience}]
    BY DEF Checks
  <2> QED
    BY <2>2, <2>3 DEF CheckError
<1>9. outcome("nbf") = "ok"
  <2>1. MissingError(ctx("nbf")) = "missing_claim"
    BY <1>2, <1>6, PayloadClaims DEF MissingError, has_claim
  <2> HIDE DEF ctx
  <2>2. v.claims["nbf"] = [op |-> "issued"]
    BY DEF Checks
  <2> QED
    BY <2>1, <2>2 DEF CheckError, IssuedError
<1>10. ClaimErrors(v, jwt, time) = {outcome("exp"), outcome("iat")} \ {"ok"}
  <2>1. ClaimErrors(v, jwt, time) = {outcome(n) : n \in DOMAIN v.claims} \ {"ok"}
    BY DEF ClaimErrors
  <2>2. DOMAIN v.claims = {"exp", "iat", "nbf", "iss", "aud"}
    BY DEF Checks
  <2> HIDE DEF outcome
  <2> QED
    BY <1>7, <1>8, <1>9, <2>1, <2>2
<1> HIDE DEF outcome, ctx
<1>11. {outcome("exp"), outcome("iat")} \ {"ok"} = {} <=> outcome("exp") = "ok" /\ outcome("iat") = "ok"
  OBVIOUS
<1>12. Outcomes(v, jwt, time) = IF outcome("exp") = "ok" /\ outcome("iat") = "ok" THEN {"ok"}
                                ELSE {outcome("exp"), outcome("iat")} \ {"ok"}
  <2>1. "HS256" \in DOMAIN v.algs
    BY DEF Checks
  <2> QED
    BY <1>4, <1>5, <1>10, <1>11, <2>1 DEF Outcomes
<1>13. VerifyWith(v, token, time) = Outcomes(v, jwt, time)
  BY <1>3 DEF VerifyWith, jwt
<1> QED
  BY <1>12, <1>13 DEF token, jwt, ctx, outcome

-----------------------------------------------------------------------------

(* Every issued token was built from two readings of the clock, in order. *)
THEOREM IssuedTypeCorrect == Spec => []TypeOK
<1>1. Init => TypeOK
  BY LifecycleAssumption DEF Init, TypeOK, LifecycleAssumption
<1>2. TypeOK /\ [Next]_vars => TypeOK'
  <2> SUFFICES ASSUME TypeOK, [Next]_vars
               PROVE  TypeOK'
    OBVIOUS
  <2> USE LifecycleAssumption DEF TypeOK, LifecycleAssumption
  <2>1. CASE Issue
    BY <2>1 DEF Issue
  <2>2. CASE Tick
    BY <2>2 DEF Tick
  <2>3. CASE SetBack
    BY <2>3 DEF SetBack
  <2>4. CASE UNCHANGED vars
    BY <2>4 DEF vars
  <2> QED
    BY <2>1, <2>2, <2>3, <2>4 DEF Next
<1> QED
  BY <1>1, <1>2, PTL DEF Spec

(* Every signed token consists of its header, its payload and their HMAC. *)
LEMMA SignedShape ==
  ASSUME TypeOK, NEW t \in Signed
  PROVE  /\ t = <<t[1], t[2], Hmac(hs256(Secret), <<t[1], t[2]>>)>>
         /\ t[1].kind = "object"
         /\ t[2].kind = "object"
<1>1. CASE t \in Partner
  BY <1>1, LifecycleAssumption DEF LifecycleAssumption
<1>2. CASE t \in {i.token : i \in issued}
  <2>1. PICK i \in issued : t = IssuedToken(i.t1, i.t2)
    BY <1>2 DEF TypeOK
  <2> QED
    <3>1. t = <<Header, Payload(i.t1, i.t2), Hmac(hs256(Secret), <<Header, Payload(i.t1, i.t2)>>)>>
      BY <2>1, IssuedShape
    <3> QED
      BY <3>1, HeaderClaims, PayloadClaims
<1> QED
  BY <1>1, <1>2 DEF Signed

(* No token but the ones signed is ever accepted, whatever the clients make
   up: a third segment that matches must have been cut from a signed token,
   and then the other two are that token's as well. *)
LEMMA AcceptedIsSigned ==
  ASSUME TypeOK
  PROVE  OnlySignedAccepted
<1> SUFFICES ASSUME NEW t \in Presentable, Accepts(t, now)
             PROVE  t \in Signed
  BY DEF OnlySignedAccepted
<1> DEFINE jwt == decoded_jwt(t)
           alg == jwt.header_claims["alg"].val
<1>1. /\ DecodeError(t) = "ok"
      /\ t[3] = Hmac(hs256(Secret), <<t[1], t[2]>>)
  <2>1. DecodeError(t) = "ok"
    BY DEF Accepts, Verify, VerifyWith
  <2>2. "ok" \in Outcomes(Verifier, jwt, now)
    BY <2>1 DEF Accepts, Verify, VerifyWith
  <2>3. /\ jwt.data = <<t[1], t[2]>>
        /\ jwt.signature = t[3]
    BY DEF decoded_jwt
  <2> HIDE DEF jwt
  <2>4. AlgorithmError(jwt) = "ok"
    BY <2>2 DEF Outcomes
  <2>5. alg \in DOMAIN Verifier.algs
    BY <2>2, <2>4 DEF Outcomes
  <2>6. Matches(Verifier.algs[alg], jwt.data, jwt.signature)
    BY <2>2, <2>4, <2>5 DEF Outcomes
  <2>7. Verifier.algs[alg] = hs256(Secret)
    BY <2>5, VerifierKnows
  <2> QED
    BY <2>1, <2>3, <2>6, <2>7 DEF Matches
<1>2. CASE t \in {<<a, b, c>> : a, b, c \in Segments}
  <2>1. PICK a, b, c \in Segments : t = <<a, b, c>>
    BY <1>2
  <2>2. c = Hmac(hs256(Secret), <<a, b>>)
    BY <1>1, <2>1
  <2>3. c.kind = "hmac"
    BY <2>2 DEF Hmac
  <2>4. c \notin Inventions
    BY <2>3, LifecycleAssumption DEF LifecycleAssumption
  <2>5. PICK s \in Signed : c \in {s[1], s[2], s[3]}
    BY <2>4 DEF Segments
  <2>6. /\ s = <<s[1], s[2], Hmac(hs256(Secret), <<s[1], s[2]>>)>>
        /\ c \notin {s[1], s[2]}
    BY <2>3, SignedShape
  <2>7. c = Hmac(hs256(Secret), <<s[1], s[2]>>)
    BY <2>5, <2>6
  <2>8. a = s[1] /\ b = s[2]
    BY <2>2, <2>7 DEF Hmac
  <2> QED
    BY <2>1, <2>2, <2>6, <2>8
<1>3. CASE t \in {<<s[1], s[2]>> : s \in Signed}
  BY <1>1, <1>3 DEF DecodeError
<1>4. CASE t \in {<<s[1], s[2], s[3], s[3]>> : s \in Signed}
  BY <1>1, <1>4 DEF DecodeError
<1> QED
  BY <1>2, <1>3, <1>4 DEF Presentable

(* Whatever is put together of segments, decode() and verify() accept only a
   whole signed token. *)
THEOREM OnlySignedAlwaysAccepted == Spec => []OnlySignedAccepted
<1>1. TypeOK => OnlySignedAccepted
  BY AcceptedIsSigned
<1> QED
  BY <1>1, IssuedTypeCorrect, PTL

(* Multiplying keeps the order of seconds. *)
LEMMA SecondsInOrder ==
  ASSUME NEW a \in Nat, NEW b \in Nat, NEW n \in Nat \ {0}, a \div n <= b \div n
  PROVE  (a \div n) * n <= (b \div n) * n
<1>1. a \div n \in Nat /\ b \div n \in Nat
  BY SMT
<1> DEFINE x == a \div n
           y == b \div n
<1> HIDE DEF x, y
<1>2. x \in Nat /\ y \in Nat /\ x <= y => x * n <= y * n
  BY SMT
<1> QED
  BY <1>1, <1>2 DEF x, y

(* The dates of an issued token stay in the range of the clock, with any
   leeway. *)
LEMMA IssuedDates ==
  ASSUME TypeOK, NEW i \in issued, NEW l \in 0..MaxLeeway
  PROVE  LET last == i.t2 + LifetimeSeconds * TicksPerSecond
             slack == l * TicksPerSecond
         IN  /\ slack \in Nat
             /\ i.t1 \in Nat /\ i.t1 + slack < ClockLimit
             /\ last \in Nat /\ last + slack < ClockLimit
             /\ i.t1 <= last
             /\ i.t1 \div TicksPerSecond <= last \div TicksPerSecond
<1> DEFINE last == i.t2 + LifetimeSeconds * TicksPerSecond
           slack == l * TicksPerSecond
           span == LifetimeSeconds * TicksPerSecond
           most == MaxLeeway * TicksPerSecond
<1>1. TicksPerSecond \in Nat \ {0} /\ LifetimeSeconds \in Nat /\ MaxLeeway \in Nat
  BY ClockAssumption, LifecycleAssumption DEF ClockAssumption, LifecycleAssumption
<1>2. span \in Nat /\ most \in Nat
  BY <1>1
<1>3. slack \in Nat /\ slack <= most
  BY <1>1
<1>4. (LifetimeSeconds + MaxLeeway) * TicksPerSecond = span + most
  BY <1>1
<1>5. MaxTime \in Nat /\ ClockLimit \in Nat /\ MaxTime + (span + most) < ClockLimit
  BY <1>4, ClockAssumption, LifecycleAssumption DEF ClockAssumption, LifecycleAssumption
<1>6. i.t1 \in 0..MaxTime /\ i.t2 \in 0..MaxTime /\ i.t1 <= i.t2
  BY DEF TypeOK
<1>7. last = i.t2 + span
  OBVIOUS
<1> HIDE DEF span, most, slack, last
<1>8. /\ i.t1 \in Nat /\ i.t1 + slack < ClockLimit
      /\ last \in Nat /\ last + slack < ClockLimit
      /\ i.t1 <= last
  BY <1>2, <1>3, <1>5, <1>6, <1>7
<1>9. i.t1 \div TicksPerSecond <= last \div TicksPerSecond
  BY <1>1, <1>8
<1> QED
  BY <1>3, <1>8, <1>9 DEF slack, last

(* When an issued token is good: from the second of its issue to the second of
   its expiry, the leeway added at both ends. *)
LEMMA IssuedGood ==
  ASSUME TypeOK, NEW i \in issued, NEW l \in 0..MaxLeeway, NEW v, NEW time \in Int,
         Checks(v, l)
  PROVE  LET exp == as_date(DateClaim(i.t2 + LifetimeSeconds * TicksPerSecond))
             iat == as_date(DateClaim(i.t1))
             slack == l * TicksPerSecond
         IN  VerifyWith(v, i.token, time)
               = IF iat - slack <= time /\ time <= exp + slack THEN {"ok"} ELSE {"token_expired"}
<1> DEFINE last == i.t2 + LifetimeSeconds * TicksPerSecond
           exp == as_date(DateClaim(last))
           iat == as_date(DateClaim(i.t1))
           slack == l * TicksPerSecond
           jwt == decoded_jwt(IssuedToken(i.t1, i.t2))
           a == CheckError(v.claims["exp"], verify_context(v, jwt, time, "exp"))
           b == CheckError(v.claims["iat"], verify_context(v, jwt, time, "iat"))
<1>1. /\ slack \in Nat
      /\ i.t1 \in Nat /\ i.t1 + slack < ClockLimit
      /\ last \in Nat /\ last + slack < ClockLimit
  BY IssuedDates
<1>2. ClockLimit \in Nat
  BY ClockAssumption DEF ClockAssumption
<1>3. Slack(l) = slack
  BY DEF Slack
<1>4. VerifyWith(v, i.token, time) = IF a = "ok" /\ b = "ok" THEN {"ok"} ELSE {a, b} \ {"ok"}
  <2>1. i.token = IssuedToken(i.t1, i.t2)
    BY DEF TypeOK
  <2> QED
    BY <2>1, IssuedVerdict
<1> HIDE DEF last, slack
<1>5. /\ a = IF time > exp + slack THEN "token_expired" ELSE "ok"
      /\ b = IF time < iat - slack THEN "token_expired" ELSE "ok"
  <2> DEFINE ctx(n) == verify_context(v, jwt, time, n)
  <2>1. \A n : /\ ctx(n).jwt = jwt /\ ctx(n).claim_key = n
               /\ ctx(n).current_time = time /\ ctx(n).default_leeway = v.default_leeway
    BY DEF verify_context
  <2>2. jwt.payload_claims = Payload(i.t1, i.t2).claims
    BY IssuedShape DEF decoded_jwt
  <2>3. /\ DOMAIN jwt.payload_claims = {"iss", "aud", "iat", "exp"}
        /\ jwt.payload_claims["iat"] = DateClaim(i.t1)
        /\ jwt.payload_claims["exp"] = DateClaim(last)
    BY <2>2, PayloadClaims DEF last
  <2> HIDE DEF jwt, ctx
  <2>4. /\ has_claim(ctx("exp").jwt.payload_claims, ctx("exp").claim_key)
        /\ claim(ctx("exp")) = DateClaim(last)
        /\ has_claim(ctx("iat").jwt.payload_claims, ctx("iat").claim_key)
        /\ claim(ctx("iat")) = DateClaim(i.t1)
    BY <2>1, <2>3 DEF has_claim, claim
  <2>5. CheckError(v.claims["exp"], ctx("exp")) = IF time > exp + slack THEN "token_expired" ELSE "ok"
    <3>1. /\ Slack(l) \in Nat /\ last + Slack(l) < ClockLimit
          /\ ctx("exp").current_time \in Int
      BY <1>1, <1>3, <2>1
    <3>2. \/ v.claims["exp"] = [op |-> "expires"] /\ ctx("exp").default_leeway = l
          \/ v.claims["exp"] = [op |-> "date_before", leeway |-> l]
      BY <2>1 DEF Checks
    <3>3. CheckError(v.claims["exp"], ctx("exp"))
            = IF ctx("exp").current_time > exp + Slack(l) THEN "token_expired" ELSE "ok"
      BY <1>1, <2>4, <3>1, <3>2, DateChecks
    <3> QED
      BY <1>3, <2>1, <3>3
  <2>6. CheckError(v.claims["iat"], ctx("iat")) = IF time < iat - slack THEN "token_expired" ELSE "ok"
    <3>1. /\ Slack(l) \in Nat /\ i.t1 + Slack(l) < ClockLimit
          /\ ctx("iat").current_time \in Int
      BY <1>1, <1>3, <2>1
    <3>2. \/ v.claims["iat"] = [op |-> "issued"] /\ ctx("iat").default_leeway = l
          \/ v.claims["iat"] = [op |-> "date_after", leeway |-> l]
      BY <2>1 DEF Checks
    <3>3. CheckError(v.claims["iat"], ctx("iat"))
            = IF ctx("iat").current_time < iat - Slack(l) THEN "token_expired" ELSE "ok"
      BY <1>1, <2>4, <3>1, <3>2, DateChecks
    <3> QED
      BY <1>3, <2>1, <3>3
  <2> QED
    BY <2>5, <2>6 DEF ctx
<1>6. exp \in Int /\ iat \in Int
  BY <1>1, <1>2, DateComesBack
<1> HIDE DEF exp, iat, a, b
<1>7. VerifyWith(v, i.token, time)
        = IF iat - slack <= time /\ time <= exp + slack THEN {"ok"} ELSE {"token_expired"}
  <2>1. CASE time > exp + slack
    <3>1. a = "token_expired" /\ b \in {"ok", "token_expired"}
      BY <1>5, <2>1
    <3>2. {a, b} \ {"ok"} = {"token_expired"}
      BY <3>1
    <3>3. ~(iat - slack <= time /\ time <= exp + slack)
      BY <1>1, <1>6, <2>1
    <3> QED
      BY <1>4, <3>1, <3>2, <3>3, Zenon
  <2>2. CASE time < iat - slack
    <3>1. b = "token_expired" /\ a \in {"ok", "token_expired"}
      BY <1>5, <2>2
    <3>2. {a, b} \ {"ok"} = {"token_expired"}
      BY <3>1
    <3>3. ~(iat - slack <= time /\ time <= exp + slack)
      BY <1>1, <1>6, <2>2
    <3> QED
      BY <1>4, <3>1, <3>2, <3>3, Zenon
  <2>3. CASE ~(time > exp + slack) /\ ~(time < iat - slack)
    BY <1>1, <1>4, <1>5, <1>6, <2>3
  <2> QED
    BY <2>1, <2>2, <2>3
<1> QED
  BY <1>7 DEF exp, iat, slack, last

(* The two dates of an issued token, as they come back: each less than a second
   before what was written, and in order. *)
LEMMA IssuedInterval ==
  ASSUME TypeOK, NEW i \in issued
  PROVE  LET last == i.t2 + LifetimeSeconds * TicksPerSecond
             exp == as_date(DateClaim(last))
             iat == as_date(DateClaim(i.t1))
         IN  /\ last \in Nat /\ i.t1 \in Nat
             /\ exp \in 0..last /\ last < exp + TicksPerSecond
             /\ iat \in 0..i.t1 /\ i.t1 < iat + TicksPerSecond
             /\ iat <= exp
<1> DEFINE last == i.t2 + LifetimeSeconds * TicksPerSecond
           exp == as_date(DateClaim(last))
           iat == as_date(DateClaim(i.t1))
<1>1. TicksPerSecond \in Nat \ {0} /\ ClockLimit \in Nat /\ 0 \in 0..MaxLeeway
  BY ClockAssumption, LifecycleAssumption DEF ClockAssumption, LifecycleAssumption
<1>2. 0 * TicksPerSecond = 0
  BY <1>1
<1>3. /\ i.t1 \in Nat /\ i.t1 < ClockLimit
      /\ last \in Nat /\ last < ClockLimit
      /\ i.t1 \div TicksPerSecond <= last \div TicksPerSecond
  BY <1>1, <1>2, IssuedDates
<1> HIDE DEF last
<1>4. /\ exp = (last \div TicksPerSecond) * TicksPerSecond
      /\ exp \in 0..last /\ last < exp + TicksPerSecond
      /\ iat = (i.t1 \div TicksPerSecond) * TicksPerSecond
      /\ iat \in 0..i.t1 /\ i.t1 < iat + TicksPerSecond
  BY <1>3, DateComesBack
<1>5. iat <= exp
  BY <1>1, <1>3, <1>4, SecondsInOrder
<1> HIDE DEF exp, iat
<1>6. /\ last \in Nat /\ i.t1 \in Nat
      /\ exp \in 0..last /\ last < exp + TicksPerSecond
      /\ iat \in 0..i.t1 /\ i.t1 < iat + TicksPerSecond
      /\ iat <= exp
  BY <1>3, <1>4, <1>5
<1> QED
  BY <1>6 DEF exp, iat, last

(* The same without leeway. *)
LEMMA IssuedGoodPlain ==
  ASSUME TypeOK, NEW i \in issued, NEW time \in Int
  PROVE  LET exp == as_date(DateClaim(i.t2 + LifetimeSeconds * TicksPerSecond))
             iat == as_date(DateClaim(i.t1))
         IN  Verify(i.token, time) = IF iat <= time /\ time <= exp THEN {"ok"} ELSE {"token_expired"}
<1>2. 0 \in 0..MaxLeeway /\ 0 * TicksPerSecond = 0
  BY ClockAssumption, LifecycleAssumption DEF ClockAssumption, LifecycleAssumption
<1> DEFINE exp == as_date(DateClaim(i.t2 + LifetimeSeconds * TicksPerSecond))
           iat == as_date(DateClaim(i.t1))
<1>3. VerifyWith(Verifier, i.token, time)
        = IF iat - 0 <= time /\ time <= exp + 0 THEN {"ok"} ELSE {"token_expired"}
  BY <1>2, VerifierIsNew, IssuedGood
<1>4. exp \in Int /\ iat \in Int
  BY IssuedInterval
<1> HIDE DEF exp, iat
<1>5. Verify(i.token, time) = IF iat <= time /\ time <= exp THEN {"ok"} ELSE {"token_expired"}
  BY <1>3, <1>4 DEF Verify
<1> QED
  BY <1>5 DEF exp, iat

(* A fresh token is good for its whole lifetime, less the second lost to
   rounding, whatever the resolution of the clock. *)
THEOREM GoodForItsLifetime == Spec => []FreshAccepted
<1>1. TypeOK => FreshAccepted
  <2> SUFFICES ASSUME TypeOK, NEW i \in issued, i.t1 <= now,
                      now + TicksPerSecond <= i.t2 + LifetimeSeconds * TicksPerSecond + 1
               PROVE  Verify(i.token, now) = {"ok"}
    BY DEF FreshAccepted
  <2> DEFINE last == i.t2 + LifetimeSeconds * TicksPerSecond
             exp == as_date(DateClaim(last))
             iat == as_date(DateClaim(i.t1))
  <2>1. now \in Int /\ TicksPerSecond \in Nat
    BY ClockAssumption, LifecycleAssumption DEF TypeOK, ClockAssumption, LifecycleAssumption
  <2>2. /\ last \in Nat /\ i.t1 \in Nat
        /\ exp \in 0..last /\ last < exp + TicksPerSecond
        /\ iat \in 0..i.t1
    BY IssuedInterval
  <2>3. Verify(i.token, now) = IF iat <= now /\ now <= exp THEN {"ok"} ELSE {"token_expired"}
    BY <2>1, IssuedGoodPlain
  <2>4. now + TicksPerSecond <= last + 1
    OBVIOUS
  <2> HIDE DEF last, exp, iat
  <2> QED
    BY <2>1, <2>2, <2>3, <2>4
<1> QED
  BY <1>1, IssuedTypeCorrect, PTL

(* It is refused before and after it, again up to a second. *)
THEOREM LifetimeKept == Spec => []RefusedOutsideLifetime
<1>1. TypeOK => RefusedOutsideLifetime
  <2> SUFFICES ASSUME TypeOK, NEW i \in issued,
                      \/ now > i.t2 + LifetimeSeconds * TicksPerSecond
                      \/ now + TicksPerSecond <= i.t1
               PROVE  Verify(i.token, now) = {"token_expired"}
    BY DEF RefusedOutsideLifetime
  <2> DEFINE last == i.t2 + LifetimeSeconds * TicksPerSecond
             exp == as_date(DateClaim(last))
             iat == as_date(DateClaim(i.t1))
  <2>1. now \in Int /\ TicksPerSecond \in Nat
    BY ClockAssumption, LifecycleAssumption DEF TypeOK, ClockAssumption, LifecycleAssumption
  <2>2. /\ last \in Nat /\ i.t1 \in Nat
        /\ exp \in 0..last
        /\ iat \in 0..i.t1 /\ i.t1 < iat + TicksPerSecond
    BY IssuedInterval
  <2>3. Verify(i.token, now) = IF iat <= now /\ now <= exp THEN {"ok"} ELSE {"token_expired"}
    BY <2>1, IssuedGoodPlain
  <2>4. now > last \/ now + TicksPerSecond <= i.t1
    OBVIOUS
  <2> HIDE DEF last, exp, iat
  <2> QED
    BY <2>1, <2>2, <2>3, <2>4
<1> QED
  BY <1>1, IssuedTypeCorrect, PTL

(* Two intervals of time that overlap if one of them is widened at both ends
   have a point of the other within that distance. *)
LEMMA Widened ==
  ASSUME NEW first \in Int, NEW last \in Int, NEW slack \in Nat, NEW time \in Int, first <= last
  PROVE  first - slack <= time /\ time <= last + slack
           <=> \E u \in (time - slack)..(time + slack) : first <= u /\ u <= last
<1>1. ASSUME first - slack <= time, time <= last + slack
      PROVE  \E u \in (time - slack)..(time + slack) : first <= u /\ u <= last
  <2>1. CASE time < first
    <3>1. first \in (time - slack)..(time + slack) /\ first <= last
      BY <1>1, <2>1
    <3> QED
      BY <3>1
  <2>2. CASE time > last
    BY <1>1, <2>2
  <2>3. CASE first <= time /\ time <= last
    BY <1>1, <2>3
  <2> QED
    BY <2>1, <2>2, <2>3
<1>2. ASSUME NEW u \in (time - slack)..(time + slack), first <= u, u <= last
      PROVE  first - slack <= time /\ time <= last + slack
  BY <1>2
<1> QED
  BY <1>1, <1>2

(* A leeway of any size is worth exactly that much of the clock's error, in
   either way of giving it. *)
THEOREM LeewayWorth == Spec => []LeewayForgives
<1>1. TypeOK => LeewayForgives
  <2> SUFFICES ASSUME TypeOK, NEW i \in issued, NEW l \in 0..MaxLeeway, NEW v \in Lenient(l)
               PROVE  VerifyWith(v, i.token, now) = {"ok"}
                        <=> \E u \in (now - l * TicksPerSecond)..(now + l * TicksPerSecond) :
                              Verify(i.token, u) = {"ok"}
    BY DEF LeewayForgives
  <2> DEFINE exp == as_date(DateClaim(i.t2 + LifetimeSeconds * TicksPerSecond))
             iat == as_date(DateClaim(i.t1))
             slack == l * TicksPerSecond
  <2>1. now \in Int
    BY LifecycleAssumption DEF TypeOK, LifecycleAssumption
  <2>2. Checks(v, l)
    BY LenientChecks
  <2>3. VerifyWith(v, i.token, now)
          = IF iat - slack <= now /\ now <= exp + slack THEN {"ok"} ELSE {"token_expired"}
    BY <2>1, <2>2, IssuedGood
  <2>4. exp \in Int /\ iat \in Int /\ iat <= exp
    BY IssuedInterval
  <2>5. slack \in Nat
    BY IssuedDates
  <2>6. \A u \in Int : Verify(i.token, u) = IF iat <= u /\ u <= exp THEN {"ok"} ELSE {"token_expired"}
    BY IssuedGoodPlain
  <2> HIDE DEF exp, iat, slack
  <2>7. iat - slack <= now /\ now <= exp + slack
          <=> \E u \in (now - slack)..(now + slack) : iat <= u /\ u <= exp
    BY <2>1, <2>4, <2>5, Widened
  <2>8. VerifyWith(v, i.token, now) = {"ok"} <=> iat - slack <= now /\ now <= exp + slack
    BY <2>3
  <2>9. \A u \in (now - slack)..(now + slack) :
          Verify(i.token, u) = {"ok"} <=> iat <= u /\ u <= exp
    BY <2>1, <2>5, <2>6
  <2>10. VerifyWith(v, i.token, now) = {"ok"}
           <=> \E u \in (now - slack)..(now + slack) : Verify(i.token, u) = {"ok"}
    BY <2>7, <2>8, <2>9
  <2> QED
    BY <2>10 DEF slack
<1> QED
  BY <1>1, IssuedTypeCorrect, PTL

=============================================================================
