--------------------------- MODULE TokenLifecycle ---------------------------
(***************************************************************************)
(* The life of a token: the server issues it (GET /api/ws), the clock goes *)
(* on or is set back, and at any time a client may present it, or another  *)
(* one put together from segments it has seen or made up.  Verifying       *)
(* changes no state, so what a presented token meets is stated over        *)
(* Presentable.                                                            *)
(***************************************************************************)
EXTENDS Jwt, FiniteSets

CONSTANTS MaxTime,      \* bound: ticks of the clock
          MaxIssued,    \* bound: tokens issued
          MaxLeeway,    \* bound: leeway of a verifier, in seconds
          Inventions,   \* segments a client makes up; it does not know Secret
          Partner       \* tokens signed elsewhere with the same secret

ASSUME LifecycleAssumption ==
  /\ MaxTime \in Nat
  /\ MaxIssued \in Nat
  /\ MaxLeeway \in Nat
  /\ MaxTime + (LifetimeSeconds + MaxLeeway) * TicksPerSecond < ClockLimit
  /\ \A s \in Inventions : s.kind \in {"garbage", "bytes", "value", "object"}
  /\ \A t \in Partner :
       /\ t = <<t[1], t[2], Hmac(hs256(Secret), <<t[1], t[2]>>)>>
       /\ t[1].kind = "object" /\ t[2].kind = "object"

VARIABLES now,      \* the system clock, in ticks
          issued    \* tokens issued, each with the two readings of the clock

vars == <<now, issued>>

Init ==
  /\ now = 0
  /\ issued = {}

(* handle_request reads the clock at t1 = now and again at t2. *)
Issue ==
  /\ Cardinality(issued) < MaxIssued
  /\ \E t2 \in {now, now + 1} \cap 0..MaxTime :
       /\ now' = t2
       /\ issued' = issued \cup {[token |-> IssuedToken(now, t2), t1 |-> now, t2 |-> t2]}

Tick ==
  /\ now < MaxTime
  /\ now' = now + 1
  /\ UNCHANGED issued

(* The operator or a time server sets the clock back. *)
SetBack ==
  /\ now' \in 0..(now - 1)
  /\ UNCHANGED issued

Next == Issue \/ Tick \/ SetBack

Spec == Init /\ [][Next]_vars

-----------------------------------------------------------------------------

Signed == {i.token : i \in issued} \cup Partner

Segments == Inventions \cup UNION {{t[1], t[2], t[3]} : t \in Signed}

Presentable ==
  {<<a, b, c>> : a, b, c \in Segments}
    \cup {<<t[1], t[2]>> : t \in Signed} \cup {<<t[1], t[2], t[3], t[3]>> : t \in Signed}

TypeOK ==
  /\ now \in 0..MaxTime
  /\ \A i \in issued :
       /\ i.t1 \in 0..MaxTime
       /\ i.t2 \in 0..MaxTime
       /\ i.t1 <= i.t2
       /\ i.token = IssuedToken(i.t1, i.t2)

(* Whatever a client presents is accepted only if it is, as a whole, a token
   that a holder of the secret signed: neither the parts of two tokens nor
   made-up parts pass decode() and verify() in websocket_session::run. *)
OnlySignedAccepted ==
  \A t \in Presentable : Accepts(t, now) => t \in Signed

(* A token the server issued is accepted from the moment it was issued until
   its lifetime has passed, less the part of a second that the whole-second
   "exp" loses: a fresh token is never refused as issued in the future. *)
FreshAccepted ==
  \A i \in issued :
    i.t1 <= now /\ now + TicksPerSecond <= i.t2 + LifetimeSeconds * TicksPerSecond + 1
      => Verify(i.token, now) = {"ok"}

(* It is refused once the lifetime has passed, and refused while the clock
   stands a second or more before its issue. *)
RefusedOutsideLifetime ==
  \A i \in issued :
    now > i.t2 + LifetimeSeconds * TicksPerSecond \/ now + TicksPerSecond <= i.t1
      => Verify(i.token, now) = {"token_expired"}

(* A leeway, for all dates or for each of an issued token's dates, forgives a
   clock that is off by no more than it: with it the token is good exactly if
   it would be good without it at some time within the leeway of now. *)
Lenient(l) == {leeway(Verifier, l), issued_at_leeway(expires_at_leeway(Verifier, l), l)}

LeewayForgives ==
  \A i \in issued, l \in 0..MaxLeeway : \A v \in Lenient(l) :
    VerifyWith(v, i.token, now) = {"ok"}
      <=> \E u \in (now - l * TicksPerSecond)..(now + l * TicksPerSecond) :
            Verify(i.token, u) = {"ok"}

(* jwt.h says of a decimal date that it "is rounded up to the closest
   integer": a token with a decimal exp has not expired before that second. *)
RoundedUp ==
  \A t \in Partner :
    LET exp == t[2].claims["exp"]
    IN  has_claim(t[2].claims, "exp") /\ exp.type = "number" /\ now <= ((exp.val + 9) \div 10) * TicksPerSecond
          => "token_expired" \notin Verify(t, now)

=============================================================================
