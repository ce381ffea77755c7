-------------------------- MODULE MCTokenLifecycle --------------------------
(***************************************************************************)
(* Instance of TokenLifecycle for TLC: two ticks are one second.           *)
(***************************************************************************)
EXTENDS TokenLifecycle

Built(iss, aud) == set_payload_claim(set_issuer(builder, iss), "aud", aud)
Expiring(iss, aud, exp) == set_payload_claim(Built(iss, aud), "exp", exp)

One(name) == Claim("string", name)
Many(names) == Claim("array", [i \in 1..Len(names) |-> One(names[i])])
Null == Claim("null", "null")

(* Tokens of services that share the secret: an audience list, a decimal
   expiry, none at all, foreign issuers, audiences and algorithms, and claims
   of the wrong type. *)
MCPartner ==
  {sign(b, hs256(Secret)) :
     b \in {Expiring(Issuer, Many(<<"aud1", Audience>>), Claim("integer", 1)),
            Expiring(Issuer, One(Audience), Claim("number", 14)),
            Built(Issuer, One(Audience)),
            set_header_claim(Built(Issuer, One(Audience)), "alg", One("HS512")),
            Expiring("other", One("aud1"), One("soon")),
            Expiring(Issuer, Claim("array", <<One(Audience), Null>>), Null),
            set_payload_claim(builder, "iss", Null)}}

MCInventions ==
  {Garbage, Bytes(""), Value, Object(Empty),
   Object(set_header_claim(builder, "alg", One("none")).header_claims),
   Object(Built(Issuer, One(Audience)).payload_claims)}

=============================================================================
