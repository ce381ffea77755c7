------------------------------ MODULE Exchange ------------------------------
(***************************************************************************)
(* What the HTTP side of the server promises its clients, connection by    *)
(* connection: each request is answered once, in the order of asking, and  *)
(* the exchange ends only for one of a few reasons.                        *)
(***************************************************************************)
EXTENDS Naturals, Sequences

CONSTANTS Connections,
          Requests,
          AnswerTo,      \* the answer to each request
          ClosingAnswer, \* the answers that announce the end
          LastRequest    \* the requests that end the exchange instead of an answer

VARIABLES
  phase,      \* "waiting", "open" or "ended"
  asked,      \* the requests of the client, in order
  answered,   \* the answers to them, in order
  leaving     \* the client is there ("open"), asks no more ("eof") or is "gone"

vars == <<phase, asked, answered, leaving>>

Init ==
  /\ phase = [c \in Connections |-> "waiting"]
  /\ asked = [c \in Connections |-> <<>>]
  /\ answered = [c \in Connections |-> <<>>]
  /\ leaving = [c \in Connections |-> "open"]

Pending(c) == Len(answered[c]) < Len(asked[c])
NextRequest(c) == asked[c][Len(answered[c]) + 1]

Open(c) ==
  /\ phase[c] = "waiting"
  /\ phase' = [phase EXCEPT ![c] = "open"]
  /\ UNCHANGED <<asked, answered, leaving>>

Ask(c) ==
  /\ phase[c] # "ended"
  /\ leaving[c] = "open"
  /\ \E r \in Requests : asked' = [asked EXCEPT ![c] = Append(@, r)]
  /\ UNCHANGED <<phase, answered, leaving>>

Leave(c) ==
  /\ \/ leaving[c] = "open" /\ leaving' = [leaving EXCEPT ![c] = "eof"]
     \/ leaving[c] # "gone" /\ leaving' = [leaving EXCEPT ![c] = "gone"]
  /\ UNCHANGED <<phase, asked, answered>>

(* The next request is answered.  A closing answer is the last one. *)
Answer(c) ==
  /\ phase[c] = "open"
  /\ Pending(c)
  /\ NextRequest(c) \notin LastRequest
  /\ answered' = [answered EXCEPT ![c] = Append(@, AnswerTo[NextRequest(c)])]
  /\ phase' = [phase EXCEPT ![c] =
                 IF AnswerTo[NextRequest(c)] \in ClosingAnswer THEN "ended" ELSE "open"]
  /\ UNCHANGED <<asked, leaving>>

(* It ends otherwise only if the client is gone, has all its answers and asks
   no more, or asked for something that has no answer. *)
End(c) ==
  /\ phase[c] = "open"
  /\ \/ leaving[c] = "gone"
     \/ leaving[c] = "eof" /\ ~Pending(c)
     \/ Pending(c) /\ NextRequest(c) \in LastRequest
  /\ phase' = [phase EXCEPT ![c] = "ended"]
  /\ UNCHANGED <<asked, answered, leaving>>

Next == \E c \in Connections : Open(c) \/ Ask(c) \/ Leave(c) \/ Answer(c) \/ End(c)

Spec == Init /\ [][Next]_vars

=============================================================================
