------------------------- MODULE HttpSessionProofs -------------------------
(***************************************************************************)
(* Requests are answered one by one, in order, and up to the closing one,  *)
(* whatever clients send and however many connections there are.           *)
(***************************************************************************)
EXTENDS HttpSession, TLAPS

Step(c) == HttpHandler(c) \/ HttpClient(c) \/ Accepted(c)

LEMMA TypeStep ==
  ASSUME HttpTypeOK, OneAtATime, NEW c \in Connections, Step(c)
  PROVE  HttpTypeOK'
<1> USE RequestAssumption DEF RequestAssumption, HttpTypeOK
<1>1. CASE OnReadUpgrade(c)
  BY <1>1 DEF OneAtATime, OnReadUpgrade, Arrived, Parsed, Finish
<1>2. CASE OnReadEof(c)
  BY <1>2 DEF OneAtATime, OnReadEof, Finish
<1>3. CASE OnReadError(c)
  BY <1>3 DEF OneAtATime, OnReadError, Finish
<1>4. CASE OnWrite(c)
  <2>1. response[c] \in Responses /\ received[c] \in Seq(Responses)
    BY <1>4 DEF OneAtATime, OnWrite, Written
  <2>2. Append(received[c], response[c]) \in Seq(Responses)
    BY <2>1
  <2>3. received' \in [Connections -> Seq(Responses)]
    BY <1>4, <2>2 DEF OnWrite, Written
  <2> QED
    BY <1>4, <2>3 DEF OnWrite, Written, Finish
<1>5. CASE OnWriteError(c)
  BY <1>5 DEF OneAtATime, OnWriteError, Finish
<1>6. CASE SendRequest(c)
  BY <1>6 DEF OneAtATime, SendRequest
<1>7. CASE Leave(c)
  BY <1>7 DEF OneAtATime, Leave
<1>8. CASE Accepted(c)
  BY <1>8 DEF OneAtATime, Accepted, run
<1>9. CASE OnReadRequest(c)
  <2>1. PICK r \in Requests : Arrived(c, r) /\ response' = [response EXCEPT ![c] = handle_request(r)]
    BY <1>9 DEF OnReadRequest
  <2>2. handle_request(r) \in Responses
    BY DEF Responses
  <2>3. response' \in [Connections -> Responses \cup {NoResponse}]
    BY <2>1, <2>2
  <2>4. taken[c] + 1 \in 0..MaxRequests
    BY <2>1 DEF Arrived, OneAtATime
  <2> QED
    BY <1>9, <2>1, <2>3, <2>4 DEF OnReadRequest, Arrived
<1> QED
  BY <1>1, <1>2, <1>3, <1>4, <1>5, <1>6, <1>7, <1>8, <1>9 DEF Step, HttpHandler, HttpClient

LEMMA OneAtATimeStep ==
  ASSUME HttpTypeOK, OneAtATime, NEW c \in Connections, Step(c)
  PROVE  OneAtATime'
<1> SUFFICES ASSUME NEW d \in Connections
             PROVE  /\ (op'[d] # "none") <=> (owner'[d] = "http")
                    /\ op'[d] = "read" \/ owner'[d] \in {"none", "backlog"} => req_'[d] = NoRequest
                    /\ op'[d] = "write" => response'[d] \in Responses
                    /\ owner'[d] \in {"none", "backlog"} => taken'[d] = 0 /\ received'[d] = <<>>
                    /\ taken'[d] <= Len(sent'[d]) /\ Len(sent'[d]) <= MaxRequests
  BY DEF OneAtATime
<1> USE RequestAssumption DEF RequestAssumption, HttpTypeOK, OneAtATime
<1>1. CASE OnReadUpgrade(c)
  BY <1>1 DEF OnReadUpgrade, Arrived, Parsed, Finish
<1>2. CASE OnReadEof(c)
  BY <1>2 DEF OnReadEof, Finish
<1>3. CASE OnReadError(c)
  BY <1>3 DEF OnReadError, Finish
<1>4. CASE OnWrite(c)
  BY <1>4 DEF OnWrite, Written, Finish
<1>5. CASE OnWriteError(c)
  BY <1>5 DEF OnWriteError, Finish
<1>6. CASE SendRequest(c)
  <2>1. PICK r \in Requests : sent' = [sent EXCEPT ![c] = Append(@, r)]
    BY <1>6 DEF SendRequest
  <2>2. Len(Append(sent[c], r)) = Len(sent[c]) + 1
    OBVIOUS
  <2>3. /\ owner' = owner /\ op' = op /\ req_' = req_ /\ taken' = taken
        /\ response' = response /\ received' = received
    BY <1>6 DEF SendRequest
  <2>4. taken'[d] <= Len(sent'[d]) /\ Len(sent'[d]) <= MaxRequests
    BY <1>6, <2>1, <2>2, <2>3 DEF SendRequest
  <2> QED
    BY <2>3, <2>4
<1>7. CASE Leave(c)
  BY <1>7 DEF Leave
<1>8. CASE Accepted(c)
  <2>1. /\ owner[c] \in {"none", "backlog"}
        /\ owner' = [owner EXCEPT ![c] = "http"]
        /\ op' = [op EXCEPT ![c] = "read"]
        /\ req_' = req_ /\ taken' = taken /\ response' = response
        /\ sent' = sent /\ received' = received
    BY <1>8 DEF Accepted, run
  <2> QED
    BY <2>1
<1>9. CASE OnReadRequest(c)
  <2>1. PICK r \in Requests : Arrived(c, r) /\ response' = [response EXCEPT ![c] = handle_request(r)]
    BY <1>9 DEF OnReadRequest
  <2>2. handle_request(r) \in Responses
    BY DEF Responses
  <2> QED
    BY <1>9, <2>1, <2>2 DEF OnReadRequest, Arrived
<1> QED
  BY <1>1, <1>2, <1>3, <1>4, <1>5, <1>6, <1>7, <1>8, <1>9 DEF Step, HttpHandler, HttpClient

-----------------------------------------------------------------------------

(* The two properties for one connection, as a function of its answers A, its
   written responses w, requests s, count of requests n and owner o. *)
InOrder(A, s, n, busy) ==
  /\ Len(A) <= n
  /\ \A k \in 1..Len(A) : A[k] = handle_request(s[k])
  /\ busy => Len(A) = n

Quiet(A, w, o) ==
  /\ \A k \in 1..(Len(A) - 1) : ~A[k].close
  /\ \A k \in 1..Len(w) : w[k].close => o = "closed"

Good(c) ==
  /\ InOrder(Answers(c), sent[c], taken[c], op[c] # "none")
  /\ Quiet(Answers(c), received[c], owner[c])

LEMMA GoodEverywhere ==
  AnswersInOrder /\ QuietAfterClose <=> \A c \in Connections : Good(c)
BY DEF AnswersInOrder, QuietAfterClose, Good, InOrder, Quiet

LEMMA Appended ==
  ASSUME NEW S, NEW s \in Seq(S), NEW e \in S
  PROVE  /\ Append(s, e) \in Seq(S)
         /\ Len(Append(s, e)) = Len(s) + 1
         /\ \A k \in 1..Len(s) : Append(s, e)[k] = s[k]
         /\ Append(s, e)[Len(s) + 1] = e
OBVIOUS

(* One more request is read and answered. *)
LEMMA AnswerNext ==
  ASSUME NEW A \in Seq(Responses), NEW s, NEW n \in Nat, InOrder(A, s, n, TRUE),
         NEW e \in Responses, e = handle_request(s[n + 1])
  PROVE  InOrder(Append(A, e), s, n + 1, TRUE)
<1>1. Len(A) = n
  BY DEF InOrder
<1>2. /\ Len(Append(A, e)) = n + 1
      /\ \A k \in 1..n : Append(A, e)[k] = A[k]
      /\ Append(A, e)[n + 1] = e
  BY <1>1, Appended
<1>3. ASSUME NEW k \in 1..(n + 1)
      PROVE  Append(A, e)[k] = handle_request(s[k])
  BY <1>1, <1>2 DEF InOrder
<1> QED
  BY <1>2, <1>3 DEF InOrder

(* Sending a request does not touch the ones already answered. *)
LEMMA MoreSent ==
  ASSUME NEW A \in Seq(Responses), NEW s \in Seq(Requests), NEW n \in Nat, n <= Len(s),
         NEW busy, InOrder(A, s, n, busy), NEW r \in Requests
  PROVE  InOrder(A, Append(s, r), n, busy)
<1>1. \A k \in 1..Len(s) : Append(s, r)[k] = s[k]
  BY Appended
<1>2. \A k \in 1..Len(A) : k \in 1..Len(s)
  BY DEF InOrder
<1> QED
  BY <1>1, <1>2 DEF InOrder

LEMMA GoodStep ==
  ASSUME HttpTypeOK, OneAtATime, NEW c \in Connections, Step(c), NEW d \in Connections, Good(d)
  PROVE  Good(d)'
<1>1. /\ received[d] \in Seq(Responses)
      /\ sent[d] \in Seq(Requests)
      /\ taken[d] \in Nat
      /\ taken[d] <= Len(sent[d])
  BY RequestAssumption DEF HttpTypeOK, OneAtATime, RequestAssumption
<1>2. CASE /\ op'[d] = op[d] /\ owner'[d] = owner[d] /\ taken'[d] = taken[d]
           /\ response'[d] = response[d] /\ received'[d] = received[d]
           /\ sent'[d] = sent[d]
  BY <1>2 DEF Good, Answers
<1>3. CASE d # c
  BY <1>2, <1>3 DEF HttpTypeOK, Step, HttpHandler, HttpClient, OnReadRequest, OnReadUpgrade, Arrived,
       OnReadEof, OnReadError, OnWrite, OnWriteError, Written, Finish, SendRequest, Leave, Accepted, run
<1>4. CASE d = c /\ OnReadRequest(c)
  <2>1. PICK r \in Requests : Arrived(c, r) /\ response' = [response EXCEPT ![c] = handle_request(r)]
    BY <1>4 DEF OnReadRequest
  <2>2. r = sent[c][taken[c] + 1]
    BY <2>1 DEF Arrived, Parsed, OneAtATime
  <2>3. /\ op[c] = "read" /\ op'[c] = "write" /\ owner[c] = "http"
        /\ received'[c] = received[c] /\ sent'[c] = sent[c] /\ owner'[c] = owner[c]
        /\ taken'[c] = taken[c] + 1 /\ response'[c] = handle_request(r)
    BY <1>4, <2>1 DEF OnReadRequest, Arrived, HttpTypeOK, OneAtATime
  <2>4. Answers(c) = received[c] /\ Answers(c)' = Append(received[c], handle_request(r))
    BY <2>3 DEF Answers
  <2>5. handle_request(r) \in Responses
    BY DEF Responses
  <2>6. InOrder(received[c], sent[c], taken[c], TRUE)
    BY <1>4, <2>3, <2>4 DEF Good
  <2>7. InOrder(Answers(c)', sent[c], taken[c] + 1, TRUE)
    BY <1>1, <1>4, <2>2, <2>4, <2>5, <2>6, AnswerNext
  <2>8. Quiet(received[c], received[c], "http")
    BY <1>4, <2>3, <2>4 DEF Good
  <2>9. Quiet(Append(received[c], handle_request(r)), received[c], "http")
    <3>1. /\ Len(Append(received[c], handle_request(r))) = Len(received[c]) + 1
          /\ \A k \in 1..Len(received[c]) : Append(received[c], handle_request(r))[k] = received[c][k]
      BY <1>1, <1>4, <2>5, Appended
    <3>2. \A k \in 1..Len(received[c]) : ~received[c][k].close
      BY <2>8 DEF Quiet
    <3>3. Len(received[c]) \in Nat
      BY <1>1, <1>4
    <3> QED
      BY <3>1, <3>2, <3>3, <2>8 DEF Quiet
  <2> QED
    BY <1>4, <2>3, <2>4, <2>7, <2>9 DEF Good
<1>5. CASE d = c /\ (OnReadUpgrade(c) \/ OnReadEof(c) \/ OnReadError(c))
  <2>1. /\ op[c] = "read" /\ op'[c] = "none" /\ owner[c] = "http"
        /\ received'[c] = received[c] /\ sent'[c] = sent[c]
        /\ taken'[c] \in {taken[c], taken[c] + 1}
    BY <1>5 DEF OnReadUpgrade, OnReadEof, OnReadError, Arrived, Finish, HttpTypeOK, OneAtATime
  <2>2. Answers(c) = received[c] /\ Answers(c)' = received[c]
    BY <2>1 DEF Answers
  <2>3. InOrder(received[c], sent[c], taken[c], TRUE) /\ Quiet(received[c], received[c], "http")
    BY <1>5, <2>1, <2>2 DEF Good
  <2>4. InOrder(received[c], sent[c], taken'[c], FALSE)
    BY <1>1, <1>5, <2>1, <2>3 DEF InOrder
  <2>5. Quiet(received[c], received[c], owner'[c])
    BY <2>3 DEF Quiet
  <2> QED
    BY <1>5, <2>1, <2>2, <2>4, <2>5 DEF Good
<1>6. CASE d = c /\ OnWrite(c)
  <2>1. /\ op[c] = "write" /\ op'[c] \in {"none", "read"} /\ owner[c] = "http"
        /\ received'[c] = Append(received[c], response[c])
        /\ sent'[c] = sent[c] /\ taken'[c] = taken[c]
        /\ response[c].close => owner'[c] = "closed"
        /\ response[c] \in Responses
    BY <1>6 DEF OnWrite, Written, Finish, HttpTypeOK, OneAtATime
  <2>2. Answers(c) = Append(received[c], response[c]) /\ Answers(c)' = Answers(c)
    BY <2>1 DEF Answers
  <2>3. InOrder(Answers(c), sent[c], taken[c], TRUE) /\ Quiet(Answers(c), received[c], "http")
    BY <1>6, <2>1 DEF Good
  <2>4. InOrder(Answers(c), sent[c], taken[c], op'[c] # "none")
    BY <2>3 DEF InOrder
  <2>5. Quiet(Answers(c), Answers(c), owner'[c])
    <3>1. /\ Len(Answers(c)) = Len(received[c]) + 1
          /\ \A k \in 1..Len(received[c]) : Answers(c)[k] = received[c][k]
          /\ Answers(c)[Len(received[c]) + 1] = response[c]
      BY <1>1, <1>6, <2>1, <2>2, Appended
    <3>2. \A k \in 1..Len(received[c]) : ~received[c][k].close
      BY <2>3 DEF Quiet
    <3>3. Len(received[c]) \in Nat
      BY <1>1, <1>6
    <3>4. ASSUME NEW k \in 1..Len(Answers(c)), Answers(c)[k].close
          PROVE  owner'[c] = "closed"
      BY <2>1, <3>1, <3>2, <3>3, <3>4
    <3> QED
      BY <2>3, <3>4 DEF Quiet
  <2> QED
    BY <1>6, <2>1, <2>2, <2>4, <2>5 DEF Good
<1>7. CASE d = c /\ OnWriteError(c)
  <2>1. /\ op[c] = "write" /\ op'[c] = "none" /\ owner'[c] = "closed"
        /\ received'[c] = received[c] /\ sent'[c] = sent[c] /\ taken'[c] = taken[c]
        /\ response[c] \in Responses
    BY <1>7 DEF OnWriteError, Finish, HttpTypeOK, OneAtATime
  <2>2. Answers(c) = Append(received[c], response[c]) /\ Answers(c)' = received[c]
    BY <2>1 DEF Answers
  <2>3. InOrder(Answers(c), sent[c], taken[c], TRUE) /\ Quiet(Answers(c), received[c], owner[c])
    BY <1>7, <2>1 DEF Good
  <2>4. /\ Len(Answers(c)) = Len(received[c]) + 1
        /\ \A k \in 1..Len(received[c]) : Answers(c)[k] = received[c][k]
        /\ Len(received[c]) \in Nat
    BY <1>1, <1>7, <2>1, <2>2, Appended
  <2>5. InOrder(received[c], sent[c], taken[c], FALSE)
    BY <1>1, <1>7, <2>3, <2>4 DEF InOrder
  <2>6. Quiet(received[c], received[c], "closed")
    BY <2>3, <2>4 DEF Quiet
  <2> QED
    BY <1>7, <2>1, <2>2, <2>5, <2>6 DEF Good
<1>8. CASE d = c /\ SendRequest(c)
  <2>1. PICK r \in Requests : sent' = [sent EXCEPT ![c] = Append(@, r)]
    BY <1>8 DEF SendRequest
  <2>2. /\ op' = op /\ owner' = owner /\ taken' = taken
        /\ response' = response /\ received' = received
    BY <1>8 DEF SendRequest
  <2>3. sent'[c] = Append(sent[c], r)
    BY <2>1 DEF HttpTypeOK
  <2>4. Answers(c)' = Answers(c)
    BY <2>2 DEF Answers
  <2>5. Answers(c) \in Seq(Responses)
    BY <1>1, <1>8, Appended DEF Answers, OneAtATime
  <2>6. InOrder(Answers(c), Append(sent[c], r), taken[c], op[c] # "none")
    BY <1>1, <1>8, <2>5, MoreSent DEF Good
  <2> QED
    BY <1>8, <2>2, <2>3, <2>4, <2>6 DEF Good
<1>9. CASE d = c /\ Leave(c)
  BY <1>2, <1>9 DEF Leave
<1>10. CASE d = c /\ Accepted(c)
  <2>1. /\ op[c] = "none" /\ op'[c] = "read" /\ owner[c] \in {"none", "backlog"}
        /\ received' = received /\ sent' = sent /\ taken' = taken
        /\ received[c] = <<>> /\ taken[c] = 0
    BY <1>10 DEF Accepted, run, OneAtATime, HttpTypeOK
  <2>2. Answers(c)' = <<>>
    BY <2>1 DEF Answers
  <2>3. InOrder(<<>>, sent[c], 0, TRUE) /\ Quiet(<<>>, <<>>, "http")
    BY DEF InOrder, Quiet
  <2>4. owner'[c] = "http"
    BY <1>10 DEF Accepted, run, HttpTypeOK
  <2> QED
    BY <1>10, <2>1, <2>2, <2>3, <2>4 DEF Good
<1> QED
  BY <1>3, <1>4, <1>5, <1>6, <1>7, <1>8, <1>9, <1>10 DEF Step, HttpHandler, HttpClient

-----------------------------------------------------------------------------

LEMMA HttpInvInit == HttpInit => HttpInv
BY RequestAssumption DEF HttpInit, HttpInv, HttpTypeOK, OneAtATime, AnswersInOrder, QuietAfterClose,
     Answers, RequestAssumption

LEMMA HttpInvStep ==
  ASSUME HttpInv, NEW c \in Connections, Step(c)
  PROVE  HttpInv'
<1>1. HttpTypeOK' /\ OneAtATime'
  BY TypeStep, OneAtATimeStep DEF HttpInv
<1>2. \A d \in Connections : Good(d)
  BY GoodEverywhere DEF HttpInv
<1>3. \A d \in Connections : Good(d)'
  BY <1>2, GoodStep DEF HttpInv
<1>4. (AnswersInOrder /\ QuietAfterClose)'
  BY <1>3 DEF AnswersInOrder, QuietAfterClose, Good, InOrder, Quiet
<1> QED
  BY <1>1, <1>4 DEF HttpInv

LEMMA HttpInvStutter ==
  ASSUME HttpInv, UNCHANGED httpVars
  PROVE  HttpInv'
BY DEF httpVars, HttpInv, HttpTypeOK, OneAtATime, AnswersInOrder, QuietAfterClose, Answers

(* The invariant of every HTTP connection, whatever is sent on it. *)
THEOREM HttpInvariance == HttpSpec => []HttpInv
<1>1. HttpInv /\ [HttpNext]_httpVars => HttpInv'
  <2> SUFFICES ASSUME HttpInv, HttpNext \/ UNCHANGED httpVars
               PROVE  HttpInv'
    OBVIOUS
  <2>1. CASE HttpNext
    <3>1. PICK c \in Connections : Step(c)
      BY <2>1 DEF HttpNext, Step
    <3> QED
      BY <3>1, HttpInvStep
  <2>2. CASE UNCHANGED httpVars
    BY <2>2, HttpInvStutter
  <2> QED
    BY <2>1, <2>2
<1> QED
  BY <1>1, HttpInvInit, PTL DEF HttpSpec

(* Every variable of the HTTP sessions keeps its type: in particular, what is
   being written is a response that still exists. *)
THEOREM HttpTypeCorrect == HttpSpec => []HttpTypeOK
<1>1. HttpInv => HttpTypeOK
  BY DEF HttpInv
<1> QED
  BY <1>1, HttpInvariance, PTL

(* A session has one operation, which owns it, and reads into an empty
   request. *)
THEOREM OneOperation == HttpSpec => []OneAtATime
<1>1. HttpInv => OneAtATime
  BY DEF HttpInv
<1> QED
  BY <1>1, HttpInvariance, PTL

(* The k-th response answers the k-th request. *)
THEOREM AnsweredInOrder == HttpSpec => []AnswersInOrder
<1>1. HttpInv => AnswersInOrder
  BY DEF HttpInv
<1> QED
  BY <1>1, HttpInvariance, PTL

(* No response follows one that closes the connection. *)
THEOREM QuietAfterClosing == HttpSpec => []QuietAfterClose
<1>1. HttpInv => QuietAfterClose
  BY DEF HttpInv
<1> QED
  BY <1>1, HttpInvariance, PTL

-----------------------------------------------------------------------------
(* The refinement. *)

(* What is being answered is a request that has an answer. *)
Answerable ==
  \A c \in Connections :
    op[c] = "write" =>
      /\ taken[c] \in 1..Len(sent[c])
      /\ ~sent[c][taken[c]].upgrade
      /\ sent[c][taken[c]].method # "malformed"

LEMMA AnswerableStep ==
  ASSUME HttpInv, Answerable, NEW c \in Connections, Step(c)
  PROVE  Answerable'
<1> SUFFICES ASSUME NEW d \in Connections, op'[d] = "write"
             PROVE  /\ taken'[d] \in 1..Len(sent'[d])
                    /\ ~sent'[d][taken'[d]].upgrade
                    /\ sent'[d][taken'[d]].method # "malformed"
  BY DEF Answerable
<1>1. /\ op \in [Connections -> {"none", "read", "write"}]
      /\ taken \in [Connections -> Nat]
      /\ sent \in [Connections -> Seq(Requests)]
      /\ op[c] = "read" => req_[c] = NoRequest
      /\ req_ \in [Connections -> Requests \cup {NoRequest}]
  BY RequestAssumption DEF HttpInv, HttpTypeOK, OneAtATime, RequestAssumption
<1>2. CASE op[d] = "write" /\ taken'[d] = taken[d] /\ sent'[d] = sent[d]
  BY <1>2 DEF Answerable
<1>3. CASE OnReadRequest(c)
  <2>1. PICK r \in Requests : Arrived(c, r) /\ ~r.upgrade
    BY <1>3 DEF OnReadRequest
  <2>2. r = sent[c][taken[c] + 1] /\ r.method # "malformed"
    BY <1>1, <2>1 DEF Arrived, Parsed
  <2>3. CASE d = c
    <3>1. /\ taken'[c] = taken[c] + 1 /\ sent'[c] = sent[c]
          /\ taken[c] + 1 \in 1..Len(sent[c])
      BY <1>1, <1>3, <2>1 DEF OnReadRequest, Arrived
    <3> QED
      BY <2>1, <2>2, <2>3, <3>1
  <2>4. CASE d # c
    BY <1>1, <1>2, <1>3, <2>1, <2>4 DEF OnReadRequest, Arrived
  <2> QED
    BY <2>3, <2>4
<1>4. CASE SendRequest(c)
  <2>1. PICK r \in Requests : sent' = [sent EXCEPT ![c] = Append(@, r)]
    BY <1>4 DEF SendRequest
  <2>2. op' = op /\ taken' = taken
    BY <1>4 DEF SendRequest
  <2>3. CASE d # c
    BY <1>1, <1>2, <2>1, <2>2, <2>3
  <2>4. CASE d = c
    <3>1. /\ Len(sent'[c]) = Len(sent[c]) + 1
          /\ \A k \in 1..Len(sent[c]) : sent'[c][k] = sent[c][k]
      BY <1>1, <2>1, Appended
    <3>2. /\ taken[c] \in 1..Len(sent[c])
          /\ ~sent[c][taken[c]].upgrade
          /\ sent[c][taken[c]].method # "malformed"
      BY <2>2, <2>4 DEF Answerable
    <3> QED
      BY <1>1, <2>2, <2>4, <3>1, <3>2
  <2> QED
    BY <2>3, <2>4
<1>5. CASE OnReadUpgrade(c) \/ OnReadEof(c) \/ OnReadError(c) \/ OnWrite(c) \/ OnWriteError(c)
  BY <1>1, <1>2, <1>5 DEF OnReadUpgrade, OnReadEof, OnReadError, OnWrite, OnWriteError, Arrived,
       Written, Finish
<1>6. CASE Leave(c) \/ Accepted(c)
  BY <1>1, <1>2, <1>6 DEF Leave, Accepted, run
<1> QED
  BY <1>3, <1>4, <1>5, <1>6 DEF Step, HttpHandler, HttpClient

(* A change of one connection's owner changes that connection's phase. *)
LEMMA PhaseChange ==
  ASSUME NEW old, NEW new, NEW heir, NEW c \in Connections,
         old \in [Connections -> {"none", "backlog", "http", "websocket", "closed"}],
         new = [old EXCEPT ![c] = heir]
  PROVE  [d \in Connections |-> Phase(new[d])]
           = [[d \in Connections |-> Phase(old[d])] EXCEPT ![c] = Phase(heir)]
OBVIOUS

(* An end of the session that has one of the three causes ends the exchange. *)
LEMMA EndRefined ==
  ASSUME HttpInv, NEW c \in Connections, NEW heir \in {"websocket", "closed"},
         owner[c] = "http", owner' = [owner EXCEPT ![c] = heir],
         UNCHANGED <<sent, received, client>>,
         \/ client[c] = "gone"
         \/ client[c] = "eof" /\ ~(Len(received[c]) < Len(sent[c]))
         \/ /\ Len(received[c]) < Len(sent[c])
            /\ Unanswered(sent[c][Len(received[c]) + 1])
  PROVE  Abstract!End(c)
<1> DEFINE next == sent[c][Len(received[c]) + 1]
<1>1. owner \in [Connections -> {"none", "backlog", "http", "websocket", "closed"}]
  BY DEF HttpInv, HttpTypeOK
<1>2. [d \in Connections |-> Phase(owner'[d])]
        = [[d \in Connections |-> Phase(owner[d])] EXCEPT ![c] = "ended"]
  BY <1>1, PhaseChange DEF Phase
<1>3. Phase(owner[c]) = "open"
  BY DEF Phase
<1>4. Len(received[c]) < Len(sent[c]) => next \in Requests
  BY RequestAssumption DEF HttpInv, HttpTypeOK, RequestAssumption
<1> QED
  BY <1>2, <1>3, <1>4 DEF Abstract!End, Abstract!Pending, Abstract!NextRequest

LEMMA ExchangeStep ==
  ASSUME HttpInv, Answerable, NEW c \in Connections, Step(c)
  PROVE  [Abstract!Next]_Abstract!vars
<1>1. /\ owner \in [Connections -> {"none", "backlog", "http", "websocket", "closed"}]
      /\ taken[c] \in Nat /\ taken[c] <= Len(sent[c])
      /\ sent \in [Connections -> Seq(Requests)]
      /\ received \in [Connections -> Seq(Responses)]
      /\ op[c] # "none" <=> owner[c] = "http"
  BY RequestAssumption DEF HttpInv, HttpTypeOK, OneAtATime, RequestAssumption
<1>2. ASSUME op[c] = "read"
      PROVE  Len(received[c]) = taken[c] /\ req_[c] = NoRequest
  BY <1>2 DEF HttpInv, AnswersInOrder, Answers, OneAtATime
<1>3. ASSUME op[c] = "write"
      PROVE  /\ Len(received[c]) < Len(sent[c])
             /\ sent[c][Len(received[c]) + 1] \in Requests
             /\ response[c] = handle_request(sent[c][Len(received[c]) + 1])
             /\ response[c] \in Responses
             /\ ~sent[c][Len(received[c]) + 1].upgrade
             /\ sent[c][Len(received[c]) + 1].method # "malformed"
  <2>1. response[c] \in Responses
    BY <1>3 DEF HttpInv, OneAtATime
  <2>2. /\ Len(Append(received[c], response[c])) = Len(received[c]) + 1
        /\ Append(received[c], response[c])[Len(received[c]) + 1] = response[c]
    BY <1>1, <2>1, Appended
  <2>3. Answers(c) = Append(received[c], response[c])
    BY <1>3 DEF Answers
  <2>4. /\ taken[c] = Len(received[c]) + 1
        /\ \A k \in 1..Len(Answers(c)) : Answers(c)[k] = handle_request(sent[c][k])
    BY <1>3, <2>2, <2>3 DEF HttpInv, AnswersInOrder
  <2>5. Len(received[c]) \in Nat
    BY <1>1
  <2>6. Len(received[c]) + 1 \in 1..Len(Answers(c))
    BY <2>2, <2>3, <2>5
  <2>7. response[c] = handle_request(sent[c][Len(received[c]) + 1])
    BY <2>2, <2>3, <2>4, <2>6
  <2> QED
    BY <1>1, <1>3, <2>1, <2>4, <2>5, <2>7 DEF Answerable
<1>4. CASE OnReadRequest(c)
  BY <1>4 DEF OnReadRequest, Abstract!vars
<1>5. CASE OnReadUpgrade(c)
  <2>1. PICK r \in Requests : Arrived(c, r) /\ r.upgrade
    BY <1>5 DEF OnReadUpgrade
  <2>2. op[c] = "read" /\ r = sent[c][taken[c] + 1] /\ taken[c] < Len(sent[c])
    BY <1>2, <2>1 DEF Arrived, Parsed
  <2>3. Unanswered(sent[c][Len(received[c]) + 1]) /\ Len(received[c]) < Len(sent[c])
    BY <1>2, <2>1, <2>2 DEF Unanswered
  <2>4. Abstract!End(c)
    BY <1>1, <1>5, <2>2, <2>3, EndRefined DEF OnReadUpgrade, Finish
  <2> QED
    BY <2>4 DEF Abstract!Next
<1>6. CASE OnReadEof(c)
  <2>1. ~(Len(received[c]) < Len(sent[c]))
    BY <1>1, <1>2, <1>6 DEF OnReadEof
  <2>2. Abstract!End(c)
    BY <1>1, <1>6, <2>1, EndRefined DEF OnReadEof, Finish
  <2> QED
    BY <2>2 DEF Abstract!Next
<1>7. CASE OnReadError(c)
  <2>1. op[c] = "read"
    BY <1>7 DEF OnReadError
  <2>2. \/ client[c] = "gone"
        \/ /\ Len(received[c]) < Len(sent[c])
           /\ Unanswered(sent[c][Len(received[c]) + 1])
    BY <1>2, <1>7, <2>1 DEF OnReadError, Unanswered
  <2>3. Abstract!End(c)
    BY <1>1, <1>7, <2>1, <2>2, EndRefined DEF OnReadError, Finish
  <2> QED
    BY <2>3 DEF Abstract!Next
<1>8. CASE OnWriteError(c)
  <2>1. op[c] = "write"
    BY <1>8 DEF OnWriteError
  <2>2. \/ client[c] = "gone"
        \/ /\ Len(received[c]) < Len(sent[c])
           /\ Unanswered(sent[c][Len(received[c]) + 1])
    BY <1>3, <1>8, <2>1 DEF OnWriteError, Unanswered
  <2>3. Abstract!End(c)
    BY <1>1, <1>8, <2>1, <2>2, EndRefined DEF OnWriteError, Finish
  <2> QED
    BY <2>3 DEF Abstract!Next
<1>9. CASE OnWrite(c)
  <2> DEFINE next == sent[c][Len(received[c]) + 1]
             res == handle_request(next)
             answers == [r \in Requests |-> handle_request(r)]
             closing == {x \in Responses : x.close}
             last == {r \in Requests : Unanswered(r)}
  <2>1. op[c] = "write" /\ owner[c] = "http"
    BY <1>1, <1>9 DEF OnWrite, Written
  <2>2. response[c] = res /\ next \in Requests /\ res \in Responses
        /\ Len(received[c]) < Len(sent[c])
    BY <1>3, <2>1
  <2>3. next \notin last
    BY <1>3, <1>9, <2>1, <2>2 DEF OnWrite, Written, Unanswered
  <2>4. received' = [received EXCEPT ![c] = Append(@, res)] /\ sent' = sent /\ client' = client
    BY <1>9, <2>2 DEF OnWrite, Written
  <2>5. answers[next] = res /\ (res \in closing <=> res.close)
    BY <2>2
  <2>6. [d \in Connections |-> Phase(owner'[d])]
          = [[d \in Connections |-> Phase(owner[d])] EXCEPT
               ![c] = IF res \in closing THEN "ended" ELSE "open"]
    <3>1. CASE res.close
      <4>1. owner' = [owner EXCEPT ![c] = "closed"]
        BY <1>9, <2>2, <3>1 DEF OnWrite, Finish
      <4> QED
        BY <1>1, <2>5, <3>1, <4>1, PhaseChange DEF Phase
    <3>2. CASE ~res.close
      <4>1. owner' = [owner EXCEPT ![c] = "http"]
        BY <1>1, <1>9, <2>1, <2>2, <3>2 DEF OnWrite
      <4> QED
        BY <1>1, <2>5, <3>2, <4>1, PhaseChange DEF Phase
    <3> QED
      BY <3>1, <3>2
  <2>7. [d \in Connections |-> Phase(owner[d])][c] = "open"
    BY <2>1 DEF Phase
  <2> HIDE DEF next, res, answers, closing, last
  <2>8. Abstract!Answer(c)
    BY <2>2, <2>3, <2>4, <2>5, <2>6, <2>7
       DEF Abstract!Answer, Abstract!Pending, Abstract!NextRequest, next, answers, closing, last
  <2> QED
    BY <2>8 DEF Abstract!Next
<1>10. CASE SendRequest(c)
  <2>1. Phase(owner[c]) # "ended" /\ owner' = owner
    BY <1>10 DEF SendRequest, Phase
  <2>2. Abstract!Ask(c)
    BY <1>10, <2>1 DEF SendRequest, Abstract!Ask
  <2> QED
    BY <2>2 DEF Abstract!Next
<1>11. CASE Leave(c)
  <2>1. Abstract!Leave(c)
    BY <1>11 DEF Leave, Abstract!Leave
  <2> QED
    BY <2>1 DEF Abstract!Next
<1>12. CASE Accepted(c)
  <2>1. owner[c] \in {"none", "backlog"} /\ owner' = [owner EXCEPT ![c] = "http"]
    BY <1>12 DEF Accepted, run
  <2>2. /\ Phase(owner[c]) = "waiting"
        /\ [d \in Connections |-> Phase(owner'[d])]
             = [[d \in Connections |-> Phase(owner[d])] EXCEPT ![c] = "open"]
    BY <1>1, <2>1, PhaseChange DEF Phase
  <2>3. Abstract!Open(c)
    BY <1>12, <2>2 DEF Accepted, run, Abstract!Open
  <2> QED
    BY <2>3 DEF Abstract!Next
<1> QED
  BY <1>4, <1>5, <1>6, <1>7, <1>8, <1>9, <1>10, <1>11, <1>12 DEF Step, HttpHandler, HttpClient

(* Every connection is an exchange: answers in order, and no end without a
   cause, for any requests and any number of connections. *)
THEOREM ExchangeRefined == HttpSpec => ImplementsExchange
<1>1. HttpInit => Answerable /\ Abstract!Init
  BY DEF HttpInit, Answerable, Abstract!Init, Phase
<1>2. HttpInv /\ Answerable /\ [HttpNext]_httpVars => Answerable' /\ [Abstract!Next]_Abstract!vars
  <2> SUFFICES ASSUME HttpInv, Answerable, HttpNext \/ UNCHANGED httpVars
               PROVE  Answerable' /\ [Abstract!Next]_Abstract!vars
    OBVIOUS
  <2>1. CASE HttpNext
    <3>1. PICK c \in Connections : Step(c)
      BY <2>1 DEF HttpNext, Step
    <3> QED
      BY <3>1, AnswerableStep, ExchangeStep
  <2>2. CASE UNCHANGED httpVars
    BY <2>2 DEF httpVars, Answerable, Abstract!vars
  <2> QED
    BY <2>1, <2>2
<1> QED
  BY <1>1, <1>2, HttpInvariance, PTL DEF HttpSpec, ImplementsExchange

=============================================================================
