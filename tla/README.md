# Verification of the WebSocket chat server

The repository is a small chat server on Boost.Asio and Boost.Beast. It serves
files over HTTP, issues HS256 tokens at `GET /api/ws`, and turns a connection
that presents a valid token into a WebSocket. Every message read from a
WebSocket is broadcast to all registered sessions. Everything runs in one
thread, on one `io_context`.

This directory holds TLA+ models of the server, the TLC configurations that
check them on small instances, and proofs for every instance, checked by TLAPS.

## The system

| Component | State | Operations | Interacts with |
|---|---|---|---|
| `main` (`main.cpp`) | `io_context`, signal set | start-up, `ioc.run`, `ioc.stop`, leaving | owns every pending handler, and through them every session |
| `listener` | `acceptor_`, the pending accept | constructor, `run`, `on_accept` | starts an `http_session` per connection |
| `http_session` | socket, `buffer_`, `req_`, the response being written | `run`, `on_read`, `handle_request`, `on_write` | moves its socket into a `websocket_session`; builds tokens with jwt-cpp |
| `websocket_session` | stream, `queue_`, `connection_id`, pending operations | `run`, `on_accept`, `on_read`, `send`, `on_write`, `close_with_401`, `on_close`, `on_write_401`, destructor | verifies a token; registers in, and broadcasts through, `shared_state` |
| `shared_state` | `sessions_`: id to raw pointer | `connect`, `disconnect`, `send`, `broadcast`, `get` | calls `websocket_session::send` of its entries |
| jwt-cpp (`jwt.h`, `traits.h`) | none | build and sign, decode, verify | called by `handle_request` and `websocket_session::run` |
| base64url (`base.h`), `url_decode` | none | `encode`, `decode`, `pad`, `trim`; `url_decode` | the text form of tokens |
| files | none | the test of a target, `path_cat`, `mime_type` | from a request's target to the file that is opened |

What is hard about it:

* **Lifetime.** A session is owned by nothing but its pending handlers, while
  `sessions_` keeps raw pointers to it. The destructor is the only place where
  an entry is taken out, and it broadcasts while the object goes.
* **Ids.** `generate_random_string` seeds its generator with whole seconds, so
  sessions accepted in one second get the same id. An entry may be replaced
  and the sessions of one id may end in any order.
* **Writes.** Any session's handler may call any other session's `send` while
  a write is under way. Beast allows one outstanding write per stream, and its
  buffer has to stay valid.
* **Shutdown.** `ioc.stop()` leaves handlers to be destroyed one by one. Their
  destructors broadcast to the sessions whose handlers still wait, and so start
  new operations on an `io_context` that is being destroyed.
* **Hand-over.** A socket moves from an `http_session` to a `websocket_session`
  while the former still exists, and a token moves from a response on one
  connection into an upgrade request on another.
* **Requests.** Clients pipeline requests, half-close, and reset between any
  two steps; `req_` is reused.
* **Time.** Dates in tokens are whole seconds, the clock has a finer
  resolution and may be set back, decimal dates are rounded.
* **Text.** A fill of base64url is three characters but counts as one; the
  token is whatever follows the first `?token=`; a test for `..` is all that
  stands between a target and the file system.
* **Failure.** A failed accept ends the listener; a failed write leaves its
  message in the queue; there is no timeout anywhere.

The correctness of each component: the chat core keeps its pointers valid, its
streams to one write, its sessions owned, and gives every reader the same
messages in the same order; the HTTP sessions answer each request once, in
order; the process leaves only on a signal and then closes everything; only
whole tokens signed with the secret are accepted, and issued ones exactly in
their lifetime, by the clock of the moment they are presented; a segment is read back as it was written and reaches the server
through a URL; no target leads out of the directory that is served. Of the whole:
a socket has one owner, only a token that was handed out opens the chat, and only
within its lifetime, and nothing is left at the exit.

## Modules

| Module | Models | Lines of the source |
|---|---|---|
| `SharedState` | `sessions_`, and `send` of the sessions in it, as operators that a handler chains | `shared_state.cpp`, `websocket_session::send` |
| `WebsocketSession` | the chat core: all handlers of all sessions, ownership, destructor, shutdown; extends `SharedState` and `Jwt` | `websocket_session.*`, `http_session.cpp` 281-289, `main.cpp` 36-53 |
| `ChatRoom` | abstract specification of the chat core: places, members, inboxes | none |
| `Jwt` | dates, claims, signing, decoding, verifying, as pure operators | `jwt.h`, `traits.h` |
| `TokenLifecycle` | issuing tokens over time, and whatever a client may present; extends `Jwt` | `http_session.cpp` 110-138 |
| `Base64` | base64url, `url_decode` and the cutting of the token out of a target, character by character | `base.h`, `websocket_session.cpp` 145-167, `websocket_session.hpp` 62-73 |
| `Files` | from a target to a path and a type, and what the file system makes of a path | `http_session.cpp` 17-99, 180-192 |
| `MCText` | byte strings, texts and targets, grown piece by piece; extends `Base64` and `Files` | none |
| `HttpSession` | the connections' requests and responses | `http_session.cpp` |
| `Exchange` | abstract specification of the HTTP connections: requests, answers, and when a connection may end | none |
| `Server` | start-up, listener, signal, exit, around the HTTP sessions; extends `HttpSession` | `listener.cpp`, `main.cpp` |
| `ChatServer` | the whole program; extends `Server`, and takes the chat core as an instance of `WebsocketSession` | all of the above |
| `MC...` | instances for TLC | |
| `...Proofs` | theorems | |

`WebsocketSession` and `Server` can be read and checked each on its own: in
`Server` a socket that became a WebSocket is merely in use for a while, and in
`WebsocketSession` sessions appear by an upgrade at any time. `ChatServer` puts
them together on one `io_context`, and is shown to implement both
(`ImplementsServer`, `ImplementsCore`), so that what holds of a half holds of the
whole.

### State and actions

Asio runs one handler at a time, so **a handler is one step**. It includes all
the calls it makes: `OnRead` contains the broadcast with the `send` of every
session, and a handler that was the last owner of its session contains the
destructor with its `disconnect` and broadcast (`Return`, `Destructor`). The
interleavings are those of completions, which come in any order.

* `WebsocketSession`: `reads`, `writes` and `setup` are a session's outstanding
  operations; each owns the session. `writes` records the buffers the writes
  refer to, so that a second write, or one whose buffer has left `queue_`,
  shows. `wire` holds what was written. `life` is the object itself. `presented` is
  a history variable: the tick at which a session's token was verified, which no action
  reads and the properties about tokens need. A read or a write that was complete before the
  stream failed in the other direction is still reported without an error after it,
  so `OnRead` and `OnWrite` do not ask for an open stream.
* `HttpSession`: `owner` says who has the socket, `op` is the session's one
  outstanding operation, `taken` counts the requests read; `sent` and
  `received` are what the client sees. `Parsed` is what Beast's parser
  does to a message that was not emptied first: old fields may survive.
* `Server`: the acceptor's state is as far as the constructor got. The
  constructor returns early on an error and the listener is run all the same.
  An accept may fail at any time and with any error (`OnAcceptError`); `CannotAccept` says
  when it has to.
* `ChatServer`: a step of the program is a step of one half, or of both where
  they touch. `HandOver` is `OnReadUpgrade` of the HTTP side and `Upgrade` of
  the chat core in one handler; when a `websocket_session` is destroyed its socket
  is closed in the same step (`SocketFollows`). `offered` and `known` follow a
  token from the response being written to a client that has it; `FailWrite` loses it with
  the response, `FailRead` ends a session that waited for a request. The two readings of the clock in
  one answer are one tick here; `TokenLifecycle` has both. A client may present
  whatever is `known`, and what the server never issues. The chat core's
  `stopped` is the process's `status`.
* `Jwt`: a token is the sequence of its segments, and a segment is what its
  text decodes to. The HMAC is ideal. `Verify` gives the *set* of outcomes a call may
  have, because the checks sit in an unordered map. `Wrap` and `Round` keep
  the width and the rounding of dates. `builder` and `verifier` are the classes of these
  names, and their setters return the changed object, so that tokens and verifiers are put together in the
  models as in the code. A verifier has one check for each of its claims, a record that names
  the function object of the code and what that was given (`CheckError`); the leeway setters replace a check by
  a stricter one, which insists on the date and on an integer. A claim is a JSON value with its type, null and
  nested arrays included, and each operator with `Error` in its name gives the error that the call sets or throws.
* `Files`: a text is a sequence of words and of the characters `/` and `.`.
  `Walk` is what the file system makes of a path, with `..` going up.

Some operators have a sibling with a suffix (`disconnect_NoErase`,
`OnWrite_KeepOpen`). Each is a *faulty variant*, that is a plausible mistake
in that code; substituting it for the original makes a run fail. They show what a
property is able to notice and are used nowhere else. `PROJECT.json` lists
which one breaks which property.

## What the runs check

| Run | Instance | Result |
|---|---|---|
| `chat_safety` (`MCWebsocketSession.cfg`) | 3 sessions, 2 ids, 2 seconds, 2 chat messages, a good and a forged token, a clock that outlives the good one; 516,000 states | no dangling pointer, one write per stream, ownership, separate phases, greeting first, only sessions join whose token was good when it was presented |
| `chat_liveness` (`MCWebsocketLiveness.cfg`) | the same with 2 sessions whose peers may hang up; 119,000 states | implements `ChatRoom`, one order of messages, peers that are gone are reclaimed, shutdown ends |
| `collision_broadcast`, `collision_disconnect` | 2 sessions | **violated**, see below |
| `token_lifecycle` | 8 ticks of half a second, lifetime of 2 seconds, 2 tokens, 7 partner tokens, 6 made-up segments, every combination of segments, leeways of 0 to 2 seconds; 968 states | only whole signed tokens are accepted, issued ones exactly in their lifetime, and a leeway is worth exactly its seconds |
| `token_rounding` | the same | **violated** |
| `texts` (`MCText.cfg`) | all byte strings up to 5 of 5 bytes, all texts up to 6 of 6 pieces (plain characters, fill, part of a fill, percent, plus), all targets up to 6 of 6 pieces, 5 directories; 114,000 states | round trips, also through a URL; plain segments; no lookup outside a text that is accepted; no target leads out of the directory, and a file's type is decided by its own name |
| `http_session` | a connection with up to 4 of 8 kinds of request; 72,000 states | one operation, answers in order, quiet after the closing one, every client that stays is answered, implements `Exchange` |
| `head_body` | the same with 2 requests | **violated** |
| `server` | 2 clients with 2 requests each, 1 descriptor; 236,000 states | leaves only on a signal and then does leave, every socket accounted for, nobody waits in the backlog for ever |
| `listener` | the same with 1 request | **violated** |
| `chat_server` | 2 connections with 2 requests each, 2 descriptors, 2 ticks, one id, a token that is good, one that is not, and none; 767,000 states | one owner per socket, only handed-out tokens open the chat, and only within their lifetime, nothing left at the exit; implements `Server` and the chat core |

### Why the bounds are enough

*Chat core.* Two sessions of one id and a third of another one suffice for
every order of collision, replacement and erasure: what happens to an entry
depends on its holder, a rival, and a bystander who receives the broadcasts. Two chat messages
together with greetings and announcements make queues longer than two, so that
the branches of `send` and `on_write` are all taken. Two seconds give equal
and different ids, and an expired token. In the safety run no peer hangs up
by name: an operation may fail at any time anyway, and `Hangup` only matters
to fairness.

*Tokens.* Two ticks per second distinguish exact from whole-second
comparisons; 8 ticks go beyond the lifetime on both sides. Partner tokens, signed with
the secret by somebody else, have a decimal, an absent and a mistyped expiry, an audience list and one with a null in
it, a foreign, a mistyped and a null issuer, and an algorithm that the verifier does not know.
A leeway of 2 seconds is as long as the lifetime.

*Texts.* Groups are of 3 bytes and 4 characters; 5 bytes and 6 pieces make
a full group, each kind of rest, and more fill than is legal. The bytes 62,
251 and 255 reach the characters in which base64url differs from base64.
A target of six pieces has room for two components, a `..` among them, and an
extension; the directories are the root of the file system, the current directory, one
above it, an absolute one with a dot in its name, and a plain one. An empty `doc_root` is
excluded: `path_cat` then returns the target as it is, the server serves from the root of the
file system, and there is no directory to stay inside. The usage text of `main` suggests `.`.

*HTTP.* Connections do not share state, so one is enough in `http_session`;
four requests allow a closing or an upgrading one at each place in the pipeline, and one behind it.
In `server` two clients compete for one descriptor, so that one waits while the
other is served.

*The whole.* Two connections are enough for a token that is given out on one and
used on another, and for a broadcast from a destructor to a session that is being
left behind; with a single id every two sessions collide. A token of the first
tick has expired at the second. Clients send nothing behind an upgrade request (`MCRequest`): the
`http_session` that reads one never reads again, and the clients of `http_session` do send such requests. Connections are interchangeable (symmetry); the run
checks no liveness.

`MaxTime`, `MaxChat`, `Leavers`, `MaxRequests`, `MaxIssued`, `Inventions`,
`Partner`, `MaxLeeway`, `MCRequest` and the bounds of `MCText` are bounds of the models and not of the
program. `MaxSockets` stands for the program's real limit on descriptors.

Deadlock is checked in the runs of the chat core and of the tokens. `HttpSession`,
`Server` and `ChatServer` stop when every connection is closed or the process has
exited, and `MCText` when the bound is reached, so it is off there.

### Fairness, and why the code justifies it

* Chat core: once a peer has hung up, the kernel completes the operations on
  that connection, each with success or an error (`WF` on the handlers of
  `hungup` sessions). Destroying the `io_context` runs to its end (`WF` on
  `DestroyHandler`). Nothing is promised for a silent or a slow peer, because no
  stream has a timeout.
* HTTP: `WF` on the handlers of a connection, which are enabled only when
  something has arrived, the client has left, or a response can be written.
  A response that a client never reads is not covered: clients are assumed to
  read what they asked for until they leave.
* Server: `WF` on the pending accept, which ends for a connection in the backlog, or with an error
  when it cannot (`CannotAccept`: no descriptor is left, or the acceptor does not listen); on the
  signal's handler and on leaving `main`. No other failure of an accept is assumed to come.
  No signal, client or end of a WebSocket is assumed to come.

No property relies on strong fairness.

### Where code and comments disagree

1. *`websocket_session.cpp:63`, "Send to all connections"*
   (`AllConnectionsReached`). Two sessions accepted in one second share an id;
   `connect` replaces the first one's entry, and broadcasts no longer reach it.
2. *`websocket_session.cpp:13`, "Remove this session from the list of active
   sessions"* (`RemovesOnlyItself`). The session that lost its entry erases
   the other one's, which is alive, when it ends. The theorems below show the limits
   of this: a session becomes unreachable *only* by such a collision, and no
   pointer dangles even then.
3. *`jwt.h:2355`, a decimal date "is rounded up"* (`RoundedUp`). It is rounded
   to the nearest second.
4. *`http_session.cpp:100`, "produces an HTTP response for the given request"*
   (`HeadHasNoBody`). Error responses to HEAD carry a body.
5. *`listener.hpp:20`, "Accepts incoming connections"*, and
   *`listener.cpp:96`, "Accept another connection"* (`KeepsAccepting`). After one
   failed accept there is no other.

## What is proved

The proofs hold for all values of the constants, under the assumptions that
the modules name. They ask little: `nullptr` is not a session, the empty id is
not a generated one, ids are a function of the second, made-up segments are not HMACs under
the secret, the tokens' dates stay below the clock's limit, what is put into a
byte string is bytes, and the paths a client puts before its token hold no `?token=` of their own. The theorems about the whole program assume that a token that the server
did not issue is not accepted; `OnlySignedAlwaysAccepted` shows that of the tokens themselves.

**Chat core** (`WebsocketSessionProofs`). `NoDanglingPointer` alone is not
inductive: that a destroyed session leaves no entry behind needs to know that
an entry sits under its session's own id, that a session is alive exactly
while an operation owns it, and that the phases do not overlap (a refused
session has no id, hence no entry, hence nothing to write). The invariant

    IInv == TypeOK /\ NoDanglingPointer /\ WriteDiscipline /\ OwnedWhileAlive /\ PhasesApart

is inductive. The proof first establishes what `send`, `broadcast` and
`disconnect` do to the sessions they are applied to, then what `Return` does,
and then takes one step per handler. Theorems: `Invariance`, `TypeCorrect`,
`PhasesSeparate`, `PointersValid`, `OneWritePerStream`, `LifetimeIsOwnership`,
and, by a second induction on top, `VerifiedJoin`: who is in the chat has a token that was accepted by the
clock as it stood when it was presented. `NothingAfterDestruction` is about steps: a session
is constructed and destroyed once, keeps its token and the tick at which it presented that, gets one id at most, and no handler, broadcast or write
touches it once its destructor has run. It follows from the invariant handler by handler: a
handler's own session is alive, and so is every session that `sessions_` leads to.

**Refinement** (`WebsocketRefinementProofs`). A session's inbox is what is on
the wire followed by what is queued; a member has left when its session is
destroyed. Completing a write moves a message from one to the other and is a stutter;
`OnAccept` is a `Join`, `OnRead` a `Say`, and every handler that ends in the
destructor of an accepted session is a `Leave`. Theorem `Refinement`. What
`ChatRoomProofs` shows of the room (`RoomCorrect`) carries over:
`GreetedFirstAlways`, `OneOrderForAll`, `OnlyCollisionsUnregister`, and, from the action property
`NothingTakenBack` of the room, `NoMessageLost`: between `send` and the wire nothing is lost,
doubled or reordered, not even by the errors that end a session.

**Tokens** (`TokenLifecycleProofs`). A token that verification accepts has
three segments of which the third is the HMAC of the other two; a client gets
such a segment only from a signed token, and the HMAC names the segments it
signs (`OnlySignedAlwaysAccepted`). The verdict on an issued token reduces to
the two date checks, and those to arithmetic on the readings of the clock:
it is accepted during its lifetime (`GoodForItsLifetime`), refused outside of it
(`LifetimeKept`), and a leeway moves both ends by its seconds and by nothing else
(`LeewayWorth`). This is for any resolution of the clock, not just two ticks a second.

**Texts** (`TextProofs`). `encode` and `decode` give every character and every
byte by its place, so they need no induction over strings. What they do to one
group, three bytes against four characters, is arithmetic on a handful of
numbers; a character and its value determine each other; and the lemmas about `Min` and `Max` find
where a fill begins. Together: `SegmentsReadBack` (what is written is read back,
at any length), `SegmentsArePlain` (its length, no fill, no dot, no percent
sign), `ReadsStayInside` (in a text that it accepts, `decode` looks up exactly what is before
the fill), and `AcceptedIsOwn` (what `decode` accepts is what `encode` would write, but for unused bits).

`url_decode`, the cutting of a path into components and the walk along them do go over a text
step by step. The library's induction theorems cannot be instantiated, but a set of numbers can:
a set that holds 0 and with each number the next one, up to n, holds n (`Count`; its proof takes the
least counterexample, from the well-foundedness of `<`). A definition `f[i] == ...` or a fold means
*some* function that satisfies its equation, so each proof first shows by counting that there is
one (`Fold`, `DecodedExists`, `JoinsExist`), and only then what it gives.

* `OwnNameDecides`: the components of the path that is opened end with the components of the
  target (`CutNames`, `NameOfPath`), and the text behind the last dot of the whole path is the text behind the
  last dot of that name, unless that name has none and the dot is further up, in which case what follows it
  holds a separator and is no extension (`PageByName`). This is for every type of the table.
* `NoWayOut`: what `path_cat` gives is the directory, one separator, and a target without two
  dots in a row (`PathShape`); so the walk comes to the directory, and no component behind it goes up
  (`PathBelow`, `OpenedGrows`, `WaysAgree`).
* `TokensArrive`: a token that a client puts into a URL is a sequence of chunks, a character or
  an escape each, of which `url_decode` makes one byte each (`ChunksDecoded`); and the first mark
  `?token=` in the target is the one the client wrote (`FirstMark`).

**HTTP** (`HttpSessionProofs`). The invariant `HttpInv` is that a session has one
operation, reads only into an empty request, and has answered all it has read;
together with what the responses so far are. Theorems: `HttpInvariance`,
`HttpTypeCorrect`, `OneOperation`, `AnsweredInOrder`, `QuietAfterClosing`, for any number of
connections and any set of requests. `ExchangeRefined` shows that every connection implements
`Exchange`. For that the invariant must also say that the request being
answered is the one read last, and one that has an answer (`Answerable`).

**Server** (`ServerProofs`). The invariant

    ServerInv == HttpInv /\ MainTypeOK /\ StopsOnlyOnSignal /\ ListenerOwns /\ Descriptors

adds `main` and the listener: it is an outstanding accept that keeps the backlog, and behind the exit
nothing is in use. Theorems: `ServerInvariance`, `ServerTypeCorrect`;
`LeavesOnSignal`, because the wait for a signal is work that lasts until
`ioc.stop()`; `SocketsCounted`, which needs that every handler takes at most one
descriptor and gives back its own. `NoEndWithoutCause` carries `Exchange` over to the server: until `main` is
left, a connection ends only for a reason that `Exchange` allows, or because it waits for a listener
that is gone (`EndsForCause`). The leaving of `main` is the one other way, and closes connections in
the middle of an answer.

**The whole program** (`ChatServerProofs`). The invariant is

    ChatInv == ServerInv /\ IInv /\ OnlyVerifiedJoin /\ SocketHandedOver /\ Traced

with the chat core's parts taken from `WebsocketSessionProofs` by `INSTANCE`. Every
step of the program is a step or a stutter of each half (`ServerRefined`, `CoreRefined`), and that needs
the invariant: a WebSocket's end is a step of `Server` only because the
socket is the session's (`SocketHandedOver`). `Traced` follows the tokens: what is offered and
known was issued, and what a client sends it knew or made up. Theorems:
`ChatInvariance`, `OneOwner`, `JoinedOnlyByToken`, `NothingLeftAtExit`.

What is proved of the parts then holds of the whole: the program implements `ChatRoom`
(`WholeIsRoom`) and keeps its promises (`RoomKeptInWhole`, `NoMessageLostInWhole`), those of the
chat core (`CoreSafeInWhole`, `OneWayInWhole`) and those of the HTTP side (`ServerSafeInWhole`,
`NoEndWithoutCauseInWhole`). `OnlyWithinLifetime` joins all of them with the tokens: whoever is in the chat
presented a token that the server had issued by the tick at which it was presented (`presented`), which is
within the lifetime of that token (`JoinedInLifetime`). For this a second
invariant, `Dated`, says when tokens were issued, and `TokenLifecycleProofs`, taken by
`INSTANCE` for the tokens of the whole program, what the date checks made of that. It assumes that the
dates stay below the clock's limit.

Only model-checked is liveness: `HangupReclaimed`, `ShutdownReclaims`, `EventuallyAnswered`,
`NobodyWaits`, `SignalEnds`. Fairness and `ENABLED` are outside of what TLAPS handles. Every other
property of a passing run is a theorem as well. The action properties `GoesOneWay`, `OnlyAppended` and `EndsForCause`
are proved and in no run.

## What is not modelled

* TLS: the context is set up and used by no stream.
* The rest of jwt-cpp, which the server does not call: the other algorithms, keys,
  JWK sets, and the checks on type, subject and id.
* Parsing and framing of HTTP and WebSocket, and JSON text: Beast's and
  Boost.JSON's. Their outcomes are inputs of the models. So are ping and close frames:
  the code sets no control callback, and a close ends in an error of the read.
* Header fields other than the type and the connection's fate, the texts of messages
  and of errors.
* The port argument, which is what `atoi` makes of it, cut to 16 bits
  (`main.cpp:20`).
* Bytes a client sends right behind an upgrade request. They stay in
  `http_session::buffer_` and are lost; the models have no byte stream.
* Memory: `queue_` has no bound in the code. Time: no stream has a timeout, so
  nothing is promised for a client that is silent. Neither is a fault the code handles.
* What verification does with dates that the clock cannot hold, beyond the year
  2262: signed overflow is undefined. `Wrap` says what a build with wrapping
  arithmetic computes, and the tokens of the runs stay below.
* `isxdigit` of a negative `char`, undefined as well; the model takes what the usual
  tables answer.
* The browser client.

## Status

`SharedState`, `WebsocketSession` and `ChatRoom` came first, as the heart of
the system; then tokens, base64url, HTTP, and the server around them; then files, the
abstract `Exchange`, the composition `ChatServer`, and the proofs about each. Every
function of the server's own sources is modelled, except for the parts listed above. What is left
is without a statement in the code to check it against (overflow of the clock,
`queue_` without a bound, the missing timeouts), or in a library (frames,
parsing), or pure configuration (TLS, the port). A change to the code that gives one of these a
promise, such as a timeout on a stream or a limit on `queue_`, belongs in
`WebsocketSession` and `HttpSession` next.
