---------------------------- MODULE LocalConnection ----------------------------
(***************************************************************************)
(* One request of the HTTP client over a Unix socket, through which the    *)
(* docker reader queries the daemon: http_async_connection of              *)
(* http/local_async_normal.hpp, with the resolver of asio/ and the         *)
(* delegate that owns the socket.  Its handlers run one at a time (all are *)
(* wrapped in request_strand_); between two of them the server may send,   *)
(* close or fail, and the timer may expire.                                *)
(*                                                                         *)
(* The response is a stream of bytes known by their position: four header  *)
(* sections of SectionLen bytes each, then the body.  The futures of the   *)
(* response object are promises that end up with a value, an exception, or *)
(* broken, when the connection object dies without having set them.        *)
(* Chunked encoding, redirects and HTTPS are left out.                     *)
(***************************************************************************)
EXTENDS Naturals, Sequences

CONSTANTS
  SectionLen,  \* bytes of the version, the status, the message, the headers
  BodyLen,     \* bytes of the body
  PartSize,    \* size of the buffer part (1024 in the code)
  MaxChunks    \* bound: chunks that a body generator may have to send

ASSUME LocalConnectionAssumption ==
  /\ SectionLen \in Nat \ {0}
  /\ BodyLen \in Nat
  /\ PartSize \in Nat \ {0}
  /\ MaxChunks \in Nat

\* enum state_t.  Its members also name the promises of the response, to which
\* source and destination are added.
version == 0
status == 1
status_message == 2
headers == 3
body == 4
source == 5
destination == 6
Promises == version..destination

HeaderLen == body * SectionLen
Total == HeaderLen + BodyLen

VARIABLES
  timeout,      \* timeout_ > 0
  callback,     \* a body callback was given
  get_body,     \* get_body
  malformed,    \* the section that does not parse, or body if all do
  chunks,       \* chunks the generator has yet to produce
  op,           \* the asynchronous operation whose handler is outstanding
  rstate,       \* the state captured by the read handler
  timer,        \* timer_ and its handler
  is_timedout,  \* is_timedout_
  server,       \* the other end of the socket
  sent,         \* bytes the server has sent
  taken,        \* bytes read from the socket
  content,      \* body bytes passed to the callback, or kept in partial_parsed
  finals,       \* error codes the callback was called with
  promises,     \* what the promises hold
  twice         \* ghost: a promise that was satisfied has been set again

config == <<timeout, callback, get_body, malformed>>
wire == <<server, sent>>
results == <<content, finals, promises, twice>>
vars == <<config, chunks, op, rstate, timer, is_timedout, wire, taken, results>>

LocalInit ==
  /\ timeout \in BOOLEAN
  /\ callback \in BOOLEAN
  /\ get_body \in BOOLEAN
  /\ malformed \in version..body
  /\ chunks \in 0..MaxChunks
  /\ op = "new"
  /\ rstate = version
  /\ timer = "off"
  /\ is_timedout = FALSE
  /\ server = "up"
  /\ sent = 0
  /\ taken = 0
  /\ content = <<>>
  /\ finals = <<>>
  /\ promises = [p \in Promises |-> "unset"]
  /\ twice = FALSE

--------------------------------------------------------------------------------
\* Promises and the timer.

\* set_value on the promises in V, set_exception on those in X.
Satisfy(V, X) ==
  /\ promises' = [p \in Promises |-> IF p \in V THEN "value"
                                     ELSE IF p \in X THEN "error"
                                     ELSE promises[p]]
  /\ twice' = (twice \/ \E p \in V \cup X : promises[p] # "unset")

\* A call of the callback that carries an error code.
CallbackEnds(code) == finals' = IF callback THEN Append(finals, code) ELSE finals

\* timer_.cancel(): a pending handler runs with operation_aborted.
CancelTimer == timer' = IF timer = "armed" THEN "cancelled" ELSE timer

set_errors ==
  /\ Satisfy({}, Promises)
  /\ CallbackEnds("error")
  /\ CancelTimer
  /\ op' = "none"
  /\ UNCHANGED content

\* A plausible bug: a timer that expires only disconnects.
handle_timeout_forgets ==
  /\ timer \in {"armed", "cancelled"}
  /\ timer' = "off"
  /\ UNCHANGED <<config, chunks, op, rstate, is_timedout, wire, taken, results>>

\* On expiry delegate_->disconnect() also makes the operation under way fail.
\* A cancelled timer sets is_timedout_ as well.
handle_timeout ==
  /\ timer \in {"armed", "cancelled"}
  /\ timer' = "off"
  /\ is_timedout' = TRUE
  /\ UNCHANGED <<config, chunks, op, rstate, wire, taken, results>>

--------------------------------------------------------------------------------
\* From start to the first read.

start ==
  /\ op = "new"
  /\ op' = "resolve"
  /\ timer' = IF timeout THEN "armed" ELSE "off"
  /\ UNCHANGED <<config, chunks, rstate, is_timedout, wire, taken, results>>

\* The resolver's thread looks at the path, and posts the result back.
resolve_op ==
  /\ op = "resolve"
  /\ op' \in {"resolved", "host_not_found"}
  /\ UNCHANGED <<config, chunks, rstate, timer, is_timedout, wire, taken, results>>

\* The path is a socket, the one endpoint there is.  The time-out is not looked
\* at here.
Resolved ==
  /\ op = "resolved"
  /\ op' = "connect"
  /\ UNCHANGED <<config, chunks, rstate, timer, is_timedout, wire, taken, results>>

\* stat failed, or the path is not a socket.
NotResolved ==
  /\ op = "host_not_found"
  /\ set_errors
  /\ UNCHANGED <<config, chunks, rstate, is_timedout, wire, taken>>

Connected ==
  /\ op = "connect" /\ ~is_timedout
  /\ op' = "write"
  /\ UNCHANGED <<config, chunks, rstate, timer, is_timedout, wire, taken, results>>

\* There is no second endpoint to try.  After a time-out the result of the
\* connect does not matter.
NotConnected ==
  /\ op = "connect"
  /\ set_errors
  /\ UNCHANGED <<config, chunks, rstate, is_timedout, wire, taken>>

\* The generator has another chunk: it is written before anything is read.
SentChunk ==
  /\ op = "write" /\ ~is_timedout
  /\ chunks > 0
  /\ chunks' = chunks - 1
  /\ UNCHANGED <<config, op, rstate, timer, is_timedout, wire, taken, results>>

SentRequest ==
  /\ op = "write" /\ ~is_timedout
  /\ chunks = 0
  /\ op' = "read"
  /\ UNCHANGED <<config, chunks, rstate, timer, is_timedout, wire, taken, results>>

NotSent ==
  /\ op = "write"
  /\ set_errors
  /\ UNCHANGED <<config, chunks, rstate, is_timedout, wire, taken>>

--------------------------------------------------------------------------------
\* handle_received_data for a read that returned n bytes.

\* The bytes in part after this read.
Part(n) == [i \in 1..n |-> taken + i]

\* Header sections that are complete once the stream has been read up to reach,
\* and whether the one that does not parse is among those entered.
Complete(reach) == IF reach < HeaderLen THEN reach \div SectionLen ELSE body
Malformed(reach) == malformed < body /\ malformed * SectionLen < reach

\* What remains in part behind the headers: part_begin has been moved behind
\* their last byte.
Remainder(n) == SubSeq(Part(n), HeaderLen - taken + 1, n)

Readable(n) ==
  /\ op = "read" /\ ~is_timedout
  /\ n \in 1..PartSize
  /\ taken + n <= sent
  /\ taken' = taken + n

\* A section is malformed: the promises before it get their values, it and the
\* later ones the parser's exception.  The callback is not told.
ReadMalformed(n) ==
  /\ Readable(n)
  /\ rstate < body
  /\ Malformed(taken + n)
  /\ Satisfy(rstate..(malformed - 1), malformed..destination)
  /\ op' = "none"
  /\ UNCHANGED <<config, chunks, rstate, timer, is_timedout, wire, content, finals>>

\* The switch falls through as many sections as are complete and reads on in
\* the first that is not.
ReadSections(n) ==
  /\ Readable(n)
  /\ rstate < body
  /\ ~Malformed(taken + n)
  /\ Complete(taken + n) < body
  /\ rstate' = Complete(taken + n)
  /\ Satisfy(rstate..(rstate' - 1), {})
  /\ UNCHANGED <<config, chunks, op, timer, is_timedout, wire, content, finals>>

\* The headers are complete and no body is wanted.
ReadHeadersOnly(n) ==
  /\ Readable(n)
  /\ rstate < body /\ ~get_body
  /\ ~Malformed(taken + n)
  /\ Complete(taken + n) = body
  /\ Satisfy(rstate..destination, {})
  /\ CallbackEnds("eof")
  /\ op' = "none"
  /\ UNCHANGED <<config, chunks, rstate, timer, is_timedout, wire, content>>

\* The headers are complete: with a callback the body promise is set at once,
\* and the remainder of the buffer opens the body.
ReadHeaders(n) ==
  /\ Readable(n)
  /\ rstate < body /\ get_body
  /\ ~Malformed(taken + n)
  /\ Complete(taken + n) = body
  /\ Satisfy(rstate..(IF callback THEN body ELSE headers), {})
  /\ content' = Remainder(n)
  /\ rstate' = body
  /\ UNCHANGED <<config, chunks, op, timer, is_timedout, wire, finals>>

ReadBody(n) ==
  /\ Readable(n)
  /\ rstate = body
  /\ content' = content \o Part(n)
  /\ UNCHANGED <<config, chunks, op, rstate, timer, is_timedout, wire, finals,
                 promises, twice>>

--------------------------------------------------------------------------------
\* handle_received_data for a read that returned an error code.

EndOfFile == /\ op = "read" /\ ~is_timedout
             /\ server = "closed" /\ taken = sent

\* if (ec == eof) return: the last reference to the connection is dropped.
EofInHeaders ==
  /\ EndOfFile
  /\ rstate \in {version, status, headers}
  /\ op' = "none"
  /\ UNCHANGED <<config, chunks, rstate, timer, is_timedout, wire, taken, results>>

\* The handler of a read in the status message ignores its error code: the end
\* of the file or a failure is zero more bytes, and the section is read on.
ErrorInStatusMessage ==
  /\ op = "read" /\ ~is_timedout
  /\ rstate = status_message
  /\ \/ server = "closed" /\ taken = sent
     \/ server = "reset"
  /\ UNCHANGED vars

\* A plausible bug: the end of the body goes without the last callback.
EofInBodySilent ==
  /\ EndOfFile
  /\ rstate = body
  /\ Satisfy(IF callback THEN {source, destination} ELSE body..destination, {})
  /\ CancelTimer
  /\ op' = "none"
  /\ UNCHANGED <<config, chunks, rstate, is_timedout, wire, taken, content, finals>>

\* The server closed the connection: the body is whole.
EofInBody ==
  /\ EndOfFile
  /\ rstate = body
  /\ Satisfy(IF callback THEN {source, destination} ELSE body..destination, {})
  /\ CallbackEnds("eof")
  /\ CancelTimer
  /\ op' = "none"
  /\ UNCHANGED <<config, chunks, rstate, is_timedout, wire, taken, content>>

\* A plausible bug: the body promise is set although a callback was given.
ReadFailsSetsBody ==
  /\ op = "read"
  /\ is_timedout \/ (server = "reset" /\ rstate # status_message)
  /\ Satisfy({}, rstate..destination)
  /\ CallbackEnds("error")
  /\ op' = "none"
  /\ UNCHANGED <<config, chunks, rstate, timer, is_timedout, wire, taken, content>>

\* A plausible bug: what was read before the failure is the body.
ReadFailsKeepsBody ==
  /\ op = "read"
  /\ is_timedout \/ (server = "reset" /\ rstate # status_message)
  /\ Satisfy(IF rstate = body THEN body..destination ELSE {},
             IF rstate = body THEN {} ELSE rstate..destination)
  /\ CallbackEnds("error")
  /\ op' = "none"
  /\ UNCHANGED <<config, chunks, rstate, timer, is_timedout, wire, taken, content>>

\* A plausible bug: the cases of the switch do not fall through.
ReadFailsBreaks ==
  /\ op = "read"
  /\ is_timedout \/ (server = "reset" /\ rstate # status_message)
  /\ Satisfy({}, {rstate, source, destination}
                 \ (IF callback THEN {body} ELSE {}))
  /\ CallbackEnds("error")
  /\ op' = "none"
  /\ UNCHANGED <<config, chunks, rstate, timer, is_timedout, wire, taken, content>>

\* The read fails, or returns after a time-out, in which case what it brought
\* is dropped: the promises from the current state on get the error, and the
\* callback takes it in place of the body promise.  The timer runs on.
ReadFails ==
  /\ op = "read"
  /\ is_timedout \/ (server = "reset" /\ rstate # status_message)
  /\ Satisfy({}, (rstate..headers) \cup {source, destination}
                 \cup (IF callback THEN {} ELSE {body}))
  /\ CallbackEnds("error")
  /\ op' = "none"
  /\ UNCHANGED <<config, chunks, rstate, timer, is_timedout, wire, taken, content>>

\* No handler refers to the connection any more: its promises die with it.
Destroyed ==
  /\ op = "none" /\ timer = "off"
  /\ op' = "destroyed"
  /\ promises' = [p \in Promises |-> IF promises[p] = "unset" THEN "broken"
                                     ELSE promises[p]]
  /\ UNCHANGED <<config, chunks, rstate, timer, is_timedout, wire, taken,
                 content, finals, twice>>

--------------------------------------------------------------------------------
\* The server, once it has the request: it sends, stops short or fails.

ServerSends ==
  /\ op = "read" /\ server = "up"
  /\ sent < Total
  /\ sent' = sent + 1
  /\ UNCHANGED <<config, chunks, op, rstate, timer, is_timedout, server, taken,
                 results>>

ServerEnds ==
  /\ op = "read" /\ server = "up"
  /\ server' \in {"closed", "reset"}
  /\ UNCHANGED <<config, chunks, op, rstate, timer, is_timedout, sent, taken,
                 results>>

handle_received_data ==
  \/ \E n \in 1..PartSize : \/ ReadMalformed(n) \/ ReadSections(n)
                            \/ ReadHeadersOnly(n) \/ ReadHeaders(n)
                            \/ ReadBody(n)
  \/ EofInHeaders \/ ErrorInStatusMessage \/ EofInBody \/ ReadFails

Handlers == \/ start \/ resolve_op \/ Resolved \/ NotResolved
            \/ Connected \/ NotConnected
            \/ SentChunk \/ SentRequest \/ NotSent \/ handle_received_data
            \/ Destroyed

LocalNext == Handlers \/ handle_timeout \/ ServerSends \/ ServerEnds

\* The thread of the client runs the handlers of completed operations, and an
\* operation on a local socket completes except a read the server keeps
\* waiting; an armed timer expires.  The server owes nothing.
LocalSpec == /\ LocalInit /\ [][LocalNext]_vars
             /\ WF_vars(Handlers) /\ WF_vars(handle_timeout)

--------------------------------------------------------------------------------
\* Bytes of the body that the server has sent.
BodySent == [i \in 1..(IF sent > HeaderLen THEN sent - HeaderLen ELSE 0)
               |-> HeaderLen + i]

\* No promise is set twice, which would throw out of the handler and end the
\* client's thread: whatever way the connection ends, the branch that ends it
\* leaves alone what the branches before it have set.
NoPromiseSetTwice == ~twice

\* A body promise with a value holds every byte that the server sent before it
\* closed the connection, in order, however the stream was cut into reads; a
\* failure or a time-out in the middle never passes for a short body.
BodyIsComplete ==
  promises[body] = "value" /\ get_body /\ ~callback
    => server = "closed" /\ content = BodySent

\* The callback gets the bytes in order and is told of the end once, and always
\* if the body was announced to it; the end is an end of file only if every byte
\* the server sent before it closed has been passed on.
StreamIsEnded ==
  /\ Len(finals) <= 1
  /\ content = SubSeq(BodySent, 1, Len(content))
  /\ callback /\ promises[body] = "value" /\ op = "destroyed" => finals # <<>>
  /\ finals = <<"eof">> /\ get_body => server = "closed" /\ content = BodySent

\* Whoever waits for a part of the response gets a value or an error.  Broken
\* promises, which the docker reader does not catch, are left by a server that
\* closes the connection within the headers, and by an error there to the body
\* promise of a request with a callback.
AnsweredUnlessCutShort ==
  \A p \in Promises :
    promises[p] = "broken" =>
      \/ server = "closed" /\ sent < HeaderLen
      \/ callback /\ p = body

\* The response ends within the status message, or may by a failure.
CutInStatusMessage ==
  /\ sent >= status_message * SectionLen
  /\ server = "closed" => sent < headers * SectionLen

\* A request ends once the server is gone or if it has a time-out, except that
\* without a time-out a response cut within the status message is read forever.
RequestEnds ==
  (timeout \/ (server # "up" /\ ~CutInStatusMessage)) ~> op = "destroyed"
================================================================================
