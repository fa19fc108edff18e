----------------------------- MODULE StreamProofs ------------------------------
(***************************************************************************)
(* The two readers of a byte stream.  One request over the local socket,   *)
(* for every length of the header sections, of the body, of the buffer     *)
(* part and of the request; and the JSON parser, for every text, every way *)
(* to cut it into chunks and every value its callback may throw on.        *)
(***************************************************************************)
EXTENDS LocalConnection, JsonParser, SequenceTheorems, TLAPS

--------------------------------------------------------------------------------
\* The local HTTP client.

\* The operations before the first read, the ones during which the connection
\* owes its caller the rest of the response, and the ones after.
Opening == {"new", "resolve", "resolved", "host_not_found", "connect", "write"}
Live == Opening \cup {"read"}
Ended == {"none", "destroyed"}

LocalTypeOK ==
  /\ timeout \in BOOLEAN /\ callback \in BOOLEAN /\ get_body \in BOOLEAN
  /\ malformed \in version..body
  /\ chunks \in 0..MaxChunks
  /\ op \in Live \cup Ended
  /\ rstate \in version..body
  /\ timer \in {"off", "armed", "cancelled"}
  /\ is_timedout \in BOOLEAN
  /\ server \in {"up", "closed", "reset"}
  /\ sent \in 0..Total
  /\ taken \in Nat
  /\ content \in Seq(Nat)
  /\ finals \in Seq({"error", "eof"})
  /\ promises \in [Promises -> {"unset", "value", "error", "broken"}]
  /\ twice \in BOOLEAN

\* The k bytes of the stream behind its first h, and the bytes of the body among
\* its first reach.
Run(h, k) == [i \in 1..k |-> h + i]
Bytes(reach) == Run(HeaderLen, reach - HeaderLen)

\* What has been read is what was sent, and the body gathered so far is what
\* was read behind the headers, in whatever pieces it came.
ContentInv ==
  /\ taken <= sent
  /\ rstate < body => content = <<>>
  /\ rstate = body => taken >= HeaderLen /\ content = Bytes(taken)

\* The state captured by the read handler is the first section that is not
\* complete, and no section that was entered is malformed.  The promises of the
\* sections before it have their values, and no other has been set, except the
\* body promise of a request with a callback, once the headers are complete.
LiveInv ==
  op \in Live =>
    /\ op \in Opening => rstate = version /\ taken = 0
    /\ rstate < body =>
         /\ rstate * SectionLen <= taken
         /\ taken < HeaderLen
         /\ ~Malformed(taken)
    /\ rstate = body => get_body
    /\ finals = <<>>
    /\ \A p \in Promises :
         promises[p] = IF \/ p < rstate
                          \/ p = body /\ rstate = body /\ callback
                       THEN "value" ELSE "unset"

\* A promise that dies unset has one of the two causes.
CutShort(p) == \/ server = "closed" /\ sent < HeaderLen
               \/ callback /\ p = body

\* Once the connection has ended, what it left unset has a cause, the body was
\* whole if it was promised, and the callback has been told of the end.
EndedInv ==
  op \in Ended =>
    /\ \A p \in Promises : promises[p] \in {"unset", "broken"} => CutShort(p)
    /\ Len(finals) <= 1
    /\ callback /\ promises[body] = "value" => finals # <<>>
    /\ finals = <<"eof">> /\ get_body => server = "closed" /\ content = BodySent
    /\ promises[body] = "value" /\ get_body /\ ~callback
         => server = "closed" /\ content = BodySent

LocalInv ==
  /\ LocalTypeOK
  /\ ContentInv
  /\ LiveInv
  /\ EndedInv
  /\ NoPromiseSetTwice

--------------------------------------------------------------------------------
\* Arithmetic of the sections and facts about the sequences of bytes.

\* Four header sections (enum state_t, local_async_normal.hpp:218) of some
\* bytes each come before the body.
LEMMA HeaderLenFacts ==
  /\ HeaderLen = 4 * SectionLen
  /\ HeaderLen \in Nat
  /\ 0 < HeaderLen
  /\ Total \in Nat
BY LocalConnectionAssumption DEF HeaderLen, Total, body

\* The switch of handle_received_data falls through to the section that the
\* bytes read so far end in.
LEMMA CompleteFacts ==
  ASSUME NEW reach \in Nat
  PROVE  /\ Complete(reach) \in version..body
         /\ Complete(reach) = body <=> HeaderLen <= reach
         /\ Complete(reach) < body => /\ Complete(reach) * SectionLen <= reach
                                     /\ reach < (Complete(reach) + 1) * SectionLen
<1>1. CASE reach < HeaderLen
  <2> DEFINE q == reach \div SectionLen
  <2>1. q \in 0..3 /\ q * SectionLen <= reach /\ reach < (q + 1) * SectionLen
    <3>1. q \in Nat /\ q * SectionLen <= reach /\ reach < (q + 1) * SectionLen
      BY LocalConnectionAssumption
    <3>2. reach < 4 * SectionLen
      BY <1>1, HeaderLenFacts
    <3>3. q < 4
      BY <3>2, LocalConnectionAssumption
    <3> QED
      BY <3>1, <3>3
  <2> QED
    BY <1>1, <2>1, HeaderLenFacts DEF Complete, version, body
<1>2. CASE ~(reach < HeaderLen)
  BY <1>2, HeaderLenFacts DEF Complete, version, body
<1> QED
  BY <1>1, <1>2

\* A section that is complete was entered, so that one which does not parse
\* would have been found.
LEMMA MalformedIsAhead ==
  ASSUME NEW reach \in Nat, NEW r \in version..body, malformed \in version..body,
         r * SectionLen <= reach, r < body, ~Malformed(reach)
  PROVE  r <= malformed
<1>1. CASE malformed = body
  BY <1>1 DEF version, body
<1>2. CASE malformed < body
  <2>1. r * SectionLen <= malformed * SectionLen
    <3>1. ~(malformed * SectionLen < reach)
      BY <1>2 DEF Malformed
    <3> QED
      BY <3>1, LocalConnectionAssumption DEF version, body
  <2> QED
    BY <2>1, LocalConnectionAssumption DEF version, body
<1> QED
  BY <1>1, <1>2 DEF version, body

\* A run of bytes is a sequence.
LEMMA RunIsSeq ==
  ASSUME NEW h \in Nat, NEW k \in Nat
  PROVE  Run(h, k) \in Seq(Nat) /\ Len(Run(h, k)) = k
BY DEF Run

\* A run continued by the run behind it is one run.
LEMMA RunConcat ==
  ASSUME NEW h \in Nat, NEW k \in Nat, NEW m \in Nat
  PROVE  Run(h, k) \o Run(h + k, m) = Run(h, k + m)
<1> DEFINE s == Run(h, k) \o Run(h + k, m)
<1>1. h + k \in Nat /\ k + m \in Nat
  OBVIOUS
<1>2. /\ Run(h, k) \in Seq(Nat) /\ Len(Run(h, k)) = k
      /\ Run(h + k, m) \in Seq(Nat) /\ Len(Run(h + k, m)) = m
      /\ Run(h, k + m) \in Seq(Nat) /\ Len(Run(h, k + m)) = k + m
  BY <1>1, RunIsSeq
<1>3. s \in Seq(Nat) /\ Len(s) = k + m
  BY <1>2, ConcatProperties
<1>4. ASSUME NEW i \in 1..(k + m) PROVE s[i] = Run(h, k + m)[i]
  BY <1>2 DEF Run
<1> QED
  BY <1>2, <1>3, <1>4, SeqEqual

\* A piece of a run is a run.
LEMMA RunSub ==
  ASSUME NEW h \in Nat, NEW k \in Nat, NEW a \in 1..(k + 1), NEW b \in 0..k,
         a <= b + 1
  PROVE  SubSeq(Run(h, k), a, b) = Run(h + a - 1, b + 1 - a)
<1> DEFINE s == SubSeq(Run(h, k), a, b)
           r == Run(h + a - 1, b + 1 - a)
<1>1. h + a - 1 \in Nat /\ b + 1 - a \in Nat
  OBVIOUS
<1>2. /\ Run(h, k) \in Seq(Nat) /\ Len(Run(h, k)) = k
      /\ r \in Seq(Nat) /\ Len(r) = b + 1 - a
  BY <1>1, RunIsSeq
<1>3. /\ s \in Seq(Nat)
      /\ Len(s) = b + 1 - a
      /\ \A i \in 1..(b + 1 - a) : s[i] = Run(h, k)[a + i - 1]
  <2>1. \A i \in a..b : Run(h, k)[i] \in Nat
    <3>1. \A i \in a..b : i \in 1..k
      OBVIOUS
    <3> QED BY <1>2, <3>1, ElementOfSeq
  <2> QED
    BY <2>1, SubSeqProperties
<1>4. ASSUME NEW i \in 1..(b + 1 - a) PROVE s[i] = r[i]
  <2>1. s[i] = Run(h, k)[a + i - 1]
    BY <1>3
  <2>2. a + i - 1 \in 1..k
    OBVIOUS
  <2> QED
    BY <2>1, <2>2 DEF Run
<1> QED
  BY <1>2, <1>3, <1>4, SeqEqual

\* The bytes sent of the body are the bytes behind the headers of the stream.
LEMMA BodySentIsBytes ==
  ASSUME sent \in Nat, sent >= HeaderLen
  PROVE  BodySent = Bytes(sent)
<1>1. (IF sent > HeaderLen THEN sent - HeaderLen ELSE 0) = sent - HeaderLen
  BY HeaderLenFacts
<1> QED
  BY <1>1 DEF BodySent, Bytes, Run

\* The bytes gathered are the first of the bytes sent.
LEMMA BytesIsPrefix ==
  ASSUME NEW reach \in Nat, sent \in Nat, HeaderLen <= reach, reach <= sent
  PROVE  Bytes(reach) = SubSeq(BodySent, 1, Len(Bytes(reach)))
<1> DEFINE k == sent - HeaderLen
           b == reach - HeaderLen
<1>1. BodySent = Run(HeaderLen, k)
  BY BodySentIsBytes, HeaderLenFacts DEF Bytes
<1>2. /\ k \in Nat /\ b \in 0..k /\ b \in Nat /\ 1 \in 1..(k + 1)
      /\ 1 <= b + 1
  BY HeaderLenFacts
<1>3. Len(Bytes(reach)) = b
  BY <1>2, HeaderLenFacts, RunIsSeq DEF Bytes
<1> HIDE DEF k, b
<1>4. SubSeq(Run(HeaderLen, k), 1, b) = Run(HeaderLen + 1 - 1, b + 1 - 1)
  <2>1. HeaderLen \in Nat
    BY HeaderLenFacts
  <2> QED BY <1>2, <2>1, RunSub
<1>5. HeaderLen + 1 - 1 = HeaderLen /\ b + 1 - 1 = b
  BY <1>2, HeaderLenFacts
<1> QED
  BY <1>1, <1>3, <1>4, <1>5 DEF Bytes, b

\* Appending the part of a read to the body gathered so far continues it.
LEMMA BytesContinued ==
  ASSUME taken \in Nat, NEW n \in Nat, HeaderLen <= taken
  PROVE  Bytes(taken) \o Part(n) = Bytes(taken + n)
<1> DEFINE k == taken - HeaderLen
<1>1. k \in Nat /\ HeaderLen \in Nat
  BY HeaderLenFacts
<1>2. HeaderLen + k = taken /\ k + n = taken + n - HeaderLen
  BY HeaderLenFacts
<1>3. Part(n) = Run(HeaderLen + k, n)
  BY <1>2 DEF Part, Run
<1>4. Bytes(taken) = Run(HeaderLen, k)
  BY DEF Bytes
<1> HIDE DEF k
<1>5. Bytes(taken + n) = Run(HeaderLen, k + n)
  BY <1>1, <1>2 DEF Bytes, Run
<1>6. Run(HeaderLen, k) \o Run(HeaderLen + k, n) = Run(HeaderLen, k + n)
  BY <1>1, RunConcat, Zenon
<1> QED
  BY <1>3, <1>4, <1>5, <1>6

\* What part_begin points at behind the headers opens the body.
LEMMA RemainderOpensBody ==
  ASSUME taken \in Nat, NEW n \in Nat, taken < HeaderLen, HeaderLen <= taken + n
  PROVE  Remainder(n) = Bytes(taken + n)
<1> DEFINE a == HeaderLen - taken + 1
<1>1. /\ a \in 1..(n + 1) /\ n \in 0..n /\ a <= n + 1
      /\ taken + a - 1 = HeaderLen /\ n + 1 - a = taken + n - HeaderLen
  BY HeaderLenFacts
<1>2. Remainder(n) = SubSeq(Run(taken, n), a, n)
  BY DEF Remainder, Part, Run
<1> HIDE DEF a
<1>3. SubSeq(Run(taken, n), a, n) = Run(taken + a - 1, n + 1 - a)
  BY <1>1, RunSub
<1> QED
  BY <1>1, <1>2, <1>3 DEF Bytes

--------------------------------------------------------------------------------
\* Pieces that several handlers share.

\* The constants that name the promises and the sections.
LEMMA PromiseFacts ==
  /\ version = 0 /\ status = 1 /\ status_message = 2 /\ headers = 3 /\ body = 4
  /\ source = 5 /\ destination = 6
  /\ Promises = 0..6
BY DEF version, status, status_message, headers, body, source, destination,
       Promises

\* Setting promises that are unset, with values and exceptions, throws nothing.
LEMMA SatisfyUnset ==
  ASSUME NoPromiseSetTwice, NEW V \in SUBSET Promises, NEW X \in SUBSET Promises,
         \A p \in V \cup X : promises[p] = "unset",
         Satisfy(V, X)
  PROVE  /\ NoPromiseSetTwice'
         /\ twice' \in BOOLEAN
         /\ promises' \in [Promises -> {"value", "error"}
                                         \cup {promises[p] : p \in Promises}]
         /\ \A p \in Promises :
              promises'[p] = IF p \in V THEN "value"
                             ELSE IF p \in X THEN "error" ELSE promises[p]
BY DEF NoPromiseSetTwice, Satisfy

\* The callback (if there is one) is told of an end: it was not told before.
LEMMA CallbackTold ==
  ASSUME NEW code \in {"error", "eof"}, callback \in BOOLEAN,
         finals = <<>>, CallbackEnds(code)
  PROVE  /\ finals' \in Seq({"error", "eof"})
         /\ Len(finals') <= 1
         /\ callback => finals' # <<>>
         /\ finals' = <<"eof">> => code = "eof"
<1>1. CASE callback
  <2>1. finals' = <<code>>
    BY <1>1 DEF CallbackEnds
  <2>2. <<code>> # <<>> /\ (<<code>> = <<"eof">> => code = "eof")
    OBVIOUS
  <2> QED
    BY <2>1, <2>2
<1>2. CASE ~callback
  BY <1>2 DEF CallbackEnds
<1> QED
  BY <1>1, <1>2

\* A step that reads nothing and sets nothing: from start to the first read,
\* and the timer's handler (local_async_normal.hpp:99-259).
LEMMA QuietStep ==
  ASSUME LocalInv, UNCHANGED <<config, rstate, wire, taken, results>>,
         chunks' \in 0..MaxChunks,
         timer' \in {"off", "armed", "cancelled"},
         is_timedout' \in BOOLEAN,
         op' = op \/ (op \in Opening /\ op' \in Live)
  PROVE  LocalInv'
<1> USE DEF LocalInv, config, wire, results
<1>1. LocalTypeOK'
  BY DEF LocalTypeOK
<1>2. ContentInv'
  BY DEF ContentInv, Bytes
<1>3. LiveInv'
  BY DEF LiveInv, Live, Opening, Malformed
<1>4. EndedInv'
  BY DEF EndedInv, Ended, Live, Opening, CutShort, BodySent
<1>5. NoPromiseSetTwice'
  BY DEF NoPromiseSetTwice
<1> QED
  BY <1>1, <1>2, <1>3, <1>4, <1>5

\* set_errors (local_async_normal.hpp:139) comes before the first read: no
\* promise has been set, and the callback has not been called.
LEMMA SetErrorsStep ==
  ASSUME LocalInv, op \in Opening, set_errors,
         UNCHANGED <<config, chunks, rstate, is_timedout, wire, taken>>
  PROVE  LocalInv'
<1> USE DEF LocalInv, config, wire
<1>1. rstate = version /\ finals = <<>> /\ \A p \in Promises : promises[p] = "unset"
  BY PromiseFacts DEF LiveInv, Live
<1>2. /\ NoPromiseSetTwice' /\ twice' \in BOOLEAN
      /\ promises' = [p \in Promises |-> "error"]
  BY <1>1, PromiseFacts DEF set_errors, Satisfy, NoPromiseSetTwice
<1>3. /\ finals' \in Seq({"error", "eof"}) /\ Len(finals') <= 1
      /\ finals' # <<"eof">>
  BY <1>1, CallbackTold DEF LocalTypeOK, set_errors
<1>4. LocalTypeOK'
  BY <1>2, <1>3 DEF LocalTypeOK, set_errors, CancelTimer, Ended
<1>5. ContentInv'
  BY DEF ContentInv, set_errors, Bytes
<1>6. LiveInv'
  BY DEF LiveInv, Live, Opening, set_errors
<1>7. EndedInv'
  BY <1>2, <1>3, PromiseFacts DEF EndedInv, CutShort
<1> QED
  BY <1>2, <1>4, <1>5, <1>6, <1>7

--------------------------------------------------------------------------------
\* handle_received_data (local_async_normal.hpp:261) with bytes.

\* A read returns some of the bytes sent; what it is read for is still unset.
LEMMA ReadableFacts ==
  ASSUME LocalInv, NEW n, Readable(n)
  PROVE  /\ n \in Nat /\ taken \in Nat /\ sent \in Nat /\ taken + n \in Nat
         /\ taken' = taken + n /\ taken' \in Nat /\ taken' <= sent
         /\ op = "read" /\ op \in Live
         /\ finals = <<>>
<1>1. n \in Nat /\ taken \in Nat /\ sent \in Nat
  BY LocalConnectionAssumption, HeaderLenFacts DEF Readable, LocalInv, LocalTypeOK
<1>2. op = "read" /\ op \in Live
  BY DEF Readable, Live
<1>3. finals = <<>>
  BY <1>2 DEF LocalInv, LiveInv
<1> QED
  BY <1>1, <1>2, <1>3 DEF Readable

\* Within the headers, the promises before the current section have values and
\* the others are unset.
LEMMA HeaderPromises ==
  ASSUME LocalInv, op = "read", rstate < body
  PROVE  /\ rstate \in 0..3
         /\ rstate * SectionLen <= taken /\ taken < HeaderLen /\ ~Malformed(taken)
         /\ content = <<>>
         /\ \A p \in Promises : p < rstate => promises[p] = "value"
         /\ \A p \in Promises : p >= rstate => promises[p] = "unset"
<1>1. op \in Live
  BY DEF Live
<1>2. rstate \in 0..3
  BY PromiseFacts DEF LocalInv, LocalTypeOK
<1>3. \A p \in Promises : promises[p] = IF p < rstate THEN "value" ELSE "unset"
  BY <1>1, <1>2, PromiseFacts DEF LocalInv, LiveInv
<1>4. \A p \in Promises : p >= rstate => ~(p < rstate)
  BY <1>2, PromiseFacts
<1> QED
  BY <1>1, <1>2, <1>3, <1>4 DEF LocalInv, LiveInv, ContentInv

\* A malformed section: it is not behind the current one, so the promises that
\* get the exception are unset.
LEMMA ReadMalformedStep ==
  ASSUME LocalInv, NEW n, ReadMalformed(n)
  PROVE  LocalInv'
<1> USE DEF LocalInv, config, wire
<1>1. /\ n \in Nat /\ taken \in Nat /\ sent \in Nat /\ taken + n \in Nat
      /\ taken' = taken + n /\ taken' \in Nat /\ taken' <= sent
      /\ op = "read" /\ finals = <<>>
  BY ReadableFacts DEF ReadMalformed
<1>2. /\ rstate \in 0..3 /\ rstate * SectionLen <= taken /\ ~Malformed(taken)
      /\ content = <<>>
      /\ \A p \in Promises : p < rstate => promises[p] = "value"
      /\ \A p \in Promises : p >= rstate => promises[p] = "unset"
  BY <1>1, HeaderPromises DEF ReadMalformed
<1>3. malformed \in 0..3 /\ rstate <= malformed
  <2>1. malformed \in version..body /\ malformed < body
    BY DEF LocalTypeOK, ReadMalformed, Malformed
  <2>2. rstate \in version..body /\ rstate < body
    BY <1>2, PromiseFacts
  <2> QED
    BY <1>1, <1>2, <2>1, <2>2, MalformedIsAhead, PromiseFacts
<1> DEFINE V == rstate..(malformed - 1)
           X == malformed..destination
<1>4. V \in SUBSET Promises /\ X \in SUBSET Promises
  BY <1>2, <1>3, PromiseFacts
<1>5. \A p \in V \cup X : promises[p] = "unset"
  <2>1. \A p \in V \cup X : p \in Promises /\ p >= rstate
    BY <1>2, <1>3, PromiseFacts
  <2> QED
    BY <1>2, <2>1
<1>6. Satisfy(V, X)
  BY DEF ReadMalformed
<1> HIDE DEF V, X
<1>7. /\ NoPromiseSetTwice' /\ twice' \in BOOLEAN
      /\ \A p \in Promises :
           promises'[p] = IF p \in V THEN "value"
                          ELSE IF p \in X THEN "error" ELSE promises[p]
  BY <1>4, <1>5, <1>6, SatisfyUnset
<1>8. promises' \in [Promises -> {"unset", "value", "error", "broken"}]
  BY <1>6 DEF Satisfy, LocalTypeOK
<1>9. ASSUME NEW p \in Promises
      PROVE  promises'[p] \in {"value", "error"} /\ promises'[body] = "error"
  <2>1. p < rstate \/ p \in V \/ p \in X
    BY <1>2, <1>3, PromiseFacts DEF V, X
  <2>2. body \in Promises /\ body \notin V /\ body \in X
    BY <1>2, <1>3, PromiseFacts DEF V, X
  <2> QED
    BY <1>2, <1>7, <2>1, <2>2
<1>10. LocalTypeOK'
  BY <1>1, <1>7, <1>8 DEF LocalTypeOK, ReadMalformed, Ended
<1>11. ContentInv'
  BY <1>1, <1>2, PromiseFacts DEF ContentInv, ReadMalformed
<1>12. LiveInv'
  BY DEF LiveInv, Live, Opening, ReadMalformed
<1>13. EndedInv'
  <2>1. promises'[body] = "error" /\ \A p \in Promises : promises'[p] \in {"value", "error"}
    BY <1>9, PromiseFacts
  <2>2. finals' = <<>>
    BY <1>1 DEF ReadMalformed
  <2> QED
    BY <2>1, <2>2 DEF EndedInv
<1> QED
  BY <1>7, <1>10, <1>11, <1>12, <1>13

\* The promises of the sections from one to before another.
LEMMA SectionPromises ==
  ASSUME NEW a \in 0..3, NEW b \in 0..3
  PROVE  /\ a..(b - 1) \in SUBSET Promises
         /\ \A p \in Promises : p \in a..(b - 1) <=> p >= a /\ p < b
BY PromiseFacts

\* Reading on never leads back to an earlier section.
LEMMA SectionsAdvance ==
  ASSUME NEW a \in 0..3, NEW b \in 0..3, NEW from \in Nat, NEW to \in Nat,
         a * SectionLen <= from, from <= to, to < (b + 1) * SectionLen
  PROVE  a <= b
<1>1. a * SectionLen < (b + 1) * SectionLen
  BY LocalConnectionAssumption
<1> QED
  BY <1>1, LocalConnectionAssumption

\* Some sections are complete: their promises get their values, and the handler
\* of the next read captures the first that is not.
LEMMA ReadSectionsStep ==
  ASSUME LocalInv, NEW n, ReadSections(n)
  PROVE  LocalInv'
<1> USE DEF LocalInv, config, wire
<1>1. /\ n \in Nat /\ taken \in Nat /\ sent \in Nat /\ taken + n \in Nat
      /\ taken' = taken + n /\ taken' \in Nat /\ taken' <= sent
      /\ op = "read" /\ finals = <<>>
  BY ReadableFacts DEF ReadSections
<1>2. /\ rstate \in 0..3 /\ content = <<>>
      /\ \A p \in Promises : p < rstate => promises[p] = "value"
      /\ \A p \in Promises : p >= rstate => promises[p] = "unset"
  BY <1>1, HeaderPromises DEF ReadSections
<1>3. /\ rstate' * SectionLen <= taken'
      /\ taken' < (rstate' + 1) * SectionLen
      /\ ~(HeaderLen <= taken')
  BY <1>1, CompleteFacts, PromiseFacts DEF ReadSections
<1>4. rstate \in 0..3 /\ rstate' \in 0..3
  BY <1>1, <1>2, CompleteFacts, PromiseFacts DEF ReadSections
<1> DEFINE V == rstate..(rstate' - 1)
<1>5. V \in SUBSET Promises /\ \A p \in Promises : p \in V <=> p >= rstate /\ p < rstate'
  BY <1>4, SectionPromises, Zenon
<1>6. \A p \in V \cup {} : promises[p] = "unset"
  <2>1. \A p \in V : p \in Promises /\ p >= rstate
    BY <1>5
  <2> QED
    BY <1>2, <2>1
<1>7. Satisfy(V, {})
  BY DEF ReadSections
<1> HIDE DEF V
<1>8. /\ NoPromiseSetTwice' /\ twice' \in BOOLEAN
      /\ \A p \in Promises :
           promises'[p] = IF p \in V THEN "value"
                          ELSE IF p \in {} THEN "error" ELSE promises[p]
  BY <1>5, <1>6, <1>7, SatisfyUnset
<1>9. promises' \in [Promises -> {"unset", "value", "error", "broken"}]
  BY <1>7 DEF Satisfy, LocalTypeOK
<1>10. LocalTypeOK'
  BY <1>1, <1>4, <1>8, <1>9, PromiseFacts DEF LocalTypeOK, ReadSections
<1>11. ContentInv'
  BY <1>1, <1>2, <1>4, PromiseFacts DEF ContentInv, ReadSections
<1>12. LiveInv'
  <2>1. rstate' # body /\ op' = "read" /\ op' \notin Opening /\ finals' = <<>>
    BY <1>1, <1>4, PromiseFacts DEF ReadSections, Opening
  <2>2. taken' < HeaderLen
    BY <1>1, <1>3, HeaderLenFacts
  <2>3. ~Malformed(taken)'
    BY <1>1 DEF ReadSections, Malformed
  <2>4. ASSUME NEW p \in Promises
        PROVE  promises'[p] = IF p < rstate' THEN "value" ELSE "unset"
    <3>1. rstate <= rstate'
      <4>1. rstate * SectionLen <= taken
        BY <1>1, HeaderPromises DEF ReadSections
      <4>2. taken <= taken'
        BY <1>1
      <4> QED
        BY <1>1, <1>3, <1>4, <4>1, <4>2, SectionsAdvance, Zenon
    <3>2. p \in V <=> (p >= rstate /\ p < rstate')
      BY <1>5
    <3>3. CASE p < rstate
      <4>1. p < rstate'
        BY <1>4, <3>1, <3>3, PromiseFacts
      <4> QED
        BY <1>2, <1>8, <3>3, <4>1
    <3>4. CASE p \in V
      BY <1>8, <3>2, <3>4
    <3>5. CASE ~(p < rstate) /\ p \notin V
      <4>1. p >= rstate /\ ~(p < rstate')
        BY <1>4, <3>2, <3>5, PromiseFacts
      <4> QED
        BY <1>2, <1>8, <3>5, <4>1
    <3> QED
      BY <3>3, <3>4, <3>5
  <2> QED
    BY <1>3, <2>1, <2>2, <2>3, <2>4 DEF LiveInv
<1>13. EndedInv'
  BY <1>1 DEF EndedInv, Ended, ReadSections
<1> QED
  BY <1>8, <1>10, <1>11, <1>12, <1>13

\* The headers are complete and no body is wanted: every promise is set.
LEMMA ReadHeadersOnlyStep ==
  ASSUME LocalInv, NEW n, ReadHeadersOnly(n)
  PROVE  LocalInv'
<1> USE DEF LocalInv, config, wire
<1>1. /\ n \in Nat /\ taken \in Nat /\ sent \in Nat /\ taken + n \in Nat
      /\ taken' = taken + n /\ taken' \in Nat /\ taken' <= sent
      /\ op = "read" /\ finals = <<>>
  BY ReadableFacts DEF ReadHeadersOnly
<1>2. /\ rstate \in 0..3 /\ content = <<>>
      /\ \A p \in Promises : p < rstate => promises[p] = "value"
      /\ \A p \in Promises : p >= rstate => promises[p] = "unset"
  BY <1>1, HeaderPromises DEF ReadHeadersOnly
<1> DEFINE V == rstate..destination
<1>3. V \in SUBSET Promises /\ \A p \in Promises : p \in V <=> p >= rstate
  BY <1>2, PromiseFacts
<1>4. Satisfy(V, {})
  BY DEF ReadHeadersOnly
<1> HIDE DEF V
<1>5. \A p \in V \cup {} : promises[p] = "unset"
  BY <1>2, <1>3
<1>6. /\ NoPromiseSetTwice' /\ twice' \in BOOLEAN
      /\ \A p \in Promises :
           promises'[p] = IF p \in V THEN "value"
                          ELSE IF p \in {} THEN "error" ELSE promises[p]
  BY <1>3, <1>4, <1>5, SatisfyUnset
<1>7. \A p \in Promises : promises'[p] = "value"
  <2>1. \A p \in Promises : p < rstate \/ p \in V
    BY <1>2, <1>3, PromiseFacts
  <2> QED
    BY <1>2, <1>6, <2>1
<1>8. /\ finals' \in Seq({"error", "eof"}) /\ Len(finals') <= 1
      /\ callback => finals' # <<>>
  BY <1>1, CallbackTold DEF ReadHeadersOnly, LocalTypeOK
<1>9. promises' \in [Promises -> {"unset", "value", "error", "broken"}]
  BY <1>4 DEF Satisfy, LocalTypeOK
<1>10. LocalTypeOK'
  BY <1>1, <1>6, <1>8, <1>9 DEF LocalTypeOK, ReadHeadersOnly, Ended
<1>11. ContentInv'
  BY <1>1, <1>2, PromiseFacts DEF ContentInv, ReadHeadersOnly
<1>12. LiveInv'
  BY DEF LiveInv, Live, Opening, ReadHeadersOnly
<1>13. EndedInv'
  BY <1>7, <1>8 DEF EndedInv, ReadHeadersOnly
<1> QED
  BY <1>6, <1>10, <1>11, <1>12, <1>13

\* The headers are complete: their promises get their values, with a callback
\* the body's too, and the rest of the buffer opens the body.
LEMMA ReadHeadersStep ==
  ASSUME LocalInv, NEW n, ReadHeaders(n)
  PROVE  LocalInv'
<1> USE DEF LocalInv, config, wire
<1>1. /\ n \in Nat /\ taken \in Nat /\ sent \in Nat /\ taken + n \in Nat
      /\ taken' = taken + n /\ taken' \in Nat /\ taken' <= sent
      /\ op = "read" /\ finals = <<>>
  BY ReadableFacts DEF ReadHeaders
<1>2. /\ rstate \in 0..3 /\ taken < HeaderLen
      /\ \A p \in Promises : p < rstate => promises[p] = "value"
      /\ \A p \in Promises : p >= rstate => promises[p] = "unset"
  BY <1>1, HeaderPromises DEF ReadHeaders
<1> DEFINE last == IF callback THEN body ELSE headers
           V == rstate..last
<1>3. /\ V \in SUBSET Promises
      /\ \A p \in Promises : p \in V <=> p >= rstate /\ (p < body \/ (p = body /\ callback))
  <2>1. CASE callback
    BY <1>2, <2>1, PromiseFacts
  <2>2. CASE ~callback
    BY <1>2, <2>2, PromiseFacts
  <2> QED
    BY <2>1, <2>2
<1>4. Satisfy(V, {})
  BY DEF ReadHeaders
<1> HIDE DEF V, last
<1>5. \A p \in V \cup {} : promises[p] = "unset"
  BY <1>2, <1>3
<1>6. /\ NoPromiseSetTwice' /\ twice' \in BOOLEAN
      /\ \A p \in Promises :
           promises'[p] = IF p \in V THEN "value"
                          ELSE IF p \in {} THEN "error" ELSE promises[p]
  BY <1>3, <1>4, <1>5, SatisfyUnset
<1>7. promises' \in [Promises -> {"unset", "value", "error", "broken"}]
  BY <1>4 DEF Satisfy, LocalTypeOK
<1>8. HeaderLen <= taken'
  BY <1>1, CompleteFacts DEF ReadHeaders
<1>9. content' = Bytes(taken')
  BY <1>1, <1>2, <1>8, RemainderOpensBody DEF ReadHeaders
<1>10. content' \in Seq(Nat)
  <2>1. taken' - HeaderLen \in Nat /\ HeaderLen \in Nat
    BY <1>1, <1>8, HeaderLenFacts
  <2> QED
    BY <1>9, <2>1, RunIsSeq DEF Bytes
<1>11. LocalTypeOK'
  BY <1>1, <1>6, <1>7, <1>10, PromiseFacts DEF LocalTypeOK, ReadHeaders
<1>12. ContentInv'
  <2>1. rstate' = body /\ ~(rstate' < body)
    BY PromiseFacts DEF ReadHeaders
  <2>2. Bytes(taken)' = Bytes(taken')
    BY DEF Bytes
  <2>3. taken' <= sent' /\ taken' >= HeaderLen
    BY <1>1, <1>8, HeaderLenFacts DEF ReadHeaders
  <2> QED
    BY <1>9, <2>1, <2>2, <2>3 DEF ContentInv
<1>13. LiveInv'
  <2>1. rstate' = body /\ ~(rstate' < body) /\ get_body' /\ op' \notin Opening
        /\ finals' = <<>> /\ callback' = callback
    BY <1>1, PromiseFacts DEF ReadHeaders, Opening
  <2>2. ASSUME NEW p \in Promises
        PROVE  promises'[p] = IF p < body \/ (p = body /\ callback)
                              THEN "value" ELSE "unset"
    <3>1. CASE p < rstate
      <4>1. p < body /\ p \notin V
        BY <1>2, <1>3, <3>1, PromiseFacts
      <4> QED
        BY <1>2, <1>6, <3>1, <4>1
    <3>2. CASE p >= rstate
      BY <1>2, <1>3, <1>6, <3>2
    <3> QED
      BY <1>2, <3>1, <3>2, PromiseFacts
  <2> QED
    BY <2>1, <2>2 DEF LiveInv
<1>14. EndedInv'
  BY <1>1 DEF EndedInv, Ended, ReadHeaders
<1> QED
  BY <1>6, <1>11, <1>12, <1>13, <1>14

\* Body bytes are appended to those gathered so far.
LEMMA ReadBodyStep ==
  ASSUME LocalInv, NEW n, ReadBody(n)
  PROVE  LocalInv'
<1> USE DEF LocalInv, config, wire
<1>1. /\ n \in Nat /\ taken \in Nat /\ sent \in Nat /\ taken + n \in Nat
      /\ taken' = taken + n /\ taken' \in Nat /\ taken' <= sent
      /\ op = "read" /\ op \in Live /\ finals = <<>>
  BY ReadableFacts DEF ReadBody
<1>2. HeaderLen <= taken /\ content = Bytes(taken)
  BY <1>1, HeaderLenFacts DEF ContentInv, ReadBody
<1>3. content' = Bytes(taken')
  BY <1>1, <1>2, BytesContinued DEF ReadBody
<1>4. taken' >= HeaderLen /\ taken' - HeaderLen \in Nat /\ HeaderLen \in Nat
  BY <1>1, <1>2, HeaderLenFacts
<1>5. content' \in Seq(Nat)
  BY <1>3, <1>4, RunIsSeq DEF Bytes
<1>6. LocalTypeOK'
  BY <1>1, <1>5 DEF LocalTypeOK, ReadBody
<1>7. ContentInv'
  <2>1. rstate' = body /\ ~(rstate' < body)
    BY PromiseFacts DEF ReadBody
  <2>2. Bytes(taken)' = Bytes(taken')
    BY DEF Bytes
  <2> QED
    BY <1>1, <1>3, <1>4, <2>1, <2>2 DEF ContentInv, ReadBody
<1>8. LiveInv'
  <2>1. rstate' = body /\ ~(rstate' < body) /\ op' \notin Opening
    BY <1>1, PromiseFacts DEF ReadBody, Opening
  <2> QED
    BY <1>1, <2>1 DEF LiveInv, ReadBody
<1>9. EndedInv'
  BY <1>1 DEF EndedInv, Ended, ReadBody
<1>10. NoPromiseSetTwice'
  BY DEF NoPromiseSetTwice, ReadBody
<1> QED
  BY <1>6, <1>7, <1>8, <1>9, <1>10

--------------------------------------------------------------------------------
\* handle_received_data with an error code, and the end of the connection.

\* The server closed the connection within the headers, all of which has been
\* read: what dies unset dies for that reason.
LEMMA EofInHeadersStep ==
  ASSUME LocalInv, EofInHeaders
  PROVE  LocalInv'
<1> USE DEF LocalInv, config, wire, results, EofInHeaders, EndOfFile
<1>1. op = "read" /\ rstate < body
  BY PromiseFacts
<1>2. /\ taken < HeaderLen
      /\ rstate \in 0..3
      /\ \A p \in Promises : p >= rstate => promises[p] = "unset"
  BY <1>1, HeaderPromises
<1>3. server = "closed" /\ sent < HeaderLen /\ promises[body] = "unset"
  BY <1>2, PromiseFacts
<1>4. finals = <<>>
  BY <1>1 DEF LiveInv, Live
<1>5. LocalTypeOK'
  BY DEF LocalTypeOK, Ended
<1>6. ContentInv'
  BY DEF ContentInv, Bytes
<1>7. LiveInv'
  BY DEF LiveInv, Live, Opening
<1>8. EndedInv'
  BY <1>3, <1>4 DEF EndedInv, CutShort
<1>9. NoPromiseSetTwice'
  BY DEF NoPromiseSetTwice
<1> QED
  BY <1>5, <1>6, <1>7, <1>8, <1>9

\* In the body, every promise before it has its value, it has one with a
\* callback, and the rest are unset.
LEMMA BodyPromises ==
  ASSUME LocalInv, op = "read", rstate = body
  PROVE  /\ get_body /\ finals = <<>>
         /\ \A p \in Promises : p < body => promises[p] = "value"
         /\ promises[body] = IF callback THEN "value" ELSE "unset"
         /\ promises[source] = "unset" /\ promises[destination] = "unset"
<1>1. op \in Live
  BY DEF Live
<1>2. get_body /\ finals = <<>>
  BY <1>1 DEF LocalInv, LiveInv
<1>3. \A p \in Promises :
        promises[p] = IF p < body \/ (p = body /\ callback) THEN "value" ELSE "unset"
  BY <1>1 DEF LocalInv, LiveInv
<1>4. /\ body \in Promises /\ source \in Promises /\ destination \in Promises
      /\ ~(body < body)
      /\ ~(source < body) /\ source # body
      /\ ~(destination < body) /\ destination # body
  BY PromiseFacts
<1> QED
  BY <1>2, <1>3, <1>4

\* The server closed the connection within the body: every byte sent has been
\* gathered, and the promises still unset get their values.
LEMMA EofInBodyStep ==
  ASSUME LocalInv, EofInBody
  PROVE  LocalInv'
<1> USE DEF LocalInv, config, wire
<1>1. op = "read" /\ rstate = body /\ server = "closed" /\ taken = sent
  BY DEF EofInBody, EndOfFile
<1>2. /\ get_body /\ finals = <<>>
      /\ \A p \in Promises : p < body => promises[p] = "value"
      /\ promises[body] = IF callback THEN "value" ELSE "unset"
      /\ promises[source] = "unset" /\ promises[destination] = "unset"
  BY <1>1, BodyPromises
<1>3. content = BodySent
  <2>1. sent \in Nat /\ sent >= HeaderLen /\ content = Bytes(sent)
    BY <1>1, HeaderLenFacts DEF ContentInv, LocalTypeOK
  <2> QED
    BY <2>1, BodySentIsBytes
<1> DEFINE V == IF callback THEN {source, destination} ELSE body..destination
<1>4. /\ V \in SUBSET Promises
      /\ \A p \in V : p = source \/ p = destination \/ (p = body /\ ~callback)
      /\ \A p \in Promises : p < body \/ (p = body /\ callback) \/ p \in V
  <2>1. CASE callback
    BY <2>1, PromiseFacts
  <2>2. CASE ~callback
    BY <2>2, PromiseFacts
  <2> QED
    BY <2>1, <2>2
<1>5. Satisfy(V, {})
  BY DEF EofInBody
<1> HIDE DEF V
<1>6. \A p \in V \cup {} : promises[p] = "unset"
  BY <1>2, <1>4
<1>7. /\ NoPromiseSetTwice' /\ twice' \in BOOLEAN
      /\ \A p \in Promises :
           promises'[p] = IF p \in V THEN "value"
                          ELSE IF p \in {} THEN "error" ELSE promises[p]
  BY <1>4, <1>5, <1>6, SatisfyUnset
<1>8. \A p \in Promises : promises'[p] = "value"
  BY <1>2, <1>4, <1>7
<1>9. /\ finals' \in Seq({"error", "eof"}) /\ Len(finals') <= 1
      /\ callback => finals' # <<>>
  BY <1>2, CallbackTold DEF EofInBody, LocalTypeOK
<1>10. promises' \in [Promises -> {"unset", "value", "error", "broken"}]
  BY <1>5 DEF Satisfy, LocalTypeOK
<1>11. LocalTypeOK'
  BY <1>7, <1>9, <1>10 DEF LocalTypeOK, EofInBody, CancelTimer, Ended
<1>12. ContentInv'
  BY DEF ContentInv, EofInBody, Bytes
<1>13. LiveInv'
  BY DEF LiveInv, Live, Opening, EofInBody
<1>14. EndedInv'
  <2>1. server' = "closed" /\ content' = BodySent'
    BY <1>1, <1>3 DEF EofInBody, BodySent
  <2> QED
    BY <1>8, <1>9, <2>1 DEF EndedInv, EofInBody
<1> QED
  BY <1>7, <1>11, <1>12, <1>13, <1>14

\* A read that fails or comes after a time-out: the exception goes to what is
\* unset, except that the callback takes it in place of the body promise.
LEMMA ReadFailsStep ==
  ASSUME LocalInv, ReadFails
  PROVE  LocalInv'
<1> USE DEF LocalInv, config, wire
<1>1. op = "read" /\ op \in Live /\ rstate \in 0..4
  BY PromiseFacts DEF ReadFails, Live, LocalTypeOK
<1>2. finals = <<>>
  BY <1>1 DEF LiveInv
<1>3. \A p \in Promises :
        promises[p] = IF p < rstate \/ (p = body /\ rstate = body /\ callback)
                      THEN "value" ELSE "unset"
  BY <1>1 DEF LiveInv
<1> DEFINE X == (rstate..headers) \cup {source, destination}
                  \cup (IF callback THEN {} ELSE {body})
<1>4. /\ X \in SUBSET Promises
      /\ \A p \in X : ~(p < rstate) /\ (p = body => ~callback)
      /\ \A p \in Promises : p < rstate \/ p \in X \/ (p = body /\ callback)
      /\ ~callback => body \in X
  <2>1. CASE callback
    BY <1>1, <2>1, PromiseFacts
  <2>2. CASE ~callback
    BY <1>1, <2>2, PromiseFacts
  <2> QED
    BY <2>1, <2>2
<1>5. Satisfy({}, X)
  BY DEF ReadFails
<1> HIDE DEF X
<1>6. \A p \in {} \cup X : promises[p] = "unset"
  BY <1>3, <1>4
<1>7. /\ NoPromiseSetTwice' /\ twice' \in BOOLEAN
      /\ \A p \in Promises :
           promises'[p] = IF p \in {} THEN "value"
                          ELSE IF p \in X THEN "error" ELSE promises[p]
  BY <1>4, <1>5, <1>6, SatisfyUnset
<1>8. \A p \in Promises :
        promises'[p] \in {"unset", "broken"} => callback /\ p = body
  BY <1>3, <1>4, <1>7
<1>9. ~callback => promises'[body] = "error"
  BY <1>4, <1>7, PromiseFacts
<1>10. /\ finals' \in Seq({"error", "eof"}) /\ Len(finals') <= 1
       /\ callback => finals' # <<>>
       /\ finals' # <<"eof">>
  BY <1>2, CallbackTold DEF ReadFails, LocalTypeOK
<1>11. promises' \in [Promises -> {"unset", "value", "error", "broken"}]
  BY <1>5 DEF Satisfy, LocalTypeOK
<1>12. LocalTypeOK'
  BY <1>7, <1>10, <1>11 DEF LocalTypeOK, ReadFails, Ended
<1>13. ContentInv'
  BY DEF ContentInv, ReadFails, Bytes
<1>14. LiveInv'
  BY DEF LiveInv, Live, Opening, ReadFails
<1>15. EndedInv'
  BY <1>8, <1>9, <1>10 DEF EndedInv, ReadFails, CutShort
<1> QED
  BY <1>7, <1>12, <1>13, <1>14, <1>15

\* The connection object dies, and what is unset is broken.
LEMMA DestroyedStep ==
  ASSUME LocalInv, Destroyed
  PROVE  LocalInv'
<1> USE DEF LocalInv, config, wire, Destroyed
<1>1. op \in Ended
  BY DEF Ended
<1>2. \A p \in Promises : promises'[p] = IF promises[p] = "unset" THEN "broken"
                                         ELSE promises[p]
  OBVIOUS
<1>3. LocalTypeOK'
  BY DEF LocalTypeOK, Ended
<1>4. ContentInv'
  BY DEF ContentInv, Bytes
<1>5. LiveInv'
  BY DEF LiveInv, Live, Opening
<1>6. EndedInv'
  <2>1. \A p \in Promises : promises'[p] \in {"unset", "broken"} => CutShort(p)
    BY <1>1, <1>2 DEF EndedInv
  <2>2. promises'[body] = "value" => promises[body] = "value"
    BY <1>2, PromiseFacts
  <2>3. BodySent' = BodySent
    BY DEF BodySent
  <2> QED
    BY <1>1, <2>1, <2>2, <2>3 DEF EndedInv, CutShort
<1>7. NoPromiseSetTwice'
  BY DEF NoPromiseSetTwice
<1> QED
  BY <1>3, <1>4, <1>5, <1>6, <1>7

\* The server sends or goes while the connection reads.
LEMMA ServerStep ==
  ASSUME LocalInv, ServerSends \/ ServerEnds
  PROVE  LocalInv'
<1> USE DEF LocalInv, config, results
<1>1. op = "read" /\ op' = "read"
  BY DEF ServerSends, ServerEnds
<1>2. sent \in 0..Total /\ sent' \in 0..Total /\ sent <= sent' /\ taken \in Nat
  BY HeaderLenFacts DEF ServerSends, ServerEnds, LocalTypeOK
<1>3. LocalTypeOK'
  BY <1>2 DEF LocalTypeOK, ServerSends, ServerEnds
<1>4. taken <= sent'
  BY <1>2, HeaderLenFacts DEF ContentInv
<1>5. ContentInv'
  BY <1>4 DEF ContentInv, Bytes, ServerSends, ServerEnds
<1>6. LiveInv'
  BY DEF LiveInv, Malformed, ServerSends, ServerEnds
<1>7. EndedInv'
  BY <1>1 DEF EndedInv, Ended
<1>8. NoPromiseSetTwice'
  BY DEF NoPromiseSetTwice, ServerSends, ServerEnds
<1> QED
  BY <1>3, <1>5, <1>6, <1>7, <1>8

--------------------------------------------------------------------------------
\* A request starts with nothing set and nothing read.
LEMMA LocalInitInv ==
  ASSUME LocalInit
  PROVE  LocalInv
<1> USE DEF LocalInit
<1>1. LocalTypeOK
  <2>1. sent \in 0..Total /\ taken \in Nat /\ rstate \in version..body
    BY HeaderLenFacts, PromiseFacts
  <2>2. content \in Seq(Nat) /\ finals \in Seq({"error", "eof"})
    OBVIOUS
  <2> QED
    BY <2>1, <2>2 DEF LocalTypeOK, Live, Opening
<1>2. ContentInv
  BY PromiseFacts DEF ContentInv
<1>3. ~Malformed(0) /\ 0 * SectionLen <= 0 /\ 0 < HeaderLen
  BY HeaderLenFacts, PromiseFacts, LocalConnectionAssumption DEF Malformed
<1>4. LiveInv
  BY <1>3, PromiseFacts DEF LiveInv
<1>5. EndedInv /\ NoPromiseSetTwice
  BY DEF EndedInv, Ended, NoPromiseSetTwice
<1> QED
  BY <1>1, <1>2, <1>4, <1>5 DEF LocalInv

\* Every handler, the timer and the server keep the invariant.
LEMMA LocalStep ==
  ASSUME LocalInv, [LocalNext]_vars
  PROVE  LocalInv'
<1> USE DEF LocalInv
<1>1. CASE start \/ resolve_op \/ Resolved
  BY <1>1, QuietStep DEF start, resolve_op, Resolved, LocalTypeOK, Live, Opening
<1>2. CASE Connected \/ SentRequest \/ handle_timeout
  BY <1>2, QuietStep DEF Connected, SentRequest, handle_timeout, LocalTypeOK,
                         Live, Opening
<1>3. CASE SentChunk
  <2>1. chunks' \in 0..MaxChunks
    BY <1>3, LocalConnectionAssumption DEF SentChunk, LocalTypeOK
  <2> QED
    BY <1>3, <2>1, QuietStep DEF SentChunk, LocalTypeOK
<1>4. CASE ErrorInStatusMessage \/ UNCHANGED vars
  BY <1>4, QuietStep DEF ErrorInStatusMessage, vars, LocalTypeOK, config, wire,
                         results
<1>5. CASE NotResolved \/ NotConnected \/ NotSent
  BY <1>5, SetErrorsStep DEF NotResolved, NotConnected, NotSent, Opening
<1>6. ASSUME NEW n \in 1..PartSize,
             \/ ReadMalformed(n) \/ ReadSections(n) \/ ReadHeadersOnly(n)
             \/ ReadHeaders(n) \/ ReadBody(n)
      PROVE  LocalInv'
  BY <1>6, ReadMalformedStep, ReadSectionsStep, ReadHeadersOnlyStep,
     ReadHeadersStep, ReadBodyStep
<1>7. CASE EofInHeaders \/ EofInBody \/ ReadFails \/ Destroyed
  BY <1>7, EofInHeadersStep, EofInBodyStep, ReadFailsStep, DestroyedStep
<1>8. CASE ServerSends \/ ServerEnds
  BY <1>8, ServerStep
<1> QED
  BY <1>1, <1>2, <1>3, <1>4, <1>5, <1>6, <1>7, <1>8
     DEF LocalNext, Handlers, handle_received_data

\* The invariant holds throughout every request.
THEOREM LocalInvariant == LocalSpec => []LocalInv
<1>1. LocalInit => LocalInv
  BY LocalInitInv
<1>2. LocalInv /\ [LocalNext]_vars => LocalInv'
  BY LocalStep
<1> QED
  BY <1>1, <1>2, PTL DEF LocalSpec

\* No branch of handle_received_data, and no failure before it, sets a promise
\* that another has set.
THEOREM PromisesAreSetOnce == LocalSpec => []NoPromiseSetTwice
<1>1. LocalInv => NoPromiseSetTwice
  BY DEF LocalInv
<1> QED
  BY <1>1, LocalInvariant, PTL

\* A body promise with a value (local_async_normal.hpp:438) holds every byte
\* that the server sent before it closed the connection.
THEOREM BodiesAreComplete == LocalSpec => []BodyIsComplete
<1>1. LocalInv => BodyIsComplete
  <2> SUFFICES ASSUME LocalInv, promises[body] = "value", get_body, ~callback
               PROVE  server = "closed" /\ content = BodySent
    BY DEF BodyIsComplete
  <2>1. CASE op \in Ended
    BY <2>1 DEF LocalInv, EndedInv
  <2>2. CASE op \in Live
    <3>1. body \in Promises /\ ~(body < rstate)
      BY PromiseFacts DEF LocalInv, LocalTypeOK
    <3> QED
      BY <2>2, <3>1 DEF LocalInv, LiveInv
  <2> QED
    BY <2>1, <2>2 DEF LocalInv, LocalTypeOK
<1> QED
  BY <1>1, LocalInvariant, PTL

\* The callback gets the bytes of the body in order, and is told of the end
\* exactly when and as StreamIsEnded says.
THEOREM StreamsAreEnded == LocalSpec => []StreamIsEnded
<1>1. LocalInv => StreamIsEnded
  <2> SUFFICES ASSUME LocalInv PROVE StreamIsEnded
    OBVIOUS
  <2>1. op \in Live => finals = <<>>
    BY DEF LocalInv, LiveInv
  <2>2. op \in Live \cup Ended
    BY DEF LocalInv, LocalTypeOK
  <2>3. Len(finals) <= 1
    BY <2>1, <2>2 DEF LocalInv, EndedInv
  <2>4. content = SubSeq(BodySent, 1, Len(content))
    <3>1. CASE rstate = body
      <4>1. /\ content = Bytes(taken) /\ HeaderLen <= taken /\ taken <= sent
            /\ taken \in Nat /\ sent \in Nat
        BY <3>1, HeaderLenFacts DEF LocalInv, LocalTypeOK, ContentInv
      <4> QED
        BY <4>1, BytesIsPrefix
    <3>2. CASE rstate # body
      <4>1. rstate < body
        BY <3>2, PromiseFacts DEF LocalInv, LocalTypeOK
      <4>2. content = <<>>
        BY <4>1 DEF LocalInv, ContentInv
      <4>3. SubSeq(BodySent, 1, 0) = <<>>
        BY SubSeqEmpty
      <4> QED
        BY <4>2, <4>3
    <3> QED
      BY <3>1, <3>2
  <2>5. callback /\ promises[body] = "value" /\ op = "destroyed" => finals # <<>>
    BY DEF LocalInv, EndedInv, Ended
  <2>6. finals = <<"eof">> /\ get_body => server = "closed" /\ content = BodySent
    <3>1. <<>> # <<"eof">>
      OBVIOUS
    <3> QED
      BY <2>1, <2>2, <3>1 DEF LocalInv, EndedInv
  <2> QED
    BY <2>3, <2>4, <2>5, <2>6 DEF StreamIsEnded
<1> QED
  BY <1>1, LocalInvariant, PTL

\* A promise is broken only by a response that ends within its headers, or for
\* the body of a request with a callback.
THEOREM AnswersUnlessCutShort == LocalSpec => []AnsweredUnlessCutShort
<1>1. LocalInv => AnsweredUnlessCutShort
  <2> SUFFICES ASSUME LocalInv, NEW p \in Promises, promises[p] = "broken"
               PROVE  CutShort(p)
    BY DEF AnsweredUnlessCutShort, CutShort
  <2>1. op \notin Live
    BY DEF LocalInv, LiveInv
  <2> QED
    BY <2>1 DEF LocalInv, LocalTypeOK, EndedInv
<1> QED
  BY <1>1, LocalInvariant, PTL

--------------------------------------------------------------------------------
\* The JSON parser.

\* R is the reading of the text t by the grammar.
Known(t, R) == Len(t) \in Nat /\ IsReading(t, R)

\* The field names of a text, and the contexts that can be open in it.
KeysOf(t) == {t[i].key : i \in {j \in 1..Len(t) : t[j].event = "map_key"}}
FieldMaps(t, R) == UNION {[D -> ReadValues(t, R)] : D \in SUBSET KeysOf(t)}
Contexts(t, R) ==
  [kind : {"array"}, elements : Seq(ReadValues(t, R))]
  \cup [kind : {"object"}, fields : FieldMaps(t, R), field_name : SUBSET KeysOf(t)]

\* The value that a context will be, given that event p comes next.
Rest(R, c, p) ==
  LET q == IF c.field_name = {} THEN p ELSE p - 1
  IN IF c.kind = "array"
     THEN IF IsRead(R.elements[p])
          THEN Read(Array(c.elements \o R.elements[p].value), R.elements[p].next)
          ELSE NoValue
     ELSE IF IsRead(R.fields[q])
          THEN Read(Object(Joined(c.fields, R.fields[q].value)), R.fields[q].next)
          ELSE NoValue

\* A field name that waits for its value is the event before.
Named(t, c, p) ==
  c.kind = "object" /\ c.field_name # {} =>
    /\ p - 1 \in 1..Len(t)
    /\ t[p - 1].event = "map_key"
    /\ c.field_name = {t[p - 1].key}

\* Reading: where a value begins, there is an event that begins one, and what
\* follows begins later.
LEMMA ValueFacts ==
  ASSUME NEW t, NEW R, Known(t, R), NEW i \in 1..(Len(t) + 1), IsRead(R.value[i])
  PROVE  /\ i \in 1..Len(t) /\ Begins(t[i])
         /\ R.value[i].next \in (i + 1)..(Len(t) + 1)
         /\ R.value[i].value \in ReadValues(t, R)
         /\ R.value[i] = Read(R.value[i].value, R.value[i].next)
<1>1. /\ R.value[i] = ValueAt(t, R, i)
      /\ R.value[i].next \in {0} \cup ((i + 1)..(Len(t) + 1))
  BY DEF Known, IsReading
<1>2. R.value[i].next \in (i + 1)..(Len(t) + 1)
  BY <1>1 DEF IsRead
<1>3. R.value[i].value \in ReadValues(t, R)
  BY DEF ReadValues
<1>4. NoValue.next = 0
  BY DEF NoValue, Read
<1>5. /\ i <= Len(t) /\ Begins(t[i])
      /\ R.value[i] = Read(R.value[i].value, R.value[i].next)
  <2>1. \A v, n : Read(v, n) = Read(Read(v, n).value, Read(v, n).next)
    BY DEF Read
  <2>2. R.value[i] # NoValue
    BY <1>4 DEF IsRead
  <2>3. i <= Len(t)
    BY <1>1, <2>2 DEF ValueAt, Known
  <2>4. t[i].event \in {"start_array", "start_map"} \/ IsScalar(t[i])
    BY <1>1, <2>2 DEF ValueAt
  <2>5. \E v, n : R.value[i] = Read(v, n)
    BY <1>1, <2>2 DEF ValueAt
  <2> QED BY <2>1, <2>3, <2>4, <2>5 DEF Begins
<1> QED BY <1>2, <1>3, <1>5 DEF Known

\* Reading: the event that ends an array or an object begins no value, nor does
\* a field name.
LEMMA EndsAreNoValues ==
  ASSUME NEW e, Begins(e)
  PROVE  e.event \notin {"end_array", "end_map", "map_key"}
BY DEF Begins, IsScalar

\* Reading an array: its elements from i on are the value at i and the elements
\* from there.
LEMMA ElementsStep ==
  ASSUME NEW t, NEW R, Known(t, R), NEW i \in 1..Len(t), t[i].event # "end_array"
  PROVE  LET n == R.value[i].next
         IN R.elements[i] = IF IsRead(R.value[i]) /\ IsRead(R.elements[n])
                            THEN Read(<<R.value[i].value>> \o R.elements[n].value,
                                      R.elements[n].next)
                            ELSE NoValue
BY DEF Known, IsReading, ElementsAt

\* Reading an object: its fields from i on are the field at i, a name and the value
\* after it, and the fields from there.
LEMMA FieldsStep ==
  ASSUME NEW t, NEW R, Known(t, R), NEW i \in 1..Len(t), t[i].event # "end_map"
  PROVE  LET r == R.value[i + 1]
         IN R.fields[i] = IF /\ t[i].event = "map_key"
                             /\ IsRead(r) /\ IsRead(R.fields[r.next])
                          THEN Read(Joined(Field(t[i].key, r.value),
                                           R.fields[r.next].value),
                                    R.fields[r.next].next)
                          ELSE NoValue
BY DEF Known, IsReading, FieldsAt

\* Reading: at the end of an array or of an object nothing of it is left.
LEMMA EndSteps ==
  ASSUME NEW t, NEW R, Known(t, R), NEW i \in 1..Len(t)
  PROVE  /\ t[i].event = "end_array" => R.elements[i] = Read(<<>>, i + 1)
         /\ t[i].event = "end_map" => R.fields[i] = Read(NoFields, i + 1)
<1>1. i \in 1..(Len(t) + 1) /\ i <= Len(t)
  BY DEF Known
<1>2. R.elements[i] = ElementsAt(t, R, i) /\ R.fields[i] = FieldsAt(t, R, i)
  BY <1>1 DEF Known, IsReading
<1> QED BY <1>1, <1>2 DEF ElementsAt, FieldsAt

\* Reading: what is left of an array or of an object ends later than it begins, and
\* the elements are values of the text.
LEMMA RestTypes ==
  ASSUME NEW t, NEW R, Known(t, R), NEW i \in 1..(Len(t) + 1)
  PROVE  /\ IsRead(R.elements[i]) => /\ R.elements[i].next \in (i + 1)..(Len(t) + 1)
                                     /\ R.elements[i].value \in Seq(ReadValues(t, R))
         /\ IsRead(R.fields[i]) => R.fields[i].next \in (i + 1)..(Len(t) + 1)
BY DEF Known, IsReading, IsRead

\* Reading: what was read is a value and the place behind it.
LEMMA ReadFields ==
  ASSUME NEW v, NEW n
  PROVE  Read(v, n).value = v /\ Read(v, n).next = n
BY DEF Read

\* Reading: where there is no value, nothing was read.
LEMMA NoValueIsNotRead == ~IsRead(NoValue)
BY DEF Read, NoValue, IsRead

\* Reading: the value at i by the event there: an array or an object from what
\* follows, a scalar, or none.
LEMMA ValueSteps ==
  ASSUME NEW t, NEW R, Known(t, R), NEW i \in 1..Len(t)
  PROVE  /\ t[i].event = "start_array" =>
              R.value[i] = IF IsRead(R.elements[i + 1])
                           THEN Read(Array(R.elements[i + 1].value),
                                     R.elements[i + 1].next)
                           ELSE NoValue
         /\ t[i].event = "start_map" =>
              R.value[i] = IF IsRead(R.fields[i + 1])
                           THEN Read(Object(R.fields[i + 1].value),
                                     R.fields[i + 1].next)
                           ELSE NoValue
         /\ IsScalar(t[i]) => R.value[i] = Read(Scalar(t[i]), i + 1)
         /\ ~Begins(t[i]) => R.value[i] = NoValue
<1>1. i \in 1..(Len(t) + 1) /\ i <= Len(t) /\ ~(i > Len(t))
  BY DEF Known
<1>2. R.value[i] = ValueAt(t, R, i)
  BY <1>1 DEF Known, IsReading
<1>3. CASE t[i].event = "start_array"
  <2>1. t[i].event # "start_map" /\ ~IsScalar(t[i]) /\ Begins(t[i])
    BY <1>3 DEF IsScalar, Begins
  <2> QED BY <1>1, <1>2, <1>3, <2>1, Zenon DEF ValueAt
<1>4. CASE t[i].event = "start_map"
  <2>1. t[i].event # "start_array" /\ ~IsScalar(t[i]) /\ Begins(t[i])
    BY <1>4 DEF IsScalar, Begins
  <2> QED BY <1>1, <1>2, <1>4, <2>1, Zenon DEF ValueAt
<1>5. CASE t[i].event \notin {"start_array", "start_map"}
  <2>1. t[i].event # "start_array" /\ t[i].event # "start_map"
    BY <1>5
  <2> QED BY <1>1, <1>2, <2>1, Zenon DEF ValueAt, Begins
<1> QED BY <1>3, <1>4, <1>5

\* The value a context will be is known only if the value that begins in it is,
\* and ends later.
LEMMA RestIsLater ==
  ASSUME NEW t, NEW R, Known(t, R), NEW c \in Contexts(t, R), NEW p \in 1..Len(t),
         Named(t, c, p), ~NeedsName(c), t[p].event # "end_array",
         IsRead(Rest(R, c, p))
  PROVE  IsRead(R.value[p]) /\ R.value[p].next < Rest(R, c, p).next
<1>0. Len(t) \in Nat /\ p \in 1..(Len(t) + 1)
  BY DEF Known
<1>1. CASE c.kind = "array"
  <2>1. IsRead(R.elements[p]) /\ Rest(R, c, p).next = R.elements[p].next
    BY <1>1, ReadFields, NoValueIsNotRead DEF Rest
  <2>2. /\ IsRead(R.value[p]) /\ IsRead(R.elements[R.value[p].next])
        /\ R.elements[p].next = R.elements[R.value[p].next].next
    <3>1. R.elements[p] = IF /\ IsRead(R.value[p])
                             /\ IsRead(R.elements[R.value[p].next])
                          THEN Read(<<R.value[p].value>>
                                      \o R.elements[R.value[p].next].value,
                                    R.elements[R.value[p].next].next)
                          ELSE NoValue
      BY ElementsStep
    <3>2. IsRead(R.value[p]) /\ IsRead(R.elements[R.value[p].next])
      BY <2>1, <3>1, NoValueIsNotRead
    <3> DEFINE x == <<R.value[p].value>> \o R.elements[R.value[p].next].value
    <3>3. R.elements[p] = Read(x, R.elements[R.value[p].next].next)
      BY <3>1, <3>2
    <3> HIDE DEF x
    <3>4. R.elements[p].next = R.elements[R.value[p].next].next
      BY <3>3, ReadFields
    <3> QED BY <3>2, <3>4
  <2>3. R.value[p].next \in 1..(Len(t) + 1)
    BY <1>0, <2>2, ValueFacts
  <2>4. R.elements[R.value[p].next].next > R.value[p].next
    <3> DEFINE n == R.value[p].next
    <3>1. n \in 1..(Len(t) + 1) /\ IsRead(R.elements[n])
      BY <2>2, <2>3
    <3> HIDE DEF n
    <3>2. R.elements[n].next \in (n + 1)..(Len(t) + 1)
      BY <3>1, RestTypes
    <3>3. R.elements[n].next > n
      BY <1>0, <3>1, <3>2
    <3> QED BY <3>3 DEF n
  <2> QED BY <2>1, <2>2, <2>4
<1>2. CASE c.kind = "object"
  <2>0. /\ c.field_name # {} /\ p - 1 \in 1..Len(t)
        /\ t[p - 1].event = "map_key" /\ p - 1 + 1 = p
    BY <1>0, <1>2 DEF Named, NeedsName
  <2>1. IsRead(R.fields[p - 1]) /\ Rest(R, c, p).next = R.fields[p - 1].next
    BY <1>2, <2>0, ReadFields, NoValueIsNotRead DEF Rest
  <2>2. /\ IsRead(R.value[p]) /\ IsRead(R.fields[R.value[p].next])
        /\ R.fields[p - 1].next = R.fields[R.value[p].next].next
    BY <2>0, <2>1, FieldsStep, ReadFields, NoValueIsNotRead
  <2>3. R.value[p].next \in 1..(Len(t) + 1)
    BY <1>0, <2>2, ValueFacts
  <2>4. R.fields[R.value[p].next].next > R.value[p].next
    <3> DEFINE n == R.value[p].next
    <3>1. n \in 1..(Len(t) + 1) /\ IsRead(R.fields[n])
      BY <2>2, <2>3
    <3> HIDE DEF n
    <3>2. R.fields[n].next \in (n + 1)..(Len(t) + 1)
      BY <3>1, RestTypes
    <3>3. R.fields[n].next > n
      BY <1>0, <3>1, <3>2
    <3> QED BY <3>3 DEF n
  <2> QED BY <2>1, <2>2, <2>4
<1> QED BY <1>1, <1>2 DEF Contexts

\* Fields that are emplaced one after the other, as ObjectContext::AddValue does,
\* give the same map as those of the rest of the object emplaced at once.
LEMMA JoinedAssociative ==
  ASSUME NEW f, NEW g, NEW h
  PROVE  Joined(f, Joined(g, h)) = Joined(Joined(f, g), h)
<1>1. DOMAIN Joined(f, Joined(g, h)) = DOMAIN Joined(Joined(f, g), h)
  BY DEF Joined
<1>2. ASSUME NEW k \in DOMAIN Joined(f, Joined(g, h))
      PROVE  Joined(f, Joined(g, h))[k] = Joined(Joined(f, g), h)[k]
  BY DEF Joined
<1> QED BY <1>1, <1>2 DEF Joined

\* An empty map changes nothing.
LEMMA JoinedEmpty ==
  ASSUME NEW D, NEW S, NEW f \in [D -> S]
  PROVE  Joined(f, NoFields) = f /\ Joined(NoFields, f) = f
BY DEF Joined, NoFields

\* An array that AddValue has given its next element is followed by one element
\* less.
LEMMA ConcatAppend ==
  ASSUME NEW S, NEW u \in Seq(S), NEW v \in S, NEW w \in Seq(S)
  PROVE  u \o (<<v>> \o w) = Append(u, v) \o w
<1>1. <<v>> \in Seq(S)
  OBVIOUS
<1> QED BY <1>1, ConcatAssociative, AppendIsConcat

\* AddValue of a context: it remains a context of the text, and a value with a name
\* is emplaced under it.
LEMMA AddedContext ==
  ASSUME NEW t, NEW R, Known(t, R), NEW c \in Contexts(t, R),
         NEW v \in ReadValues(t, R)
  PROVE  /\ Added(c, v) \in Contexts(t, R)
         /\ c.kind = "array" => Added(c, v) = ArrayContext(Append(c.elements, v))
         /\ \A k \in KeysOf(t) : c.kind = "object" /\ c.field_name = {k} =>
              Added(c, v) = ObjectContext(Joined(c.fields, Field(k, v)), {})
<1>1. CASE c.kind = "array"
  <2>1. c.elements \in Seq(ReadValues(t, R))
    BY <1>1 DEF Contexts
  <2>2. Append(c.elements, v) \in Seq(ReadValues(t, R))
    BY <2>1, AppendProperties
  <2> QED BY <1>1, <2>2 DEF Added, ArrayContext, Contexts
<1>2. CASE c.kind = "object" /\ c.field_name = {}
  BY <1>2 DEF Added
<1>3. CASE c.kind = "object" /\ c.field_name # {}
  <2>1. c.fields \in FieldMaps(t, R) /\ c.field_name \subseteq KeysOf(t)
    BY <1>3 DEF Contexts
  <2> DEFINE n == CHOOSE k \in c.field_name : TRUE
  <2>2. n \in KeysOf(t)
    BY <1>3, <2>1
  <2>3. PICK D \in SUBSET KeysOf(t) : c.fields \in [D -> ReadValues(t, R)]
    BY <2>1 DEF FieldMaps
  <2>4. \A k \in KeysOf(t) : Joined(c.fields, Field(k, v)) \in
                              [D \cup {k} -> ReadValues(t, R)]
    BY <2>3 DEF Joined, Field
  <2>5. \A k \in KeysOf(t) : Joined(c.fields, Field(k, v)) \in FieldMaps(t, R)
    <3>1. \A k \in KeysOf(t) : D \cup {k} \in SUBSET KeysOf(t)
      OBVIOUS
    <3>2. \A k \in KeysOf(t) : \E E \in SUBSET KeysOf(t) :
            Joined(c.fields, Field(k, v)) \in [E -> ReadValues(t, R)]
      BY <2>4, <3>1
    <3> QED BY <3>2 DEF FieldMaps
  <2>6. Added(c, v) = ObjectContext(Joined(c.fields, Field(n, v)), {})
    BY <1>3 DEF Added, Emplaced
  <2>7. Added(c, v) \in Contexts(t, R)
    BY <2>2, <2>5, <2>6 DEF ObjectContext, Contexts
  <2>8. \A k : c.field_name = {k} => n = k
    OBVIOUS
  <2> QED BY <1>3, <2>6, <2>7, <2>8
<1> QED BY <1>1, <1>2, <1>3 DEF Contexts

\* AddValue of a context that waits for a value: the value it will be is the same
\* as before, whatever follows.
LEMMA RestAdvances ==
  ASSUME NEW t, NEW R, Known(t, R), NEW c \in Contexts(t, R), NEW p \in 1..Len(t),
         Named(t, c, p), ~NeedsName(c), IsRead(R.value[p])
  PROVE  LET v == R.value[p].value
             n == R.value[p].next
         IN /\ Added(c, v) \in Contexts(t, R)
            /\ Named(t, Added(c, v), n)
            /\ Rest(R, Added(c, v), n) = Rest(R, c, p)
<1> DEFINE v == R.value[p].value
           n == R.value[p].next
<1>0. /\ Len(t) \in Nat /\ p \in 1..(Len(t) + 1)
      /\ v \in ReadValues(t, R) /\ n \in 1..(Len(t) + 1)
      /\ t[p].event # "end_array"
  <2>1. Len(t) \in Nat /\ p \in 1..(Len(t) + 1)
    BY DEF Known
  <2> QED BY <2>1, ValueFacts, EndsAreNoValues
<1>1. Added(c, v) \in Contexts(t, R)
  BY <1>0, AddedContext
<1>2. CASE c.kind = "array"
  <2>1. Added(c, v) = ArrayContext(Append(c.elements, v))
    BY <1>0, <1>2, AddedContext
  <2>2. Named(t, Added(c, v), n)
    BY <2>1 DEF Named, ArrayContext
  <2>3. R.elements[p] = IF IsRead(R.elements[n])
                        THEN Read(<<v>> \o R.elements[n].value, R.elements[n].next)
                        ELSE NoValue
    BY <1>0, ElementsStep
  <2>4. CASE IsRead(R.elements[n])
    <3>1. /\ R.elements[p].value = <<v>> \o R.elements[n].value
          /\ R.elements[p].next = R.elements[n].next
      <4> DEFINE x == <<v>> \o R.elements[n].value
      <4>1. R.elements[p] = Read(x, R.elements[n].next)
        BY <2>3, <2>4
      <4> HIDE DEF x
      <4>2. R.elements[p].value = x /\ R.elements[p].next = R.elements[n].next
        BY <4>1, ReadFields
      <4> QED BY <4>2 DEF x
    <3>2. IsRead(R.elements[p])
      BY <2>4, <3>1 DEF IsRead
    <3>3. R.elements[n].value \in Seq(ReadValues(t, R))
          /\ c.elements \in Seq(ReadValues(t, R))
      BY <1>0, <1>2, <2>4, RestTypes DEF Contexts
    <3>4. c.elements \o R.elements[p].value
            = Append(c.elements, v) \o R.elements[n].value
      <4>1. c.elements \o (<<v>> \o R.elements[n].value)
              = Append(c.elements, v) \o R.elements[n].value
        <5> DEFINE w == R.elements[n].value
                   u == c.elements
        <5>1. u \in Seq(ReadValues(t, R)) /\ w \in Seq(ReadValues(t, R))
          BY <3>3
        <5>2. v \in ReadValues(t, R)
          BY <1>0
        <5> HIDE DEF u, v, w
        <5>3. u \o (<<v>> \o w) = Append(u, v) \o w
          BY <5>1, <5>2, ConcatAppend
        <5> QED BY <5>3 DEF u, v, w
      <4> QED BY <3>1, <4>1
    <3>5. Rest(R, c, p) = Read(Array(Append(c.elements, v) \o R.elements[n].value),
                               R.elements[n].next)
      BY <1>2, <3>1, <3>2, <3>4 DEF Rest
    <3>6. Rest(R, Added(c, v), n)
            = Read(Array(Append(c.elements, v) \o R.elements[n].value),
                   R.elements[n].next)
      BY <2>1, <2>4 DEF Rest, ArrayContext
    <3> QED BY <1>1, <2>2, <3>5, <3>6
  <2>5. CASE ~IsRead(R.elements[n])
    <3>1. Rest(R, c, p) = NoValue
      BY <1>2, <2>3, <2>5, NoValueIsNotRead DEF Rest
    <3>2. Rest(R, Added(c, v), n) = NoValue
      BY <2>1, <2>5 DEF Rest, ArrayContext
    <3> QED BY <1>1, <2>2, <3>1, <3>2
  <2> QED BY <2>4, <2>5
<1>3. CASE c.kind = "object"
  <2> DEFINE k == t[p - 1].key
  <2>0. /\ p - 1 \in 1..Len(t) /\ p - 1 + 1 = p
        /\ t[p - 1].event = "map_key" /\ c.field_name = {k} /\ k \in KeysOf(t)
    BY <1>0, <1>3 DEF Named, NeedsName, KeysOf
  <2>1. Added(c, v) = ObjectContext(Joined(c.fields, Field(k, v)), {})
    BY <1>0, <1>3, <2>0, AddedContext
  <2>2. Named(t, Added(c, v), n)
    BY <2>1 DEF Named, ObjectContext
  <2>3. R.fields[p - 1] = IF IsRead(R.fields[n])
                          THEN Read(Joined(Field(k, v), R.fields[n].value),
                                    R.fields[n].next)
                          ELSE NoValue
    <3> DEFINE i == p - 1
    <3>1. /\ i \in 1..Len(t) /\ t[i].event = "map_key" /\ t[i].event # "end_map"
          /\ R.value[i + 1] = R.value[p]
      BY <2>0
    <3> HIDE DEF i
    <3>2. R.fields[i] = IF IsRead(R.value[p]) /\ IsRead(R.fields[n])
                        THEN Read(Joined(Field(t[i].key, v), R.fields[n].value),
                                  R.fields[n].next)
                        ELSE NoValue
      <4>1. R.fields[i] = IF /\ t[i].event = "map_key"
                             /\ IsRead(R.value[i + 1])
                             /\ IsRead(R.fields[R.value[i + 1].next])
                          THEN Read(Joined(Field(t[i].key, R.value[i + 1].value),
                                           R.fields[R.value[i + 1].next].value),
                                    R.fields[R.value[i + 1].next].next)
                          ELSE NoValue
        BY <3>1, FieldsStep
      <4> QED BY <3>1, <4>1
    <3> QED BY <3>2 DEF i
  <2>4. CASE IsRead(R.fields[n])
    <3>1. /\ R.fields[p - 1].value = Joined(Field(k, v), R.fields[n].value)
          /\ R.fields[p - 1].next = R.fields[n].next
      <4> DEFINE x == Joined(Field(k, v), R.fields[n].value)
      <4>1. R.fields[p - 1] = Read(x, R.fields[n].next)
        BY <2>3, <2>4
      <4> HIDE DEF x
      <4>2. R.fields[p - 1].value = x /\ R.fields[p - 1].next = R.fields[n].next
        BY <4>1, ReadFields
      <4> QED BY <4>2 DEF x
    <3>2. IsRead(R.fields[p - 1])
      BY <2>4, <3>1 DEF IsRead
    <3>3. Joined(c.fields, R.fields[p - 1].value)
            = Joined(Joined(c.fields, Field(k, v)), R.fields[n].value)
      BY <3>1, JoinedAssociative
    <3>4. Rest(R, c, p)
            = Read(Object(Joined(Joined(c.fields, Field(k, v)), R.fields[n].value)),
                   R.fields[n].next)
      BY <1>3, <2>0, <3>1, <3>2, <3>3 DEF Rest
    <3>5. Rest(R, Added(c, v), n)
            = Read(Object(Joined(Joined(c.fields, Field(k, v)), R.fields[n].value)),
                   R.fields[n].next)
      BY <2>1, <2>4 DEF Rest, ObjectContext
    <3> QED BY <1>1, <2>2, <3>4, <3>5
  <2>5. CASE ~IsRead(R.fields[n])
    <3>1. Rest(R, c, p) = NoValue
      BY <1>3, <2>0, <2>3, <2>5, NoValueIsNotRead DEF Rest
    <3>2. Rest(R, Added(c, v), n) = NoValue
      BY <2>1, <2>5 DEF Rest, ObjectContext
    <3> QED BY <1>1, <2>2, <3>1, <3>2
  <2> QED BY <2>4, <2>5
<1> QED BY <1>2, <1>3 DEF Contexts

\* Reading: the fields of an object make up a map.
LEMMA FieldsAreMaps ==
  ASSUME NEW t, NEW R, Known(t, R), NEW i \in 1..(Len(t) + 1), IsRead(R.fields[i])
  PROVE  Joined(NoFields, R.fields[i].value) = R.fields[i].value
<1>1. R.fields[i] = FieldsAt(t, R, i)
  BY DEF Known, IsReading
<1>2. R.fields[i] # NoValue
  BY NoValueIsNotRead
<1>3. \/ R.fields[i] = Read(NoFields, i + 1)
      \/ \E f, g, n : R.fields[i] = Read(Joined(f, g), n)
  BY <1>1, <1>2 DEF FieldsAt
<1>4. \/ R.fields[i].value = NoFields
      \/ \E f, g : R.fields[i].value = Joined(f, g)
  BY <1>3, ReadFields
<1>5. Joined(NoFields, NoFields) = NoFields
  BY DEF Joined, NoFields
<1>6. \A f, g : Joined(NoFields, Joined(f, g)) = Joined(f, g)
  BY DEF Joined, NoFields
<1> QED BY <1>4, <1>5, <1>6

\* handle_end_array and handle_end_map: the value that the context will be is the
\* one it has been built to.
LEMMA RestEnds ==
  ASSUME NEW t, NEW R, Known(t, R), NEW c \in Contexts(t, R), NEW p \in 1..Len(t),
         Ends(c, t[p])
  PROVE  Rest(R, c, p) = Read(Built(c), p + 1)
<1>0. p + 1 # 0 /\ IsRead(Read(<<>>, p + 1)) /\ IsRead(Read(NoFields, p + 1))
  BY ReadFields DEF Known, IsRead
<1>1. CASE c.kind = "array"
  <2>1. R.elements[p] = Read(<<>>, p + 1)
    BY <1>1, EndSteps DEF Ends, NeedsName
  <2>2. c.elements \o R.elements[p].value = c.elements
    <3>1. R.elements[p].value = <<>>
      BY <2>1, ReadFields
    <3>2. c.elements \in Seq(ReadValues(t, R))
      BY <1>1 DEF Contexts
    <3> QED BY <3>1, <3>2, ConcatEmptySeq
  <2>3. IsRead(R.elements[p]) /\ R.elements[p].next = p + 1
    BY <1>0, <2>1, ReadFields
  <2> QED BY <1>1, <2>2, <2>3 DEF Rest, Built
<1>2. CASE c.kind = "object"
  <2>1. R.fields[p] = Read(NoFields, p + 1) /\ c.field_name = {}
    BY <1>2, EndSteps DEF Ends, NeedsName
  <2>2. PICK D : c.fields \in [D -> ReadValues(t, R)]
    BY <1>2 DEF Contexts, FieldMaps
  <2>3. Joined(c.fields, R.fields[p].value) = c.fields
    <3>1. R.fields[p].value = NoFields
      BY <2>1, ReadFields
    <3> QED BY <2>2, <3>1, JoinedEmpty
  <2> QED BY <1>0, <1>2, <2>1, <2>3, ReadFields DEF Rest, Built
<1> QED BY <1>1, <1>2 DEF Contexts

\* handle_start_array and handle_start_map: the value that the new context will be
\* is the one that begins with the event.
LEMMA RestOpens ==
  ASSUME NEW t, NEW R, Known(t, R), NEW p \in 1..Len(t),
         t[p].event \in {"start_array", "start_map"}
  PROVE  /\ Opened(t[p]) \in Contexts(t, R)
         /\ Named(t, Opened(t[p]), p + 1)
         /\ Rest(R, Opened(t[p]), p + 1) = R.value[p]
<1>0. Len(t) \in Nat /\ p + 1 \in 1..(Len(t) + 1)
  BY DEF Known
<1>1. CASE t[p].event = "start_array"
  <2>1. Opened(t[p]) = ArrayContext(<<>>)
    BY <1>1 DEF Opened
  <2>2. Opened(t[p]) \in Contexts(t, R) /\ Named(t, Opened(t[p]), p + 1)
    BY <2>1 DEF ArrayContext, Contexts, Named
  <2>3. IsRead(R.elements[p + 1]) =>
          <<>> \o R.elements[p + 1].value = R.elements[p + 1].value
    BY <1>0, RestTypes, ConcatEmptySeq
  <2>4. Rest(R, ArrayContext(<<>>), p + 1) = R.value[p]
    BY <1>1, <2>3, ValueSteps DEF Rest, ArrayContext
  <2> QED BY <2>1, <2>2, <2>4
<1>2. CASE t[p].event = "start_map"
  <2>1. Opened(t[p]) = ObjectContext(NoFields, {})
    BY <1>2 DEF Opened
  <2>2. NoFields \in [{} -> ReadValues(t, R)]
    BY DEF NoFields
  <2>3. NoFields \in FieldMaps(t, R)
    BY <2>2 DEF FieldMaps
  <2>4. Opened(t[p]) \in Contexts(t, R) /\ Named(t, Opened(t[p]), p + 1)
    BY <2>1, <2>3 DEF ObjectContext, Contexts, Named
  <2>5. IsRead(R.fields[p + 1]) =>
          Joined(NoFields, R.fields[p + 1].value) = R.fields[p + 1].value
    BY <1>0, FieldsAreMaps
  <2>6. Rest(R, ObjectContext(NoFields, {}), p + 1) = R.value[p]
    BY <1>2, <2>5, ValueSteps DEF Rest, ObjectContext
  <2> QED BY <2>1, <2>4, <2>6
<1> QED BY <1>1, <1>2

\* handle_map_key: the name changes nothing about the value that the context will
\* be.
LEMMA RestNamed ==
  ASSUME NEW t, NEW R, Known(t, R), NEW c \in Contexts(t, R), NEW p \in 1..Len(t),
         NeedsName(c), t[p].event = "map_key"
  PROVE  LET d == ObjectContext(c.fields, {t[p].key})
         IN /\ d \in Contexts(t, R)
            /\ Named(t, d, p + 1)
            /\ ~NeedsName(d)
            /\ Rest(R, d, p + 1) = Rest(R, c, p)
<1>0. Len(t) \in Nat /\ p + 1 - 1 = p
  BY DEF Known
<1> DEFINE d == ObjectContext(c.fields, {t[p].key})
<1>1. /\ c.kind = "object" /\ c.field_name = {} /\ c.fields \in FieldMaps(t, R)
      /\ {t[p].key} \in SUBSET KeysOf(t)
  BY DEF Contexts, NeedsName, KeysOf
<1>2. /\ d \in [kind : {"object"}, fields : FieldMaps(t, R),
                 field_name : SUBSET KeysOf(t)]
      /\ d.kind = "object" /\ d.fields = c.fields /\ d.field_name = {t[p].key}
  BY <1>1 DEF ObjectContext
<1> HIDE DEF d
<1>3. d \in Contexts(t, R)
  BY <1>2 DEF Contexts
<1>4. Named(t, d, p + 1) /\ ~NeedsName(d)
  <2>1. d.field_name # {} /\ p + 1 - 1 \in 1..Len(t) /\ t[p + 1 - 1] = t[p]
    BY <1>0, <1>2
  <2>2. ~NeedsName(d)
    BY <2>1 DEF NeedsName
  <2>3. t[p + 1 - 1].event = "map_key" /\ d.field_name = {t[p + 1 - 1].key}
    BY <1>2, <2>1
  <2>4. Named(t, d, p + 1)
    BY <2>1, <2>3 DEF Named
  <2> QED BY <2>2, <2>4
<1>5. Rest(R, d, p + 1) = Rest(R, c, p)
  BY <1>0, <1>1, <1>2 DEF Rest
<1> QED BY <1>3, <1>4, <1>5 DEF d

\* A syntax error inside a context: the context will be no value, whatever follows.
LEMMA RestRefused ==
  ASSUME NEW t, NEW R, Known(t, R), NEW c \in Contexts(t, R), NEW p \in 1..Len(t),
         Named(t, c, p), ~Ends(c, t[p]),
         ~(IF NeedsName(c) THEN t[p].event = "map_key" ELSE Begins(t[p]))
  PROVE  ~IsRead(Rest(R, c, p))
<1>1. CASE NeedsName(c)
  <2>1. R.fields[p] = NoValue
    BY <1>1, FieldsStep DEF Ends
  <2> QED BY <1>1, <2>1, NoValueIsNotRead DEF Rest, NeedsName
<1>2. CASE ~NeedsName(c) /\ c.kind = "array"
  <2>1. R.value[p] = NoValue
    BY <1>2, ValueSteps
  <2>2. R.elements[p] = NoValue
    BY <1>2, <2>1, ElementsStep, NoValueIsNotRead DEF Ends
  <2> QED BY <1>2, <2>2, NoValueIsNotRead DEF Rest
<1>3. CASE ~NeedsName(c) /\ c.kind = "object"
  <2>0. /\ c.field_name # {} /\ p - 1 \in 1..Len(t) /\ p - 1 + 1 = p
        /\ t[p - 1].event = "map_key"
    BY <1>3 DEF Named, NeedsName, Known
  <2>1. R.value[p] = NoValue
    BY <1>3, ValueSteps
  <2>2. R.fields[p - 1] = NoValue
    BY <2>0, <2>1, FieldsStep, NoValueIsNotRead
  <2> QED BY <1>3, <2>0, <2>2, NoValueIsNotRead DEF Rest
<1> QED BY <1>1, <1>2, <1>3 DEF Contexts

\* The context c that event i opened is right, event p being next.
Level(t, R, c, i, p) ==
  /\ i < p
  /\ Named(t, c, p)
  /\ R.value[i] = Rest(R, c, p)

\* The contexts ctx, opened by the events b, are right, event p being next: each
\* waits for the value that the next one will be, and ends after it.
Stacked(t, R, ctx, b, p) ==
  /\ ctx \in Seq(Contexts(t, R))
  /\ b \in [1..Len(ctx) -> 1..Len(t)]
  /\ p \in 1..(Len(t) + 1)
  /\ \A j \in 1..Len(ctx) :
       Level(t, R, ctx[j], b[j], IF j = Len(ctx) THEN p ELSE b[j + 1])
  /\ \A j \in 1..Len(ctx) : j # Len(ctx) => ~NeedsName(ctx[j])
  /\ \A i, j \in 1..Len(ctx) : i < j => b[i] < b[j]
  /\ \A i, j \in 1..Len(ctx) :
       i < j /\ IsRead(R.value[b[i]]) =>
         IsRead(R.value[b[j]]) /\ R.value[b[j]].next < R.value[b[i]].next

\* handle_start_array and handle_start_map push a context that is right.
LEMMA StackPush ==
  ASSUME NEW t, NEW R, Known(t, R), NEW ctx, NEW b, NEW p \in 1..Len(t),
         Stacked(t, R, ctx, b, p), ~NeedsKey(ctx),
         t[p].event \in {"start_array", "start_map"}
  PROVE  Stacked(t, R, Append(ctx, Opened(t[p])),
                 [j \in 1..(Len(ctx) + 1) |-> IF j = Len(ctx) + 1 THEN p ELSE b[j]],
                 p + 1)
<1> DEFINE k == Len(ctx)
           c == Opened(t[p])
           new == Append(ctx, c)
           a == [j \in 1..(k + 1) |-> IF j = k + 1 THEN p ELSE b[j]]
<1>1. /\ ctx \in Seq(Contexts(t, R)) /\ k \in Nat /\ Len(t) \in Nat
      /\ b \in [1..k -> 1..Len(t)]
  BY DEF Stacked, Known
<1>2. /\ c \in Contexts(t, R) /\ Named(t, c, p + 1)
      /\ Rest(R, c, p + 1) = R.value[p]
  BY RestOpens
<1> HIDE DEF c
<1>3. /\ new \in Seq(Contexts(t, R)) /\ Len(new) = k + 1
      /\ \A j \in 1..k : new[j] = ctx[j]
      /\ new[k + 1] = c
  BY <1>1, <1>2, AppendProperties
<1>4. /\ a \in [1..(k + 1) -> 1..Len(t)] /\ a[k + 1] = p
      /\ \A j \in 1..k : a[j] = b[j]
  BY <1>1
<1> HIDE DEF new, a
<1>5. k > 0 => ~NeedsName(ctx[k])
  BY <1>1 DEF NeedsKey, Last
<1>6. ASSUME NEW j \in 1..(k + 1)
      PROVE  Level(t, R, new[j], a[j], IF j = k + 1 THEN p + 1 ELSE a[j + 1])
  <2>1. CASE j = k + 1
    BY <1>1, <1>2, <1>3, <1>4, <2>1 DEF Level
  <2>2. CASE j # k + 1
    <3>1. /\ j \in 1..k /\ new[j] = ctx[j] /\ a[j] = b[j]
          /\ a[j + 1] = IF j = k THEN p ELSE b[j + 1]
      BY <1>1, <1>3, <1>4, <2>2
    <3>2. Level(t, R, ctx[j], b[j], IF j = k THEN p ELSE b[j + 1])
      BY <3>1 DEF Stacked
    <3> QED BY <2>2, <3>1, <3>2
  <2> QED BY <2>1, <2>2
<1>7. ASSUME NEW j \in 1..(k + 1), j # k + 1
      PROVE  ~NeedsName(new[j])
  <2>1. j \in 1..k /\ new[j] = ctx[j]
    BY <1>1, <1>3, <1>7
  <2> QED BY <1>1, <1>5, <2>1 DEF Stacked
<1>8. ASSUME NEW i \in 1..(k + 1), NEW j \in 1..(k + 1),
             i < j, IsRead(R.value[a[i]])
      PROVE  IsRead(R.value[a[j]]) /\ R.value[a[j]].next < R.value[a[i]].next
  <2>1. i \in 1..k /\ a[i] = b[i]
    BY <1>1, <1>4, <1>8
  <2>2. CASE j # k + 1
    <3>1. j \in 1..k /\ a[j] = b[j]
      BY <1>1, <1>4, <2>2
    <3> QED BY <1>8, <2>1, <3>1 DEF Stacked
  <2>3. CASE j = k + 1
    <3>1. k \in 1..k /\ ~NeedsName(ctx[k]) /\ ctx[k] \in Contexts(t, R)
      BY <1>1, <1>5, <2>1, ElementOfSeq
    <3>2. Level(t, R, ctx[k], b[k], p)
      BY <3>1 DEF Stacked
    <3>3. /\ IsRead(R.value[b[k]])
          /\ i # k => R.value[b[k]].next < R.value[b[i]].next
      <4>1. CASE i = k
        BY <1>8, <2>1, <4>1
      <4>2. CASE i # k
        <5>1. i < k
          BY <1>1, <2>1, <4>2
        <5> QED BY <1>8, <2>1, <3>1, <5>1 DEF Stacked
      <4> QED BY <4>1, <4>2
    <3>4. IsRead(R.value[p]) /\ R.value[p].next < R.value[b[k]].next
      <4>1. IsRead(Rest(R, ctx[k], p)) /\ Named(t, ctx[k], p)
            /\ R.value[b[k]] = Rest(R, ctx[k], p)
        BY <3>2, <3>3 DEF Level
      <4>2. t[p].event # "end_array"
        OBVIOUS
      <4> QED BY <3>1, <4>1, <4>2, RestIsLater
    <3>5. /\ R.value[p].next \in Nat /\ R.value[b[k]].next \in Nat
          /\ R.value[b[i]].next \in Nat
      <4>1. /\ p \in 1..(Len(t) + 1) /\ b[k] \in 1..(Len(t) + 1)
            /\ b[i] \in 1..(Len(t) + 1)
        <5>1. b[k] \in 1..Len(t) /\ b[i] \in 1..Len(t) /\ Len(t) \in Nat
          BY <1>1, <2>1, <3>1
        <5>2. \A x \in 1..Len(t) : x \in 1..(Len(t) + 1)
          BY <5>1
        <5> QED BY <5>1, <5>2
      <4>2. \A x \in 1..(Len(t) + 1) : IsRead(R.value[x]) => R.value[x].next \in Nat
        <5>1. ASSUME NEW x \in 1..(Len(t) + 1), IsRead(R.value[x])
              PROVE  R.value[x].next \in Nat
          <6>1. R.value[x].next \in (x + 1)..(Len(t) + 1)
            BY <5>1, ValueFacts
          <6> QED BY <1>1, <6>1
        <5> QED BY <5>1
      <4>3. IsRead(R.value[b[i]])
        BY <1>8, <2>1
      <4> QED BY <3>3, <3>4, <4>1, <4>2, <4>3
    <3>6. R.value[p].next < R.value[b[i]].next
      <4>1. CASE i = k
        BY <3>4, <4>1
      <4>2. CASE i # k
        <5>1. R.value[b[k]].next < R.value[b[i]].next
          BY <3>3, <4>2
        <5> DEFINE x == R.value[p].next
                   y == R.value[b[k]].next
                   z == R.value[b[i]].next
        <5>2. x \in Nat /\ y \in Nat /\ z \in Nat /\ x < y /\ y < z
          BY <3>4, <3>5, <5>1
        <5> HIDE DEF x, y, z
        <5>3. x < z
          BY <5>2
        <5> QED BY <5>3 DEF x, z
      <4> QED BY <4>1, <4>2
    <3> QED BY <1>4, <2>1, <2>3, <3>4, <3>6
  <2> QED BY <2>2, <2>3
<1>9. p + 1 \in 1..(Len(t) + 1)
  BY <1>1
<1>10. ASSUME NEW i \in 1..(k + 1), NEW j \in 1..(k + 1), i < j
       PROVE  a[i] < a[j]
  <2>1. i \in 1..k /\ a[i] = b[i] /\ k \in 1..k
    BY <1>1, <1>4, <1>10
  <2>2. CASE j # k + 1
    <3>1. j \in 1..k /\ a[j] = b[j]
      BY <1>1, <1>4, <2>2
    <3> QED BY <1>10, <2>1, <3>1 DEF Stacked
  <2>3. CASE j = k + 1
    <3>1. b[k] < p /\ b[k] \in 1..Len(t) /\ b[i] \in 1..Len(t)
      BY <1>1, <2>1 DEF Stacked, Level
    <3>2. i # k => b[i] < b[k]
      <4>1. i # k => i < k
        BY <1>1, <2>1
      <4> QED BY <2>1, <4>1 DEF Stacked
    <3>3. b[i] < p
      BY <1>1, <3>1, <3>2
    <3> QED BY <1>4, <2>1, <2>3, <3>3
  <2> QED BY <2>2, <2>3
<1>11. Stacked(t, R, new, a, p + 1)
  BY <1>3, <1>4, <1>6, <1>7, <1>8, <1>9, <1>10 DEF Stacked
<1> QED BY <1>11 DEF new, a, c

\* handle_end_array and handle_end_map pop a context whose value is the one that
\* the text has there, and the context below waits for it.
LEMMA StackPop ==
  ASSUME NEW t, NEW R, Known(t, R), NEW ctx, NEW b, NEW p \in 1..Len(t),
         Stacked(t, R, ctx, b, p), ctx # <<>>, Ends(Last(ctx), t[p])
  PROVE  /\ Len(ctx) \in Nat \ {0}
         /\ b[Len(ctx)] \in 1..Len(t)
         /\ R.value[b[Len(ctx)]] = Read(Built(Last(ctx)), p + 1)
         /\ Stacked(t, R, Front(ctx), [j \in 1..(Len(ctx) - 1) |-> b[j]],
                    b[Len(ctx)])
         /\ ~NeedsKey(Front(ctx))
         /\ Len(Front(ctx)) = Len(ctx) - 1
<1> DEFINE k == Len(ctx)
           new == Front(ctx)
           a == [j \in 1..(k - 1) |-> b[j]]
<1>1. /\ ctx \in Seq(Contexts(t, R)) /\ k \in Nat /\ Len(t) \in Nat
      /\ b \in [1..k -> 1..Len(t)]
  BY DEF Stacked, Known
<1>2. k # 0 /\ k \in 1..k /\ b[k] \in 1..Len(t) /\ ctx[k] \in Contexts(t, R)
  BY <1>1, EmptySeq, ElementOfSeq
<1>3. R.value[b[k]] = Read(Built(ctx[k]), p + 1)
  <2>1. Level(t, R, ctx[k], b[k], p)
    BY <1>2 DEF Stacked
  <2>2. Ends(ctx[k], t[p])
    BY DEF Last
  <2> QED BY <1>2, <2>1, <2>2, RestEnds DEF Level
<1>4. /\ new \in Seq(Contexts(t, R)) /\ Len(new) = k - 1
      /\ \A j \in 1..(k - 1) : new[j] = ctx[j]
  <2>1. \A i \in 1..(k - 1) : ctx[i] \in Contexts(t, R)
    BY <1>1, ElementOfSeq
  <2>2. 1 \in Int /\ k - 1 \in Int /\ k - 1 >= 0
    BY <1>1, <1>2
  <2>3. /\ SubSeq(ctx, 1, k - 1) \in Seq(Contexts(t, R))
        /\ Len(SubSeq(ctx, 1, k - 1)) = IF 1 <= k - 1 THEN k - 1 - 1 + 1 ELSE 0
        /\ \A i \in 1..(k - 1 - 1 + 1) : SubSeq(ctx, 1, k - 1)[i] = ctx[1 + i - 1]
    BY <2>1, <2>2, SubSeqProperties
  <2>4. new = SubSeq(ctx, 1, k - 1)
    BY DEF Front
  <2>5. Len(new) = k - 1
    <3> HIDE DEF new, k
    <3> QED BY <2>2, <2>3, <2>4
  <2>6. \A i \in 1..(k - 1) : new[i] = ctx[i]
    <3> HIDE DEF new, k
    <3>1. \A i \in 1..(k - 1) : i \in 1..(k - 1 - 1 + 1) /\ 1 + i - 1 = i
      BY <2>2
    <3> QED BY <2>3, <2>4, <3>1
  <2> QED BY <2>3, <2>4, <2>5, <2>6
<1>5. a \in [1..(k - 1) -> 1..Len(t)] /\ \A j \in 1..(k - 1) : a[j] = b[j]
  BY <1>1
<1> HIDE DEF new, a
<1>6. ASSUME NEW j \in 1..(k - 1)
      PROVE  /\ Level(t, R, new[j], a[j], IF j = k - 1 THEN b[k] ELSE a[j + 1])
             /\ ~NeedsName(new[j])
  <2>1. j \in 1..k /\ j # k
    BY <1>1
  <2>2. Level(t, R, ctx[j], b[j], b[j + 1]) /\ ~NeedsName(ctx[j])
    BY <2>1 DEF Stacked
  <2>3. (IF j = k - 1 THEN b[k] ELSE a[j + 1]) = b[j + 1]
    BY <1>1, <1>5
  <2> QED BY <1>4, <1>5, <2>2, <2>3
<1>7. ASSUME NEW i \in 1..(k - 1), NEW j \in 1..(k - 1),
             i < j, IsRead(R.value[a[i]])
      PROVE  IsRead(R.value[a[j]]) /\ R.value[a[j]].next < R.value[a[i]].next
  <2>1. i \in 1..k /\ j \in 1..k /\ a[i] = b[i] /\ a[j] = b[j]
    BY <1>1, <1>5
  <2> QED BY <1>7, <2>1 DEF Stacked
<1>8. b[k] \in 1..(Len(t) + 1)
  BY <1>1, <1>2
<1>11. ASSUME NEW i \in 1..(k - 1), NEW j \in 1..(k - 1), i < j
       PROVE  a[i] < a[j]
  <2>1. i \in 1..k /\ j \in 1..k /\ a[i] = b[i] /\ a[j] = b[j]
    BY <1>1, <1>5
  <2> QED BY <1>11, <2>1 DEF Stacked
<1>9. Stacked(t, R, new, a, b[k])
  BY <1>4, <1>5, <1>6, <1>7, <1>8, <1>11 DEF Stacked
<1>10. ~NeedsKey(new)
  <2>1. CASE k - 1 \in 1..(k - 1)
    BY <1>4, <1>6, <2>1 DEF NeedsKey, Last
  <2>2. CASE k - 1 \notin 1..(k - 1)
    <3>1. Len(new) = 0
      BY <1>1, <1>2, <1>4, <2>2
    <3> QED BY <1>4, <3>1, EmptySeq DEF NeedsKey
  <2> QED BY <2>1, <2>2
<1> QED BY <1>1, <1>2, <1>3, <1>4, <1>9, <1>10 DEF new, a, Last

\* A handler that changes the innermost context and not the value it will be leaves
\* the contexts right.
LEMMA StackReplace ==
  ASSUME NEW t, NEW R, Known(t, R), NEW ctx, NEW b, NEW p \in 1..Len(t),
         Stacked(t, R, ctx, b, p), ctx # <<>>,
         NEW d \in Contexts(t, R), NEW n \in (p + 1)..(Len(t) + 1),
         Named(t, d, n), Rest(R, d, n) = Rest(R, Last(ctx), p)
  PROVE  Stacked(t, R, [ctx EXCEPT ![Len(ctx)] = d], b, n)
<1> DEFINE k == Len(ctx)
           new == [ctx EXCEPT ![k] = d]
<1>1. /\ ctx \in Seq(Contexts(t, R)) /\ k \in Nat /\ Len(t) \in Nat
      /\ b \in [1..k -> 1..Len(t)]
  BY DEF Stacked, Known
<1>2. k # 0 /\ k \in 1..k
  BY <1>1, EmptySeq
<1>3. /\ new \in Seq(Contexts(t, R)) /\ Len(new) = k /\ new[k] = d
      /\ \A j \in 1..k : j # k => new[j] = ctx[j]
  BY <1>1, <1>2, ExceptSeq
<1> HIDE DEF new
<1>4. ASSUME NEW j \in 1..k
      PROVE  Level(t, R, new[j], b[j], IF j = k THEN n ELSE b[j + 1])
  <2>1. Level(t, R, ctx[j], b[j], IF j = k THEN p ELSE b[j + 1])
    BY DEF Stacked
  <2>2. CASE j = k
    <3>1. b[k] < p /\ R.value[b[k]] = Rest(R, ctx[k], p) /\ b[k] \in 1..Len(t)
      BY <1>1, <1>2, <2>1, <2>2 DEF Level
    <3>2. b[k] < n
      BY <1>1, <3>1
    <3>3. R.value[b[k]] = Rest(R, d, n)
      BY <3>1 DEF Last
    <3> QED BY <1>3, <2>2, <3>2, <3>3 DEF Level
  <2>3. CASE j # k
    BY <1>3, <2>1, <2>3
  <2> QED BY <2>2, <2>3
<1>5. ASSUME NEW j \in 1..k, j # k
      PROVE  ~NeedsName(new[j])
  BY <1>3, <1>5 DEF Stacked
<1>6. n \in 1..(Len(t) + 1)
  BY <1>1
<1>7. \A i, j \in 1..k : i < j =>
        /\ b[i] < b[j]
        /\ IsRead(R.value[b[i]]) =>
             IsRead(R.value[b[j]]) /\ R.value[b[j]].next < R.value[b[i]].next
  BY DEF Stacked
<1>8. Stacked(t, R, new, b, n)
  BY <1>1, <1>3, <1>4, <1>5, <1>6, <1>7 DEF Stacked
<1> QED BY <1>8 DEF new

\* The innermost context is right by what follows the last event handled.
LEMMA StackTop ==
  ASSUME NEW t, NEW R, Known(t, R), NEW ctx, NEW b, NEW p,
         Stacked(t, R, ctx, b, p), ctx # <<>>
  PROVE  /\ Len(ctx) \in Nat \ {0}
         /\ Last(ctx) \in Contexts(t, R)
         /\ b[Len(ctx)] \in 1..Len(t)
         /\ Level(t, R, Last(ctx), b[Len(ctx)], p)
<1>1. /\ ctx \in Seq(Contexts(t, R)) /\ Len(ctx) \in Nat
      /\ b \in [1..Len(ctx) -> 1..Len(t)]
  BY DEF Stacked
<1>2. Len(ctx) # 0 /\ Len(ctx) \in 1..Len(ctx)
  BY <1>1, EmptySeq
<1> QED BY <1>1, <1>2, ElementOfSeq DEF Stacked, Last

\* AddValue to the innermost context leaves the contexts right.
LEMMA StackAdd ==
  ASSUME NEW t, NEW R, Known(t, R), NEW ctx, NEW b, NEW p \in 1..Len(t),
         Stacked(t, R, ctx, b, p), ctx # <<>>, ~NeedsKey(ctx), IsRead(R.value[p])
  PROVE  Stacked(t, R, [ctx EXCEPT ![Len(ctx)] = Added(@, R.value[p].value)],
                 b, R.value[p].next)
<1> DEFINE c == Last(ctx)
           v == R.value[p].value
           n == R.value[p].next
<1>1. c \in Contexts(t, R) /\ Named(t, c, p)
  BY StackTop DEF Level
<1>2. ~NeedsName(c)
  BY DEF NeedsKey
<1>3. /\ Added(c, v) \in Contexts(t, R) /\ Named(t, Added(c, v), n)
      /\ Rest(R, Added(c, v), n) = Rest(R, c, p)
  BY <1>1, <1>2, RestAdvances
<1>4. n \in (p + 1)..(Len(t) + 1)
  <2>1. p \in 1..(Len(t) + 1)
    BY DEF Known
  <2> QED BY <2>1, ValueFacts
<1>5. Stacked(t, R, [ctx EXCEPT ![Len(ctx)] = Added(c, v)], b, n)
  BY <1>3, <1>4, StackReplace
<1> QED BY <1>5 DEF Last

\* handle_map_key leaves the contexts right.
LEMMA StackName ==
  ASSUME NEW t, NEW R, Known(t, R), NEW ctx, NEW b, NEW p \in 1..Len(t),
         Stacked(t, R, ctx, b, p), NeedsKey(ctx), t[p].event = "map_key"
  PROVE  Stacked(t, R,
                 [ctx EXCEPT ![Len(ctx)] = ObjectContext(@.fields, {t[p].key})],
                 b, p + 1)
<1> DEFINE c == Last(ctx)
           d == ObjectContext(c.fields, {t[p].key})
<1>1. ctx # <<>> /\ NeedsName(c)
  BY DEF NeedsKey
<1>2. c \in Contexts(t, R)
  BY <1>1, StackTop
<1>3. /\ d \in Contexts(t, R) /\ Named(t, d, p + 1)
      /\ Rest(R, d, p + 1) = Rest(R, c, p)
  BY <1>1, <1>2, RestNamed
<1>4. p + 1 \in (p + 1)..(Len(t) + 1)
  BY DEF Known
<1>5. Stacked(t, R, [ctx EXCEPT ![Len(ctx)] = d], b, p + 1)
  BY <1>1, <1>3, <1>4, StackReplace
<1> QED BY <1>5 DEF Last

\* A stack whose innermost context cannot be a value has an outermost one that
\* cannot be a value either, and one that can ends after the event that is next.
LEMMA StackBottom ==
  ASSUME NEW t, NEW R, Known(t, R), NEW ctx, NEW b, NEW p,
         Stacked(t, R, ctx, b, p), ctx # <<>>, IsRead(R.value[b[1]])
  PROVE  /\ IsRead(Rest(R, Last(ctx), p))
         /\ Rest(R, Last(ctx), p).next <= R.value[b[1]].next
<1> DEFINE k == Len(ctx)
<1>1. /\ k \in Nat \ {0} /\ b[k] \in 1..Len(t)
      /\ R.value[b[k]] = Rest(R, Last(ctx), p)
  BY StackTop DEF Level
<1>2. 1 \in 1..k /\ k \in 1..k /\ b[1] \in 1..Len(t) /\ Len(t) \in Nat
  <2>1. b \in [1..k -> 1..Len(t)] /\ Len(t) \in Nat
    BY DEF Stacked, Known
  <2> HIDE DEF k
  <2>2. 1 \in 1..k /\ k \in 1..k
    BY <1>1
  <2> QED BY <2>1, <2>2
<1>3. CASE k = 1
  <2>1. R.value[b[1]].next \in Nat
    <3>1. b[1] \in 1..(Len(t) + 1)
      BY <1>2
    <3>2. R.value[b[1]].next \in (b[1] + 1)..(Len(t) + 1)
      BY <3>1, ValueFacts
    <3> QED BY <1>2, <3>2
  <2> QED BY <1>1, <1>3, <2>1
<1>4. CASE k # 1
  <2>1. 1 < k
    <3> HIDE DEF k
    <3> QED BY <1>1, <1>4
  <2>2. IsRead(R.value[b[k]]) /\ R.value[b[k]].next < R.value[b[1]].next
    BY <1>2, <2>1 DEF Stacked
  <2>3. R.value[b[k]].next \in Nat /\ R.value[b[1]].next \in Nat
    <3>1. b[1] \in 1..(Len(t) + 1) /\ b[k] \in 1..(Len(t) + 1)
      BY <1>1, <1>2
    <3>2. R.value[b[1]].next \in (b[1] + 1)..(Len(t) + 1)
      BY <3>1, ValueFacts
    <3>3. R.value[b[k]].next \in (b[k] + 1)..(Len(t) + 1)
      BY <2>2, <3>1, ValueFacts
    <3> QED BY <1>1, <1>2, <3>2, <3>3
  <2> QED BY <1>1, <2>2, <2>3
<1> QED BY <1>3, <1>4

\* A context that is open has not ended among the events handled.
LEMMA RestIsAhead ==
  ASSUME NEW t, NEW R, Known(t, R), NEW c \in Contexts(t, R),
         NEW p \in 1..(Len(t) + 1), Named(t, c, p), IsRead(Rest(R, c, p))
  PROVE  Rest(R, c, p).next > p
<1>0. Len(t) \in Nat
  BY DEF Known
<1>1. CASE c.kind = "array"
  <2>1. IsRead(R.elements[p]) /\ Rest(R, c, p).next = R.elements[p].next
    BY <1>1, ReadFields, NoValueIsNotRead DEF Rest
  <2>2. R.elements[p].next \in (p + 1)..(Len(t) + 1)
    BY <2>1, RestTypes
  <2> QED BY <1>0, <2>1, <2>2
<1>2. CASE c.kind = "object" /\ c.field_name = {}
  <2>1. IsRead(R.fields[p]) /\ Rest(R, c, p).next = R.fields[p].next
    BY <1>2, ReadFields, NoValueIsNotRead DEF Rest
  <2>2. R.fields[p].next \in (p + 1)..(Len(t) + 1)
    BY <2>1, RestTypes
  <2> QED BY <1>0, <2>1, <2>2
<1>3. CASE c.kind = "object" /\ c.field_name # {}
  <2>0. /\ p - 1 \in 1..Len(t) /\ p - 1 + 1 = p
        /\ t[p - 1].event = "map_key"
    BY <1>0, <1>3 DEF Named
  <2>1. IsRead(R.fields[p - 1]) /\ Rest(R, c, p).next = R.fields[p - 1].next
    BY <1>3, <2>0, ReadFields, NoValueIsNotRead DEF Rest
  <2>2. /\ IsRead(R.value[p]) /\ IsRead(R.fields[R.value[p].next])
        /\ R.fields[p - 1].next = R.fields[R.value[p].next].next
    BY <2>0, <2>1, FieldsStep, ReadFields, NoValueIsNotRead
  <2>3. R.value[p].next \in (p + 1)..(Len(t) + 1)
    BY <2>2, ValueFacts
  <2>4. R.fields[R.value[p].next].next
          \in (R.value[p].next + 1)..(Len(t) + 1)
    <3>1. R.value[p].next \in 1..(Len(t) + 1)
      BY <1>0, <2>3
    <3> QED BY <2>2, <3>1, RestTypes
  <2> DEFINE n == R.value[p].next
             e == R.fields[R.value[p].next].next
  <2>5. Rest(R, c, p).next = e
    BY <2>1, <2>2
  <2>6. n \in (p + 1)..(Len(t) + 1) /\ e \in (n + 1)..(Len(t) + 1)
    BY <2>3, <2>4
  <2> HIDE DEF n, e
  <2>7. e > p
    BY <1>0, <2>6
  <2> QED BY <2>5, <2>7
<1> QED BY <1>1, <1>2, <1>3 DEF Contexts

\* The values gathered so far, q being the event where the next one begins and
\* m events having been handled.
Gathered(t, R, d, q, m) ==
  /\ d \in Seq(ReadValues(t, R))
  /\ \A n \in m..Len(t) :
       /\ R.all[n][1].values = d \o R.all[n][q].values
       /\ R.all[n][1].whole = R.all[n][q].whole

\* Reading: the values from i on within the first n events are values of the text.
LEMMA AllTypes ==
  ASSUME NEW t, NEW R, Known(t, R), NEW n \in 0..Len(t), NEW i \in 1..(Len(t) + 1)
  PROVE  /\ R.all[n][i] = AllAt(R, n, i)
         /\ R.all[n][i].values \in Seq(ReadValues(t, R))
BY DEF Known, IsReading

\* Reading: a value within the first n events is followed by the values behind it.
LEMMA AllWithin ==
  ASSUME NEW t, NEW R, Known(t, R), NEW n \in 0..Len(t), NEW i \in 1..(Len(t) + 1),
         IsRead(R.value[i]), R.value[i].next <= n + 1
  PROVE  R.all[n][i] = Followed(R.value[i], R.all[n][R.value[i].next])
<1>1. R.all[n][i] = AllAt(R, n, i)
  BY AllTypes
<1> QED BY <1>1, Zenon DEF AllAt

\* Reading: the values of which r is the first.
LEMMA FollowedFields ==
  ASSUME NEW r, NEW rest
  PROVE  /\ Followed(r, rest).values = <<r.value>> \o rest.values
         /\ Followed(r, rest).whole = rest.whole
<1> DEFINE x == <<r.value>> \o rest.values
<1>1. Followed(r, rest) = [values |-> x, whole |-> rest.whole]
  BY DEF Followed
<1> HIDE DEF x
<1>2. Followed(r, rest).values = x /\ Followed(r, rest).whole = rest.whole
  BY <1>1
<1> QED BY <1>2 DEF x

\* Reading: where a value is missing or ends beyond the first n events, none is
\* found, and the n events are whole if they end just there.
LEMMA AllBeyond ==
  ASSUME NEW t, NEW R, Known(t, R), NEW n \in 0..Len(t), NEW i \in 1..(Len(t) + 1),
         ~(IsRead(R.value[i]) /\ R.value[i].next <= n + 1)
  PROVE  R.all[n][i].values = <<>> /\ R.all[n][i].whole = (i = n + 1)
<1>1. R.all[n][i] = AllAt(R, n, i)
  BY AllTypes
<1>2. R.all[n][i] = [values |-> <<>>, whole |-> (i = n + 1)]
  BY <1>1, Zenon DEF AllAt
<1> QED BY <1>2

\* At first the callback has been given nothing and every value lies ahead.
LEMMA GatheredInit ==
  ASSUME NEW t, NEW R, Known(t, R)
  PROVE  Gathered(t, R, <<>>, 1, 0)
<1>1. \A n \in 0..Len(t) : R.all[n][1].values \in Seq(ReadValues(t, R))
  <2>1. 1 \in 1..(Len(t) + 1)
    BY DEF Known
  <2> QED BY <2>1, AllTypes
<1>2. \A n \in 0..Len(t) : <<>> \o R.all[n][1].values = R.all[n][1].values
  BY <1>1, ConcatEmptySeq
<1> QED BY <1>2, EmptySeq DEF Gathered

\* An event inside a value leaves the values delivered as they are.
LEMMA GatheredLater ==
  ASSUME NEW t, NEW R, Known(t, R), NEW d, NEW q, NEW m \in Nat,
         Gathered(t, R, d, q, m)
  PROVE  Gathered(t, R, d, q, m + 1)
BY DEF Gathered, Known

\* A value that ends is delivered next, and no value between it and the last one is
\* left out.
LEMMA GatheredNext ==
  ASSUME NEW t, NEW R, Known(t, R), NEW d, NEW q \in 1..Len(t), NEW m \in Nat,
         Gathered(t, R, d, q, m), IsRead(R.value[q]), m < R.value[q].next
  PROVE  Gathered(t, R, Append(d, R.value[q].value), R.value[q].next,
                  R.value[q].next - 1)
<1> DEFINE v == R.value[q].value
           e == R.value[q].next
<1>1. /\ Len(t) \in Nat /\ q \in 1..(Len(t) + 1) /\ d \in Seq(ReadValues(t, R))
  BY DEF Known, Gathered
<1>2. v \in ReadValues(t, R) /\ e \in 1..(Len(t) + 1)
  <2>1. /\ v \in ReadValues(t, R)
        /\ R.value[q].next \in (q + 1)..(Len(t) + 1)
    BY <1>1, ValueFacts
  <2> QED BY <1>1, <2>1
<1>3. Append(d, v) \in Seq(ReadValues(t, R))
  BY <1>1, <1>2, AppendProperties
<1>4. ASSUME NEW n \in (e - 1)..Len(t)
      PROVE  /\ R.all[n][1].values = Append(d, v) \o R.all[n][e].values
             /\ R.all[n][1].whole = R.all[n][e].whole
  <2>1. n \in m..Len(t) /\ n \in 0..Len(t) /\ e <= n + 1
    BY <1>1, <1>2
  <2>2. /\ R.all[n][1].values = d \o R.all[n][q].values
        /\ R.all[n][1].whole = R.all[n][q].whole
    BY <2>1 DEF Gathered
  <2>3. /\ R.all[n][q].values = <<v>> \o R.all[n][e].values
        /\ R.all[n][q].whole = R.all[n][e].whole
    <3>1. R.all[n][q] = Followed(R.value[q], R.all[n][e])
      BY <1>1, <1>2, <2>1, AllWithin
    <3> DEFINE r == R.value[q]
               rest == R.all[n][e]
               x == <<r.value>> \o rest.values
    <3>2. Followed(r, rest).values = x /\ Followed(r, rest).whole = rest.whole
      <4> HIDE DEF r, rest
      <4> QED BY FollowedFields
    <3> HIDE DEF x
    <3>3. R.all[n][q].values = x /\ R.all[n][q].whole = R.all[n][e].whole
      BY <3>1, <3>2
    <3> QED BY <3>3 DEF x
  <2>4. R.all[n][e].values \in Seq(ReadValues(t, R))
    BY <1>2, <2>1, AllTypes
  <2>5. d \o (<<v>> \o R.all[n][e].values)
          = Append(d, v) \o R.all[n][e].values
    <3> DEFINE w == R.all[n][e].values
    <3>1. w \in Seq(ReadValues(t, R))
      BY <2>4
    <3>2. v \in ReadValues(t, R) /\ d \in Seq(ReadValues(t, R))
      BY <1>1, <1>2
    <3> DEFINE S == ReadValues(t, R)
    <3> HIDE DEF v, w, S
    <3>3. d \in Seq(S) /\ v \in S /\ w \in Seq(S)
      BY <3>1, <3>2 DEF S
    <3>4. d \o (<<v>> \o w) = Append(d, v) \o w
      BY <3>3, ConcatAppend
    <3> QED BY <3>4 DEF w
  <2> QED BY <2>2, <2>3, <2>5
<1> QED BY <1>3, <1>4 DEF Gathered


\* Where the value begins that the handlers are in.
Begun(ctx, b, p) == IF ctx = <<>> THEN p ELSE b[1]

\* After m events the contexts ctx, which the events b opened, are right, and d
\* are the values before them.
Parsed(t, R, b, ctx, d, m) ==
  /\ Stacked(t, R, ctx, b, m + 1)
  /\ Gathered(t, R, d, Begun(ctx, b, m + 1), m)

\* A value that ends with the next event goes to the context that waits for it, or to
\* the callback if no context is open.
LEMMA ValueAdded ==
  ASSUME NEW t, NEW R, Known(t, R), NEW ctx, NEW b, NEW d,
         NEW m \in 0..(Len(t) - 1), NEW q \in 1..(m + 1), NEW v,
         Stacked(t, R, ctx, b, q), Gathered(t, R, d, Begun(ctx, b, q), m),
         ~NeedsKey(ctx), R.value[q] = Read(v, m + 2)
  PROVE  /\ ctx # <<>> =>
              Parsed(t, R, b, [ctx EXCEPT ![Len(ctx)] = Added(@, v)], d, m + 1)
         /\ ctx = <<>> => Parsed(t, R, b, <<>>, Append(d, v), m + 1)
<1>1. /\ Len(t) \in Nat /\ m \in Nat /\ q \in 1..Len(t)
      /\ m + 2 = m + 1 + 1 /\ m + 2 \in 1..(Len(t) + 1) /\ m + 2 # 0
  BY DEF Known
<1>2. R.value[q].value = v /\ R.value[q].next = m + 2 /\ IsRead(R.value[q])
  BY <1>1, ReadFields DEF IsRead
<1>3. ASSUME ctx # <<>>
      PROVE  Parsed(t, R, b, [ctx EXCEPT ![Len(ctx)] = Added(@, v)], d, m + 1)
  <2> DEFINE new == [ctx EXCEPT ![Len(ctx)] = Added(@, v)]
  <2>1. Stacked(t, R, [ctx EXCEPT ![Len(ctx)] = Added(@, R.value[q].value)],
                b, R.value[q].next)
    BY <1>1, <1>2, <1>3, StackAdd
  <2>2. Stacked(t, R, new, b, m + 1 + 1)
    BY <1>1, <1>2, <2>1
  <2>3. new # <<>>
    <3>1. Len(ctx) \in 1..Len(ctx) /\ ctx \in Seq(Contexts(t, R))
      <4>1. Len(ctx) \in Nat \ {0}
        BY <1>3, StackTop
      <4> QED BY <4>1 DEF Stacked
    <3>2. DOMAIN new = DOMAIN ctx /\ DOMAIN ctx = 1..Len(ctx)
      BY <3>1
    <3>3. DOMAIN <<>> = {}
      OBVIOUS
    <3> QED BY <3>1, <3>2, <3>3
  <2>4. Begun(new, b, m + 1 + 1) = Begun(ctx, b, q)
    BY <1>3, <2>3 DEF Begun
  <2>5. Gathered(t, R, d, Begun(ctx, b, q), m + 1)
    BY <1>1, GatheredLater
  <2> QED BY <2>2, <2>4, <2>5 DEF Parsed
<1>4. ASSUME ctx = <<>>
      PROVE  Parsed(t, R, b, <<>>, Append(d, v), m + 1)
  <2>1. Gathered(t, R, d, q, m)
    BY <1>4 DEF Begun
  <2>2. m < R.value[q].next
    BY <1>1, <1>2
  <2>3. Gathered(t, R, Append(d, R.value[q].value), R.value[q].next,
                 R.value[q].next - 1)
    BY <1>1, <1>2, <2>1, <2>2, GatheredNext
  <2>4. m + 2 - 1 = m + 1
    BY <1>1
  <2>5. Gathered(t, R, Append(d, v), m + 1 + 1, m + 1)
    BY <1>1, <1>2, <2>3, <2>4
  <2>6. Stacked(t, R, <<>>, b, m + 1 + 1)
    BY <1>1, <1>4 DEF Stacked
  <2> QED BY <2>5, <2>6 DEF Parsed, Begun
<1> QED BY <1>3, <1>4

\* After handle_start_array or handle_start_map the events are parsed right.
LEMMA ContextPushed ==
  ASSUME NEW t, NEW R, Known(t, R), NEW ctx, NEW b, NEW d,
         NEW m \in 0..(Len(t) - 1), Parsed(t, R, b, ctx, d, m), ~NeedsKey(ctx),
         t[m + 1].event \in {"start_array", "start_map"}
  PROVE  \E a : Parsed(t, R, a, Append(ctx, Opened(t[m + 1])), d, m + 1)
<1> DEFINE k == Len(ctx)
           a == [j \in 1..(k + 1) |-> IF j = k + 1 THEN m + 1 ELSE b[j]]
           new == Append(ctx, Opened(t[m + 1]))
<1>1. Len(t) \in Nat /\ m \in Nat /\ m + 1 \in 1..Len(t)
  BY DEF Known
<1>2. Stacked(t, R, new, a, m + 1 + 1)
  BY <1>1, StackPush DEF Parsed
<1>3. /\ ctx \in Seq(Contexts(t, R)) /\ k \in Nat
      /\ Opened(t[m + 1]) \in Contexts(t, R)
  BY <1>1, RestOpens DEF Parsed, Stacked
<1>4. new # <<>>
  BY <1>3, AppendProperties
<1>5. a[1] = Begun(ctx, b, m + 1)
  <2>1. 1 \in 1..(k + 1)
    BY <1>3
  <2>2. ctx = <<>> <=> k = 0
    BY <1>3, EmptySeq
  <2> QED BY <2>1, <2>2 DEF Begun
<1>6. Begun(new, a, m + 1 + 1) = Begun(ctx, b, m + 1)
  BY <1>4, <1>5 DEF Begun
<1>7. Gathered(t, R, d, Begun(ctx, b, m + 1), m + 1)
  BY <1>1, GatheredLater DEF Parsed
<1> QED BY <1>2, <1>6, <1>7 DEF Parsed

\* After handle_map_key the events are parsed right.
LEMMA FieldNamed ==
  ASSUME NEW t, NEW R, Known(t, R), NEW ctx, NEW b, NEW d,
         NEW m \in 0..(Len(t) - 1), Parsed(t, R, b, ctx, d, m), NeedsKey(ctx),
         t[m + 1].event = "map_key"
  PROVE  Parsed(t, R, b,
                [ctx EXCEPT ![Len(ctx)] = ObjectContext(@.fields, {t[m + 1].key})],
                d, m + 1)
<1> DEFINE new == [ctx EXCEPT ![Len(ctx)] = ObjectContext(@.fields, {t[m + 1].key})]
<1>1. Len(t) \in Nat /\ m \in Nat /\ m + 1 \in 1..Len(t)
  BY DEF Known
<1>2. Stacked(t, R, ctx, b, m + 1) /\ ctx # <<>>
  BY DEF Parsed, NeedsKey
<1>3. Stacked(t, R, new, b, m + 1 + 1)
  BY <1>1, <1>2, StackName
<1>4. new # <<>>
  <2>1. Len(ctx) \in 1..Len(ctx) /\ ctx \in Seq(Contexts(t, R))
    <3>1. Len(ctx) \in Nat \ {0}
      BY <1>2, StackTop
    <3> QED BY <1>2, <3>1 DEF Stacked
  <2>2. DOMAIN new = DOMAIN ctx /\ DOMAIN ctx = 1..Len(ctx)
    BY <2>1
  <2>3. DOMAIN <<>> = {}
    OBVIOUS
  <2> QED BY <2>1, <2>2, <2>3
<1>5. Begun(new, b, m + 1 + 1) = Begun(ctx, b, m + 1)
  BY <1>2, <1>4 DEF Begun
<1>6. Gathered(t, R, d, Begun(ctx, b, m + 1), m + 1)
  BY <1>1, GatheredLater DEF Parsed
<1> QED BY <1>3, <1>5, <1>6 DEF Parsed

\* What yajl refuses is no value, whatever follows.
LEMMA RefusedIsNoValue ==
  ASSUME NEW t, NEW R, Known(t, R), NEW ctx, NEW b, NEW p \in 1..Len(t),
         Stacked(t, R, ctx, b, p),
         ~(IF NeedsKey(ctx) THEN t[p].event = "map_key" ELSE Begins(t[p])),
         ~(ctx # <<>> /\ Ends(Last(ctx), t[p]))
  PROVE  ~IsRead(R.value[Begun(ctx, b, p)])
<1>1. CASE ctx = <<>>
  <2>1. ~Begins(t[p])
    BY <1>1 DEF NeedsKey
  <2> QED BY <1>1, <2>1, ValueSteps, NoValueIsNotRead DEF Begun
<1>2. CASE ctx # <<>>
  <2>1. Last(ctx) \in Contexts(t, R) /\ Named(t, Last(ctx), p)
    BY <1>2, StackTop DEF Level
  <2>2. ~IsRead(Rest(R, Last(ctx), p))
    BY <1>2, <2>1, RestRefused DEF NeedsKey
  <2>3. ~IsRead(R.value[b[1]])
    BY <1>2, <2>2, StackBottom
  <2> QED BY <1>2, <2>3 DEF Begun
<1> QED BY <1>1, <1>2

\* The value that the handlers are in has begun, and has not ended among the events
\* handled.
LEMMA BegunIsAhead ==
  ASSUME NEW t, NEW R, Known(t, R), NEW ctx, NEW b, NEW d, NEW m \in 0..Len(t),
         Parsed(t, R, b, ctx, d, m)
  PROVE  LET q == Begun(ctx, b, m + 1)
         IN /\ q \in 1..(m + 1)
            /\ q = m + 1 <=> ctx = <<>>
            /\ ~(IsRead(R.value[q]) /\ R.value[q].next <= m + 1)
<1> DEFINE q == Begun(ctx, b, m + 1)
           k == Len(ctx)
<1>1. Len(t) \in Nat /\ m + 1 \in 1..(Len(t) + 1) /\ m + 1 \in 1..(m + 1)
  BY DEF Known
<1>2. Stacked(t, R, ctx, b, m + 1)
  BY DEF Parsed
<1>3. CASE ctx = <<>>
  <2>1. q = m + 1
    BY <1>3 DEF Begun
  <2>2. IsRead(R.value[m + 1]) => R.value[m + 1].next \in (m + 1 + 1)..(Len(t) + 1)
    BY <1>1, ValueFacts
  <2>3. ~(IsRead(R.value[m + 1]) /\ R.value[m + 1].next <= m + 1)
    BY <1>1, <2>2
  <2> QED BY <1>1, <1>3, <2>1, <2>3
<1>4. CASE ctx # <<>>
  <2>1. q = b[1]
    BY <1>4 DEF Begun
  <2>2. /\ k \in Nat \ {0} /\ b[k] \in 1..Len(t) /\ b[k] < m + 1
        /\ Last(ctx) \in Contexts(t, R) /\ Named(t, Last(ctx), m + 1)
    BY <1>2, <1>4, StackTop DEF Level
  <2>3. b[1] \in 1..Len(t) /\ b[1] < m + 1
    <3>1. b \in [1..k -> 1..Len(t)] /\ \A i, j \in 1..k : i < j => b[i] < b[j]
      BY <1>2 DEF Stacked
    <3> HIDE DEF k
    <3>2. 1 \in 1..k /\ k \in 1..k /\ (k = 1 \/ 1 < k)
      BY <2>2
    <3>3. b[1] = b[k] \/ b[1] < b[k]
      BY <3>1, <3>2
    <3>4. b[1] \in 1..Len(t)
      BY <3>1, <3>2
    <3> QED BY <1>1, <2>2, <3>3, <3>4
  <2>4. ~(IsRead(R.value[b[1]]) /\ R.value[b[1]].next <= m + 1)
    <3>1. ASSUME IsRead(R.value[b[1]])
          PROVE  R.value[b[1]].next > m + 1
      <4>1. /\ IsRead(Rest(R, Last(ctx), m + 1))
            /\ Rest(R, Last(ctx), m + 1).next <= R.value[b[1]].next
        BY <1>2, <1>4, <3>1, StackBottom
      <4>2. Rest(R, Last(ctx), m + 1).next > m + 1
        BY <1>1, <2>2, <4>1, RestIsAhead
      <4>3. R.value[b[1]].next \in Nat
        <5>1. b[1] \in 1..(Len(t) + 1)
          BY <1>1, <2>3
        <5>2. R.value[b[1]].next \in (b[1] + 1)..(Len(t) + 1)
          BY <3>1, <5>1, ValueFacts
        <5> QED BY <1>1, <2>3, <5>2
      <4>4. Rest(R, Last(ctx), m + 1).next \in Nat
        <5>1. Rest(R, Last(ctx), m + 1) = R.value[b[k]]
          BY <1>2, <1>4, StackTop DEF Level
        <5>2. b[k] \in 1..(Len(t) + 1)
          BY <1>1, <2>2
        <5>3. R.value[b[k]].next \in (b[k] + 1)..(Len(t) + 1)
          BY <4>1, <5>1, <5>2, ValueFacts
        <5> QED BY <1>1, <2>2, <5>1, <5>3
      <4> QED BY <1>1, <4>1, <4>2, <4>3, <4>4
    <3>2. IsRead(R.value[b[1]]) => R.value[b[1]].next \in Nat
      <4>1. b[1] \in 1..(Len(t) + 1)
        BY <1>1, <2>3
      <4>2. IsRead(R.value[b[1]]) =>
              R.value[b[1]].next \in (b[1] + 1)..(Len(t) + 1)
        BY <4>1, ValueFacts
      <4> QED BY <1>1, <2>3, <4>2
    <3> QED BY <1>1, <3>1, <3>2
  <2>5. b[1] \in 1..(m + 1) /\ b[1] # m + 1
    BY <1>1, <2>3
  <2> QED BY <1>4, <2>1, <2>4, <2>5
<1> QED BY <1>3, <1>4

\* What was delivered first is a prefix of what will have been delivered.
LEMMA PrefixOfConcat ==
  ASSUME NEW S, NEW u \in Seq(S), NEW w \in Seq(S)
  PROVE  /\ IsPrefix(u, u \o w)
         /\ \A i \in 1..Len(u) : i \in 1..Len(u \o w)
<1>1. /\ Len(u) \in Nat /\ Len(w) \in Nat
      /\ Len(u \o w) = Len(u) + Len(w)
  BY ConcatProperties
<1>2. SubSeq(u, 1, Len(u)) = SubSeq(u \o w, 1, Len(u))
  <2>1. CASE Len(u) = 0
    BY <2>1, SubSeqEmpty
  <2>2. CASE Len(u) # 0
    <3>1. 1 \in 1..Len(u) /\ Len(u) \in 1..Len(u)
      BY <1>1, <2>2
    <3> QED BY <3>1, SubSeqOfConcat1
  <2> QED BY <2>1, <2>2
<1> QED BY <1>1, <1>2 DEF IsPrefix

--------------------------------------------------------------------------------
\* The parts of the parser and of its client, and what they can be.
JsonTypeOK ==
  /\ text \in Texts
  /\ throws \in Nat
  /\ client \in {"watcher", "FromStream"}
  /\ fed \in 0..Len(text)
  /\ done \in 0..fed
  /\ context \in Seq(Contexts(text, Reading[text]))
  /\ delivered \in Seq(ReadValues(text, Reading[text]))
  /\ failed \in BOOLEAN
  /\ ending \in {"none", "completing", "accepted", "rejected", "aborted"}

\* A parser that has failed has met a value that is none, or has thrown.
Refused(b) == /\ done < fed
              /\ ~IsRead(Reading[text].value[Begun(context, b, done + 1)])

\* The contexts are those of the text, opened by some events of it, and what was
\* delivered are the values before them.
ParsedInv ==
  \E b \in [1..Len(context) -> 1..Len(text)] :
    /\ Parsed(text, Reading[text], b, context, delivered, done)
    /\ failed => Refused(b) \/ throws \in 1..Len(delivered)

\* How the stream ended tells whether the parser had failed and whether a value was
\* open.
EndingInv ==
  /\ ~failed => throws \notin 1..Len(delivered)
  /\ client = "FromStream" => throws = 0
  /\ fed > 0 /\ ending = "accepted" => ~failed /\ context = <<>> /\ done = fed
  /\ fed > 0 /\ ending = "rejected" => failed \/ (context # <<>> /\ done = fed)

\* The inductive invariant of the parser.
JsonInv == JsonTypeOK /\ ParsedInv /\ EndingInv

\* The reading of a text that arrives is its reading by the grammar.
LEMMA TextIsKnown ==
  ASSUME NEW t \in Texts
  PROVE  Known(t, Reading[t])
<1>1. t \in Seq(Range(t)) /\ IsReading(t, Reading[t])
  BY JsonAssumption
<1>2. Len(t) \in Nat
  BY <1>1, LenProperties
<1> QED BY <1>1, <1>2 DEF Known

\* While yajl parses there is an event to handle.
LEMMA ParsesFacts ==
  ASSUME JsonTypeOK, Parses
  PROVE  /\ Known(text, Reading[text])
         /\ Len(text) \in Nat /\ done \in 0..(Len(text) - 1)
         /\ done + 1 \in 0..fed /\ done < fed
         /\ failed = FALSE /\ ending \in {"none", "completing"}
<1>1. Known(text, Reading[text]) /\ Len(text) \in Nat
  BY TextIsKnown DEF JsonTypeOK, Known
<1>2. fed \in 0..Len(text) /\ done \in 0..fed /\ done < Limit
  BY DEF JsonTypeOK, Parses
<1>3. Limit <= fed
  BY <1>1, <1>2 DEF Limit
<1>4. done < fed
  BY <1>1, <1>2, <1>3 DEF Limit
<1>5. failed = FALSE /\ ending \in {"none", "completing"}
  BY DEF JsonTypeOK, Parses
<1> QED BY <1>1, <1>2, <1>4, <1>5

\* After a handler the invariant holds if the contexts and the values are right
\* for one event more.
LEMMA HandledStep ==
  ASSUME JsonInv, Parses, Handled, failed' \in BOOLEAN,
         NEW b, Parsed(text, Reading[text], b, context', delivered', done + 1),
         failed' => throws \in 1..Len(delivered'),
         ~failed' => throws \notin 1..Len(delivered')
  PROVE  JsonInv'
<1>1. /\ JsonTypeOK
      /\ text' = text /\ throws' = throws /\ client' = client /\ fed' = fed
      /\ ending' = ending /\ done' = done + 1
  BY DEF JsonInv, Handled
<1>2. done + 1 \in 0..fed /\ ending \in {"none", "completing"}
  BY <1>1, ParsesFacts
<1>3. /\ context' \in Seq(Contexts(text, Reading[text]))
      /\ delivered' \in Seq(ReadValues(text, Reading[text]))
      /\ b \in [1..Len(context') -> 1..Len(text)]
  BY DEF Parsed, Stacked, Gathered
<1>4. JsonTypeOK'
  BY <1>1, <1>2, <1>3 DEF JsonTypeOK
<1>5. ParsedInv'
  BY <1>1, <1>3 DEF ParsedInv
<1>6. EndingInv'
  BY <1>1, <1>2 DEF JsonInv, EndingInv
<1> QED BY <1>4, <1>5, <1>6 DEF JsonInv

\* AddValue gives the value to the callback or to the context below.
LEMMA AddValueStep ==
  ASSUME JsonInv, Parses, Handled, NEW ctx, NEW b, NEW q \in 1..(done + 1), NEW v,
         Stacked(text, Reading[text], ctx, b, q),
         Gathered(text, Reading[text], delivered, Begun(ctx, b, q), done),
         ~NeedsKey(ctx), Reading[text].value[q] = Read(v, done + 2),
         AddValue(ctx, v)
  PROVE  JsonInv'
<1> DEFINE R == Reading[text]
<1>1. /\ JsonTypeOK /\ Known(text, R) /\ done \in 0..(Len(text) - 1)
      /\ failed = FALSE /\ Len(text) \in Nat
  BY ParsesFacts DEF JsonInv
<1>2. /\ ctx # <<>> =>
           Parsed(text, R, b, [ctx EXCEPT ![Len(ctx)] = Added(@, v)], delivered,
                  done + 1)
      /\ ctx = <<>> => Parsed(text, R, b, <<>>, Append(delivered, v), done + 1)
  BY <1>1, ValueAdded
<1>3. throws \in Nat /\ throws \notin 1..Len(delivered)
  BY <1>1 DEF JsonInv, JsonTypeOK, EndingInv
<1>4. CASE ctx # <<>>
  <2>1. /\ context' = [ctx EXCEPT ![Len(ctx)] = Added(@, v)]
        /\ delivered' = delivered /\ failed' = failed
    BY <1>4 DEF AddValue
  <2>2. Parsed(text, R, b, context', delivered', done + 1)
    BY <1>2, <1>4, <2>1
  <2> QED BY <1>1, <1>3, <2>1, <2>2, HandledStep
<1>5. CASE ctx = <<>>
  <2>1. /\ context' = <<>> /\ delivered' = Append(delivered, v)
        /\ failed' = (Len(delivered) + 1 = throws)
    BY <1>5 DEF AddValue
  <2>2. Parsed(text, R, b, context', delivered', done + 1)
    BY <1>2, <1>5, <2>1
  <2>3. delivered \in Seq(ReadValues(text, R)) /\ v \in ReadValues(text, R)
    <3>1. q \in 1..(Len(text) + 1)
      BY <1>1
    <3>2. IsRead(R.value[q]) /\ R.value[q].value = v
      BY <1>1, ReadFields DEF IsRead
    <3> QED BY <1>1, <3>1, <3>2, ValueFacts DEF JsonTypeOK
  <2>4. Len(delivered) \in Nat /\ Len(delivered') = Len(delivered) + 1
    BY <2>1, <2>3, AppendProperties
  <2>5. failed' \in BOOLEAN /\ (failed' <=> throws \in 1..Len(delivered'))
    <3>1. (Len(delivered) + 1 = throws) <=> throws \in 1..(Len(delivered) + 1)
      BY <1>3, <2>4
    <3>2. (Len(delivered) + 1 = throws) \in BOOLEAN
      OBVIOUS
    <3> QED BY <2>1, <2>4, <3>1, <3>2, Zenon
  <2> QED BY <2>2, <2>5, HandledStep
<1> QED BY <1>4, <1>5

\* handle_null, handle_bool, handle_string, handle_integer and handle_double preserve
\* the invariant.
LEMMA ScalarStep ==
  ASSUME JsonInv, handle_scalar
  PROVE  JsonInv'
<1> DEFINE R == Reading[text]
<1>1. /\ Parses /\ Handled /\ ~NeedsKey(context) /\ IsScalar(Event)
      /\ AddValue(context, Scalar(Event))
  BY DEF handle_scalar
<1>2. /\ JsonTypeOK /\ Known(text, R) /\ done \in 0..(Len(text) - 1)
      /\ Len(text) \in Nat
  BY <1>1, ParsesFacts DEF JsonInv
<1>3. done + 1 \in 1..Len(text) /\ done + 1 \in 1..(done + 1) /\ done + 1 + 1 = done + 2
  BY <1>2
<1>4. R.value[done + 1] = Read(Scalar(Event), done + 2)
  <2>1. R.value[done + 1] = Read(Scalar(text[done + 1]), done + 1 + 1)
    BY <1>1, <1>2, <1>3, ValueSteps DEF Event
  <2> QED BY <1>3, <2>1 DEF Event
<1>5. PICK b : Parsed(text, R, b, context, delivered, done)
  BY DEF JsonInv, ParsedInv
<1>6. /\ Stacked(text, R, context, b, done + 1)
      /\ Gathered(text, R, delivered, Begun(context, b, done + 1), done)
  BY <1>5 DEF Parsed
<1> QED BY <1>1, <1>3, <1>4, <1>6, AddValueStep

\* handle_end_array and handle_end_map preserve the invariant.
LEMMA EndStep ==
  ASSUME JsonInv, handle_end
  PROVE  JsonInv'
<1> DEFINE R == Reading[text]
           k == Len(context)
<1>1. /\ Parses /\ Handled /\ context # <<>> /\ Ends(Last(context), Event)
      /\ AddValue(Front(context), Built(Last(context)))
  BY DEF handle_end
<1>2. /\ JsonTypeOK /\ Known(text, R) /\ done \in 0..(Len(text) - 1)
      /\ Len(text) \in Nat
  BY <1>1, ParsesFacts DEF JsonInv
<1>3. done + 1 \in 1..Len(text) /\ done + 1 + 1 = done + 2
  BY <1>2
<1>4. PICK b : Parsed(text, R, b, context, delivered, done)
  BY DEF JsonInv, ParsedInv
<1>5. /\ Stacked(text, R, context, b, done + 1)
      /\ Gathered(text, R, delivered, Begun(context, b, done + 1), done)
  BY <1>4 DEF Parsed
<1> DEFINE a == [j \in 1..(k - 1) |-> b[j]]
<1>6. Ends(Last(context), text[done + 1])
  BY <1>1 DEF Event
<1>7. /\ k \in Nat \ {0} /\ b[k] \in 1..Len(text)
      /\ R.value[b[k]] = Read(Built(Last(context)), done + 1 + 1)
      /\ Stacked(text, R, Front(context), a, b[k])
      /\ ~NeedsKey(Front(context))
      /\ Len(Front(context)) = k - 1
  BY <1>1, <1>2, <1>3, <1>5, <1>6, StackPop
<1>8. b[k] \in 1..(done + 1)
  <2>1. b[k] < done + 1
    BY <1>1, <1>2, <1>5, StackTop DEF Level
  <2> QED BY <1>2, <1>7, <2>1
<1>9. Begun(Front(context), a, b[k]) = Begun(context, b, done + 1)
  <2>0. Begun(context, b, done + 1) = b[1]
    BY <1>1 DEF Begun
  <2>1. Front(context) \in Seq(Contexts(text, R))
    BY <1>7 DEF Stacked
  <2>2. CASE k = 1
    <3>1. Front(context) = <<>>
      BY <1>7, <2>1, <2>2, EmptySeq
    <3> QED BY <2>0, <2>2, <3>1 DEF Begun
  <2>3. CASE k # 1
    <3>1. 1 \in 1..(k - 1) /\ k - 1 # 0
      <4> HIDE DEF k
      <4> QED BY <1>7, <2>3
    <3>2. Front(context) # <<>>
      BY <1>7, <3>1, EmptySeq
    <3>3. a[1] = b[1]
      BY <3>1
    <3> QED BY <2>0, <3>2, <3>3 DEF Begun
  <2> QED BY <2>2, <2>3
<1>10. Gathered(text, R, delivered, Begun(Front(context), a, b[k]), done)
  BY <1>5, <1>9
<1>11. R.value[b[k]] = Read(Built(Last(context)), done + 2)
  BY <1>3, <1>7
<1> HIDE DEF a, k, R
<1> QED BY <1>1, <1>7, <1>8, <1>10, <1>11, AddValueStep DEF R

\* handle_start_array and handle_start_map preserve the invariant.
LEMMA StartStep ==
  ASSUME JsonInv, handle_start
  PROVE  JsonInv'
<1> DEFINE R == Reading[text]
<1>1. /\ Parses /\ Handled /\ ~NeedsKey(context)
      /\ Event.event \in {"start_array", "start_map"}
      /\ context' = Append(context, Opened(Event))
      /\ delivered' = delivered /\ failed' = failed
  BY DEF handle_start
<1>2. /\ JsonTypeOK /\ Known(text, R) /\ done \in 0..(Len(text) - 1)
      /\ failed = FALSE
  BY <1>1, ParsesFacts DEF JsonInv
<1>3. PICK b : Parsed(text, R, b, context, delivered, done)
  BY DEF JsonInv, ParsedInv
<1>4. PICK a : Parsed(text, R, a, context', delivered', done + 1)
  BY <1>1, <1>2, <1>3, ContextPushed DEF Event
<1>5. throws \notin 1..Len(delivered')
  BY <1>1, <1>2 DEF JsonInv, EndingInv
<1> QED BY <1>1, <1>2, <1>4, <1>5, HandledStep

\* handle_map_key preserves the invariant.
LEMMA MapKeyStep ==
  ASSUME JsonInv, handle_map_key
  PROVE  JsonInv'
<1> DEFINE R == Reading[text]
<1>1. /\ Parses /\ Handled /\ NeedsKey(context) /\ Event.event = "map_key"
      /\ context' = [context EXCEPT ![Len(context)] =
                       ObjectContext(@.fields, {Event.key})]
      /\ delivered' = delivered /\ failed' = failed
  BY DEF handle_map_key
<1>2. /\ JsonTypeOK /\ Known(text, R) /\ done \in 0..(Len(text) - 1)
      /\ failed = FALSE
  BY <1>1, ParsesFacts DEF JsonInv
<1>3. PICK b : Parsed(text, R, b, context, delivered, done)
  BY DEF JsonInv, ParsedInv
<1>4. Parsed(text, R, b, context', delivered', done + 1)
  BY <1>1, <1>2, <1>3, FieldNamed DEF Event
<1>5. throws \notin 1..Len(delivered')
  BY <1>1, <1>2 DEF JsonInv, EndingInv
<1> QED BY <1>1, <1>2, <1>4, <1>5, HandledStep

\* A syntax error preserves the invariant: what yajl refuses begins no value of the
\* text.
LEMMA RefusalStep ==
  ASSUME JsonInv, YajlRefuses
  PROVE  JsonInv'
<1> DEFINE R == Reading[text]
<1>1. /\ Parses
      /\ ~(IF NeedsKey(context) THEN Event.event = "map_key" ELSE Begins(Event))
      /\ ~(context # <<>> /\ Ends(Last(context), Event))
      /\ failed' = TRUE
      /\ text' = text /\ throws' = throws /\ client' = client /\ fed' = fed
      /\ done' = done /\ context' = context /\ delivered' = delivered
      /\ ending' = ending
  BY DEF YajlRefuses
<1>2. /\ JsonTypeOK /\ Known(text, R) /\ done \in 0..(Len(text) - 1) /\ done < fed
      /\ Len(text) \in Nat /\ ending \in {"none", "completing"}
  BY <1>1, ParsesFacts DEF JsonInv
<1>3. PICK b \in [1..Len(context) -> 1..Len(text)] :
        Parsed(text, R, b, context, delivered, done)
  BY DEF JsonInv, ParsedInv
<1>4. ~IsRead(R.value[Begun(context, b, done + 1)])
  <2>1. done + 1 \in 1..Len(text) /\ Stacked(text, R, context, b, done + 1)
    BY <1>2, <1>3 DEF Parsed
  <2> QED BY <1>1, <1>2, <2>1, RefusedIsNoValue DEF Event
<1>5. JsonTypeOK'
  BY <1>1, <1>2 DEF JsonTypeOK
<1>6. ParsedInv'
  BY <1>1, <1>2, <1>3, <1>4 DEF ParsedInv, Refused
<1>7. EndingInv'
  BY <1>1, <1>2 DEF JsonInv, EndingInv
<1> QED BY <1>5, <1>6, <1>7 DEF JsonInv

\* A parser that has just been made has parsed nothing.
LEMMA JsonInitInv == JsonInit => JsonInv
<1> SUFFICES ASSUME JsonInit PROVE JsonInv
  OBVIOUS
<1> DEFINE R == Reading[text]
<1>1. /\ text \in Texts /\ fed = 0 /\ done = 0 /\ context = <<>>
      /\ delivered = <<>> /\ failed = FALSE /\ ending = "none"
  BY DEF JsonInit
<1>2. client \in {"watcher", "FromStream"}
  BY DEF JsonInit
<1>3. throws \in Nat /\ (client = "FromStream" => throws = 0)
  BY JsonAssumption DEF JsonInit
<1>4. Known(text, R) /\ Len(text) \in Nat
  BY <1>1, TextIsKnown DEF Known
<1>5. JsonTypeOK
  <2>1. /\ <<>> \in Seq(Contexts(text, Reading[text]))
        /\ <<>> \in Seq(ReadValues(text, Reading[text]))
    BY EmptySeq
  <2>2. /\ context \in Seq(Contexts(text, Reading[text]))
        /\ delivered \in Seq(ReadValues(text, Reading[text]))
    BY <1>1, <2>1
  <2>3. fed \in 0..Len(text) /\ done \in 0..fed
    BY <1>1, <1>4
  <2> QED BY <1>1, <1>2, <1>3, <2>2, <2>3 DEF JsonTypeOK
<1>6. ParsedInv
  <2> DEFINE b == [j \in 1..Len(<<>>) |-> 1]
  <2>1. b \in [1..Len(context) -> 1..Len(text)]
    BY <1>1
  <2>2. Gathered(text, R, <<>>, 1, 0)
    BY <1>4, GatheredInit
  <2>3. Stacked(text, R, <<>>, b, 1)
    BY <1>1, <1>4, <2>1 DEF Stacked
  <2>4. Parsed(text, R, b, <<>>, <<>>, 0)
    BY <2>2, <2>3 DEF Parsed, Begun
  <2> QED BY <1>1, <2>1, <2>4 DEF ParsedInv
<1>7. EndingInv
  BY <1>1, <1>3 DEF EndingInv
<1> QED BY <1>5, <1>6, <1>7 DEF JsonInv

\* Between two handlers only the amount that has arrived and the ending change.
LEMMA QuietJsonStep ==
  ASSUME JsonInv, fed' \in fed..Len(text),
         ending' \in {"none", "completing", "accepted", "rejected", "aborted"},
         UNCHANGED <<text, throws, client, done, context, delivered, failed>>,
         EndingInv'
  PROVE  JsonInv'
<1>1. /\ JsonTypeOK
      /\ text' = text /\ throws' = throws /\ client' = client /\ done' = done
      /\ context' = context /\ delivered' = delivered /\ failed' = failed
  BY DEF JsonInv
<1>2. Len(text) \in Nat
  BY <1>1, TextIsKnown DEF JsonTypeOK, Known
<1>3. JsonTypeOK'
  BY <1>1, <1>2 DEF JsonTypeOK
<1>4. PICK b \in [1..Len(context) -> 1..Len(text)] :
        /\ Parsed(text, Reading[text], b, context, delivered, done)
        /\ failed => Refused(b) \/ throws \in 1..Len(delivered)
  BY DEF JsonInv, ParsedInv
<1>5. Refused(b) => Refused(b)'
  BY <1>1, <1>2 DEF Refused, JsonTypeOK
<1>6. ParsedInv'
  BY <1>1, <1>4, <1>5 DEF ParsedInv
<1> QED BY <1>3, <1>6 DEF JsonInv

\* Every handler of the parser and every call of its client preserves the invariant.
LEMMA JsonStep == JsonInv /\ [JsonNext]_jsonVars => JsonInv'
<1> SUFFICES ASSUME JsonInv, [JsonNext]_jsonVars PROVE JsonInv'
  OBVIOUS
<1>a. JsonTypeOK /\ EndingInv
  BY DEF JsonInv
<1>b. fed \in fed..Len(text) /\ fed \in Nat /\ Len(text) \in Nat
  BY <1>a, TextIsKnown DEF JsonTypeOK, Known
<1>1. CASE handle_scalar
  BY <1>1, ScalarStep
<1>2. CASE handle_start
  BY <1>2, StartStep
<1>3. CASE handle_map_key
  BY <1>3, MapKeyStep
<1>4. CASE handle_end
  BY <1>4, EndStep
<1>5. CASE YajlRefuses
  BY <1>5, RefusalStep
<1>6. ASSUME NEW n \in (fed + 1)..Len(text), ParseStream(n)
      PROVE  JsonInv'
  <2>1. /\ fed' = n /\ ending = "none" /\ ending' = ending
        /\ UNCHANGED <<text, throws, client, done, context, delivered, failed>>
    BY <1>6 DEF ParseStream
  <2>2. fed' \in fed..Len(text)
    BY <1>b, <2>1
  <2>3. EndingInv'
    BY <1>a, <2>1 DEF EndingInv
  <2> QED BY <2>1, <2>2, <2>3, QuietJsonStep
<1>7. CASE NotifyEOF
  <2>1. /\ fed' = fed /\ ending' = "completing"
        /\ UNCHANGED <<text, throws, client, done, context, delivered, failed>>
    BY <1>7 DEF NotifyEOF
  <2>2. EndingInv'
    BY <1>a, <2>1 DEF EndingInv
  <2> QED BY <1>b, <2>1, <2>2, QuietJsonStep
<1>8. CASE Done
  <2>1. /\ fed' = fed /\ ending' \in CompleteParse /\ ending = "completing" /\ Returns
        /\ UNCHANGED <<text, throws, client, done, context, delivered, failed>>
    BY <1>8 DEF Done
  <2>2. failed \/ done = fed
    BY <2>1 DEF Returns, Limit
  <2>3. /\ ending' \in {"accepted", "rejected"}
        /\ fed > 0 /\ ending' = "accepted" => ~failed /\ context = <<>>
        /\ fed > 0 /\ ending' = "rejected" => failed \/ context # <<>>
    BY <1>b, <2>1 DEF CompleteParse
  <2>4. EndingInv'
    BY <1>a, <2>1, <2>2, <2>3 DEF EndingInv
  <2> QED BY <1>b, <2>1, <2>3, <2>4, QuietJsonStep
<1>9. CASE FromStreamThrows
  <2>1. /\ fed' = fed /\ ending' = "rejected" /\ failed
        /\ UNCHANGED <<text, throws, client, done, context, delivered, failed>>
    BY <1>9 DEF FromStreamThrows
  <2>2. EndingInv'
    BY <1>a, <2>1 DEF EndingInv
  <2> QED BY <1>b, <2>1, <2>2, QuietJsonStep
<1>10. CASE WatchFails
  <2>1. /\ fed' = fed /\ ending' = "aborted"
        /\ UNCHANGED <<text, throws, client, done, context, delivered, failed>>
    BY <1>10 DEF WatchFails
  <2>2. EndingInv'
    BY <1>a, <2>1 DEF EndingInv
  <2> QED BY <1>b, <2>1, <2>2, QuietJsonStep
<1>11. CASE UNCHANGED jsonVars
  BY <1>11 DEF jsonVars, JsonInv, JsonTypeOK, ParsedInv, Refused, EndingInv
<1> QED BY <1>1, <1>2, <1>3, <1>4, <1>5, <1>6, <1>7, <1>8, <1>9, <1>10, <1>11
        DEF JsonNext

\* Whatever texts arrive in whatever chunks, the open contexts of the parser are the
\* ones that the grammar demands, given what is to follow.
THEOREM JsonInvariant == JsonSpec => []JsonInv
<1>1. JsonInit => JsonInv
  BY JsonInitInv
<1>2. JsonInv /\ [JsonNext]_jsonVars => JsonInv'
  BY JsonStep
<1> QED BY <1>1, <1>2, PTL DEF JsonSpec

\* What the invariant says of the values within the events handled and within
\* those arrived.
LEMMA DeliveredFacts ==
  ASSUME JsonInv
  PROVE  /\ Len(text) \in Nat /\ fed \in 0..Len(text) /\ done \in 0..fed
         /\ delivered \in Seq(ReadValues(text, Reading[text]))
         /\ delivered = ValuesWithin(done)
         /\ \E w \in Seq(ReadValues(text, Reading[text])) :
              ValuesWithin(fed) = delivered \o w
         /\ IsWhole(done) <=> context = <<>>
         /\ failed /\ throws \notin 1..Len(delivered) => ~IsWhole(fed)
<1> DEFINE R == Reading[text]
<1>1. /\ JsonTypeOK /\ Known(text, R) /\ Len(text) \in Nat
      /\ fed \in 0..Len(text) /\ done \in 0..fed
      /\ delivered \in Seq(ReadValues(text, R))
  BY TextIsKnown DEF JsonInv, JsonTypeOK, Known
<1>2. PICK b : /\ Parsed(text, R, b, context, delivered, done)
               /\ failed => Refused(b) \/ throws \in 1..Len(delivered)
  BY DEF JsonInv, ParsedInv
<1> DEFINE q == Begun(context, b, done + 1)
<1>3. /\ done \in 0..Len(text) /\ fed \in done..Len(text)
      /\ done \in done..Len(text)
  BY <1>1
<1>4. /\ q \in 1..(done + 1)
      /\ q = done + 1 <=> context = <<>>
      /\ ~(IsRead(R.value[q]) /\ R.value[q].next <= done + 1)
  BY <1>1, <1>2, <1>3, BegunIsAhead
<1>5. q \in 1..(Len(text) + 1)
  BY <1>1, <1>4
<1>6. \A n \in done..Len(text) : /\ R.all[n][1].values = delivered \o R.all[n][q].values
                                 /\ R.all[n][1].whole = R.all[n][q].whole
  BY <1>2 DEF Parsed, Gathered
<1>7. R.all[done][q].values = <<>> /\ R.all[done][q].whole = (q = done + 1)
  BY <1>1, <1>3, <1>4, <1>5, AllBeyond
<1>8. delivered = ValuesWithin(done)
  <2>1. R.all[done][1].values = delivered \o <<>>
    BY <1>3, <1>6, <1>7
  <2> QED BY <1>1, <2>1, ConcatEmptySeq DEF ValuesWithin
<1>9. IsWhole(done) <=> context = <<>>
  <2>1. R.all[done][1].whole = (q = done + 1)
    BY <1>3, <1>6, <1>7
  <2> QED BY <1>4, <2>1 DEF IsWhole
<1>10. \E w \in Seq(ReadValues(text, R)) : ValuesWithin(fed) = delivered \o w
  <2>1. R.all[fed][q].values \in Seq(ReadValues(text, R))
    BY <1>1, <1>5, AllTypes
  <2> QED BY <1>3, <1>6, <2>1 DEF ValuesWithin
<1>11. ASSUME failed, throws \notin 1..Len(delivered)
       PROVE  ~IsWhole(fed)
  <2>1. done < fed /\ ~IsRead(R.value[q])
    BY <1>2, <1>11 DEF Refused
  <2>2. R.all[fed][q].whole = (q = fed + 1)
    <3>1. ~(IsRead(R.value[q]) /\ R.value[q].next <= fed + 1)
      BY <2>1
    <3> QED BY <1>1, <1>5, <3>1, AllBeyond
  <2>3. q # fed + 1
    BY <1>1, <1>4, <2>1
  <2>4. R.all[fed][1].whole = (q = fed + 1)
    BY <1>3, <1>6, <2>2
  <2> QED BY <2>3, <2>4 DEF IsWhole
<1> QED BY <1>1, <1>8, <1>9, <1>10, <1>11

\* However the text is cut into chunks, the handlers pass the values of the text to
\* the callback in order, each when its last event is parsed, and none after a syntax
\* error or an exception.
THEOREM ValuesComeInOrder == JsonSpec => []EventsInOrder
<1>1. JsonInv => EventsInOrder
  <2> SUFFICES ASSUME JsonInv PROVE EventsInOrder
    OBVIOUS
  <2>1. delivered = ValuesWithin(done)
    BY DeliveredFacts
  <2>2. PICK w \in Seq(ReadValues(text, Reading[text])) :
          ValuesWithin(fed) = delivered \o w
    BY DeliveredFacts
  <2>3. IsPrefix(delivered, ValuesWithin(fed))
    BY <2>2, DeliveredFacts, PrefixOfConcat
  <2> QED BY <2>1, <2>3 DEF EventsInOrder
<1> QED BY <1>1, JsonInvariant, PTL

\* NotifyEOF accepts the stream if and only if it was a whole number of values and
\* none failed, and FromStream returns a value if and only if there was just one.
THEOREM WholeTextsAreAccepted == JsonSpec => []WholeTextIsAccepted
<1>1. JsonInv => WholeTextIsAccepted
  <2> SUFFICES ASSUME JsonInv, ending \in {"accepted", "rejected"}, fed > 0
               PROVE  /\ ending = "accepted" <=>
                           IsWhole(fed) /\ throws \notin DOMAIN ValuesWithin(fed)
                      /\ client = "FromStream" =>
                           (FromStream = "value" <=>
                              IsWhole(fed) /\ Len(ValuesWithin(fed)) = 1)
    BY DEF WholeTextIsAccepted
  <2>1. CASE ending = "accepted"
    <3>1. ~failed /\ context = <<>> /\ done = fed /\ throws \notin 1..Len(delivered)
      BY <2>1 DEF JsonInv, EndingInv
    <3>2. delivered = ValuesWithin(fed) /\ IsWhole(fed)
      BY <3>1, DeliveredFacts
    <3>3. DOMAIN delivered = 1..Len(delivered) /\ Len(delivered) \in Nat
      BY DeliveredFacts, LenProperties
    <3>4. delivered = <<>> <=> Len(delivered) = 0
      BY DeliveredFacts, EmptySeq
    <3>5. FromStream = "value" <=> Len(delivered) = 1
      BY <2>1, <3>3, <3>4 DEF FromStream
    <3> QED BY <2>1, <3>1, <3>2, <3>3, <3>5
  <2>2. CASE ending = "rejected"
    <3>1. FromStream = "exception"
      BY <2>2 DEF FromStream
    <3>2. PICK w \in Seq(ReadValues(text, Reading[text])) :
            ValuesWithin(fed) = delivered \o w
      BY DeliveredFacts
    <3>3. DOMAIN ValuesWithin(fed) = 1..Len(ValuesWithin(fed))
      BY <3>2, DeliveredFacts, ConcatProperties, LenProperties
    <3>4. ~IsWhole(fed) \/ throws \in 1..Len(delivered)
      <4>1. failed \/ (context # <<>> /\ done = fed)
        BY <2>2 DEF JsonInv, EndingInv
      <4> QED BY <4>1, DeliveredFacts
    <3>5. throws \in 1..Len(delivered) => throws \in DOMAIN ValuesWithin(fed)
      BY <3>2, <3>3, DeliveredFacts, PrefixOfConcat
    <3>6. client = "FromStream" => ~IsWhole(fed)
      <4>1. client = "FromStream" => throws = 0
        BY DEF JsonInv, EndingInv
      <4>2. 0 \notin 1..Len(delivered)
        BY DeliveredFacts, LenProperties
      <4> QED BY <3>4, <4>1, <4>2
    <3> QED BY <2>2, <3>1, <3>4, <3>5, <3>6
  <2> QED BY <2>1, <2>2
<1> QED BY <1>1, JsonInvariant, PTL
================================================================================
