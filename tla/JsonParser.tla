------------------------------ MODULE JsonParser -------------------------------
(***************************************************************************)
(* The parser of the JSON library (json.h, json.cc) as its clients use it. *)
(* A text arrives in chunks; yajl cuts it into events, and the handlers    *)
(* build values on a stack of contexts and pass each finished one to a     *)
(* callback.  The client is a Watcher of the Kubernetes reader             *)
(* (kubernetes.cc), which keeps one parser for the events of a connection  *)
(* and goes on after an exception, or FromStream, which reads one value.   *)
(*                                                                         *)
(* A text is a sequence of events: which bytes make up an event is yajl's  *)
(* business, except that a number ends only with the byte that follows it. *)
(***************************************************************************)
EXTENDS Integers, SequencesExt

CONSTANTS
  Texts,    \* the texts that arrive
  Reading,  \* Reading[t]: the values of a text t, by its grammar
  Throws,   \* which value the callback may throw on, 0 for none
  LLMin,    \* numeric_limits<long long>::min()
  LLMax     \* numeric_limits<long long>::max()

\* A number is an integer part and what there is besides: nothing, a fraction,
\* or the sign of a negative zero.
Null == [type |-> "null"]
Boolean(b) == [type |-> "boolean", boolean |-> b]
Number(n, rest) == [type |-> "number", int |-> n, rest |-> rest]
String(s) == [type |-> "string", string |-> s]
Array(elements) == [type |-> "array", elements |-> elements]
Object(fields) == [type |-> "object", fields |-> fields]

Scalar(e) ==
  CASE e.event = "null" -> Null
    [] e.event = "boolean" -> Boolean(e.boolean)
    [] e.event = "string" -> String(e.string)
    [] e.event = "integer" -> Number(e.int, "none")
    [] e.event = "double" -> e.number

\* The events that yajl takes for a value or its beginning: no integer out of
\* range is one.
IsScalar(e) == \/ e.event \in {"null", "boolean", "string", "double"}
               \/ e.event = "integer" /\ e.int \in LLMin..LLMax
Begins(e) == IsScalar(e) \/ e.event \in {"start_array", "start_map"}

\* A plausible bug: the range of long long is not looked at.
HasNoRest(number) == number.rest = "none"

IsEffectivelyInteger(number) ==
  number.rest = "none" /\ number.int \in LLMin..LLMax

\* An integer is all that yajl_gen_integer gets of a number.
Integer(n) == [event |-> "integer", int |-> n]
Double(number) == [event |-> "double", number |-> number]

\* What Serialize writes for a scalar.
ScalarEvent(v) ==
  CASE v.type = "null" -> [event |-> "null"]
    [] v.type = "boolean" -> [event |-> "boolean", boolean |-> v.boolean]
    [] v.type = "string" -> [event |-> "string", string |-> v.string]
    [] v.type = "number" ->
         IF IsEffectivelyInteger(v) THEN Integer(v.int) ELSE Double(v)

--------------------------------------------------------------------------------
\* The grammar.  The reading R of a text t says for every event i of it which
\* value, which rest of an array and which rest of an object begins there, and
\* where the next one begins; and for every n, which values a reader who knows
\* the first n events finds from i on, and whether they end with event n.  Each
\* is given by what begins later, so a text has just one reading.

Read(v, next) == [value |-> v, next |-> next]
NoValue == Read(Null, 0)
IsRead(r) == r.next # 0

NoFields == [k \in {} |-> Null]

\* The first value of a repeated field counts.
Joined(fields, more) == [k \in DOMAIN fields \cup DOMAIN more |->
                           IF k \in DOMAIN fields THEN fields[k] ELSE more[k]]
Field(k, v) == [x \in {k} |-> v]

ValueAt(t, R, i) ==
  CASE i > Len(t) -> NoValue
    [] i <= Len(t) /\ t[i].event = "start_array" /\ IsRead(R.elements[i + 1]) ->
         Read(Array(R.elements[i + 1].value), R.elements[i + 1].next)
    [] i <= Len(t) /\ t[i].event = "start_map" /\ IsRead(R.fields[i + 1]) ->
         Read(Object(R.fields[i + 1].value), R.fields[i + 1].next)
    [] i <= Len(t) /\ IsScalar(t[i]) -> Read(Scalar(t[i]), i + 1)
    [] OTHER -> NoValue

ElementsAt(t, R, i) ==
  LET r == R.value[i]
      rest == R.elements[r.next]
  IN IF i <= Len(t) /\ t[i].event = "end_array" THEN Read(<<>>, i + 1)
     ELSE IF IsRead(r) /\ IsRead(rest)
     THEN Read(<<r.value>> \o rest.value, rest.next)
     ELSE NoValue

FieldsAt(t, R, i) ==
  LET r == R.value[i + 1]
      rest == R.fields[r.next]
  IN IF i <= Len(t) /\ t[i].event = "end_map" THEN Read(NoFields, i + 1)
     ELSE IF i <= Len(t) /\ t[i].event = "map_key" /\ IsRead(r) /\ IsRead(rest)
     THEN Read(Joined(Field(t[i].key, r.value), rest.value), rest.next)
     ELSE NoValue

Followed(r, rest) == [values |-> <<r.value>> \o rest.values, whole |-> rest.whole]

AllAt(R, n, i) == LET r == R.value[i]
                  IN IF IsRead(r) /\ r.next <= n + 1
                     THEN Followed(r, R.all[n][r.next])
                     ELSE [values |-> <<>>, whole |-> (i = n + 1)]

ReadValues(t, R) ==
  {R.value[i].value : i \in {j \in 1..(Len(t) + 1) : IsRead(R.value[j])}}

IsReading(t, R) ==
  LET later(i) == {0} \cup ((i + 1)..(Len(t) + 1))
  IN \A i \in 1..(Len(t) + 1) :
       /\ R.value[i] = ValueAt(t, R, i) /\ R.value[i].next \in later(i)
       /\ R.elements[i] = ElementsAt(t, R, i) /\ R.elements[i].next \in later(i)
       /\ R.fields[i] = FieldsAt(t, R, i) /\ R.fields[i].next \in later(i)
       /\ IsRead(R.elements[i]) => R.elements[i].value \in Seq(ReadValues(t, R))
       /\ \A n \in 0..Len(t) : /\ R.all[n][i] = AllAt(R, n, i)
                               /\ R.all[n][i].values \in Seq(ReadValues(t, R))

ASSUME JsonAssumption ==
  /\ \A t \in Texts : t \in Seq(Range(t)) /\ IsReading(t, Reading[t])
  /\ Throws \subseteq Nat

--------------------------------------------------------------------------------
VARIABLES
  text,       \* the text, complete
  throws,     \* the callback throws on this value, 0 for none
  client,     \* who parses
  fed,        \* events of the text that have arrived
  done,       \* events that the handlers have been given
  context,    \* context_: the contexts above the CallbackContext, innermost last
  delivered,  \* values passed to the callback
  failed,     \* yajl has refused an event, or the callback has thrown
  ending      \* how the stream ended

jsonVars == <<text, throws, client, fed, done, context, delivered, failed, ending>>

\* The values of the text that end within its first n events, and whether they
\* are all that those events are.
ValuesWithin(n) == Reading[text].all[n][1].values
IsWhole(n) == Reading[text].all[n][1].whole

\* The events of a watch are objects.  (Other texts are left out for a Watcher: for
\* a scalar at the top the exception of its callback leaves yajl between two values,
\* able to go on.)
Watched == /\ text # <<>> /\ Head(text).event = "start_map"
           /\ \A i \in DOMAIN ValuesWithin(Len(text)) :
                ValuesWithin(Len(text))[i].type = "object"

JsonInit ==
  /\ text \in Texts
  /\ client \in IF Watched THEN {"watcher", "FromStream"} ELSE {"FromStream"}
  /\ throws \in IF client = "watcher" THEN Throws \cup {0} ELSE {0}
  /\ fed = 0
  /\ done = 0
  /\ context = <<>>
  /\ delivered = <<>>
  /\ failed = FALSE
  /\ ending = "none"

--------------------------------------------------------------------------------
\* The contexts.

ArrayContext(elements) == [kind |-> "array", elements |-> elements]
ObjectContext(fields, field_name) ==
  [kind |-> "object", fields |-> fields, field_name |-> field_name]

\* A plausible bug: assignment where the code has emplace.
Assigned(fields, k, v) == Joined(Field(k, v), fields)

\* fields.emplace(): the first value of a field stays.
Emplaced(fields, k, v) == Joined(fields, Field(k, v))

\* AddValue of an array or an object, which drops a value without a name.
Added(c, v) ==
  IF c.kind = "array" THEN ArrayContext(Append(c.elements, v))
  ELSE IF c.field_name = {} THEN c
  ELSE ObjectContext(Emplaced(c.fields, CHOOSE k \in c.field_name : TRUE, v), {})

\* AddValue of the innermost of the contexts.  The callback of a Watcher may
\* throw: the exception passes through yajl before it has left the state of the
\* object that ends here, and the next object is a syntax error to it.
AddValue(contexts, v) ==
  IF contexts = <<>>
  THEN /\ context' = <<>>
       /\ delivered' = Append(delivered, v)
       /\ failed' = (Len(delivered) + 1 = throws)
  ELSE /\ context' = [contexts EXCEPT ![Len(contexts)] = Added(@, v)]
       /\ UNCHANGED <<delivered, failed>>

Opened(e) == IF e.event = "start_array" THEN ArrayContext(<<>>)
                                        ELSE ObjectContext(NoFields, {})

Built(c) == IF c.kind = "array" THEN Array(c.elements) ELSE Object(c.fields)

\* Where yajl is: at the top or in an array it waits for a value, in an object
\* for a field name and a value in turn.
NeedsName(c) == c.kind = "object" /\ c.field_name = {}
NeedsKey(contexts) == contexts # <<>> /\ NeedsName(Last(contexts))

--------------------------------------------------------------------------------
\* yajl parses what it was given, one event at a time.  A number at the end of a
\* chunk waits for what follows it, or for the end of the text.

IsNumber(e) == e.event \in {"integer", "double"}

Limit == IF ending = "none" /\ fed > 0 /\ IsNumber(text[fed]) THEN fed - 1 ELSE fed

Event == text[done + 1]

Parses == /\ ending \in {"none", "completing"}
          /\ ~failed /\ done < Limit

\* The parse is over: a parser that has failed takes nothing more, for yajl
\* keeps its error.
Returns == failed \/ done = Limit

Handled == /\ done' = done + 1
           /\ UNCHANGED <<text, throws, client, fed, ending>>

\* handle_null, handle_bool, handle_string, handle_integer, handle_double.
handle_scalar ==
  /\ Parses /\ ~NeedsKey(context) /\ IsScalar(Event)
  /\ AddValue(context, Scalar(Event))
  /\ Handled

\* handle_start_array, handle_start_map.
handle_start ==
  /\ Parses /\ ~NeedsKey(context) /\ Event.event \in {"start_array", "start_map"}
  /\ context' = Append(context, Opened(Event))
  /\ Handled /\ UNCHANGED <<delivered, failed>>

handle_map_key ==
  /\ Parses /\ NeedsKey(context) /\ Event.event = "map_key"
  /\ context' = [context EXCEPT ![Len(context)] =
                   ObjectContext(@.fields, {Event.key})]
  /\ Handled /\ UNCHANGED <<delivered, failed>>

\* The event ends the context.
Ends(c, e) == \/ e.event = "end_array" /\ c.kind = "array"
              \/ e.event = "end_map" /\ NeedsName(c)

\* handle_end_array, handle_end_map: the context is popped and its value added
\* to the one below.
handle_end ==
  /\ Parses /\ context # <<>> /\ Ends(Last(context), Event)
  /\ AddValue(Front(context), Built(Last(context)))
  /\ Handled

\* Any other event is a syntax error.
YajlRefuses ==
  /\ Parses
  /\ ~(IF NeedsKey(context) THEN Event.event = "map_key" ELSE Begins(Event))
  /\ ~(context # <<>> /\ Ends(Last(context), Event))
  /\ failed' = TRUE
  /\ UNCHANGED <<text, throws, client, fed, done, context, delivered, ending>>

--------------------------------------------------------------------------------
\* ParseStream on a chunk that ends with event n.  FromStream stops at the
\* first exception, a Watcher logs it and waits for the next chunk.
ParseStream(n) ==
  /\ ending = "none" /\ Returns
  /\ client = "FromStream" => ~failed
  /\ fed' = n
  /\ UNCHANGED <<text, throws, client, done, context, delivered, failed, ending>>

\* The end of the text, which may come early; it also ends a number.
NotifyEOF ==
  /\ ending = "none" /\ Returns
  /\ client = "FromStream" => ~failed
  /\ ending' = "completing"
  /\ UNCHANGED <<text, throws, client, fed, done, context, delivered, failed>>

\* A plausible bug: an unfinished value at the end is not noticed.
CompleteUnchecked == IF failed THEN {"rejected"} ELSE {"accepted"}

\* yajl_complete_parse: no value may be open.  Whether a text without any value
\* is accepted is left open.
CompleteParse == IF failed \/ context # <<>> THEN {"rejected"}
                 ELSE IF fed = 0 THEN {"accepted", "rejected"}
                 ELSE {"accepted"}

Done ==
  /\ ending = "completing" /\ Returns
  /\ ending' \in CompleteParse
  /\ UNCHANGED <<text, throws, client, fed, done, context, delivered, failed>>

\* ParseStream threw: so does FromStream.
FromStreamThrows ==
  /\ client = "FromStream" /\ failed
  /\ ending = "none"
  /\ ending' = "rejected"
  /\ UNCHANGED <<text, throws, client, fed, done, context, delivered, failed>>

\* The connection fails: a Watcher does not tell its parser.
WatchFails ==
  /\ client = "watcher"
  /\ ending = "none" /\ Returns
  /\ ending' = "aborted"
  /\ UNCHANGED <<text, throws, client, fed, done, context, delivered, failed>>

JsonNext == \/ handle_scalar \/ handle_start \/ handle_map_key \/ handle_end
            \/ YajlRefuses
            \/ \E n \in (fed + 1)..Len(text) : ParseStream(n)
            \/ NotifyEOF \/ Done \/ FromStreamThrows \/ WatchFails

JsonSpec == JsonInit /\ [][JsonNext]_jsonVars

\* What FromStream returns once the text has ended.
FromStream == IF ending = "rejected" \/ Len(delivered) > 1 THEN "exception"
              ELSE IF delivered = <<>> THEN "nullptr"
              ELSE "value"

--------------------------------------------------------------------------------
\* However the text is cut into chunks, the callback gets the values of the
\* text in order, each when its last event is parsed; after a malformed event
\* or an exception of the callback it gets none, so that a Watcher never
\* applies an event having missed an earlier one.
EventsInOrder ==
  /\ delivered = ValuesWithin(done)
  /\ IsPrefix(delivered, ValuesWithin(fed))

\* The end of the stream is accepted if and only if a whole number of values
\* has arrived and none of them failed, and FromStream returns a value if and
\* only if the text holds exactly one.
WholeTextIsAccepted ==
  ending \in {"accepted", "rejected"} /\ fed > 0 =>
    /\ ending = "accepted" <=>
         IsWhole(fed) /\ throws \notin DOMAIN ValuesWithin(fed)
    /\ client = "FromStream" =>
         (FromStream = "value" <=> IsWhole(fed) /\ Len(ValuesWithin(fed)) = 1)
================================================================================
