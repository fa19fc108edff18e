------------------------------ MODULE JsonWriter -------------------------------
(***************************************************************************)
(* Serialize of the JSON library (json.cc), and the parser on the texts it *)
(* writes.  The reading of a text is computed by recursive descent.        *)
(***************************************************************************)
EXTENDS JsonParser

CONSTANTS
  Keys,       \* field names, in the order of std::map
  Values,     \* values that are written and read back
  NotUTF8     \* strings that are not UTF-8

Key(k) == [event |-> "map_key", key |-> k]
Bare(e) == [event |-> e]

\* The calls of yajl_gen_...: fields in the order of the map, null values included.
RECURSIVE Calls(_)
Calls(v) ==
  CASE v.type \notin {"array", "object"} -> <<ScalarEvent(v)>>
    [] v.type = "array" ->
         <<Bare("start_array")>>
         \o FlattenSeq([i \in DOMAIN v.elements |-> Calls(v.elements[i])])
         \o <<Bare("end_array")>>
    [] v.type = "object" ->
         <<Bare("start_map")>>
         \o FlattenSeq([i \in DOMAIN Keys |->
              IF Keys[i] \in DOMAIN v.fields
              THEN <<Key(Keys[i])>> \o Calls(v.fields[Keys[i]]) ELSE <<>>])
         \o <<Bare("end_map")>>

\* A generator and the innermost of what it is in: a text to begin or done, an
\* array, or an object with a field name or a value next.
Within(g) == Last(g.open)
AfterValue(state) == CASE state = "start" -> "done" [] state = "key" -> "value"
                       [] state = "value" -> "key" [] OTHER -> state
Written(g, e) == [text |-> Append(g.text, e),
                  open |-> Append(Front(g.open), AfterValue(Within(g)))]
Enters(g, e, state) == [text |-> Append(g.text, e), open |-> Append(g.open, state)]
Leaves(g, e) == Written([g EXCEPT !.open = Front(@)], e)

\* What the generator refuses, with a status that nobody looks at: all after the
\* end of the text, a string that is not UTF-8, a number that is not finite, and
\* anything but a string for a field name.  (And nesting deeper than 128.)
Unwritable(e) == \/ e.event = "string" /\ e.string \in NotUTF8
                 \/ e.event = "map_key" /\ e.key \in NotUTF8
                 \/ e.event = "double" /\ e.number.rest = "not finite"
IsClose(e) == e.event \in {"end_array", "end_map"}
Refused(g, e) == \/ Within(g) = "done"
                 \/ Unwritable(e)
                 \/ Within(g) = "key" /\ e.event \notin {"string", "map_key"} /\ ~IsClose(e)

\* A call that is refused changes nothing: where a field's value was, the next field
\* name is written as a value.
Generate(g, e) ==
  CASE Refused(g, e) -> g
    [] ~Refused(g, e) /\ IsClose(e) -> Leaves(g, e)
    [] ~Refused(g, e) /\ e.event = "start_array" -> Enters(g, e, "element")
    [] ~Refused(g, e) /\ e.event = "start_map" -> Enters(g, e, "key")
    [] ~Refused(g, e) /\ e.event = "map_key" /\ Within(g) # "key" ->
         Written(g, ScalarEvent(String(e.key)))
    [] ~Refused(g, e) /\ e.event = "string" /\ Within(g) = "key" ->
         Written(g, Key(e.string))
    [] OTHER -> Written(g, e)

Serialize(v) == FoldLeft(Generate, [text |-> <<>>, open |-> <<"start">>], Calls(v)).text

\* A value of which all is written.
Writable(v) == \A i \in DOMAIN Calls(v) : ~Unwritable(Calls(v)[i])

\* One value, or two in a row, and their text.  Nothing is written between them, so
\* one is an array or an object: of two scalars yajl might make one.
Writings == {<<v>> : v \in Values}
            \cup {w \in Values \X Values :
                   \E i \in DOMAIN w : w[i].type \in {"array", "object"}}
TextOf == [written \in Writings |->
             FlattenSeq([i \in DOMAIN written |-> Serialize(written[i])])]

--------------------------------------------------------------------------------
\* The reading of a text.  RefElements and RefFields have read the elements and
\* the fields before event i.

RECURSIVE RefValue(_, _), RefElements(_, _, _), RefFields(_, _, _)
RefValue(t, i) ==
  LET wrapped(r, W(_)) == IF IsRead(r) THEN Read(W(r.value), r.next) ELSE NoValue
  IN CASE i > Len(t) -> NoValue
       [] i <= Len(t) /\ t[i].event = "start_array" ->
            wrapped(RefElements(t, i + 1, <<>>), Array)
       [] i <= Len(t) /\ t[i].event = "start_map" ->
            wrapped(RefFields(t, i + 1, NoFields), Object)
       [] i <= Len(t) /\ IsScalar(t[i]) -> Read(Scalar(t[i]), i + 1)
       [] OTHER -> NoValue

RefElements(t, i, elements) ==
  IF i <= Len(t) /\ t[i].event = "end_array" THEN Read(elements, i + 1)
  ELSE LET r == RefValue(t, i)
       IN IF IsRead(r) THEN RefElements(t, r.next, Append(elements, r.value))
          ELSE NoValue

RefFields(t, i, fields) ==
  IF i > Len(t) THEN NoValue
  ELSE IF t[i].event = "end_map" THEN Read(fields, i + 1)
  ELSE LET r == RefValue(t, i + 1)
       IN IF t[i].event = "map_key" /\ IsRead(r)
          THEN RefFields(t, r.next, Joined(fields, Field(t[i].key, r.value)))
          ELSE NoValue

RECURSIVE RefAll(_, _, _)
RefAll(t, n, i) ==
  LET r == RefValue(t, i)
  IN IF IsRead(r) /\ r.next <= n + 1
     THEN LET rest == RefAll(t, n, r.next)
          IN [rest EXCEPT !.values = <<r.value>> \o @]
     ELSE [values |-> <<>>, whole |-> (i = n + 1)]

ReadingOf(t) ==
  [value |-> [i \in 1..(Len(t) + 1) |-> RefValue(t, i)],
   elements |-> [i \in 1..(Len(t) + 1) |-> RefElements(t, i, <<>>)],
   fields |-> [i \in 1..(Len(t) + 1) |-> RefFields(t, i, NoFields)],
   all |-> [n \in 0..Len(t) |-> [i \in 1..(Len(t) + 1) |-> RefAll(t, n, i)]]]

--------------------------------------------------------------------------------
\* A text that Serialize wrote of values that the generator accepts is read back
\* as these values: numbers at the edge of long long, fractions and the negative
\* zero keep their value although they are written in two ways.
RoundTrip ==
  ending \in {"accepted", "rejected"} /\ fed = Len(text) /\ throws = 0 =>
    \A written \in Writings :
      text = TextOf[written] /\ (\A i \in DOMAIN written : Writable(written[i]))
      => ending = "accepted" /\ delivered = written
================================================================================
