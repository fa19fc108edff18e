----------------------------- MODULE MCJsonParser ------------------------------
\* Values of every kind, numbers around a two-bit long long, nesting of depth
\* two; values that the generator refuses in an array and in both fields of an
\* object; texts with a repeated field, a stray bracket, a missing field name, an
\* integer out of range and a byte that begins no event.
EXTENDS JsonWriter

MCKeys == <<"kind", "object">>
MCLLMin == -2

One == Number(1, "none")
Numbers == {Number(n, "none") : n \in -3..2}
           \cup {Number(0, "fraction"), Number(0, "negative zero")}
Nested == Object([kind |-> Array(<<One, Null>>), object |-> Object(NoFields)])

Refusals == {Array(<<One, Number(0, "not finite")>>), String("not UTF-8"),
             Object([kind |-> String("not UTF-8"), object |-> One]),
             Object([kind |-> Null, object |-> Number(1, "not finite")])}

MCValues == Numbers \cup {Null, Array(<<>>), Array(<<Nested, String("s")>>),
                          Object([object |-> Boolean(TRUE)]), Nested} \cup Refusals

Wrapped(events) == <<Bare("start_map")>> \o events \o <<Bare("end_map")>>

OtherTexts ==
  { <<>>,
    Wrapped(<<Key("kind"), Bare("null"), Key("kind"), Integer(1)>>)
      \o Wrapped(<<>>),
    Wrapped(<<>>) \o <<Bare("end_array")>> \o Wrapped(<<>>),
    Wrapped(<<>>) \o Wrapped(<<Key("kind")>>),
    Wrapped(<<Bare("null")>>) \o Wrapped(<<>>),
    <<Bare("start_array"), Integer(2), Bare("end_array")>> \o Wrapped(<<>>),
    Wrapped(<<Key("kind"), Bare("garbage")>>) \o Wrapped(<<>>) }

MCTexts == OtherTexts \cup {TextOf[written] : written \in Writings}
MCReading == [t \in MCTexts |-> ReadingOf(t)]
================================================================================
