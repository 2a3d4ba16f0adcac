-------------------------------- MODULE Sse --------------------------------
(***************************************************************************)
(* The event stream as lines: what the server's frames look like           *)
(* (sse-starlette, from what server/app.py yields) and how cli/sse.py puts *)
(* them together again.  A line is its field and its value; the field of a *)
(* blank line is "blank" and that of a comment ":".                        *)
(***************************************************************************)
EXTENDS Integers, Sequences

Line(field, value) == [field |-> field, value |-> value]
Blank == Line("blank", 0)
Comment == Line(":", 0)

\* A frame as it is sent; one without an event name has the type "message".
ServerSentEvent(event, data) ==
    (IF event = "message" THEN <<>> ELSE <<Line("event", event)>>)
        \o <<Line("data", data), Blank>>

\* The parser: parse_sse's two locals and the frame it has just yielded, if any.
NewParser == [event |-> "message", data |-> <<>>, frame |-> <<>>]

\* Bugs the checks must catch: a blank line does not reset the event type.
ParseLineKeepingType(parser, line) ==
    CASE line.field = "blank" ->
           [parser EXCEPT !.data = <<>>,
                          !.frame = IF parser.data = <<>> THEN <<>>
                                    ELSE <<[event |-> parser.event, data |-> parser.data]>>]
      [] line.field = "event" -> [parser EXCEPT !.event = line.value, !.frame = <<>>]
      [] line.field = "data" -> [parser EXCEPT !.data = Append(@, line.value), !.frame = <<>>]
      [] OTHER -> [parser EXCEPT !.frame = <<>>]

\* Nor the data.
ParseLineKeepingData(parser, line) ==
    CASE line.field = "blank" ->
           [parser EXCEPT !.event = "message",
                          !.frame = IF parser.data = <<>> THEN <<>>
                                    ELSE <<[event |-> parser.event, data |-> parser.data]>>]
      [] line.field = "event" -> [parser EXCEPT !.event = line.value, !.frame = <<>>]
      [] line.field = "data" -> [parser EXCEPT !.data = Append(@, line.value), !.frame = <<>>]
      [] OTHER -> [parser EXCEPT !.frame = <<>>]

\* A blank line yields the frame, if it has data, and starts a new one; comments
\* and unknown fields are skipped.
ParseLine(parser, line) ==
    CASE line.field = "blank" ->
           [NewParser EXCEPT !.frame =
              IF parser.data = <<>> THEN <<>>
              ELSE <<[event |-> parser.event, data |-> parser.data]>>]
      [] line.field = "event" -> [parser EXCEPT !.event = line.value, !.frame = <<>>]
      [] line.field = "data" -> [parser EXCEPT !.data = Append(@, line.value), !.frame = <<>>]
      [] OTHER -> [parser EXCEPT !.frame = <<>>]
=============================================================================
