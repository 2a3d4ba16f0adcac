---------------------------- MODULE SystemProofs ----------------------------
(***************************************************************************)
(* Proofs about a listen run and its server, for every set of command      *)
(* lines and events, every size of the queue and every number of failures. *)
(***************************************************************************)
EXTENDS System, ListenProofs, Sums, SequenceTheorems

(* Lines, the parser's state and what is under way.                        *)

EventTypes == {"ready", "lag"}
Sendable ==
    [field : {"event"}, value : EventTypes] \cup [field : {"data"}, value : Nat]
        \cup {Blank, Comment}
Frames == [event : EventTypes \cup {"message"}, data : Seq(Nat)]
Parsers == [event : EventTypes \cup {"message"}, data : Seq(Nat), frame : Seq(Frames)]

LEMMA Kinds ==
    ASSUME NEW line \in Sendable
    PROVE  /\ line.field \in {"event", "data", "blank", ":"}
           /\ line.field = "event" => line.value \in EventTypes /\ line = Line("event", line.value)
           /\ line.field = "data" => line.value \in Nat /\ line = Line("data", line.value)
  <1>1. CASE line \in [field : {"event"}, value : EventTypes]
    <2>1. line = [field |-> line.field, value |-> line.value]
      BY <1>1
    <2>2. line.field = "event" /\ line.value \in EventTypes
      BY <1>1
    <2> QED BY <2>1, <2>2 DEF Line
  <1>2. CASE line \in [field : {"data"}, value : Nat]
    <2>1. line = [field |-> line.field, value |-> line.value]
      BY <1>2
    <2>2. line.field = "data" /\ line.value \in Nat
      BY <1>2
    <2> QED BY <2>1, <2>2 DEF Line
  <1>3. CASE line \in {Blank, Comment}
    <2>1. line.field = "blank" \/ line.field = ":"
      BY <1>3 DEF Blank, Comment, Line
    <2> QED BY <2>1
  <1> QED BY <1>1, <1>2, <1>3 DEF Sendable

LEMMA OneAndTwo == ASSUME NEW x, NEW y, NEW z PROVE <<x>> \o <<y, z>> = <<x, y, z>>
  <1> DEFINE S == {x, y, z}
  <1>1. /\ <<x>> \in Seq(S) /\ <<y, z>> \in Seq(S) /\ <<x, y, z>> \in Seq(S)
        /\ Len(<<x>>) = 1 /\ Len(<<y, z>>) = 2 /\ Len(<<x, y, z>>) = 3
        /\ <<x>>[1] = x /\ <<y, z>>[1] = y /\ <<y, z>>[2] = z
        /\ <<x, y, z>>[1] = x /\ <<x, y, z>>[2] = y /\ <<x, y, z>>[3] = z
    OBVIOUS
  <1>2. /\ <<x>> \o <<y, z>> \in Seq(S) /\ Len(<<x>> \o <<y, z>>) = 3
        /\ \A i \in 1..3 : (<<x>> \o <<y, z>>)[i] = IF i <= 1 THEN <<x>>[i] ELSE <<y, z>>[i - 1]
    BY <1>1, ConcatProperties
  <1> HIDE DEF S
  <1>3. \A i \in 1..3 : (<<x>> \o <<y, z>>)[i] = <<x, y, z>>[i]
    BY <1>1, <1>2
  <1> QED BY <1>1, <1>2, <1>3, SeqEqual

LEMMA FrameLines ==
    ASSUME NEW event, NEW n
    PROVE  /\ event # "message" =>
                ServerSentEvent(event, n) = <<Line("event", event), Line("data", n), Blank>>
           /\ event = "message" => ServerSentEvent(event, n) = <<Line("data", n), Blank>>
  <1> DEFINE tail == <<Line("data", n), Blank>>
             a == Line("event", event)
  <1>1. CASE event = "message"
    <2>1. ServerSentEvent(event, n) = <<>> \o tail
      BY <1>1 DEF ServerSentEvent
    <2> QED BY <2>1, <1>1
  <1>2. CASE event # "message"
    <2>1. ServerSentEvent(event, n) = <<a>> \o tail
      BY <1>2 DEF ServerSentEvent
    <2> QED BY <2>1, <1>2, OneAndTwo
  <1> QED BY <1>1, <1>2

LEMMA FramesSendable ==
    /\ ServerSentEvent("ready", 0) \in Seq(Sendable)
    /\ \A n \in Nat : ServerSentEvent("lag", n) \in Seq(Sendable)
    /\ \A n \in Nat : ServerSentEvent("message", n) \in Seq(Sendable)
    /\ <<Comment, Blank>> \in Seq(Sendable)
  <1>1. Blank \in Sendable /\ Comment \in Sendable
    BY DEF Sendable
  <1>2. "ready" \in EventTypes /\ "lag" \in EventTypes
    BY DEF EventTypes
  <1>3. ASSUME NEW e \in EventTypes PROVE Line("event", e) \in Sendable
    BY DEF Sendable, Line
  <1>4. ASSUME NEW n \in Nat PROVE Line("data", n) \in Sendable
    BY DEF Sendable, Line
  <1>5. \A a, b, c \in Sendable : <<a, b>> \in Seq(Sendable) /\ <<a, b, c>> \in Seq(Sendable)
    OBVIOUS
  <1>6. ASSUME NEW e \in EventTypes, NEW n \in Nat
        PROVE  ServerSentEvent(e, n) \in Seq(Sendable)
    <2>1. e # "message"
      BY DEF EventTypes
    <2> QED BY <1>1, <1>3, <1>4, <1>5, <2>1, FrameLines
  <1>7. ASSUME NEW n \in Nat PROVE ServerSentEvent("message", n) \in Seq(Sendable)
    BY <1>1, <1>4, <1>5, <1>7, FrameLines
  <1> QED BY <1>1, <1>2, <1>5, <1>6, <1>7

\* The part of the parser's state that a frame's lines become.
LEMMA BegunLines ==
    ASSUME NEW p \in Parsers
    PROVE  /\ Begun(p) \in Seq(Sendable)
           /\ p.event = "message" =>
                /\ Len(Begun(p)) = Len(p.data)
                /\ \A i \in 1..Len(p.data) : Begun(p)[i] = Line("data", p.data[i])
           /\ p.event # "message" =>
                /\ Len(Begun(p)) = Len(p.data) + 1
                /\ Begun(p)[1] = Line("event", p.event)
                /\ \A i \in 1..Len(p.data) : Begun(p)[i + 1] = Line("data", p.data[i])
  <1> DEFINE e == IF p.event = "message" THEN <<>> ELSE <<Line("event", p.event)>>
             d == [i \in 1..Len(p.data) |-> Line("data", p.data[i])]
  <1>1. p.event \in EventTypes \cup {"message"} /\ p.data \in Seq(Nat)
    BY DEF Parsers
  <1>2. d \in Seq(Sendable) /\ Len(d) = Len(p.data)
    BY <1>1 DEF Sendable, Line
  <1>3. e \in Seq(Sendable)
    <2>1. p.event # "message" => Line("event", p.event) \in Sendable
      BY <1>1 DEF Sendable, Line
    <2> QED BY <2>1
  <1>4. Begun(p) = e \o d
    BY DEF Begun
  <1>5. CASE p.event = "message"
    <2>1. Begun(p) = d
      BY <1>2, <1>4, <1>5, ConcatEmptySeq
    <2> QED BY <2>1, <1>2, <1>5
  <1>6. CASE p.event # "message"
    <2>1. Len(e) = 1 /\ e[1] = Line("event", p.event)
      BY <1>6
    <2> HIDE DEF e, d
    <2>2. /\ Begun(p) \in Seq(Sendable) /\ Len(Begun(p)) = 1 + Len(d)
          /\ \A i \in 1..1 + Len(d) : Begun(p)[i] = IF i <= 1 THEN e[i] ELSE d[i - 1]
      <3>1. /\ e \o d \in Seq(Sendable) /\ Len(e \o d) = Len(e) + Len(d)
            /\ \A i \in 1..Len(e) + Len(d) :
                 (e \o d)[i] = IF i <= Len(e) THEN e[i] ELSE d[i - Len(e)]
        BY <1>2, <1>3, ConcatProperties
      <3> QED BY <3>1, <1>4, <2>1
    <2>3. Len(d) \in Nat
      BY <1>2, LenProperties
    <2>4. Begun(p)[1] = e[1] /\ \A i \in 1..Len(d) : Begun(p)[i + 1] = d[i]
      BY <2>2, <2>3
    <2>5. \A i \in 1..Len(d) : d[i] = Line("data", p.data[i])
      BY <1>2 DEF d
    <2> QED BY <1>2, <1>6, <2>1, <2>2, <2>4, <2>5
  <1> QED BY <1>5, <1>6

LEMMA NothingBegun ==
    ASSUME NEW p \in Parsers
    PROVE  Begun(p) = <<>> <=> p.event = "message" /\ p.data = <<>>
  <1>1. p.data \in Seq(Nat)
    BY DEF Parsers
  <1>2. Len(Begun(p)) = 0 <=> p.event = "message" /\ Len(p.data) = 0
    BY <1>1, BegunLines, LenProperties
  <1> QED BY <1>1, <1>2, BegunLines, EmptySeq

\* A blank line ends what was begun, every other line but a comment adds to it.
LEMMA ParseBlank ==
    ASSUME NEW p \in Parsers, NEW line \in Sendable, line.field = "blank"
    PROVE  /\ ParseLine(p, line) \in Parsers /\ Begun(ParseLine(p, line)) = <<>>
           /\ ParseLine(p, line).frame =
                IF p.data = <<>> THEN <<>> ELSE <<[event |-> p.event, data |-> p.data]>>
  <1> DEFINE q == ParseLine(p, line)
             f == IF p.data = <<>> THEN <<>> ELSE <<[event |-> p.event, data |-> p.data]>>
  <1>1. q = [NewParser EXCEPT !.frame = f]
    BY DEF ParseLine
  <1>2. [event |-> p.event, data |-> p.data] \in Frames
    BY DEF Parsers, Frames
  <1>3. f \in Seq(Frames)
    BY <1>2
  <1>4. q = [event |-> "message", data |-> <<>>, frame |-> f]
    BY <1>1 DEF NewParser
  <1>5. q \in Parsers
    BY <1>3, <1>4 DEF Parsers
  <1> QED BY <1>4, <1>5, NothingBegun

LEMMA ParseComment ==
    ASSUME NEW p \in Parsers, NEW line \in Sendable, line.field = ":"
    PROVE  /\ ParseLine(p, line) \in Parsers /\ Begun(ParseLine(p, line)) = Begun(p)
           /\ ParseLine(p, line).frame = <<>>
  <1> DEFINE q == ParseLine(p, line)
  <1>1. q = [event |-> p.event, data |-> p.data, frame |-> <<>>]
    BY DEF ParseLine, Parsers
  <1>2. q \in Parsers
    <2>1. <<>> \in Seq(Frames)
      OBVIOUS
    <2> QED BY <1>1, <2>1 DEF Parsers
  <1>3. q.event = p.event /\ q.data = p.data /\ q.frame = <<>>
    BY <1>1
  <1>4. Begun(q) = Begun(p)
    BY <1>3 DEF Begun
  <1> QED BY <1>2, <1>3, <1>4

LEMMA ParseEvent ==
    ASSUME NEW p \in Parsers, NEW line \in Sendable, line.field = "event", Begun(p) = <<>>
    PROVE  /\ ParseLine(p, line) \in Parsers /\ Begun(ParseLine(p, line)) = <<line>>
           /\ ParseLine(p, line).frame = <<>>
  <1> DEFINE q == ParseLine(p, line)
  <1>1. p.data = <<>> /\ line.value \in EventTypes /\ line = Line("event", line.value)
    BY NothingBegun, Kinds
  <1>2. q = [p EXCEPT !.event = line.value, !.frame = <<>>]
    BY DEF ParseLine
  <1>3. q \in Parsers /\ q.event = line.value /\ q.data = <<>> /\ q.frame = <<>>
    <2>1. q = [event |-> line.value, data |-> p.data, frame |-> <<>>]
      BY <1>2 DEF Parsers
    <2>2. <<>> \in Seq(Frames) /\ p.data \in Seq(Nat)
      BY DEF Parsers
    <2> QED BY <1>1, <2>1, <2>2 DEF Parsers
  <1>4. q.event # "message"
    BY <1>1, <1>3 DEF EventTypes
  <1>5. Begun(q) \in Seq(Sendable) /\ Len(Begun(q)) = 1 /\ Begun(q)[1] = line
    <2> HIDE DEF q
    <2>1. /\ Begun(q) \in Seq(Sendable) /\ Len(Begun(q)) = Len(q.data) + 1
          /\ Begun(q)[1] = Line("event", q.event)
      BY <1>3, <1>4, BegunLines
    <2>2. Len(q.data) = 0
      BY <1>3
    <2> QED BY <1>1, <1>3, <2>1, <2>2
  <1>6. Begun(q) = <<line>>
    BY <1>5
  <1> QED BY <1>3, <1>6

LEMMA ParseData ==
    ASSUME NEW p \in Parsers, NEW line \in Sendable, line.field = "data"
    PROVE  /\ ParseLine(p, line) \in Parsers
           /\ Begun(ParseLine(p, line)) = Append(Begun(p), line)
           /\ ParseLine(p, line).frame = <<>>
  <1> DEFINE q == ParseLine(p, line)
             e == IF p.event = "message" THEN <<>> ELSE <<Line("event", p.event)>>
             d(data) == [i \in 1..Len(data) |-> Line("data", data[i])]
  <1>1. line.value \in Nat /\ line = Line("data", line.value)
    BY Kinds
  <1>2. q = [event |-> p.event, data |-> Append(p.data, line.value), frame |-> <<>>]
    BY DEF ParseLine, Parsers
  <1>3. p.data \in Seq(Nat) /\ p.event \in EventTypes \cup {"message"}
    BY DEF Parsers
  <1>4. q \in Parsers
    <2>1. <<>> \in Seq(Frames) /\ Append(p.data, line.value) \in Seq(Nat)
      BY <1>1, <1>3
    <2> QED BY <1>2, <1>3, <2>1 DEF Parsers
  <1>5. Begun(p) = e \o d(p.data) /\ Begun(q) = e \o d(Append(p.data, line.value))
    BY <1>2 DEF Begun
  <1>6. e \in Seq(Sendable)
    <2>1. p.event # "message" => Line("event", p.event) \in Sendable
      BY <1>3 DEF Sendable, Line
    <2> QED BY <2>1
  <1>7. ASSUME NEW data \in Seq(Nat)
        PROVE  d(data) \in Seq(Sendable) /\ Len(d(data)) = Len(data)
    BY DEF Sendable, Line
  <1>8. d(Append(p.data, line.value)) = Append(d(p.data), line)
    <2> DEFINE more == Append(p.data, line.value)
    <2>1. /\ more \in Seq(Nat) /\ Len(more) = Len(p.data) + 1 /\ Len(p.data) \in Nat
          /\ \A i \in 1..Len(p.data) : more[i] = p.data[i]
          /\ more[Len(p.data) + 1] = line.value
      BY <1>1, <1>3, AppendProperties, LenProperties
    <2> HIDE DEF more
    <2>2. /\ d(more) \in Seq(Sendable) /\ Len(d(more)) = Len(p.data) + 1
          /\ d(p.data) \in Seq(Sendable) /\ Len(d(p.data)) = Len(p.data)
      BY <1>3, <1>7, <2>1
    <2>3. /\ \A i \in 1..Len(p.data) : d(more)[i] = d(p.data)[i]
          /\ d(more)[Len(p.data) + 1] = line
      BY <1>1, <2>1
    <2> HIDE DEF d
    <2>4. /\ Append(d(p.data), line) \in Seq(Sendable)
          /\ Len(Append(d(p.data), line)) = Len(p.data) + 1
          /\ \A i \in 1..Len(p.data) : Append(d(p.data), line)[i] = d(p.data)[i]
          /\ Append(d(p.data), line)[Len(p.data) + 1] = line
      BY <2>2, AppendProperties
    <2>5. \A i \in 1..Len(p.data) + 1 : d(more)[i] = Append(d(p.data), line)[i]
      BY <2>1, <2>3, <2>4
    <2> QED BY <2>2, <2>4, <2>5, SeqEqual DEF more
  <1> HIDE DEF e, d
  <1>9. e \o Append(d(p.data), line) = Append(e \o d(p.data), line)
    <2>1. d(p.data) \in Seq(Sendable) /\ <<line>> \in Seq(Sendable)
      BY <1>3, <1>7
    <2>2. e \o d(p.data) \in Seq(Sendable)
      BY <1>6, <2>1, ConcatProperties
    <2>3. /\ Append(d(p.data), line) = d(p.data) \o <<line>>
          /\ Append(e \o d(p.data), line) = (e \o d(p.data)) \o <<line>>
      BY <2>1, <2>2, AppendIsConcat
    <2> QED BY <1>6, <2>1, <2>3, ConcatAssociative
  <1>10. Begun(q) = Append(Begun(p), line)
    BY <1>5, <1>8, <1>9
  <1>11. q.frame = <<>>
    BY <1>2
  <1> QED BY <1>4, <1>10, <1>11

-----------------------------------------------------------------------------
(* Sequences of lines: what they count, and how that changes when lines    *)
(* are added at the end or taken from the front.                           *)

\* A data line follows the event line, a blank line follows the data line.
Grammar(lines) ==
    \A i \in 1..Len(lines) - 1 :
        /\ lines[i].field = "event" =>
             /\ lines[i + 1].field = "data"
             /\ lines[i].value = "ready" => lines[i + 1].value = 0
        /\ lines[i].field \in {"data", ":"} => lines[i + 1].field = "blank"

Ended(lines) == lines = <<>> \/ lines[Len(lines)].field = "blank"

Counts(lines) == [i \in Named(lines) |-> lines[i].value]

LEMMA LagIsSum == \A lines : LagIn(lines) = Sum(Counts(lines), Named(lines))
  BY DEF LagIn, Counts, Sum

LEMMA DataOf ==
    ASSUME NEW U \in Seq(Sendable)
    PROVE  /\ Len(U) \in Nat
           /\ \A i \in 1..Len(U) : U[i] \in Sendable
           /\ \A i : i \in Named(U) <=> /\ i \in 1..Len(U) /\ U[i].field = "data"
                                        /\ i > 1 /\ U[i - 1].field = "event"
           /\ \A i : i \in Plain(U) <=> /\ i \in 1..Len(U) /\ U[i].field = "data"
                                        /\ i = 1 \/ U[i - 1].field # "event"
           /\ \A i \in Named(U) \cup Plain(U) : U[i].value \in Nat
           /\ IsFiniteSet(Named(U)) /\ IsFiniteSet(Plain(U))
           /\ \A i \in Named(U) : Counts(U)[i] = U[i].value
  <1>1. Len(U) \in Nat /\ \A i \in 1..Len(U) : U[i] \in Sendable
    BY LenProperties, ElementOfSeq
  <1>2. \A i : i \in Named(U) <=> /\ i \in 1..Len(U) /\ U[i].field = "data"
                                  /\ i > 1 /\ U[i - 1].field = "event"
    BY DEF Named, DataLines
  <1>3. \A i : i \in Plain(U) <=> /\ i \in 1..Len(U) /\ U[i].field = "data"
                                  /\ i = 1 \/ U[i - 1].field # "event"
    <2>1. \A i : i \in Plain(U) <=> /\ i \in 1..Len(U) /\ U[i].field = "data"
                                    /\ i \notin Named(U)
      BY DEF Plain, DataLines
    <2> QED BY <1>2, <2>1
  <1>4. \A i \in Named(U) \cup Plain(U) : U[i].value \in Nat
    BY <1>1, <1>2, <1>3, Kinds
  <1>5. IsFiniteSet(Named(U)) /\ IsFiniteSet(Plain(U))
    <2>1. Named(U) \in SUBSET (1..Len(U)) /\ Plain(U) \in SUBSET (1..Len(U))
      BY <1>2, <1>3
    <2>2. IsFiniteSet(1..Len(U))
      BY <1>1, FS_Interval
    <2> QED BY <2>1, <2>2, FS_Subset
  <1> QED BY <1>1, <1>2, <1>3, <1>4, <1>5 DEF Counts

LEMMA FirstData ==
    ASSUME NEW U \in Seq(Sendable), 1 \in 1..Len(U)
    PROVE  (1 \in Plain(U) <=> U[1].field = "data") /\ 1 \notin Named(U)
  BY DataOf

LEMMA LaterData ==
    ASSUME NEW U \in Seq(Sendable), NEW i \in 1..Len(U), i > 1
    PROVE  /\ i \in Plain(U) <=> U[i].field = "data" /\ U[i - 1].field # "event"
           /\ i \in Named(U) <=> U[i].field = "data" /\ U[i - 1].field = "event"
  <1>1. i # 1
    OBVIOUS
  <1>2. i \in Plain(U) <=> U[i].field = "data" /\ U[i - 1].field # "event"
    BY <1>1, DataOf
  <1>3. i \in Named(U) <=> U[i].field = "data" /\ U[i - 1].field = "event"
    BY DataOf
  <1> QED BY <1>2, <1>3

LEMMA LagType == ASSUME NEW U \in Seq(Sendable) PROVE LagIn(U) \in Int
  <1>1. \A i \in Named(U) : Counts(U)[i] \in Int
    BY DataOf
  <1> QED BY <1>1, DataOf, LagIsSum, SumType

LEMMA NoLines == Plain(<<>>) = {} /\ Named(<<>>) = {} /\ LagIn(<<>>) = 0
                   /\ Grammar(<<>>) /\ Ended(<<>>)
  <1>1. Plain(<<>>) = {} /\ Named(<<>>) = {}
    BY DEF Plain, Named, DataLines
  <1>2. LagIn(<<>>) = 0
    BY <1>1, LagIsSum, SumEmpty
  <1> QED BY <1>1, <1>2 DEF Grammar, Ended

MovedBy(S, k) == {i + k : i \in S}

\* The lag of lines that are found again k places further on.
LEMMA LagMoved ==
    ASSUME NEW U \in Seq(Sendable), NEW V \in Seq(Sendable), NEW k \in Int,
           \A i \in Named(U) : i + k \in Named(V) /\ V[i + k] = U[i]
    PROVE  LagIn(U) = Sum(Counts(V), MovedBy(Named(U), k))
  <1> DEFINE h == [i \in Named(U) |-> i + k]
  <1>1. IsFiniteSet(Named(U)) /\ \A i \in Named(U) : i \in Int
    BY DataOf
  <1>2. ASSUME NEW i \in Named(U)
        PROVE  Counts(U)[i] \in Int /\ Counts(U)[i] = Counts(V)[h[i]]
    <2>1. Counts(U)[i] = U[i].value /\ U[i].value \in Nat
      BY DataOf
    <2>2. Counts(V)[i + k] = V[i + k].value
      BY DataOf
    <2> QED BY <2>1, <2>2
  <1>3. \A i, j \in Named(U) : h[i] = h[j] => i = j
    BY <1>1
  <1>4. Sum(Counts(U), Named(U)) = Sum(Counts(V), {h[i] : i \in Named(U)})
    <2> DEFINE f == Counts(V)
               g == Counts(U)
               S == Named(U)
    <2>1. \A i \in S : g[i] \in Int /\ g[i] = f[h[i]]
      BY <1>2
    <2>2. IsFiniteSet(S) /\ \A i, j \in S : h[i] = h[j] => i = j
      BY <1>1, <1>3
    <2> HIDE DEF f, g, S, h
    <2>3. Sum(g, S) = Sum(f, {h[i] : i \in S})
      BY <2>1, <2>2, SumReindex
    <2> QED BY <2>3 DEF f, g, S
  <1>5. {h[i] : i \in Named(U)} = {i + k : i \in Named(U)}
    OBVIOUS
  <1> QED BY <1>4, <1>5, LagIsSum DEF MovedBy

\* Of the lines the first k are gone, and the last of them was not an event line.
Shifted(U, V, k) ==
    /\ Len(U) = Len(V) + k
    /\ \A i \in 1..Len(V) : V[i] = U[i + k]

LEMMA ShiftedData ==
    ASSUME NEW U \in Seq(Sendable), NEW V \in Seq(Sendable), NEW k \in Nat \ {0},
           k <= Len(U), Shifted(U, V, k), U[k].field # "event", Grammar(U)
    PROVE  /\ \A i : i \in Plain(V) <=> i + k \in Plain(U) /\ i \in 1..Len(V)
           /\ \A i : i \in Named(V) <=> i + k \in Named(U) /\ i \in 1..Len(V)
           /\ \A j \in 1..Len(U) : j > k => j - k \in 1..Len(V)
           /\ Grammar(V)
           /\ Ended(U) => Ended(V)
  <1>1. /\ Len(U) \in Nat /\ Len(V) \in Nat /\ Len(U) = Len(V) + k
        /\ \A i \in 1..Len(V) : V[i] = U[i + k] /\ i + k \in 1..Len(U)
    BY LenProperties DEF Shifted
  <1>2. ASSUME NEW i \in 1..Len(V)
        PROVE  /\ i \in Plain(V) <=> i + k \in Plain(U)
               /\ i \in Named(V) <=> i + k \in Named(U)
    <2>1. i + k > 1 /\ i + k \in 1..Len(U) /\ V[i] = U[i + k]
      BY <1>1
    <2>2. CASE i = 1
      <3>1. V[1].field = U[i + k].field /\ 1 \in 1..Len(V) /\ (i + k) - 1 = k
        BY <2>1, <2>2
      <3>2. (1 \in Plain(V) <=> V[1].field = "data") /\ 1 \notin Named(V)
        BY <3>1, FirstData
      <3>3. \A j \in 1..Len(U) : j > 1 =>
              /\ j \in Plain(U) <=> U[j].field = "data" /\ U[j - 1].field # "event"
              /\ j \in Named(U) <=> U[j].field = "data" /\ U[j - 1].field = "event"
        BY LaterData
      <3>4. (i + k \in Plain(U) <=> U[i + k].field = "data") /\ i + k \notin Named(U)
        BY <2>1, <3>1, <3>3
      <3> QED BY <2>2, <3>1, <3>2, <3>4
    <2>3. CASE i > 1
      <3>1. /\ i - 1 \in 1..Len(V) /\ V[i - 1] = U[(i - 1) + k] /\ (i - 1) + k = (i + k) - 1
            /\ i # 1 /\ i + k # 1
        <4>1. Len(V) \in Nat /\ i \in 1..Len(V) /\ k \in Nat
          BY <1>1
        <4>2. i - 1 \in 1..Len(V) /\ (i - 1) + k = (i + k) - 1 /\ i # 1
          BY <2>3, <4>1
        <4>3. V[i - 1] = U[(i - 1) + k]
          BY <1>1, <4>2
        <4> QED BY <2>1, <4>2, <4>3
      <3>2. /\ i \in Plain(V) <=> V[i].field = "data" /\ V[i - 1].field # "event"
            /\ i \in Named(V) <=> V[i].field = "data" /\ V[i - 1].field = "event"
        BY <2>3, LaterData
      <3>3. \A j : j = i + k =>
              /\ j \in Plain(U) <=> U[j].field = "data" /\ U[j - 1].field # "event"
              /\ j \in Named(U) <=> U[j].field = "data" /\ U[j - 1].field = "event"
        BY <2>1, LaterData
      <3> QED BY <2>1, <3>1, <3>2, <3>3
    <2> QED BY <2>2, <2>3
  <1>3. Grammar(V)
    <2> SUFFICES ASSUME NEW i \in 1..Len(V) - 1
                 PROVE  /\ V[i].field = "event" =>
                             /\ V[i + 1].field = "data"
                             /\ V[i].value = "ready" => V[i + 1].value = 0
                        /\ V[i].field \in {"data", ":"} => V[i + 1].field = "blank"
      BY DEF Grammar
    <2>1. i + k \in 1..Len(U) - 1 /\ V[i] = U[i + k] /\ V[i + 1] = U[i + k + 1]
      BY <1>1
    <2> QED BY <2>1 DEF Grammar
  <1>4. Ended(U) => Ended(V)
    <2> SUFFICES ASSUME U[Len(U)].field = "blank", V # <<>> PROVE V[Len(V)].field = "blank"
      BY <1>1 DEF Ended
    <2>1. Len(V) \in 1..Len(V)
      BY <1>1, EmptySeq
    <2> QED BY <1>1, <2>1
  <1>5. \A i : i \in Plain(V) \cup Named(V) => i \in 1..Len(V)
    BY DataOf
  <1> QED BY <1>1, <1>2, <1>3, <1>4, <1>5

LEMMA CardinalityMoved ==
    ASSUME NEW S \in SUBSET Int, IsFiniteSet(S), NEW k \in Int
    PROVE  Cardinality(MovedBy(S, k)) = Cardinality(S)
  <1> DEFINE f == [i \in S |-> i + k]
             T == MovedBy(S, k)
  <1>1. f \in Bijection(S, T)
    <2>1. f \in [S -> T]
      BY DEF MovedBy
    <2>2. \A i, j \in S : f[i] = f[j] => i = j
      OBVIOUS
    <2>3. \A j \in T : \E i \in S : f[i] = j
      BY DEF MovedBy
    <2> QED BY <2>1, <2>2, <2>3 DEF Bijection, Injection, Surjection, IsInjective
  <1> HIDE DEF T
  <1>2. Cardinality(T) = Cardinality(S)
    BY <1>1, FS_Bijection DEF ExistsBijection
  <1> QED BY <1>2 DEF T

Beyond(S, k) == {j \in S : j > k}

\* A holds, k places back, what B holds from place k + 1 to m + k.
MovedBack(A, B, m, k) ==
    B \subseteq 1..m + k /\ \A i : i \in A <=> i + k \in B /\ i \in 1..m

LEMMA MovedIsBeyond ==
    ASSUME NEW m \in Nat, NEW k \in Nat, NEW A, NEW B, MovedBack(A, B, m, k)
    PROVE  MovedBy(A, k) = Beyond(B, k)
  <1> USE DEF MovedBack
  <1>1. ASSUME NEW i \in A PROVE i + k \in B /\ i + k > k
    OBVIOUS
  <1>2. ASSUME NEW j \in B, j > k PROVE \E i \in A : i + k = j
    <2>1. j \in 1..m + k
      OBVIOUS
    <2>2. (j - k) + k = j /\ j - k \in 1..m
      BY <1>2, <2>1
    <2>3. j - k \in A
      BY <2>2
    <2> QED BY <2>2, <2>3
  <1> QED BY <1>1, <1>2 DEF MovedBy, Beyond

\* What the remaining lines count, read off the lines before.
LEMMA ShiftedCounts ==
    ASSUME NEW U \in Seq(Sendable), NEW V \in Seq(Sendable), NEW k \in Nat \ {0},
           k <= Len(U), Shifted(U, V, k), U[k].field # "event", Grammar(U)
    PROVE  /\ Cardinality(Plain(V)) = Cardinality(Beyond(Plain(U), k))
           /\ LagIn(V) = Sum(Counts(U), Beyond(Named(U), k))
  <1>1. /\ \A i : i \in Plain(V) <=> i + k \in Plain(U) /\ i \in 1..Len(V)
        /\ \A i : i \in Named(V) <=> i + k \in Named(U) /\ i \in 1..Len(V)
    BY ShiftedData
  <1>2. /\ Plain(U) \in SUBSET (1..Len(U)) /\ Named(U) \in SUBSET (1..Len(U))
        /\ Plain(V) \in SUBSET Int
        /\ Len(U) \in Nat /\ Len(V) \in Nat
    BY DataOf
  <1>3. Len(U) = Len(V) + k
    BY DEF Shifted
  <1>4. MovedBy(Plain(V), k) = Beyond(Plain(U), k)
    <2>1. MovedBack(Plain(V), Plain(U), Len(V), k)
      BY <1>1, <1>2, <1>3 DEF MovedBack
    <2> QED BY <1>2, <2>1, MovedIsBeyond
  <1>5. MovedBy(Named(V), k) = Beyond(Named(U), k)
    <2>1. MovedBack(Named(V), Named(U), Len(V), k)
      BY <1>1, <1>2, <1>3 DEF MovedBack
    <2> QED BY <1>2, <2>1, MovedIsBeyond
  <1>6. \A i \in Named(V) : i + k \in Named(U) /\ U[i + k] = V[i]
    BY <1>1 DEF Shifted
  <1>7. LagIn(V) = Sum(Counts(U), MovedBy(Named(V), k))
    BY <1>6, LagMoved
  <1>8. Cardinality(MovedBy(Plain(V), k)) = Cardinality(Plain(V))
    BY <1>2, DataOf, CardinalityMoved
  <1> QED BY <1>4, <1>5, <1>7, <1>8

LEMMA NoneLeftOut ==
    ASSUME NEW S \in SUBSET Int, NEW k \in Int, \A j \in S : j > k
    PROVE  Beyond(S, k) = S
  BY DEF Beyond

\* A comment or a blank line that ends nothing.
LEMMA DropIdle ==
    ASSUME NEW U \in Seq(Sendable), NEW V \in Seq(Sendable), Len(U) >= 1, Shifted(U, V, 1),
           U[1].field \in {":", "blank"}, Grammar(U)
    PROVE  Cardinality(Plain(V)) = Cardinality(Plain(U)) /\ LagIn(V) = LagIn(U)
  <1>1. /\ Plain(U) \in SUBSET Int /\ Named(U) \in SUBSET Int
        /\ \A j \in Plain(U) \cup Named(U) : j > 1
    BY DataOf
  <1>2. Beyond(Plain(U), 1) = Plain(U) /\ Beyond(Named(U), 1) = Named(U)
    BY <1>1, NoneLeftOut
  <1>3. U[1].field # "event"
    OBVIOUS
  <1>4. /\ Cardinality(Plain(V)) = Cardinality(Beyond(Plain(U), 1))
        /\ LagIn(V) = Sum(Counts(U), Beyond(Named(U), 1))
    BY <1>3, ShiftedCounts
  <1>5. LagIn(U) = Sum(Counts(U), Named(U))
    BY LagIsSum
  <1> QED BY <1>2, <1>4, <1>5

\* The frame of an event.
LEMMA DropMessage ==
    ASSUME NEW U \in Seq(Sendable), NEW V \in Seq(Sendable), Len(U) >= 2, Shifted(U, V, 2),
           U[1].field = "data", U[2].field = "blank", Grammar(U)
    PROVE  Cardinality(Plain(U)) = Cardinality(Plain(V)) + 1 /\ LagIn(V) = LagIn(U)
  <1>1. /\ Plain(U) \in SUBSET Int /\ Named(U) \in SUBSET Int
        /\ 1 \in Plain(U) /\ 2 \notin Plain(U) /\ 1 \notin Named(U) /\ 2 \notin Named(U)
        /\ \A j \in Plain(U) \cup Named(U) : j >= 1
    BY DataOf
  <1>2. Beyond(Plain(U), 2) = Plain(U) \ {1}
    <2>1. \A j \in Plain(U) : j > 2 <=> j # 1
      BY <1>1
    <2> QED BY <2>1 DEF Beyond
  <1>3. Beyond(Named(U), 2) = Named(U)
    <2>1. \A j \in Named(U) : j > 2
      BY <1>1
    <2> QED BY <1>1, <2>1, NoneLeftOut
  <1>4. Cardinality(Plain(U) \ {1}) = Cardinality(Plain(U)) - 1 /\ Cardinality(Plain(U)) \in Nat
    <2>1. IsFiniteSet(Plain(U))
      BY DataOf
    <2>2. Cardinality(Plain(U)) \in Nat
      BY <2>1, FS_CardinalityType
    <2>3. Cardinality(Plain(U) \ {1}) = Cardinality(Plain(U)) - 1
      BY <1>1, <2>1, FS_RemoveElement
    <2> QED BY <2>2, <2>3
  <1>5. U[2].field # "event"
    OBVIOUS
  <1>6. /\ Cardinality(Plain(V)) = Cardinality(Beyond(Plain(U), 2))
        /\ LagIn(V) = Sum(Counts(U), Beyond(Named(U), 2))
    BY <1>5, ShiftedCounts
  <1>7. LagIn(U) = Sum(Counts(U), Named(U))
    BY LagIsSum
  <1>8. Cardinality(Plain(V)) = Cardinality(Plain(U)) - 1
    BY <1>2, <1>4, <1>6
  <1> QED BY <1>3, <1>4, <1>6, <1>7, <1>8

\* The frame of a lag or of the start of the stream.
LEMMA DropNamed ==
    ASSUME NEW U \in Seq(Sendable), NEW V \in Seq(Sendable), Len(U) >= 3, Shifted(U, V, 3),
           U[1].field = "event", U[2].field = "data", U[3].field = "blank", Grammar(U)
    PROVE  Cardinality(Plain(V)) = Cardinality(Plain(U)) /\ LagIn(U) = U[2].value + LagIn(V)
  <1>1. /\ Plain(U) \in SUBSET Int /\ Named(U) \in SUBSET Int
        /\ 1 \notin Plain(U) /\ 2 \notin Plain(U) /\ 3 \notin Plain(U)
        /\ 1 \notin Named(U) /\ 2 \in Named(U) /\ 3 \notin Named(U)
        /\ \A j \in Plain(U) \cup Named(U) : j >= 1
    <2>1. Len(U) \in Nat /\ 1 \in 1..Len(U) /\ 2 \in 1..Len(U) /\ 3 \in 1..Len(U)
      BY DataOf
    <2>2. 2 - 1 = 1
      OBVIOUS
    <2>3. 2 \in Named(U) /\ 2 \notin Plain(U)
      BY <2>1, <2>2, DataOf
    <2>4. /\ 1 \notin Plain(U) /\ 3 \notin Plain(U) /\ 1 \notin Named(U) /\ 3 \notin Named(U)
          /\ \A j \in Plain(U) \cup Named(U) : j \in 1..Len(U)
      BY DataOf
    <2> QED BY <2>1, <2>3, <2>4
  <1>2. Beyond(Plain(U), 3) = Plain(U)
    <2>1. \A j \in Plain(U) : j > 3
      BY <1>1
    <2> QED BY <1>1, <2>1, NoneLeftOut
  <1>3. Beyond(Named(U), 3) = Named(U) \ {2}
    <2>1. \A j \in Named(U) : j > 3 <=> j # 2
      BY <1>1
    <2> QED BY <2>1 DEF Beyond
  <1>4. Sum(Counts(U), Named(U)) = Counts(U)[2] + Sum(Counts(U), Named(U) \ {2})
    <2> DEFINE f == Counts(U)
               S == Named(U)
               x == 2
    <2>1. IsFiniteSet(S) /\ (\A j \in S : f[j] \in Int) /\ x \in S
      <3>1. \A j \in Named(U) : Counts(U)[j] = U[j].value /\ U[j].value \in Nat
        BY DataOf
      <3>2. IsFiniteSet(Named(U))
        BY DataOf
      <3> QED BY <1>1, <3>1, <3>2
    <2> HIDE DEF f, S, x
    <2>2. Sum(f, S) = f[x] + Sum(f, S \ {x})
      BY <2>1, SumRemove
    <2> QED BY <2>2 DEF f, S, x
  <1>5. Counts(U)[2] = U[2].value
    BY <1>1, DataOf
  <1>6. U[3].field # "event"
    OBVIOUS
  <1>7. /\ Cardinality(Plain(V)) = Cardinality(Beyond(Plain(U), 3))
        /\ LagIn(V) = Sum(Counts(U), Beyond(Named(U), 3))
    BY <1>6, ShiftedCounts
  <1>8. LagIn(U) = Sum(Counts(U), Named(U))
    BY LagIsSum
  <1> QED BY <1>2, <1>3, <1>4, <1>5, <1>7, <1>8

\* Lines that are sent when the frames before them are complete.
LEMMA Added ==
    ASSUME NEW U \in Seq(Sendable), NEW F \in Seq(Sendable),
           Grammar(U), Ended(U), Grammar(F), Ended(F)
    PROVE  /\ U \o F \in Seq(Sendable) /\ Len(U \o F) = Len(U) + Len(F)
           /\ \A i \in 1..Len(U) : (U \o F)[i] = U[i]
           /\ \A j \in 1..Len(F) : (U \o F)[Len(U) + j] = F[j]
           /\ Grammar(U \o F) /\ Ended(U \o F)
           /\ \A i \in 1..Len(U) : /\ i \in Plain(U \o F) <=> i \in Plain(U)
                                   /\ i \in Named(U \o F) <=> i \in Named(U)
           /\ \A j \in 1..Len(F) : /\ Len(U) + j \in Plain(U \o F) <=> j \in Plain(F)
                                   /\ Len(U) + j \in Named(U \o F) <=> j \in Named(F)
  <1> DEFINE V == U \o F
             n == Len(U)
             m == Len(F)
  <1>1. n \in Nat /\ m \in Nat
    BY LenProperties
  <1>2. V \in Seq(Sendable) /\ Len(V) = n + m
    BY ConcatProperties
  <1>3. /\ \A i \in 1..n : V[i] = U[i]
        /\ \A j \in 1..m : V[n + j] = F[j]
    <2>1. \A i \in 1..n + m : V[i] = IF i <= n THEN U[i] ELSE F[i - n]
      BY ConcatProperties
    <2>2. \A j \in 1..m : n + j \in 1..n + m /\ ~(n + j <= n) /\ (n + j) - n = j
      BY <1>1
    <2> HIDE DEF V
    <2> QED BY <1>1, <2>1, <2>2
  <1>4. /\ n # 0 => n \in 1..n /\ V[n].field = "blank" /\ U[n].field = "blank"
        /\ m # 0 => m \in 1..m /\ F[m].field = "blank"
    <2>1. n # 0 => n \in 1..n /\ U # <<>>
      BY <1>1
    <2>2. m # 0 => m \in 1..m /\ F # <<>>
      BY <1>1
    <2> QED BY <1>3, <2>1, <2>2 DEF Ended
  <1> HIDE DEF V
  <1>5. Ended(V)
    <2>1. CASE m = 0
      BY <1>1, <1>2, <1>4, <2>1, EmptySeq DEF Ended
    <2>2. CASE m # 0
      BY <1>1, <1>2, <1>3, <1>4, <2>2 DEF Ended
    <2> QED BY <2>1, <2>2
  <1>6. Grammar(V)
    <2> SUFFICES ASSUME NEW i \in 1..Len(V) - 1
                 PROVE  /\ V[i].field = "event" =>
                             /\ V[i + 1].field = "data"
                             /\ V[i].value = "ready" => V[i + 1].value = 0
                        /\ V[i].field \in {"data", ":"} => V[i + 1].field = "blank"
      BY DEF Grammar
    <2>1. CASE i < n
      <3>1. i \in 1..n - 1 /\ i \in 1..n /\ i + 1 \in 1..n
        BY <1>1, <1>2, <2>1
      <3> QED BY <1>3, <3>1 DEF Grammar
    <2>2. CASE i = n
      BY <1>1, <1>4, <2>2
    <2>3. CASE i > n
      <3> DEFINE j == i - n
      <3>1. /\ j \in 1..m - 1 /\ j \in 1..m /\ j + 1 \in 1..m
            /\ n + j = i /\ n + (j + 1) = i + 1
        BY <1>1, <1>2, <2>3
      <3> HIDE DEF j
      <3>2. V[i] = F[j] /\ V[i + 1] = F[j + 1]
        BY <1>3, <3>1
      <3> QED BY <3>1, <3>2 DEF Grammar
    <2> QED BY <1>1, <1>2, <2>1, <2>2, <2>3
  <1>7. ASSUME NEW i \in 1..n
        PROVE  /\ i \in Plain(V) <=> i \in Plain(U)
               /\ i \in Named(V) <=> i \in Named(U)
    <2>1. i \in 1..Len(V) /\ i \in 1..Len(U) /\ V[i] = U[i]
      BY <1>1, <1>2, <1>3
    <2>2. CASE i = 1
      BY <1>2, <2>1, <2>2, DataOf
    <2>3. CASE i # 1
      <3>1. i - 1 \in 1..n /\ i > 1
        BY <1>1, <2>3
      <3>2. V[i - 1] = U[i - 1]
        BY <1>3, <3>1
      <3>3. /\ i \in Plain(V) <=> V[i].field = "data" /\ V[i - 1].field # "event"
            /\ i \in Named(V) <=> V[i].field = "data" /\ V[i - 1].field = "event"
        BY <1>2, <2>1, <3>1, LaterData
      <3>4. /\ i \in Plain(U) <=> U[i].field = "data" /\ U[i - 1].field # "event"
            /\ i \in Named(U) <=> U[i].field = "data" /\ U[i - 1].field = "event"
        BY <2>1, <3>1, LaterData
      <3> QED BY <2>1, <3>2, <3>3, <3>4
    <2> QED BY <2>2, <2>3
  <1>8. ASSUME NEW j \in 1..m
        PROVE  /\ n + j \in Plain(V) <=> j \in Plain(F)
               /\ n + j \in Named(V) <=> j \in Named(F)
    <2> DEFINE i == n + j
    <2>1. i \in 1..Len(V) /\ j \in 1..Len(F) /\ V[i] = F[j] /\ i \in Int
      BY <1>1, <1>2, <1>3
    <2>2. CASE j = 1
      <3>1. i = 1 \/ (i > 1 /\ i - 1 = n /\ n # 0)
        BY <1>1, <2>2
      <3>2. i = 1 \/ (i > 1 /\ V[i - 1].field = "blank")
        BY <1>4, <3>1
      <3> HIDE DEF i
      <3>3. /\ i \in Plain(V) <=> V[i].field = "data"
            /\ i \notin Named(V)
        <4>1. CASE i = 1
          BY <1>2, <2>1, <4>1, FirstData
        <4>2. CASE i > 1 /\ V[i - 1].field = "blank"
          <5>1. /\ i \in Plain(V) <=> V[i].field = "data" /\ V[i - 1].field # "event"
                /\ i \in Named(V) <=> V[i].field = "data" /\ V[i - 1].field = "event"
            BY <1>2, <2>1, <4>2, LaterData
          <5> QED BY <4>2, <5>1
        <4> QED BY <3>2, <4>1, <4>2
      <3>4. /\ j \in Plain(F) <=> F[j].field = "data"
            /\ j \notin Named(F)
        BY <2>1, <2>2, DataOf
      <3> QED BY <2>1, <3>3, <3>4 DEF i
    <2>3. CASE j # 1
      <3>1. j - 1 \in 1..m /\ i > 1 /\ j > 1 /\ i # 1 /\ i - 1 = n + (j - 1)
        BY <1>1, <2>3
      <3>2. V[i - 1] = F[j - 1]
        BY <1>3, <3>1
      <3> HIDE DEF i
      <3>3. /\ i \in Plain(V) <=> V[i].field = "data" /\ V[i - 1].field # "event"
            /\ i \in Named(V) <=> V[i].field = "data" /\ V[i - 1].field = "event"
        BY <1>2, <2>1, <3>1, LaterData
      <3>4. /\ j \in Plain(F) <=> F[j].field = "data" /\ F[j - 1].field # "event"
            /\ j \in Named(F) <=> F[j].field = "data" /\ F[j - 1].field = "event"
        BY <2>1, <3>1, LaterData
      <3> QED BY <2>1, <3>2, <3>3, <3>4 DEF i
    <2> QED BY <2>2, <2>3
  <1> QED BY <1>2, <1>3, <1>5, <1>6, <1>7, <1>8 DEF V

LEMMA NothingAdded ==
    ASSUME NEW U \in Seq(Sendable), NEW F \in Seq(Sendable),
           Grammar(U), Ended(U), Grammar(F), Ended(F), Plain(F) = {}
    PROVE  Plain(U \o F) = Plain(U)
  <1>1. /\ U \o F \in Seq(Sendable) /\ Len(U \o F) = Len(U) + Len(F)
        /\ \A i \in 1..Len(U) : i \in Plain(U \o F) <=> i \in Plain(U)
        /\ \A j \in 1..Len(F) : Len(U) + j \in Plain(U \o F) <=> j \in Plain(F)
    BY Added
  <1>2. /\ Plain(U) \subseteq 1..Len(U) /\ Plain(U \o F) \subseteq 1..Len(U) + Len(F)
        /\ Len(U) \in Nat /\ Len(F) \in Nat
    BY <1>1, DataOf
  <1>3. ASSUME NEW i \in Plain(U \o F) PROVE i \in Plain(U)
    <2>1. i \in 1..Len(U) \/ (i - Len(U) \in 1..Len(F) /\ Len(U) + (i - Len(U)) = i)
      BY <1>2
    <2> QED BY <1>1, <2>1
  <1> QED BY <1>1, <1>2, <1>3

LEMMA LagUnchanged ==
    ASSUME NEW U \in Seq(Sendable), NEW F \in Seq(Sendable),
           Grammar(U), Ended(U), Grammar(F), Ended(F)
    PROVE  LagIn(U) = Sum(Counts(U \o F), Named(U))
  <1>1. /\ U \o F \in Seq(Sendable) /\ Len(U \o F) = Len(U) + Len(F)
        /\ \A i \in 1..Len(U) : (U \o F)[i] = U[i]
        /\ \A i \in 1..Len(U) : i \in Named(U \o F) <=> i \in Named(U)
    BY Added
  <1>2. Named(U) \in SUBSET (1..Len(U)) /\ Len(U) \in Nat
    BY DataOf
  <1>3. \A i \in Named(U) : i + 0 \in Named(U \o F) /\ (U \o F)[i + 0] = U[i]
    BY <1>1, <1>2
  <1>4. LagIn(U) = Sum(Counts(U \o F), MovedBy(Named(U), 0))
    <2> DEFINE V == U \o F
    <2>1. V \in Seq(Sendable) /\ \A i \in Named(U) : i + 0 \in Named(V) /\ V[i + 0] = U[i]
      BY <1>1, <1>3
    <2> HIDE DEF V
    <2>2. 0 \in Int
      OBVIOUS
    <2>3. LagIn(U) = Sum(Counts(V), MovedBy(Named(U), 0))
      BY <2>1, <2>2, LagMoved
    <2> QED BY <2>3 DEF V
  <1>5. MovedBy(Named(U), 0) = Named(U)
    BY <1>2 DEF MovedBy
  <1> QED BY <1>4, <1>5

\* What a frame of two lines or a comment adds.
LEMMA NoLagAdded ==
    ASSUME NEW U \in Seq(Sendable), NEW F \in Seq(Sendable),
           Grammar(U), Ended(U), Grammar(F), Ended(F), Named(F) = {}
    PROVE  LagIn(U \o F) = LagIn(U)
  <1>1. /\ U \o F \in Seq(Sendable) /\ Len(U \o F) = Len(U) + Len(F)
        /\ \A i \in 1..Len(U) : i \in Named(U \o F) <=> i \in Named(U)
        /\ \A j \in 1..Len(F) : Len(U) + j \in Named(U \o F) <=> j \in Named(F)
    BY Added
  <1>2. /\ Named(U) \subseteq 1..Len(U) /\ Named(U \o F) \subseteq 1..Len(U) + Len(F)
        /\ Len(U) \in Nat /\ Len(F) \in Nat
    BY <1>1, DataOf
  <1>3. ASSUME NEW i \in Named(U \o F) PROVE i \in Named(U)
    <2>1. i \in 1..Len(U) \/ (i - Len(U) \in 1..Len(F) /\ Len(U) + (i - Len(U)) = i)
      BY <1>2
    <2> QED BY <1>1, <2>1
  <1>4. Named(U \o F) = Named(U)
    BY <1>1, <1>2, <1>3
  <1>5. LagIn(U \o F) = Sum(Counts(U \o F), Named(U \o F))
    BY LagIsSum
  <1> QED BY <1>4, <1>5, LagUnchanged

LEMMA LagAdded ==
    ASSUME NEW U \in Seq(Sendable), NEW F \in Seq(Sendable),
           Grammar(U), Ended(U), Grammar(F), Ended(F), Named(F) = {2}
    PROVE  LagIn(U \o F) = LagIn(U) + F[2].value
  <1> DEFINE V == U \o F
             x == Len(U) + 2
  <1>1. /\ V \in Seq(Sendable) /\ Len(V) = Len(U) + Len(F)
        /\ \A i \in 1..Len(U) : i \in Named(V) <=> i \in Named(U)
        /\ \A j \in 1..Len(F) : Len(U) + j \in Named(V) <=> j \in Named(F)
        /\ \A j \in 1..Len(F) : V[Len(U) + j] = F[j]
    BY Added
  <1>2. LagIn(U) = Sum(Counts(V), Named(U))
    BY LagUnchanged
  <1> HIDE DEF V
  <1>3. /\ Named(U) \subseteq 1..Len(U) /\ Named(V) \subseteq 1..Len(U) + Len(F)
        /\ Len(U) \in Nat /\ Len(F) \in Nat /\ 2 \in 1..Len(F)
    <2>1. /\ Named(U) \subseteq 1..Len(U) /\ Len(U) \in Nat
          /\ Named(F) \subseteq 1..Len(F) /\ Len(F) \in Nat
          /\ Named(V) \subseteq 1..Len(V)
      BY <1>1, DataOf
    <2> QED BY <1>1, <2>1
  <1>4. x \in Named(V) /\ V[x] = F[2] /\ x \notin Named(U)
    BY <1>1, <1>3
  <1>5. ASSUME NEW i \in Named(V), i # x PROVE i \in Named(U)
    <2>1. i \in 1..Len(U) \/ (i - Len(U) \in 1..Len(F) /\ Len(U) + (i - Len(U)) = i)
      BY <1>3
    <2>2. i - Len(U) # 2
      BY <1>3, <1>5
    <2> QED BY <1>1, <2>1, <2>2
  <1>6. Named(U) = Named(V) \ {x}
    BY <1>1, <1>3, <1>4, <1>5
  <1>7. Sum(Counts(V), Named(V)) = Counts(V)[x] + Sum(Counts(V), Named(V) \ {x})
    <2> DEFINE f == Counts(V)
               S == Named(V)
    <2>1. /\ IsFiniteSet(S)
          /\ \A i \in S : f[i] \in Int
      <3>1. \A i \in Named(V) : Counts(V)[i] = V[i].value /\ V[i].value \in Nat
        BY <1>1, DataOf
      <3>2. IsFiniteSet(Named(V))
        BY <1>1, DataOf
      <3> QED BY <3>1, <3>2
    <2>2. x \in S
      BY <1>4
    <2> HIDE DEF f, S, x
    <2>3. Sum(f, S) = f[x] + Sum(f, S \ {x})
      BY <2>1, <2>2, SumRemove
    <2> QED BY <2>3 DEF f, S
  <1>8. Counts(V)[x] = F[2].value
    BY <1>1, <1>4, DataOf
  <1>9. LagIn(V) = Sum(Counts(V), Named(V))
    BY LagIsSum
  <1>10. LagIn(U) \in Int /\ F[2].value \in Nat
    BY LagType, DataOf
  <1> QED BY <1>2, <1>6, <1>7, <1>8, <1>9, <1>10 DEF V

-----------------------------------------------------------------------------
(* What the server sends, and what a connection that breaks leaves of it.  *)

LEMMA MessageSent ==
    ASSUME NEW n \in Nat
    PROVE  \A F : F = ServerSentEvent("message", n) =>
             /\ F \in Seq(Sendable) /\ Len(F) = 2 /\ F[1].value = n
             /\ Grammar(F) /\ Ended(F) /\ Plain(F) = {1} /\ Named(F) = {}
  <1> SUFFICES ASSUME NEW F, F = ServerSentEvent("message", n)
               PROVE  /\ F \in Seq(Sendable) /\ Len(F) = 2 /\ F[1].value = n
                      /\ Grammar(F) /\ Ended(F) /\ Plain(F) = {1} /\ Named(F) = {}
    OBVIOUS
  <1>1. F \in Seq(Sendable) /\ F = <<Line("data", n), Blank>>
    BY FramesSendable, FrameLines
  <1>2. /\ Len(F) = 2 /\ F[1].field = "data" /\ F[1].value = n /\ F[2].field = "blank"
    BY <1>1 DEF Line, Blank
  <1>3. Grammar(F) /\ Ended(F)
    BY <1>2 DEF Grammar, Ended
  <1>4. \A i : i \in Plain(F) <=> i = 1
    <2>1. 1..2 = {1, 2}
      OBVIOUS
    <2> QED BY <1>1, <1>2, <2>1, DataOf
  <1>5. \A i : i \notin Named(F)
    <2>1. 1..2 = {1, 2}
      OBVIOUS
    <2> QED BY <1>1, <1>2, <2>1, DataOf
  <1> QED BY <1>1, <1>2, <1>3, <1>4, <1>5

LEMMA NamedSent ==
    ASSUME NEW e \in EventTypes, NEW n \in Nat, e = "ready" => n = 0
    PROVE  \A F : F = ServerSentEvent(e, n) =>
             /\ F \in Seq(Sendable) /\ Len(F) = 3 /\ F[2].value = n
             /\ Grammar(F) /\ Ended(F) /\ Plain(F) = {} /\ Named(F) = {2}
  <1> SUFFICES ASSUME NEW F, F = ServerSentEvent(e, n)
               PROVE  /\ F \in Seq(Sendable) /\ Len(F) = 3 /\ F[2].value = n
                      /\ Grammar(F) /\ Ended(F) /\ Plain(F) = {} /\ Named(F) = {2}
    OBVIOUS
  <1>1. F \in Seq(Sendable) /\ F = <<Line("event", e), Line("data", n), Blank>>
    <2>1. e # "message"
      BY DEF EventTypes
    <2>2. F \in Seq(Sendable)
      BY FramesSendable DEF EventTypes
    <2> QED BY <2>1, <2>2, FrameLines
  <1>2. /\ Len(F) = 3 /\ F[1].field = "event" /\ F[1].value = e /\ F[2].field = "data"
        /\ F[2].value = n /\ F[3].field = "blank"
    BY <1>1 DEF Line, Blank
  <1>3. Grammar(F) /\ Ended(F)
    BY <1>2 DEF Grammar, Ended
  <1>4. /\ 1 \in 1..Len(F) /\ 2 \in 1..Len(F) /\ 3 \in 1..Len(F)
        /\ \A i \in Plain(F) \cup Named(F) : i \in {1, 2, 3}
    <2>1. \A i \in 1..3 : i \in {1, 2, 3}
      OBVIOUS
    <2>2. \A i \in Plain(F) \cup Named(F) : i \in 1..Len(F)
      BY <1>1, DataOf
    <2> QED BY <1>2, <2>1, <2>2
  <1>5. 1 \notin Plain(F) /\ 1 \notin Named(F)
    BY <1>1, <1>2, <1>4, FirstData
  <1>6. 2 \notin Plain(F) /\ 2 \in Named(F)
    <2>1. 2 > 1 /\ F[2 - 1].field = "event"
      BY <1>2
    <2>2. /\ 2 \in Plain(F) <=> F[2].field = "data" /\ F[2 - 1].field # "event"
          /\ 2 \in Named(F) <=> F[2].field = "data" /\ F[2 - 1].field = "event"
      BY <1>1, <1>4, <2>1, LaterData
    <2> QED BY <1>2, <2>1, <2>2
  <1>7. 3 \notin Plain(F) /\ 3 \notin Named(F)
    <2>1. 3 > 1
      OBVIOUS
    <2> QED BY <1>1, <1>2, <1>4, <2>1, LaterData
  <1>8. Plain(F) = {} /\ Named(F) = {2}
    BY <1>4, <1>5, <1>6, <1>7
  <1> QED BY <1>1, <1>2, <1>3, <1>8

LEMMA PingSent ==
    \A F : F = <<Comment, Blank>> =>
      /\ F \in Seq(Sendable) /\ Len(F) = 2
      /\ Grammar(F) /\ Ended(F) /\ Plain(F) = {} /\ Named(F) = {}
  <1> SUFFICES ASSUME NEW F, F = <<Comment, Blank>>
               PROVE  /\ F \in Seq(Sendable) /\ Len(F) = 2
                      /\ Grammar(F) /\ Ended(F) /\ Plain(F) = {} /\ Named(F) = {}
    OBVIOUS
  <1>1. F \in Seq(Sendable)
    BY FramesSendable
  <1>2. Len(F) = 2 /\ F[1].field = ":" /\ F[2].field = "blank"
    BY DEF Line, Comment, Blank
  <1>3. Grammar(F) /\ Ended(F)
    BY <1>2 DEF Grammar, Ended
  <1>4. \A i : i \in 1..2 <=> i \in {1, 2}
    OBVIOUS
  <1>5. \A i : i \notin Plain(F) /\ i \notin Named(F)
    <2>1. ASSUME NEW s \in Seq(Sendable), NEW i, i \in Plain(s) \/ i \in Named(s)
          PROVE  i \in 1..Len(s) /\ s[i].field = "data"
      BY <2>1, DataOf
    <2> QED BY <1>1, <1>2, <1>4, <2>1
  <1> QED BY <1>1, <1>2, <1>3, <1>5

\* V begins as U does, and ends no later.
Begins(V, U) == Len(V) <= Len(U) /\ \A i \in 1..Len(V) : V[i] = U[i]

LEMMA BeginningKept ==
    ASSUME NEW U \in Seq(Sendable), NEW V \in Seq(Sendable), Begins(V, U), Grammar(U)
    PROVE  /\ Grammar(V)
           /\ \A i \in Plain(V) : i \in Plain(U) /\ V[i] = U[i]
  <1>1. Len(U) \in Nat /\ Len(V) \in Nat
    BY DataOf
  <1>2. Grammar(V)
    <2> SUFFICES ASSUME NEW i \in 1..Len(V) - 1
                 PROVE  /\ V[i].field = "event" =>
                             /\ V[i + 1].field = "data"
                             /\ V[i].value = "ready" => V[i + 1].value = 0
                        /\ V[i].field \in {"data", ":"} => V[i + 1].field = "blank"
      BY DEF Grammar
    <2>1. i \in 1..Len(U) - 1 /\ i \in 1..Len(V) /\ i + 1 \in 1..Len(V)
      BY <1>1 DEF Begins
    <2>2. V[i] = U[i] /\ V[i + 1] = U[i + 1]
      BY <2>1 DEF Begins
    <2> QED BY <2>1, <2>2 DEF Grammar
  <1>3. ASSUME NEW i \in Plain(V) PROVE i \in Plain(U) /\ V[i] = U[i]
    <2>1. i \in 1..Len(V) /\ i \in 1..Len(U) /\ V[i] = U[i] /\ V[i].field = "data"
      BY <1>1, DataOf DEF Begins
    <2>2. CASE i = 1
      BY <2>1, <2>2, FirstData
    <2>3. CASE i # 1
      <3>1. i > 1 /\ i - 1 \in 1..Len(V) /\ V[i - 1] = U[i - 1]
        BY <1>1, <2>1, <2>3 DEF Begins
      <3> QED BY <2>1, <3>1, LaterData
    <2> QED BY <2>2, <2>3
  <1> QED BY <1>2, <1>3

-----------------------------------------------------------------------------
(* What a line that the client reads does to what is under way.            *)

LEMMA Joined ==
    ASSUME NEW B \in Seq(Sendable), NEW w \in Seq(Sendable), w # <<>>
    PROVE  /\ Head(w) \in Sendable /\ Tail(w) \in Seq(Sendable)
           /\ w = <<Head(w)>> \o Tail(w)
           /\ B \o w \in Seq(Sendable)
           /\ Len(B) \in Nat /\ Len(w) \in Nat /\ Len(w) >= 1 /\ Len(Tail(w)) = Len(w) - 1
           /\ Len(B \o w) = Len(B) + Len(w)
           /\ \A i \in 1..Len(B) : (B \o w)[i] = B[i]
           /\ (B \o w)[Len(B) + 1] = Head(w)
           /\ Shifted(B \o w, Tail(w), Len(B) + 1)
  <1>1. /\ Head(w) = w[1] /\ Head(w) \in Sendable /\ Tail(w) \in Seq(Sendable)
        /\ Len(w) \in Nat /\ Len(w) >= 1 /\ Len(Tail(w)) = Len(w) - 1
        /\ \A i \in 1..Len(Tail(w)) : Tail(w)[i] = w[i + 1]
    <2>1. Len(w) \in Nat /\ Len(w) # 0
      BY EmptySeq, LenProperties
    <2>2. /\ Tail(w) \in Seq(Sendable) /\ Len(Tail(w)) = Len(w) - 1
          /\ \A i \in 1..Len(Tail(w)) : Tail(w)[i] = w[i + 1]
      BY HeadTailProperties
    <2>3. Head(w) = w[1] /\ Head(w) \in Sendable
      BY HeadTailProperties
    <2> QED BY <2>1, <2>2, <2>3
  <1>2. /\ Len(B) \in Nat
        /\ \A i \in 1..Len(B) + Len(w) : (B \o w)[i] = IF i <= Len(B) THEN B[i] ELSE w[i - Len(B)]
        /\ B \o w \in Seq(Sendable) /\ Len(B \o w) = Len(B) + Len(w)
    BY ConcatProperties, LenProperties
  <1>3. w = <<Head(w)>> \o Tail(w)
    <2> DEFINE h == <<Head(w)>>
               t == Tail(w)
    <2>1. h \in Seq(Sendable) /\ Len(h) = 1 /\ h[1] = w[1] /\ t \in Seq(Sendable)
      BY <1>1
    <2>2. Len(t) = Len(w) - 1 /\ \A i \in 1..Len(t) : t[i] = w[i + 1]
      BY <1>1
    <2> HIDE DEF h, t
    <2>3. /\ h \o t \in Seq(Sendable) /\ Len(h \o t) = Len(h) + Len(t)
          /\ \A i \in 1..Len(h) + Len(t) : (h \o t)[i] = IF i <= Len(h) THEN h[i] ELSE t[i - Len(h)]
      BY <2>1, ConcatProperties
    <2>4. Len(h \o t) = Len(w)
      BY <1>1, <2>1, <2>2, <2>3
    <2>5. ASSUME NEW i \in 1..Len(w) PROVE (h \o t)[i] = w[i]
      <3>1. CASE i = 1
        BY <1>1, <2>1, <2>2, <2>3, <3>1
      <3>2. CASE i > 1
        <4>1. i - 1 \in 1..Len(t) /\ (i - 1) + 1 = i
          BY <1>1, <2>2, <3>2
        <4>2. t[i - 1] = w[i]
          BY <2>2, <4>1
        <4> QED BY <1>1, <2>1, <2>2, <2>3, <3>2, <4>2
      <3>3. i = 1 \/ i > 1
        BY <1>1
      <3> QED BY <3>1, <3>2, <3>3
    <2>6. w = h \o t
      BY <2>3, <2>4, <2>5, SeqEqual
    <2> QED BY <2>6 DEF h, t
  <1>4. \A i \in 1..Len(B) : (B \o w)[i] = B[i]
    BY <1>1, <1>2
  <1>5. (B \o w)[Len(B) + 1] = Head(w)
    BY <1>1, <1>2
  <1>6. Shifted(B \o w, Tail(w), Len(B) + 1)
    <2> DEFINE U == B \o w
               t == Tail(w)
    <2>1. /\ \A i \in 1..Len(B) + Len(w) : U[i] = IF i <= Len(B) THEN B[i] ELSE w[i - Len(B)]
          /\ Len(U) = Len(B) + Len(w) /\ Len(t) = Len(w) - 1
          /\ \A i \in 1..Len(t) : t[i] = w[i + 1]
      BY <1>1, <1>2
    <2> HIDE DEF U, t
    <2>2. ASSUME NEW i \in 1..Len(t) PROVE t[i] = U[i + (Len(B) + 1)]
      <3>1. /\ i + (Len(B) + 1) \in 1..Len(B) + Len(w) /\ ~(i + (Len(B) + 1) <= Len(B))
            /\ (i + (Len(B) + 1)) - Len(B) = i + 1
        BY <1>1, <1>2, <2>1
      <3> QED BY <2>1, <3>1
    <2>3. Len(U) = Len(t) + (Len(B) + 1)
      BY <1>1, <1>2, <2>1
    <2>4. Shifted(U, t, Len(B) + 1)
      BY <2>2, <2>3 DEF Shifted
    <2> QED BY <2>4 DEF U, t
  <1> QED BY <1>1, <1>2, <1>3, <1>4, <1>5, <1>6

\* U was under way, V is, and f is the frame that the line ended.
MiddleRead(U, V, f) == f = <<>> /\ V = U

IdleRead(U, V, f) ==
    f = <<>> /\ Len(U) >= 1 /\ Shifted(U, V, 1) /\ U[1].field \in {":", "blank"}

MessageRead(U, V, f) ==
    /\ Len(U) >= 2 /\ Shifted(U, V, 2)
    /\ U[1].field = "data" /\ U[2].field = "blank"
    /\ f = <<[event |-> "message", data |-> <<U[1].value>>]>>

NamedRead(U, V, f) ==
    /\ Len(U) >= 3 /\ Shifted(U, V, 3)
    /\ U[1].field = "event" /\ U[2].field = "data" /\ U[3].field = "blank"
    /\ f = <<[event |-> U[1].value, data |-> <<U[2].value>>]>>

\* Of a frame whose lines are in order at most the event and one data line have
\* been read when its next line comes.
LEMMA BegunWith ==
    ASSUME NEW p \in Parsers, NEW w \in Seq(Sendable), w # <<>>, Grammar(Begun(p) \o w)
    PROVE  \/ /\ p.event = "message" /\ p.data = <<>> /\ Begun(p) = <<>>
           \/ /\ p.event = "message" /\ Len(p.data) = 1 /\ Len(Begun(p)) = 1
              /\ Begun(p)[1] = Line("data", p.data[1])
              /\ Head(w).field = "blank"
           \/ /\ p.event \in EventTypes /\ p.data = <<>> /\ Len(Begun(p)) = 1
              /\ Begun(p)[1] = Line("event", p.event)
              /\ Head(w).field = "data"
           \/ /\ p.event \in EventTypes /\ Len(p.data) = 1 /\ Len(Begun(p)) = 2
              /\ Begun(p)[1] = Line("event", p.event)
              /\ Begun(p)[2] = Line("data", p.data[1])
              /\ Head(w).field = "blank"
  <1> DEFINE B == Begun(p)
             U == B \o w
             n == Len(p.data)
  <1>1. /\ B \in Seq(Sendable) /\ n \in Nat /\ p.event \in EventTypes \cup {"message"}
        /\ n = 0 => p.data = <<>>
    BY BegunLines, EmptySeq, LenProperties DEF Parsers
  <1>2. /\ Len(U) = Len(B) + Len(w) /\ Len(w) >= 1 /\ Len(w) \in Nat /\ Len(B) \in Nat
        /\ \A i \in 1..Len(B) : U[i] = B[i]
        /\ U[Len(B) + 1] = Head(w)
    BY <1>1, Joined
  <1> HIDE DEF U
  <1>3. /\ \A i \in 1..Len(B) :
             /\ B[i].field = "event" => U[i + 1].field = "data"
             /\ B[i].field = "data" => U[i + 1].field = "blank"
    <2>1. Grammar(U)
      BY DEF U
    <2>2. \A i \in 1..Len(B) : i \in 1..Len(U) - 1
      BY <1>2
    <2> QED BY <1>2, <2>1, <2>2 DEF Grammar
  <1>4. CASE p.event = "message"
    <2>1. Len(B) = n /\ \A i \in 1..n : B[i] = Line("data", p.data[i])
      BY <1>4, BegunLines
    <2> HIDE DEF B, n
    <2>2. \A i \in 1..n : B[i].field = "data"
      BY <2>1 DEF Line
    <2>3. CASE n = 0
      <3>1. B = <<>>
        BY <1>1, <2>1, <2>3, EmptySeq
      <3> QED BY <1>1, <1>4, <2>3, <3>1 DEF B
    <2>4. CASE n = 1
      <3>1. B[1] = Line("data", p.data[1]) /\ Head(w).field = "blank"
        BY <1>2, <1>3, <2>1, <2>2, <2>4
      <3> QED BY <1>4, <2>1, <2>4, <3>1 DEF B, n
    <2>5. CASE n > 1
      <3>1. 1 \in 1..n /\ 2 \in 1..n /\ 1 + 1 = 2
        BY <1>1, <2>5
      <3>2. U[2] = B[2] /\ B[2].field = "data" /\ U[2].field = "blank"
        BY <1>2, <1>3, <2>1, <2>2, <3>1
      <3> QED BY <3>2
    <2> QED BY <1>1, <2>3, <2>4, <2>5
  <1>5. CASE p.event # "message"
    <2>1. /\ p.event \in EventTypes /\ Len(B) = n + 1 /\ B[1] = Line("event", p.event)
          /\ \A i \in 1..n : B[i + 1] = Line("data", p.data[i])
      BY <1>1, <1>5, BegunLines
    <2> HIDE DEF B, n
    <2>2. \A i \in 1..n : B[i + 1].field = "data"
      <3>1. \A x : Line("data", x).field = "data"
        BY DEF Line
      <3> QED BY <2>1, <3>1
    <2>3. CASE n = 0
      <3>1. 1 \in 1..Len(B) /\ B[1].field = "event"
        BY <2>1, <2>3 DEF Line
      <3>2. Head(w).field = "data"
        BY <1>2, <1>3, <2>1, <2>3, <3>1
      <3> QED BY <1>1, <2>1, <2>3, <3>2 DEF B
    <2>4. CASE n = 1
      <3>1. 1 \in 1..n /\ 1 + 1 = 2 /\ 2 \in 1..Len(B) /\ Len(B) = 2
        BY <2>1, <2>4
      <3>2. B[2] = Line("data", p.data[1]) /\ B[2].field = "data"
        BY <2>1, <2>2, <3>1
      <3>3. Head(w).field = "blank"
        BY <1>2, <1>3, <3>1, <3>2
      <3> QED BY <2>1, <2>4, <3>1, <3>2, <3>3 DEF B, n
    <2>5. CASE n > 1
      <3>1. 1 \in 1..n /\ 2 \in 1..n /\ 1 + 1 = 2 /\ 2 + 1 = 3 /\ 2 \in 1..Len(B) /\ 3 \in 1..Len(B)
        BY <1>1, <2>1, <2>5
      <3>2. B[2].field = "data" /\ B[3].field = "data"
        BY <2>2, <3>1
      <3>3. U[3] = B[3] /\ U[3].field = "blank"
        BY <1>2, <1>3, <3>1, <3>2
      <3> QED BY <3>2, <3>3
    <2> QED BY <1>1, <2>3, <2>4, <2>5
  <1> QED BY <1>4, <1>5

LEMMA ReadEffect ==
    ASSUME NEW p \in Parsers, NEW w \in Seq(Sendable), w # <<>>, Grammar(Begun(p) \o w),
           NEW q, q = ParseLine(p, Head(w))
    PROVE  /\ q \in Parsers /\ Begun(q) \o Tail(w) \in Seq(Sendable)
           /\ \/ MiddleRead(Begun(p) \o w, Begun(q) \o Tail(w), q.frame)
              \/ IdleRead(Begun(p) \o w, Begun(q) \o Tail(w), q.frame)
              \/ MessageRead(Begun(p) \o w, Begun(q) \o Tail(w), q.frame)
              \/ NamedRead(Begun(p) \o w, Begun(q) \o Tail(w), q.frame)
  <1> DEFINE B == Begun(p)
             h == Head(w)
             t == Tail(w)
             U == B \o w
             V == Begun(q) \o t
  <1>1. /\ B \in Seq(Sendable) /\ h \in Sendable /\ t \in Seq(Sendable) /\ w = <<h>> \o t
        /\ Len(U) = Len(B) + Len(w) /\ Len(w) >= 1 /\ Len(w) \in Nat /\ Len(B) \in Nat
        /\ \A i \in 1..Len(B) : U[i] = B[i]
        /\ U[Len(B) + 1] = h
        /\ Shifted(U, t, Len(B) + 1)
        /\ <<h>> \in Seq(Sendable)
    <2>1. B \in Seq(Sendable)
      BY BegunLines
    <2>2. h \in Sendable
      BY <2>1, Joined
    <2> QED BY <2>1, <2>2, Joined
  <1>2. \A s \in Seq(Sendable) : s \o t \in Seq(Sendable)
    <2>1. t \in Seq(Sendable)
      BY <1>1, Zenon
    <2> QED BY <2>1, ConcatProperties
  <1>3. Begun(q) = <<>> => V = t
    BY <1>1, ConcatEmptySeq, Zenon
  <1>4. CASE h.field = "event"
    <2>1. B = <<>>
      BY <1>4, BegunWith
    <2>2. q \in Parsers /\ Begun(q) = <<h>> /\ q.frame = <<>>
      BY <1>1, <1>4, <2>1, ParseEvent
    <2>3. U = w
      BY <2>1, ConcatEmptySeq
    <2>4. V = U
      BY <1>1, <2>2, <2>3
    <2> QED BY <1>1, <1>2, <2>2, <2>4 DEF MiddleRead
  <1>5. CASE h.field = "data"
    <2>1. q \in Parsers /\ Begun(q) = Append(B, h) /\ q.frame = <<>>
      BY <1>1, <1>5, ParseData
    <2>2. Append(B, h) = B \o <<h>>
      BY <1>1, AppendIsConcat
    <2>3. (B \o <<h>>) \o t = B \o (<<h>> \o t)
      BY <1>1, ConcatAssociative
    <2>4. V = U
      BY <1>1, <2>1, <2>2, <2>3
    <2>5. V \in Seq(Sendable)
      BY <1>2, <2>1, BegunLines
    <2> QED BY <2>1, <2>4, <2>5 DEF MiddleRead
  <1>6. CASE h.field = ":"
    <2>1. B = <<>>
      BY <1>6, BegunWith
    <2>2. q \in Parsers /\ Begun(q) = <<>> /\ q.frame = <<>>
      BY <1>1, <1>6, <2>1, ParseComment
    <2>3. V = t /\ V \in Seq(Sendable)
      BY <1>1, <1>3, <2>2, Zenon
    <2>4. Len(B) + 1 = 1 /\ Len(U) >= 1
      BY <1>1, <2>1
    <2>5. IdleRead(U, t, q.frame)
      BY <1>1, <1>6, <2>2, <2>4 DEF IdleRead
    <2> QED BY <2>2, <2>3, <2>5
  <1>7. CASE h.field = "blank"
    <2>1. /\ q \in Parsers /\ Begun(q) = <<>>
          /\ q.frame = IF p.data = <<>> THEN <<>> ELSE <<[event |-> p.event, data |-> p.data]>>
      <3>1. h \in Sendable /\ q = ParseLine(p, h)
        BY <1>1, Zenon
      <3> QED BY <1>7, <3>1, ParseBlank
    <2>2. V = t /\ V \in Seq(Sendable)
      BY <1>1, <1>3, <2>1, Zenon
    <2>3. CASE p.event = "message" /\ p.data = <<>> /\ B = <<>>
      <3>1. Len(B) + 1 = 1 /\ Len(U) >= 1
        BY <1>1, <2>3
      <3>2. IdleRead(U, t, q.frame)
        BY <1>1, <1>7, <2>1, <2>3, <3>1 DEF IdleRead
      <3> QED BY <2>1, <2>2, <3>2
    <2>4. CASE /\ p.event = "message" /\ Len(p.data) = 1 /\ Len(B) = 1
               /\ B[1] = Line("data", p.data[1])
      <3>1. Len(B) + 1 = 2 /\ Len(U) >= 2 /\ U[1] = Line("data", p.data[1]) /\ U[2] = h
        BY <1>1, <2>4
      <3>2. U[1].field = "data" /\ U[1].value = p.data[1]
        BY <3>1 DEF Line
      <3>3. p.data # <<>> /\ p.data = <<p.data[1]>>
        BY <2>4 DEF Parsers
      <3>4. q.frame = <<[event |-> "message", data |-> <<U[1].value>>]>>
        BY <2>1, <2>4, <3>2, <3>3
      <3>5. MessageRead(U, t, q.frame)
        BY <1>1, <1>7, <3>1, <3>2, <3>4 DEF MessageRead
      <3> QED BY <2>1, <2>2, <3>5
    <2>5. CASE /\ p.event \in EventTypes /\ Len(p.data) = 1 /\ Len(B) = 2
               /\ B[1] = Line("event", p.event) /\ B[2] = Line("data", p.data[1])
      <3>1. /\ Len(B) + 1 = 3 /\ Len(U) >= 3 /\ U[3] = h
            /\ U[1] = Line("event", p.event) /\ U[2] = Line("data", p.data[1])
        BY <1>1, <2>5
      <3>2. /\ U[1].field = "event" /\ U[1].value = p.event
            /\ U[2].field = "data" /\ U[2].value = p.data[1]
        BY <3>1 DEF Line
      <3>3. p.data # <<>> /\ p.data = <<p.data[1]>>
        BY <2>5 DEF Parsers
      <3>4. q.frame = <<[event |-> U[1].value, data |-> <<U[2].value>>]>>
        BY <2>1, <2>5, <3>2, <3>3
      <3>5. NamedRead(U, t, q.frame)
        BY <1>1, <1>7, <3>1, <3>2, <3>4 DEF NamedRead
      <3> QED BY <2>1, <2>2, <3>5
    <2>6. h.field # "data"
      BY <1>7
    <2> HIDE DEF U, V
    <2> QED BY <2>3, <2>4, <2>5, <2>6, BegunWith DEF U, V
  <1> QED BY <1>1, <1>4, <1>5, <1>6, <1>7, Kinds

-----------------------------------------------------------------------------
(* The order of the events, from the log through the queue and the lines   *)
(* under way to the terminal: o are the options, l the log, s the events   *)
(* printed, m the length of the log when the stream was subscribed, U the  *)
(* lines under way and Q the queue.                                        *)

Increasing(s) == \A i, j \in 1..Len(s) : i < j => s[i] < s[j]

Wanted(o, l, n) == n \in 1..Len(l) /\ Wants(Query(o), l[n])

\* The event may be printed next, on this stream.
Ahead(o, l, s, m, n) ==
    Wanted(o, l, n) /\ m < n /\ \A j \in 1..Len(s) : s[j] < n

PrintedRight(o, l, s) ==
    Increasing(s) /\ \A j \in 1..Len(s) : Wanted(o, l, s[j]) /\ j <= s[j]

WireRight(o, l, s, m, U) ==
    \A i \in Plain(U) :
        /\ Ahead(o, l, s, m, U[i].value)
        /\ \A k \in Plain(U) : i < k => U[i].value < U[k].value

QueueRight(o, l, s, m, U, Q) ==
    /\ Increasing(Q)
    /\ \A k \in 1..Len(Q) :
         Ahead(o, l, s, m, Q[k]) /\ \A i \in Plain(U) : U[i].value < Q[k]

\* Every event in V is in U, k places further on.
Taken(U, V, k) == \A i \in Plain(V) : i + k \in Plain(U) /\ V[i] = U[i + k]

LEMMA FewerRight ==
    ASSUME NEW o, NEW l, NEW s, NEW m, NEW U \in Seq(Sendable), NEW V \in Seq(Sendable),
           NEW k \in Nat, Taken(U, V, k)
    PROVE  /\ WireRight(o, l, s, m, U) => WireRight(o, l, s, m, V)
           /\ \A Q : QueueRight(o, l, s, m, U, Q) => QueueRight(o, l, s, m, V, Q)
  <1>1. \A i \in Plain(V) : i \in Int
    BY DataOf
  <1>2. WireRight(o, l, s, m, U) => WireRight(o, l, s, m, V)
    <2> SUFFICES ASSUME WireRight(o, l, s, m, U), NEW i \in Plain(V)
                 PROVE  /\ Ahead(o, l, s, m, V[i].value)
                        /\ \A j \in Plain(V) : i < j => V[i].value < V[j].value
      BY DEF WireRight
    <2>1. i + k \in Plain(U) /\ V[i] = U[i + k]
      BY DEF Taken
    <2>2. Ahead(o, l, s, m, V[i].value)
      BY <2>1 DEF WireRight
    <2>3. ASSUME NEW j \in Plain(V), i < j PROVE V[i].value < V[j].value
      <3>1. j + k \in Plain(U) /\ V[j] = U[j + k] /\ i + k < j + k
        BY <1>1, <2>3 DEF Taken
      <3> QED BY <2>1, <3>1 DEF WireRight
    <2> QED BY <2>2, <2>3
  <1>3. ASSUME NEW Q, QueueRight(o, l, s, m, U, Q) PROVE QueueRight(o, l, s, m, V, Q)
    <2>1. ASSUME NEW j \in 1..Len(Q), NEW i \in Plain(V) PROVE V[i].value < Q[j]
      <3>1. i + k \in Plain(U) /\ V[i] = U[i + k]
        BY DEF Taken
      <3> QED BY <1>3, <3>1 DEF QueueRight
    <2> QED BY <1>3, <2>1 DEF QueueRight
  <1> QED BY <1>2, <1>3

\* Nothing is under way and nothing is queued.
LEMMA NoneRight ==
    ASSUME NEW o, NEW l, NEW s, NEW m, NEW U, Plain(U) = {}
    PROVE  WireRight(o, l, s, m, U) /\ QueueRight(o, l, s, m, U, <<>>)
  BY DEF WireRight, QueueRight, Increasing

\* The lines of an event's frame.
LEMMA MessageAdded ==
    ASSUME NEW U \in Seq(Sendable), Grammar(U), Ended(U),
           NEW F \in Seq(Sendable), Len(F) = 2, Grammar(F), Ended(F),
           Plain(F) = {1}, Named(F) = {}
    PROVE  /\ \A i \in 1..Len(U) : (U \o F)[i] = U[i]
           /\ (U \o F)[Len(U) + 1] = F[1]
           /\ Len(U) + 1 \notin Plain(U) /\ Plain(U \o F) = Plain(U) \cup {Len(U) + 1}
           /\ Cardinality(Plain(U \o F)) = Cardinality(Plain(U)) + 1
  <1> DEFINE V == U \o F
             x == Len(U) + 1
  <1>1. /\ V \in Seq(Sendable) /\ Len(V) = Len(U) + Len(F)
        /\ \A i \in 1..Len(U) : V[i] = U[i]
        /\ \A j \in 1..Len(F) : V[Len(U) + j] = F[j]
        /\ \A i \in 1..Len(U) : i \in Plain(V) <=> i \in Plain(U)
        /\ \A j \in 1..Len(F) : Len(U) + j \in Plain(V) <=> j \in Plain(F)
    BY Added
  <1> HIDE DEF V
  <1>2. Len(U) \in Nat /\ 1 \in 1..Len(F) /\ 2 \in 1..Len(F)
    BY DataOf
  <1>3. V[x] = F[1] /\ x \in Plain(V) /\ Len(U) + 2 \notin Plain(V)
    BY <1>1, <1>2
  <1>4. Plain(U) \subseteq 1..Len(U) /\ Plain(V) \subseteq 1..Len(U) + 2
    BY <1>1, DataOf
  <1>5. \A i \in Plain(V) : i = x \/ i \in Plain(U)
    <2> SUFFICES ASSUME NEW i \in Plain(V), i # x PROVE i \in Plain(U)
      OBVIOUS
    <2>1. i # Len(U) + 2
      BY <1>3
    <2>2. i \in 1..Len(U)
      BY <1>2, <1>4, <2>1
    <2> QED BY <1>1, <2>2
  <1>6. \A i \in Plain(U) : i \in Plain(V)
    BY <1>1, <1>4
  <1>7. x \notin Plain(U)
    BY <1>2, <1>4
  <1>8. Plain(V) = Plain(U) \cup {x}
    BY <1>3, <1>5, <1>6
  <1>9. Cardinality(Plain(V)) = Cardinality(Plain(U)) + 1
    <2> DEFINE S == Plain(U)
    <2>1. IsFiniteSet(S) /\ x \notin S
      BY <1>7, DataOf
    <2> HIDE DEF S, x
    <2>2. Cardinality(S \cup {x}) = Cardinality(S) + 1
      BY <2>1, FS_AddElement
    <2> QED BY <1>8, <2>2 DEF S
  <1>10. \A i \in 1..Len(U) : V[i] = U[i]
    BY <1>1
  <1>11. /\ \A i \in 1..Len(U) : V[i] = U[i]
         /\ V[Len(U) + 1] = F[1]
         /\ Len(U) + 1 \notin Plain(U) /\ Plain(V) = Plain(U) \cup {Len(U) + 1}
         /\ Cardinality(Plain(V)) = Cardinality(Plain(U)) + 1
    BY <1>3, <1>7, <1>8, <1>9, <1>10
  <1> QED BY <1>11 DEF V

\* The first event of the queue goes over the wire.
LEMMA PushRight ==
    ASSUME NEW o, NEW l, NEW s, NEW m, NEW Q \in Seq(Nat), Q # <<>>,
           NEW U \in Seq(Sendable), NEW V \in Seq(Sendable),
           WireRight(o, l, s, m, U), QueueRight(o, l, s, m, U, Q),
           \A i \in 1..Len(U) : V[i] = U[i],
           V[Len(U) + 1].value = Head(Q), Plain(V) = Plain(U) \cup {Len(U) + 1}
    PROVE  WireRight(o, l, s, m, V) /\ QueueRight(o, l, s, m, V, Tail(Q))
  <1> DEFINE x == Len(U) + 1
             T == Tail(Q)
  <1>1. /\ Head(Q) = Q[1] /\ 1 \in 1..Len(Q) /\ Len(Q) \in Nat
        /\ Len(T) = Len(Q) - 1 /\ \A i \in 1..Len(T) : T[i] = Q[i + 1]
    <2>1. Len(Q) \in Nat /\ Len(Q) # 0
      BY EmptySeq, LenProperties
    <2>2. Len(T) = Len(Q) - 1 /\ \A i \in 1..Len(T) : T[i] = Q[i + 1]
      BY HeadTailProperties
    <2>3. Head(Q) = Q[1]
      OBVIOUS
    <2> QED BY <2>1, <2>2, <2>3
  <1> HIDE DEF T
  <1>2. x \in Int /\ \A i \in Plain(U) : i \in 1..Len(U) /\ i < x /\ i \in Int /\ V[i] = U[i]
    BY DataOf
  <1>3. Plain(V) = Plain(U) \cup {x} /\ V[x].value = Q[1]
    BY <1>1
  <1> HIDE DEF x
  <1>4. Ahead(o, l, s, m, Q[1]) /\ \A i \in Plain(U) : U[i].value < Q[1]
    BY <1>1 DEF QueueRight
  <1>5. WireRight(o, l, s, m, V)
    <2> SUFFICES ASSUME NEW i \in Plain(V)
                 PROVE  /\ Ahead(o, l, s, m, V[i].value)
                        /\ \A k \in Plain(V) : i < k => V[i].value < V[k].value
      BY DEF WireRight
    <2>1. CASE i = x
      <3>1. \A k \in Plain(V) : ~(i < k)
        BY <1>2, <1>3, <2>1
      <3> QED BY <1>3, <1>4, <2>1, <3>1
    <2>2. CASE i \in Plain(U)
      <3>1. Ahead(o, l, s, m, V[i].value)
        BY <1>2, <2>2 DEF WireRight
      <3>2. ASSUME NEW k \in Plain(V), i < k PROVE V[i].value < V[k].value
        <4>1. CASE k = x
          BY <1>2, <1>3, <1>4, <2>2, <4>1
        <4>2. CASE k \in Plain(U)
          BY <1>2, <2>2, <3>2, <4>2 DEF WireRight
        <4> QED BY <1>3, <4>1, <4>2
      <3> QED BY <3>1, <3>2
    <2> QED BY <1>3, <2>1, <2>2
  <1>6. QueueRight(o, l, s, m, V, T)
    <2>1. \A k \in 1..Len(T) : k + 1 \in 1..Len(Q) /\ 1 < k + 1 /\ T[k] = Q[k + 1]
      BY <1>1
    <2>2. Increasing(T)
      <3> SUFFICES ASSUME NEW i \in 1..Len(T), NEW j \in 1..Len(T), i < j
                   PROVE  T[i] < T[j]
        BY DEF Increasing
      <3>1. i + 1 < j + 1
        OBVIOUS
      <3> QED BY <2>1, <3>1 DEF QueueRight, Increasing
    <2>3. ASSUME NEW k \in 1..Len(T) PROVE Ahead(o, l, s, m, T[k])
      BY <2>1 DEF QueueRight
    <2>4. ASSUME NEW k \in 1..Len(T), NEW i \in Plain(V) PROVE V[i].value < T[k]
      <3>1. CASE i = x
        <4>1. Q[1] < Q[k + 1]
          BY <1>1, <2>1 DEF QueueRight, Increasing
        <4> QED BY <1>3, <2>1, <3>1, <4>1
      <3>2. CASE i \in Plain(U)
        <4>1. U[i].value < Q[k + 1]
          BY <2>1, <3>2 DEF QueueRight
        <4> QED BY <1>2, <2>1, <3>2, <4>1
      <3> QED BY <1>3, <3>1, <3>2
    <2> QED BY <2>2, <2>3, <2>4 DEF QueueRight
  <1> QED BY <1>5, <1>6 DEF T

\* What is left of the lines when the first k have been read.
LEMMA RestTaken ==
    ASSUME NEW U \in Seq(Sendable), NEW V \in Seq(Sendable), NEW k \in Nat \ {0},
           k <= Len(U), Shifted(U, V, k), U[k].field # "event", Grammar(U)
    PROVE  Taken(U, V, k)
  <1>1. \A i : i \in Plain(V) <=> i + k \in Plain(U) /\ i \in 1..Len(V)
    BY ShiftedData
  <1>2. \A i \in 1..Len(V) : V[i] = U[i + k]
    BY DEF Shifted
  <1> QED BY <1>1, <1>2 DEF Taken

\* The first event under way is printed.
LEMMA PrintRight ==
    ASSUME NEW o, NEW D, NEW l \in Seq(D), NEW s \in Seq(Nat), NEW m,
           NEW U \in Seq(Sendable), NEW V \in Seq(Sendable),
           NEW k \in Nat \ {0}, Taken(U, V, k), 1 \in Plain(U), NEW v, v = U[1].value,
           PrintedRight(o, l, s), WireRight(o, l, s, m, U)
    PROVE  /\ v \in 1..Len(l) /\ Append(s, v) \in Seq(Nat)
           /\ PrintedRight(o, l, Append(s, v)) /\ WireRight(o, l, Append(s, v), m, V)
           /\ \A Q : QueueRight(o, l, s, m, U, Q) => QueueRight(o, l, Append(s, v), m, V, Q)
  <1> DEFINE t == Append(s, v)
             n == Len(s)
  <1>1. /\ Ahead(o, l, s, m, v)
        /\ \A i \in Plain(U) : 1 < i => v < U[i].value
    BY DEF WireRight
  <1>2. Len(l) \in Nat /\ v \in 1..Len(l) /\ v \in Nat /\ n \in Nat
    BY <1>1, LenProperties DEF Ahead, Wanted
  <1>3. /\ t \in Seq(Nat) /\ Len(t) = n + 1 /\ t[n + 1] = v
        /\ \A i \in 1..n : t[i] = s[i] /\ s[i] \in Nat
    <2>1. t \in Seq(Nat) /\ Len(t) = n + 1 /\ t[n + 1] = v /\ \A i \in 1..n : t[i] = s[i]
      BY <1>2, AppendProperties
    <2>2. \A i \in 1..n : s[i] \in Nat
      BY ElementOfSeq
    <2> QED BY <2>1, <2>2
  <1> HIDE DEF t
  <1>4. \A i \in 1..n : s[i] < v /\ i <= s[i] /\ Wanted(o, l, s[i])
    BY <1>1 DEF Ahead, PrintedRight
  <1>5. n + 1 <= v
    <2>1. CASE n = 0
      BY <1>2, <2>1
    <2>2. CASE n # 0
      <3>1. n \in 1..n
        BY <1>2, <2>2
      <3>2. n <= s[n] /\ s[n] < v /\ s[n] \in Nat
        BY <1>3, <1>4, <3>1
      <3> QED BY <1>2, <3>2
    <2> QED BY <2>1, <2>2
  <1> HIDE DEF n
  <1>6. \A i \in 1..n + 1 : i = n + 1 \/ i \in 1..n
    BY <1>2 DEF n
  <1>7. PrintedRight(o, l, t)
    <2>1. ASSUME NEW j \in 1..Len(t) PROVE Wanted(o, l, t[j]) /\ j <= t[j]
      <3>1. CASE j \in 1..n
        BY <1>3, <1>4, <3>1
      <3>2. CASE j = n + 1
        BY <1>1, <1>3, <1>5, <3>2 DEF Ahead
      <3> QED BY <1>3, <1>6, <3>1, <3>2
    <2>2. ASSUME NEW i \in 1..Len(t), NEW j \in 1..Len(t), i < j PROVE t[i] < t[j]
      <3>1. i \in 1..n
        BY <1>2, <1>3, <2>2 DEF n
      <3>2. CASE j \in 1..n
        <4>1. s[i] < s[j]
          BY <2>2, <3>1, <3>2 DEF PrintedRight, Increasing, n
        <4> QED BY <1>3, <3>1, <3>2, <4>1
      <3>3. CASE j = n + 1
        BY <1>3, <1>4, <3>1, <3>3
      <3> QED BY <1>3, <1>6, <3>2, <3>3
    <2> QED BY <2>1, <2>2 DEF PrintedRight, Increasing
  <1>8. ASSUME NEW x, Ahead(o, l, s, m, x), v < x PROVE Ahead(o, l, t, m, x)
    <2>1. \A j \in 1..n : s[j] < x
      BY <1>8 DEF Ahead, n
    <2>2. ASSUME NEW j \in 1..Len(t) PROVE t[j] < x
      <3>1. CASE j \in 1..n
        BY <1>3, <2>1, <3>1
      <3>2. CASE j = n + 1
        BY <1>3, <1>8, <3>2
      <3> QED BY <1>3, <1>6, <3>1, <3>2
    <2> QED BY <1>8, <2>2 DEF Ahead
  <1>9. \A i \in Plain(V) : i \in Int /\ i >= 1
    BY DataOf
  <1>10. ASSUME NEW i \in Plain(V)
         PROVE  i + k \in Plain(U) /\ 1 < i + k /\ V[i] = U[i + k]
    BY <1>9 DEF Taken
  <1>11. WireRight(o, l, t, m, V)
    <2> SUFFICES ASSUME NEW i \in Plain(V)
                 PROVE  /\ Ahead(o, l, t, m, V[i].value)
                        /\ \A j \in Plain(V) : i < j => V[i].value < V[j].value
      BY DEF WireRight
    <2>1. Ahead(o, l, s, m, U[i + k].value) /\ v < U[i + k].value
      BY <1>1, <1>10 DEF WireRight
    <2>2. Ahead(o, l, t, m, V[i].value)
      BY <1>8, <1>10, <2>1
    <2>3. ASSUME NEW j \in Plain(V), i < j PROVE V[i].value < V[j].value
      <3>1. i + k < j + k
        BY <1>9, <2>3
      <3> QED BY <1>10, <3>1 DEF WireRight
    <2> QED BY <2>2, <2>3
  <1>12. ASSUME NEW Q, QueueRight(o, l, s, m, U, Q) PROVE QueueRight(o, l, t, m, V, Q)
    <2>1. ASSUME NEW j \in 1..Len(Q) PROVE Ahead(o, l, t, m, Q[j])
      <3>1. Ahead(o, l, s, m, Q[j]) /\ v < Q[j]
        BY <1>12 DEF QueueRight
      <3> QED BY <1>8, <3>1
    <2>2. ASSUME NEW j \in 1..Len(Q), NEW i \in Plain(V) PROVE V[i].value < Q[j]
      BY <1>10, <1>12 DEF QueueRight
    <2> QED BY <1>12, <2>1, <2>2 DEF QueueRight
  <1> QED BY <1>2, <1>3, <1>7, <1>11, <1>12 DEF t

\* An event is published: it is ahead of everything that was.
LEMMA PublishRight ==
    ASSUME NEW o, NEW D, NEW l \in Seq(D), NEW d \in D, NEW s \in Seq(Nat), NEW m \in 0..Len(l),
           NEW U \in Seq(Sendable),
           PrintedRight(o, l, s), WireRight(o, l, s, m, U)
    PROVE  /\ PrintedRight(o, Append(l, d), s) /\ WireRight(o, Append(l, d), s, m, U)
           /\ \A Q \in Seq(Nat) : QueueRight(o, l, s, m, U, Q) =>
                /\ QueueRight(o, Append(l, d), s, m, U, Q)
                /\ Wants(Query(o), d) =>
                     QueueRight(o, Append(l, d), s, m, U, Append(Q, Len(l) + 1))
  <1> DEFINE l2 == Append(l, d)
             n == Len(l)
  <1>1. /\ n \in Nat /\ l2 \in Seq(D) /\ Len(l2) = n + 1 /\ l2[n + 1] = d
        /\ \A i \in 1..n : l2[i] = l[i]
    BY LenProperties, AppendProperties
  <1> HIDE DEF l2
  <1>2. ASSUME NEW x, Wanted(o, l, x) PROVE Wanted(o, l2, x) /\ x \in Int /\ x < n + 1
    BY <1>1, <1>2 DEF Wanted
  <1>3. ASSUME NEW x, Ahead(o, l, s, m, x) PROVE Ahead(o, l2, s, m, x)
    BY <1>2, <1>3 DEF Ahead
  <1>4. PrintedRight(o, l2, s)
    BY <1>2 DEF PrintedRight
  <1>5. WireRight(o, l2, s, m, U)
    BY <1>3 DEF WireRight
  <1>6. ASSUME NEW Q, QueueRight(o, l, s, m, U, Q) PROVE QueueRight(o, l2, s, m, U, Q)
    BY <1>3, <1>6 DEF QueueRight
  <1>7. ASSUME NEW Q \in Seq(Nat), QueueRight(o, l, s, m, U, Q), Wants(Query(o), d)
        PROVE  QueueRight(o, l2, s, m, U, Append(Q, n + 1))
    <2> DEFINE R == Append(Q, n + 1)
    <2>1. /\ Len(Q) \in Nat /\ Len(R) = Len(Q) + 1 /\ R[Len(Q) + 1] = n + 1
          /\ \A i \in 1..Len(Q) : R[i] = Q[i]
      BY <1>1, LenProperties, AppendProperties
    <2> HIDE DEF R
    <2>2. \A i \in 1..Len(R) : i = Len(Q) + 1 \/ i \in 1..Len(Q)
      BY <2>1
    <2>3. Ahead(o, l2, s, m, n + 1)
      <3>1. Wanted(o, l2, n + 1)
        BY <1>1, <1>7 DEF Wanted
      <3>2. m < n + 1
        BY <1>1
      <3>3. \A j \in 1..Len(s) : s[j] < n + 1
        BY <1>2 DEF PrintedRight
      <3> QED BY <3>1, <3>2, <3>3 DEF Ahead
    <2>4. \A i \in 1..Len(Q) : Ahead(o, l, s, m, Q[i]) /\ Ahead(o, l2, s, m, Q[i]) /\ Q[i] < n + 1
      BY <1>2, <1>3, <1>7 DEF QueueRight, Ahead
    <2>5. \A i \in Plain(U) : U[i].value < n + 1
      BY <1>2 DEF WireRight, Ahead
    <2>6. ASSUME NEW i \in 1..Len(R), NEW j \in 1..Len(R), i < j PROVE R[i] < R[j]
      <3>1. i \in 1..Len(Q)
        BY <2>1, <2>6
      <3>2. CASE j \in 1..Len(Q)
        <4>1. Q[i] < Q[j]
          BY <1>7, <2>6, <3>1, <3>2 DEF QueueRight, Increasing
        <4> QED BY <2>1, <3>1, <3>2, <4>1
      <3>3. CASE j = Len(Q) + 1
        BY <2>1, <2>4, <3>1, <3>3
      <3> QED BY <2>2, <3>2, <3>3
    <2>7. ASSUME NEW j \in 1..Len(R)
          PROVE  Ahead(o, l2, s, m, R[j]) /\ \A i \in Plain(U) : U[i].value < R[j]
      <3>1. CASE j \in 1..Len(Q)
        <4>1. \A i \in Plain(U) : U[i].value < Q[j]
          BY <1>7, <3>1 DEF QueueRight
        <4> QED BY <2>1, <2>4, <3>1, <4>1
      <3>2. CASE j = Len(Q) + 1
        BY <2>1, <2>3, <2>5, <3>2
      <3> QED BY <2>2, <3>1, <3>2
    <2>8. QueueRight(o, l2, s, m, U, R)
      BY <2>6, <2>7 DEF QueueRight, Increasing
    <2> QED BY <2>8 DEF R
  <1> QED BY <1>4, <1>5, <1>6, <1>7 DEF l2

-----------------------------------------------------------------------------
(* What the log owes a stream, and what of it has been printed.            *)

LEMMA AskingIsWanting == \A o, d : AsksFor(o, d) <=> Wants(Query(o), d)
  BY DEF AsksFor, Wants, Query, extract_number

Owed(o, l, m) == {n \in m + 1..Len(l) : AsksFor(o, l[n])}

Since(s, m) == {i \in 1..Len(s) : s[i] > m}

LEMMA OwedType ==
    ASSUME NEW o, NEW D, NEW l \in Seq(D), NEW m \in Nat
    PROVE  IsFiniteSet(Owed(o, l, m)) /\ Cardinality(Owed(o, l, m)) \in Nat
  <1>1. Owed(o, l, m) \in SUBSET (m + 1..Len(l)) /\ IsFiniteSet(m + 1..Len(l))
    BY LenProperties, FS_Interval DEF Owed
  <1> QED BY <1>1, FS_Subset, FS_CardinalityType

LEMMA SinceType ==
    ASSUME NEW s \in Seq(Nat), NEW m \in Nat
    PROVE  IsFiniteSet(Since(s, m)) /\ Cardinality(Since(s, m)) \in Nat
  <1>1. Since(s, m) \in SUBSET (1..Len(s)) /\ IsFiniteSet(1..Len(s))
    BY LenProperties, FS_Interval DEF Since
  <1> QED BY <1>1, FS_Subset, FS_CardinalityType

LEMMA OwedMore ==
    ASSUME NEW o, NEW D, NEW l \in Seq(D), NEW d \in D, NEW m \in 0..Len(l)
    PROVE  Cardinality(Owed(o, Append(l, d), m)) =
             IF AsksFor(o, d) THEN Cardinality(Owed(o, l, m)) + 1 ELSE Cardinality(Owed(o, l, m))
  <1> DEFINE l2 == Append(l, d)
             n == Len(l)
  <1>1. /\ n \in Nat /\ l2 \in Seq(D) /\ Len(l2) = n + 1 /\ l2[n + 1] = d
        /\ \A i \in 1..n : l2[i] = l[i]
    BY LenProperties, AppendProperties
  <1> HIDE DEF l2
  <1>2. \A i : i \in m + 1..n + 1 <=> i = n + 1 \/ i \in m + 1..n
    BY <1>1
  <1>3. \A i \in m + 1..n : i \in 1..n /\ i # n + 1
    BY <1>1
  <1>4. n + 1 \notin Owed(o, l, m) /\ IsFiniteSet(Owed(o, l, m))
    <2>1. m \in Nat /\ n + 1 \notin m + 1..n
      BY <1>1
    <2> QED BY <2>1, OwedType DEF Owed
  <1>5. CASE AsksFor(o, d)
    <2>1. Owed(o, l2, m) = Owed(o, l, m) \cup {n + 1}
      BY <1>1, <1>2, <1>3, <1>5 DEF Owed
    <2> DEFINE S == Owed(o, l, m)
               x == n + 1
    <2>2. x \notin S /\ IsFiniteSet(S)
      BY <1>4
    <2> HIDE DEF S, x
    <2>3. Cardinality(S \cup {x}) = Cardinality(S) + 1
      BY <2>2, FS_AddElement
    <2> QED BY <1>5, <2>1, <2>3 DEF l2, S, x
  <1>6. CASE ~AsksFor(o, d)
    <2>1. Owed(o, l2, m) = Owed(o, l, m)
      BY <1>1, <1>2, <1>3, <1>6 DEF Owed
    <2> QED BY <1>6, <2>1 DEF l2
  <1> QED BY <1>5, <1>6

LEMMA SinceMore ==
    ASSUME NEW s \in Seq(Nat), NEW m \in Nat, NEW v \in Nat, m < v
    PROVE  Cardinality(Since(Append(s, v), m)) = Cardinality(Since(s, m)) + 1
  <1> DEFINE t == Append(s, v)
             n == Len(s)
  <1>1. /\ n \in Nat /\ t \in Seq(Nat) /\ Len(t) = n + 1 /\ t[n + 1] = v
        /\ \A i \in 1..n : t[i] = s[i]
    BY LenProperties, AppendProperties
  <1> HIDE DEF t
  <1>2. \A i : i \in 1..n + 1 <=> i = n + 1 \/ i \in 1..n
    BY <1>1
  <1>3. n + 1 \notin Since(s, m) /\ IsFiniteSet(Since(s, m))
    <2>1. n + 1 \notin 1..n
      BY <1>1
    <2>2. n + 1 \notin Since(s, m)
      BY <1>1, <2>1 DEF Since
    <2>3. IsFiniteSet(Since(s, m))
      BY <1>1, SinceType
    <2> QED BY <2>2, <2>3
  <1>4. Since(t, m) = Since(s, m) \cup {n + 1}
    BY <1>1, <1>2 DEF Since
  <1> DEFINE S == Since(s, m)
             x == n + 1
  <1>5. x \notin S /\ IsFiniteSet(S)
    BY <1>3
  <1> HIDE DEF S, x
  <1>6. Cardinality(S \cup {x}) = Cardinality(S) + 1
    BY <1>5, FS_AddElement
  <1> QED BY <1>4, <1>6 DEF t, S, x

\* A stream that is just being subscribed is owed nothing.
LEMMA NothingOwed ==
    ASSUME NEW o, NEW D, NEW l \in Seq(D), NEW s \in Seq(Nat), PrintedRight(o, l, s)
    PROVE  Owed(o, l, Len(l)) = {} /\ Since(s, Len(l)) = {}
  <1>1. Len(l) \in Nat
    BY LenProperties
  <1>2. Owed(o, l, Len(l)) = {}
    BY <1>1 DEF Owed
  <1>3. \A i \in 1..Len(s) : s[i] \in 1..Len(l)
    BY DEF PrintedRight, Wanted
  <1>4. Since(s, Len(l)) = {}
    BY <1>1, <1>3 DEF Since
  <1> QED BY <1>2, <1>4

-----------------------------------------------------------------------------
(* The inductive invariant.                                                *)

\* Only a usable command line is served.
Checked == main \notin {"begin", "exit"} => Usable(opt)

SystemTypes ==
    /\ log \in Seq(Deliveries) /\ Len(log) <= MaxLog
    /\ request \in [Rounds -> {None, Query(opt)}]
    /\ pending \in [Rounds -> Seq(Nat)] /\ received \in [Rounds -> Seq(Nat)]
    /\ unreported \in [Rounds -> Nat] /\ told \in [Rounds -> Nat]
    /\ wire \in Seq(Sendable) /\ Len(wire) <= MaxWire
    /\ cut \in BOOLEAN /\ parser \in Parsers
    /\ since \in 0..Len(log) /\ seen \in Seq(Nat) /\ printed = Len(seen) /\ warned \in Nat

\* The present stream has failed, or its failure is what main is dealing with.
Broken == cut \/ outcome = "retry" \/ answer = "http_error" \/ main \in {"recheck", "backoff"}

\* Every stream but the present one has failed once; only it and earlier ones may
\* have a subscription, and what later ones have is as it was.
RoundsCounted ==
    /\ faults \in 0..MaxFaults /\ round \in 0..faults + 1
    /\ open \subseteq 1..round
    /\ Broken => round <= faults
    /\ main \in {"begin", "startup"} => round = 0
    /\ Streaming => round > 0
    /\ \A r \in Rounds : r > round => unreported[r] = 0
    /\ \A r \in open : request[r] = Query(opt)

\* Until the server answers, nothing has come over a stream.
FreshStream ==
    Attached /\ ~cut /\ round \notin open =>
        /\ stream = "connecting" /\ wire = <<>> /\ Begun(parser) = <<>>
        /\ unreported[round] = 0 /\ warned = 0

LinesWellFormed ==
    Grammar(UnderWay) /\ (~cut => Ended(UnderWay)) /\ outcome # "garbled"

InOrder ==
    /\ PrintedRight(opt, log, seen)
    /\ WireRight(opt, log, seen, since, UnderWay)
    /\ round \in open => QueueRight(opt, log, seen, since, UnderWay, pending[round])
    /\ \A n \in 1..Len(log) : Terminal(log[n]) => reached

Accounted ==
    round \in open /\ ~cut =>
        Cardinality(Owed(opt, log, since)) =
            Cardinality(Since(seen, since)) + Cardinality(Plain(UnderWay))
          + Len(pending[round]) + unreported[round] + LagIn(UnderWay) + warned

LinkInv ==
    SystemTypes /\ RoundsCounted /\ FreshStream /\ LinesWellFormed /\ InOrder /\ Accounted

LEMMA Bounds ==
    /\ MaxLog \in Nat /\ MaxFaults \in Nat /\ MaxWire \in Nat /\ Capacity \in Int
    /\ MaxPrinted >= MaxLog /\ MaxPrinted \in Nat
  BY SystemAssumption, ListenAssumption

LEMMA UnderWayType == SystemTypes => UnderWay \in Seq(Sendable)
  BY BegunLines, ConcatProperties DEF SystemTypes, UnderWay

-----------------------------------------------------------------------------
(* Every step of the system is a step of listen, or leaves it alone.       *)

LEMMA SystemStepIsListenStep ==
    ASSUME log \in Seq(Deliveries), [SystemNext]_systemVars
    PROVE  [Next]_vars
  <1>1. CASE MainStep
    BY <1>1 DEF MainStep, Next
  <1>2. CASE StreamStep
    <2>1. CASE Read
      <3>1. CASE UNCHANGED <<vars, seen, warned>>
        BY <3>1
      <3>2. ASSUME NEW frame, Handle(frame) PROVE [Next]_vars
        <4>1. ASSUME frame.data[1] \in DOMAIN log, EventFrame(log[frame.data[1]])
              PROVE  Next
          <5>1. log[frame.data[1]] \in Deliveries
            BY <4>1
          <5> QED BY <4>1, <5>1 DEF Next, Stream
        <4> QED BY <3>2, <4>1 DEF Handle, Next, Stream
      <3> QED BY <2>1, <3>1, <3>2 DEF Read
    <2>2. CASE Ask
      BY <2>2 DEF Ask
    <2> QED BY <1>2, <2>1, <2>2 DEF StreamStep, Connected, ConnectLost, EndOfStream, Next, Stream
  <1>3. CASE Denied \/ PollStep
    BY <1>3 DEF Denied, PollStep, Next, Stream, Poll, Checks
  <1>4. CASE ServerStep
    BY <1>4 DEF ServerStep, Serve, Answer, Push, Warn, Ping, Send, Hangup, Webhook
  <1>5. CASE Failure
    BY <1>5 DEF Failure, Break, ServerEnds, Restart, Cut, ConnectFails, PollFails, Deadline, Next,
                Stream, Poll, Checks
  <1>6. CASE GitHubStep
    BY <1>6 DEF GitHubStep, Next
  <1>7. CASE UNCHANGED systemVars
    BY <1>7 DEF systemVars
  <1> QED BY <1>1, <1>2, <1>3, <1>4, <1>5, <1>6, <1>7 DEF SystemNext, ClientStep, Finished

\* What a step of main does to the stream and to what counts as a failure.
LEMMA MainEffect ==
    ASSUME ListenTypeOK, Shape, Checked, Main
    PROVE  /\ UNCHANGED <<opt, reached, printed>> /\ Checked'
           /\ \/ /\ stream' = "connecting" /\ main' \in {"race", "inline"}
                 /\ outcome' = "none" /\ answer' = "none"
                 /\ main \in {"begin", "startup", "backoff"}
              \/ /\ stream' # "connecting" /\ main' \in {"startup", "recheck", "backoff", "reap", "exit"}
                 /\ UNCHANGED <<outcome, answer>>
                 /\ main' = "startup" => main = "begin"
                 /\ main' \in {"recheck", "backoff"} =>
                      outcome = "retry" \/ answer = "http_error" \/ main = "recheck"
  <1> DEFINE Started ==
               /\ stream' = "connecting" /\ main' \in {"race", "inline"}
               /\ outcome' = "none" /\ answer' = "none"
               /\ main \in {"begin", "startup", "backoff"}
             Over ==
               /\ stream' # "connecting"
               /\ main' \in {"startup", "recheck", "backoff", "reap", "exit"}
               /\ UNCHANGED <<outcome, answer>>
               /\ main' = "startup" => main = "begin"
               /\ main' \in {"recheck", "backoff"} =>
                    outcome = "retry" \/ answer = "http_error" \/ main = "recheck"
             Goal == UNCHANGED <<opt, reached, printed>> /\ Checked' /\ (Started \/ Over)
  <1> USE DEF world, stateVars, historyVars
  <1>1. ASSUME NEW token \in BOOLEAN, Begin(token) PROVE Goal
    <2>1. UNCHANGED <<opt, reached, printed>> /\ Checked'
      BY <1>1 DEF Begin, Exit, StartRound, NewTasks, Checked
    <2>2. Started \/ Over
      BY <1>1 DEF Begin, Exit, StartRound, NewTasks, Shape
    <2> QED BY <2>1, <2>2
  <1>2. ASSUME NEW check \in Checks, Startup(check) PROVE Goal
    <2>1. UNCHANGED <<opt, reached, printed>> /\ Checked'
      BY <1>2 DEF Startup, Exit, StartRound, NewTasks, Checked
    <2>2. Started \/ Over
      BY <1>2 DEF Startup, Exit, StartRound, NewTasks, Shape
    <2> QED BY <2>1, <2>2
  <1>3. ASSUME NEW check \in Checks, Recheck(check) PROVE Goal
    <2>1. UNCHANGED <<opt, reached, printed>> /\ Checked'
      BY <1>3 DEF Recheck, Exit, Checked
    <2>2. Started \/ Over
      BY <1>3 DEF Recheck, Exit, Shape, Stopped
    <2> QED BY <2>1, <2>2
  <1>4. CASE InlineEnds
    BY <1>4 DEF InlineEnds, EndRound, Exit, Retry, Checked
  <1>5. CASE BothDone
    BY <1>5 DEF BothDone, EndRound, Exit, Retry, Result, Checked, Shape, ListenTypeOK
  <1>6. CASE CancelLoser
    BY <1>6 DEF CancelLoser, Checked
  <1>7. CASE Reaped
    BY <1>7 DEF Reaped, EndRound, Exit, Retry, Result, Checked, Shape, ListenTypeOK
  <1>8. CASE Reconnect
    BY <1>8 DEF Reconnect, StartRound, NewTasks, Checked
  <1>9. CASE Closed
    BY <1>9 DEF Closed, Exit, Checked
  <1> QED BY <1>1, <1>2, <1>3, <1>4, <1>5, <1>6, <1>7, <1>8, <1>9 DEF Main

-----------------------------------------------------------------------------
(* A step of the client, or of GitHub, that reads nothing and opens no     *)
(* stream.                                                                 *)

Aside ==
    /\ UNCHANGED <<serverVars, linkVars, countVars, opt, printed>>
    /\ reached => reached'
    /\ outcome' # "garbled" \/ outcome' = outcome
    /\ faults' \in {faults, faults + 1} /\ faults' <= MaxFaults
    /\ Broken' => Broken \/ faults' = faults + 1
    /\ main' \in {"begin", "startup"} => main \in {"begin", "startup"}
    /\ Streaming' => Streaming
    /\ Attached' => Attached /\ (stream' = stream \/ round \in open)

LEMMA AsideKeeps ==
    ASSUME LinkInv, Aside
    PROVE  LinkInv'
  <1> USE Bounds DEF serverVars, linkVars, countVars
  <1>1. SystemTypes'
    BY DEF LinkInv, SystemTypes, Aside
  <1>2. RoundsCounted'
    <2>1. /\ UNCHANGED <<opt, round, open, unreported, request>> /\ faults' <= MaxFaults
          /\ faults' \in {faults, faults + 1} /\ RoundsCounted
      BY DEF LinkInv, Aside
    <2>2. faults' \in 0..MaxFaults /\ round' \in 0..faults' + 1
      <3>1. faults \in 0..MaxFaults /\ round \in 0..faults + 1
        BY <2>1 DEF RoundsCounted
      <3>2. round' = round /\ faults' <= MaxFaults /\ (faults' = faults \/ faults' = faults + 1)
        BY <2>1
      <3> QED BY <3>1, <3>2
    <2>3. Broken' => round' <= faults'
      <3>1. /\ faults \in Int /\ round \in 0..faults + 1
            /\ Broken => round <= faults
        BY <2>1 DEF RoundsCounted
      <3>2. Broken' => Broken \/ faults' = faults + 1
        BY DEF Aside
      <3> QED BY <2>1, <3>1, <3>2
    <2>4. (main' \in {"begin", "startup"} => round' = 0) /\ (Streaming' => round' > 0)
      BY <2>1 DEF RoundsCounted, Aside
    <2>5. /\ \A r \in Rounds : r > round' => unreported'[r] = 0
          /\ \A r \in open' : request'[r] = Query(opt)'
          /\ open' \subseteq 1..round'
      BY <2>1 DEF RoundsCounted
    <2> QED BY <2>2, <2>3, <2>4, <2>5 DEF RoundsCounted
  <1>3. FreshStream'
    BY DEF LinkInv, FreshStream, Aside
  <1>4. UnderWay' = UnderWay
    BY DEF Aside, UnderWay
  <1>5. LinesWellFormed'
    BY <1>4 DEF LinkInv, LinesWellFormed, Aside
  <1>6. InOrder'
    BY <1>4 DEF LinkInv, InOrder, Aside, Terminal, Until
  <1>7. Accounted'
    BY <1>4 DEF LinkInv, Accounted, Aside
  <1> QED BY <1>1, <1>2, <1>3, <1>5, <1>6, <1>7 DEF LinkInv

LEMMA AsideSteps ==
    ASSUME ListenTypeOK, Shape, Checked, LinkInv,
           \/ MainStep /\ stream' # "connecting"
           \/ Connected \/ Denied \/ ConnectLost \/ EndOfStream \/ PollStep
           \/ ConnectFails \/ PollFails \/ Deadline \/ GitHubStep \/ UNCHANGED systemVars
    PROVE  Aside
  <1> USE Bounds DEF world, stateVars, historyVars, serverVars, linkVars, countVars
  <1>0. faults \in 0..MaxFaults /\ faults <= MaxFaults
    BY DEF LinkInv, RoundsCounted
  <1>1. CASE MainStep /\ stream' # "connecting"
    <2>1. /\ UNCHANGED <<opt, reached, printed, outcome, answer>>
          /\ main' \in {"startup", "recheck", "backoff", "reap", "exit"}
          /\ main' = "startup" => main = "begin"
          /\ main' \in {"recheck", "backoff"} =>
               outcome = "retry" \/ answer = "http_error" \/ main = "recheck"
      BY <1>1, MainEffect DEF MainStep
    <2>2. UNCHANGED <<serverVars, linkVars, countVars, faults>>
      BY <1>1 DEF MainStep
    <2> QED BY <1>0, <2>1, <2>2 DEF Aside, Broken, Streaming, Attached
  <1>2. CASE Connected
    BY <1>0, <1>2 DEF Connected, Connect, EndStream, Aside, Broken, Streaming, Attached
  <1>3. CASE Denied
    BY <1>0, <1>3 DEF Denied, Connect, EndStream, Aside, Broken, Streaming, Attached
  <1>4. CASE ConnectLost
    BY <1>0, <1>4 DEF ConnectLost, Connect, EndStream, Aside, Broken, Streaming, Attached
  <1>5. CASE EndOfStream
    BY <1>0, <1>5 DEF EndOfStream, StreamEnds, EndStream, Aside, Broken, Streaming, Attached
  <1>6. CASE PollStep
    BY <1>0, <1>6 DEF PollStep, PollWakes, PollAnswer, Aside, Broken, Streaming, Attached
  <1>7. CASE ConnectFails
    <2>1. faults' = faults + 1 /\ faults' <= MaxFaults
      BY <1>0, <1>7 DEF ConnectFails, Fault
    <2> QED BY <1>7, <2>1 DEF ConnectFails, Connect, EndStream, Aside, Streaming, Attached
  <1>8. CASE PollFails
    <2>1. faults' = faults + 1 /\ faults' <= MaxFaults
      BY <1>0, <1>8 DEF PollFails, Fault
    <2> QED BY <1>8, <2>1 DEF PollFails, PollAnswer, Aside, Streaming, Attached
  <1>9. CASE GitHubStep
    BY <1>0, <1>9 DEF GitHubStep, ReachTarget, Reopen, Aside, Broken, Streaming, Attached
  <1>10. CASE Deadline
    <2>1. faults' = faults + 1 /\ faults' <= MaxFaults
      BY <1>0, <1>10 DEF Deadline, Fault
    <2>2. /\ UNCHANGED <<serverVars, linkVars, countVars, opt, reached, printed, outcome>>
          /\ main' \in {main, "closing", "exit"} /\ (main' = "closing" => main = "race")
          /\ main \notin {"begin", "startup"} \/ main' = "exit"
          /\ stream' \in {stream, "cancelled"}
      BY <1>10 DEF Deadline, DeadlineExpires, Exit
    <2> QED BY <2>1, <2>2 DEF Aside, Streaming, Attached
  <1>11. CASE UNCHANGED systemVars
    BY <1>0, <1>11 DEF systemVars, vars, Aside, Broken, Streaming, Attached
  <1> QED BY <1>1, <1>2, <1>3, <1>4, <1>5, <1>6, <1>7, <1>8, <1>9, <1>10, <1>11

-----------------------------------------------------------------------------
(* A new stream.                                                           *)

LEMMA NewStreamKeeps ==
    ASSUME ListenTypeOK, Shape, Checked, LinkInv, MainStep, stream' = "connecting"
    PROVE  LinkInv'
  <1> USE Bounds DEF serverVars
  <1>1. /\ UNCHANGED <<opt, reached, printed>>
        /\ main' \in {"race", "inline"} /\ outcome' = "none" /\ answer' = "none"
        /\ main \in {"begin", "startup", "backoff"}
    BY MainEffect DEF MainStep
  <1>2. /\ round' = round + 1
        /\ wire' = <<>> /\ cut' = FALSE /\ parser' = NewParser /\ warned' = 0
        /\ UNCHANGED <<serverVars, faults, since, seen>>
    BY DEF MainStep
  <1>3. NewParser \in Parsers /\ Begun(NewParser) = <<>>
    <2>1. /\ NewParser = [event |-> "message", data |-> <<>>, frame |-> <<>>]
          /\ <<>> \in Seq(Nat) /\ <<>> \in Seq(Frames)
      BY DEF NewParser
    <2>2. NewParser \in Parsers
      BY <2>1 DEF Parsers
    <2> QED BY <2>1, <2>2, NothingBegun
  <1>4. SystemTypes'
    <2>1. wire' \in Seq(Sendable) /\ Len(wire') <= MaxWire
      BY <1>2
    <2> QED BY <1>1, <1>2, <1>3, <2>1 DEF LinkInv, SystemTypes
  <1>5. faults \in 0..MaxFaults /\ round \in 0..faults /\ open \subseteq 1..round
    <2>1. /\ faults \in 0..MaxFaults /\ round \in 0..faults + 1 /\ open \subseteq 1..round
          /\ Broken => round <= faults
          /\ main \in {"begin", "startup"} => round = 0
      BY DEF LinkInv, RoundsCounted
    <2>2. main = "backoff" => Broken
      BY DEF Broken
    <2> QED BY <1>1, <1>2, <2>1, <2>2
  <1>6. RoundsCounted'
    <2>1. faults' \in 0..MaxFaults /\ round' \in 0..faults' + 1 /\ round' > 0
      BY <1>2, <1>5
    <2>4. open' \subseteq 1..round' /\ \A r \in open' : request'[r] = Query(opt)'
      <3>1. \A r \in open : request[r] = Query(opt)
        BY DEF LinkInv, RoundsCounted
      <3>2. open' = open /\ request' = request /\ opt' = opt
        BY <1>1, <1>2
      <3>3. 1..round \subseteq 1..round'
        BY <1>2, <1>5
      <3> QED BY <1>5, <3>1, <3>2, <3>3
    <2>2. ~Broken' /\ main' \notin {"begin", "startup"}
      BY <1>1, <1>2 DEF Broken
    <2>3. ASSUME NEW r \in Rounds, r > round' PROVE unreported'[r] = 0
      <3>1. r > round /\ unreported' = unreported
        BY <1>2, <1>5, <2>3 DEF Rounds
      <3> QED BY <3>1 DEF LinkInv, RoundsCounted
    <2> QED BY <2>1, <2>2, <2>3, <2>4 DEF RoundsCounted
  <1>7. FreshStream'
    <2>1. round' \in Rounds /\ round' > round /\ unreported' = unreported
      BY <1>2, <1>5 DEF Rounds
    <2>2. unreported[round'] = 0
      BY <2>1 DEF LinkInv, RoundsCounted
    <2>3. Begun(parser') = <<>>
      BY <1>2, <1>3
    <2> QED BY <1>2, <2>1, <2>2, <2>3 DEF FreshStream
  <1>8. UnderWay' = <<>> /\ UnderWay' \in Seq(Sendable)
    <2>1. Begun(parser') = <<>> /\ wire' = <<>>
      BY <1>2, <1>3
    <2> QED BY <2>1 DEF UnderWay
  <1>9. LinesWellFormed'
    BY <1>1, <1>8, NoLines DEF LinesWellFormed
  <1>10. round' \notin open'
    BY <1>2, <1>5
  <1>11. InOrder'
    <2>1. WireRight(opt, log, seen, since, UnderWay)'
      BY <1>8, NoLines, NoneRight
    <2>2. PrintedRight(opt, log, seen)'
      BY <1>1, <1>2 DEF LinkInv, InOrder
    <2>3. \A n \in 1..Len(log') : Terminal(log[n])' => reached'
      BY <1>1, <1>2 DEF LinkInv, InOrder, Terminal, Until
    <2> QED BY <1>10, <2>1, <2>2, <2>3 DEF InOrder
  <1>12. Accounted'
    BY <1>10 DEF Accounted
  <1> QED BY <1>4, <1>6, <1>7, <1>9, <1>11, <1>12 DEF LinkInv

-----------------------------------------------------------------------------
(* A subscription ends, and with it perhaps the connection: what had been  *)
(* sent of it arrives only in part.                                        *)

Loss ==
    /\ UNCHANGED <<vars, log, request, pending, received, unreported, told, countVars,
                   round, parser>>
    /\ open' \subseteq open
    /\ faults' \in {faults, faults + 1} /\ faults' <= MaxFaults
    /\ \/ /\ cut' = cut /\ wire' = wire
          /\ Attached /\ ~cut /\ round \in open => round \in open'
       \/ /\ cut' = TRUE /\ faults' = faults + 1
          /\ \E n \in 0..Len(wire) : wire' = SubSeq(wire, 1, n)

LEMMA BeginningOfWire ==
    ASSUME NEW B \in Seq(Sendable), NEW w \in Seq(Sendable), NEW n \in 0..Len(w)
    PROVE  /\ SubSeq(w, 1, n) \in Seq(Sendable) /\ Len(SubSeq(w, 1, n)) <= Len(w)
           /\ B \o SubSeq(w, 1, n) \in Seq(Sendable)
           /\ Begins(B \o SubSeq(w, 1, n), B \o w)
  <1> DEFINE v == SubSeq(w, 1, n)
  <1>1. Len(w) \in Nat /\ Len(B) \in Nat /\ n \in Nat /\ n <= Len(w)
    BY LenProperties
  <1>2. v \in Seq(Sendable) /\ Len(v) = n /\ \A i \in 1..n : v[i] = w[i]
    <2>1. \A i \in 1..n : w[i] \in Sendable
      BY <1>1, ElementOfSeq
    <2>2. /\ v \in Seq(Sendable) /\ Len(v) = IF 1 <= n THEN n - 1 + 1 ELSE 0
          /\ \A i \in 1..n - 1 + 1 : v[i] = w[1 + i - 1]
      BY <1>1, <2>1, SubSeqProperties
    <2>3. n - 1 + 1 = n /\ \A i \in 1..n : 1 + i - 1 = i
      BY <1>1
    <2> QED BY <1>1, <2>2, <2>3
  <1> HIDE DEF v
  <1>3. /\ B \o v \in Seq(Sendable) /\ Len(B \o v) = Len(B) + n
        /\ \A i \in 1..Len(B) + n : (B \o v)[i] = IF i <= Len(B) THEN B[i] ELSE v[i - Len(B)]
    BY <1>2, ConcatProperties
  <1>4. /\ Len(B \o w) = Len(B) + Len(w)
        /\ \A i \in 1..Len(B) + Len(w) :
             (B \o w)[i] = IF i <= Len(B) THEN B[i] ELSE w[i - Len(B)]
    BY ConcatProperties
  <1>5. ASSUME NEW i \in 1..Len(B) + n PROVE (B \o v)[i] = (B \o w)[i]
    <2>1. i \in 1..Len(B) + Len(w) /\ (i > Len(B) => i - Len(B) \in 1..n)
      BY <1>1
    <2>2. CASE i <= Len(B)
      BY <1>3, <1>4, <2>1, <2>2
    <2>3. CASE ~(i <= Len(B))
      <3>1. i - Len(B) \in 1..n
        BY <1>1, <2>1, <2>3
      <3> QED BY <1>2, <1>3, <1>4, <2>1, <2>3, <3>1
    <2> QED BY <2>2, <2>3
  <1>6. Begins(B \o v, B \o w)
    BY <1>1, <1>3, <1>4, <1>5 DEF Begins
  <1> QED BY <1>1, <1>2, <1>3, <1>6 DEF v

LEMMA LossKeeps ==
    ASSUME LinkInv, Loss
    PROVE  LinkInv'
  <1> USE Bounds DEF countVars
  <1>1. UNCHANGED <<opt, main, stream, outcome, answer, reached, printed>>
    BY DEF Loss, vars, world, historyVars
  <1>2. /\ UNCHANGED <<log, request, pending, received, unreported, told, since, seen, warned,
                       round, parser>>
        /\ open' \subseteq open
        /\ faults' \in {faults, faults + 1} /\ faults' <= MaxFaults
    BY DEF Loss
  <1>3. /\ wire \in Seq(Sendable) /\ Len(wire) <= MaxWire /\ cut \in BOOLEAN
        /\ Begun(parser) \in Seq(Sendable) /\ UnderWay \in Seq(Sendable)
    BY BegunLines, UnderWayType DEF LinkInv, SystemTypes
  <1>4. CASE cut' = cut /\ wire' = wire /\ (Attached /\ ~cut /\ round \in open => round \in open')
    <2>1. UnderWay' = UnderWay
      BY <1>2, <1>4 DEF UnderWay
    <2>2. SystemTypes'
      BY <1>1, <1>2, <1>4 DEF LinkInv, SystemTypes
    <2>3. RoundsCounted'
      <3>0. Broken => round <= faults
        BY DEF LinkInv, RoundsCounted
      <3>1. /\ faults \in 0..MaxFaults /\ round \in 0..faults + 1
            /\ faults' = faults \/ faults' = faults + 1
            /\ round' = round /\ faults' <= MaxFaults
        BY <1>2 DEF LinkInv, RoundsCounted
      <3>2. /\ faults' \in 0..MaxFaults /\ round' \in 0..faults' + 1
            /\ round <= faults => round' <= faults'
        <4>1. CASE faults' = faults
          BY <3>1, <4>1
        <4>2. CASE faults' = faults + 1
          BY <3>1, <4>2
        <4> QED BY <3>1, <4>1, <4>2
      <3>3. Broken' => Broken
        BY <1>1, <1>4 DEF Broken
      <3>4. Streaming' <=> Streaming
        BY <1>1 DEF Streaming
      <3> QED BY <1>1, <1>2, <3>0, <3>2, <3>3, <3>4 DEF LinkInv, RoundsCounted
    <2>4. FreshStream'
      BY <1>1, <1>2, <1>4 DEF LinkInv, FreshStream, Attached, Streaming
    <2>5. LinesWellFormed'
      BY <1>1, <1>4, <2>1 DEF LinkInv, LinesWellFormed
    <2>6. InOrder'
      BY <1>1, <1>2, <2>1 DEF LinkInv, InOrder, Terminal, Until
    <2>7. Accounted'
      BY <1>1, <1>2, <1>4, <2>1 DEF LinkInv, Accounted
    <2> QED BY <2>2, <2>3, <2>4, <2>5, <2>6, <2>7 DEF LinkInv
  <1>5. ASSUME cut' = TRUE, faults' = faults + 1,
               NEW n \in 0..Len(wire), wire' = SubSeq(wire, 1, n)
        PROVE  LinkInv'
    <2>1. /\ wire' \in Seq(Sendable) /\ Len(wire') <= Len(wire)
          /\ UnderWay' \in Seq(Sendable) /\ Begins(UnderWay', UnderWay)
      <3>1. UnderWay' = Begun(parser) \o SubSeq(wire, 1, n) /\ UnderWay = Begun(parser) \o wire
        BY <1>2, <1>5 DEF UnderWay
      <3> QED BY <1>3, <1>5, <3>1, BeginningOfWire
    <2>2. /\ Grammar(UnderWay')
          /\ \A i \in Plain(UnderWay') : i \in Plain(UnderWay) /\ UnderWay'[i] = UnderWay[i]
      BY <1>3, <2>1, BeginningKept DEF LinkInv, LinesWellFormed
    <2>3. SystemTypes'
      <3>1. Len(wire') <= MaxWire
        BY <1>3, <2>1, LenProperties
      <3> QED BY <1>1, <1>2, <1>5, <2>1, <3>1 DEF LinkInv, SystemTypes
    <2>4. RoundsCounted'
      <3>1. /\ faults \in 0..MaxFaults /\ round \in 0..faults + 1
            /\ round' = round /\ faults' <= MaxFaults
        BY <1>2 DEF LinkInv, RoundsCounted
      <3>2. faults' \in 0..MaxFaults /\ round' \in 0..faults' + 1 /\ round' <= faults'
        BY <1>5, <3>1
      <3>3. Streaming' <=> Streaming
        BY <1>1 DEF Streaming
      <3> QED BY <1>1, <1>2, <3>2, <3>3 DEF LinkInv, RoundsCounted
    <2>5. FreshStream' /\ Accounted'
      BY <1>5 DEF FreshStream, Accounted
    <2>6. LinesWellFormed'
      BY <1>1, <1>5, <2>2 DEF LinkInv, LinesWellFormed
    <2>7. InOrder'
      <3>1. Taken(UnderWay, UnderWay', 0)
        <4>1. \A i \in Plain(UnderWay') : i + 0 = i
          BY <2>1, DataOf
        <4> QED BY <2>2, <4>1 DEF Taken
      <3>2. WireRight(opt, log, seen, since, UnderWay')
        BY <1>3, <2>1, <3>1, FewerRight DEF LinkInv, InOrder
      <3>3. round \in open => QueueRight(opt, log, seen, since, UnderWay', pending[round])
        BY <1>3, <2>1, <3>1, FewerRight DEF LinkInv, InOrder
      <3>4. UNCHANGED <<opt, log, seen, since, round, reached, pending>> /\ open' \subseteq open
        BY <1>1, <1>2
      <3>5. \A k \in 1..Len(log') : Terminal(log[k])' => reached'
        BY <3>4 DEF LinkInv, InOrder, Terminal, Until
      <3>6. PrintedRight(opt, log, seen)'
        BY <3>4 DEF LinkInv, InOrder
      <3>7. WireRight(opt, log, seen, since, UnderWay)'
        BY <3>2, <3>4
      <3>8. round' \in open' => QueueRight(opt, log, seen, since, UnderWay, pending[round])'
        BY <3>3, <3>4
      <3> QED BY <3>5, <3>6, <3>7, <3>8 DEF InOrder
    <2> QED BY <2>3, <2>4, <2>5, <2>6, <2>7 DEF LinkInv
  <1> QED BY <1>4, <1>5 DEF Loss

LEMMA LossSteps ==
    ASSUME LinkInv, Hangup \/ Break \/ ServerEnds \/ Restart
    PROVE  Loss
  <1> USE Bounds DEF serverVars, linkVars, countVars
  <1>0. /\ faults \in 0..MaxFaults /\ faults <= MaxFaults /\ cut \in BOOLEAN
        /\ Fault => faults' = faults + 1 /\ faults' <= MaxFaults
    BY DEF LinkInv, RoundsCounted, SystemTypes, Fault
  <1>1. ASSUME NEW s, Server!Shut({s})
        PROVE  /\ open' = open \ {s}
               /\ UNCHANGED <<log, request, pending, received, unreported, told>>
    BY <1>1 DEF Server!Shut
  <1>2. CASE Hangup
    <2>1. PICK s \in open : (s # round \/ ~Attached \/ cut) /\ Server!Shut({s})
      BY <1>2 DEF Hangup
    <2>2. /\ open' = open \ {s}
          /\ UNCHANGED <<log, request, pending, received, unreported, told>>
      BY <1>1, <2>1
    <2>3. UNCHANGED <<vars, linkVars, faults, countVars>>
      BY <1>2 DEF Hangup
    <2> QED BY <1>0, <2>1, <2>2, <2>3 DEF Loss
  <1>3. CASE Break
    BY <1>0, <1>3 DEF Break, Cut, Loss
  <1>4. CASE ServerEnds
    BY <1>0, <1>1, <1>4 DEF ServerEnds, Cut, Loss
  <1>5. CASE Restart
    <2>1. CASE Attached /\ ~cut
      BY <1>0, <1>5, <2>1 DEF Restart, Cut, Loss
    <2>2. CASE ~(Attached /\ ~cut)
      BY <1>0, <1>5, <2>2 DEF Restart, Loss
    <2> QED BY <2>1, <2>2
  <1> QED BY <1>2, <1>3, <1>4, <1>5

-----------------------------------------------------------------------------
(* A step of the server that leaves the client alone.                      *)

Serving ==
    /\ UNCHANGED <<vars, round, cut, parser, faults, seen>>
    /\ open \subseteq open' /\ open' \subseteq 1..round
    /\ \A r \in Rounds : r > round => unreported'[r] = unreported[r]
    /\ \A r \in open' : request'[r] = Query(opt)

LEMMA ServingKeeps ==
    ASSUME LinkInv, Serving
    PROVE  RoundsCounted' /\ (round \in open' => FreshStream')
  <1>1. /\ UNCHANGED <<opt, main, stream, outcome, answer, round, cut, faults>>
        /\ open' \subseteq 1..round
        /\ \A r \in Rounds : r > round => unreported'[r] = unreported[r]
        /\ \A r \in open' : request'[r] = Query(opt)
    BY DEF Serving, vars, world
  <1>2. (Broken' <=> Broken) /\ (Streaming' <=> Streaming)
    BY <1>1 DEF Broken, Streaming
  <1>3. RoundsCounted'
    BY <1>1, <1>2 DEF LinkInv, RoundsCounted
  <1>4. round \in open' => FreshStream'
    BY <1>1 DEF FreshStream
  <1> QED BY <1>3, <1>4

LEMMA SentLines ==
    ASSUME SystemTypes, NEW F \in Seq(Sendable), Send(F)
    PROVE  /\ round \in open /\ ~cut /\ UNCHANGED <<vars, round, cut, parser, faults, seen, warned>>
           /\ wire' \in Seq(Sendable) /\ Len(wire') <= MaxWire
           /\ UnderWay' = UnderWay \o F
  <1>1. /\ wire \in Seq(Sendable) /\ Begun(parser) \in Seq(Sendable)
    BY BegunLines DEF SystemTypes
  <1>2. /\ round \in open /\ ~cut /\ UNCHANGED <<vars, round, cut, parser, faults, seen, warned>>
        /\ Len(wire) + Len(F) <= MaxWire /\ wire' = wire \o F
    BY DEF Send
  <1>3. wire' \in Seq(Sendable) /\ Len(wire') <= MaxWire
    BY <1>1, <1>2, ConcatProperties
  <1>4. UnderWay' = Begun(parser) \o (wire \o F) /\ UnderWay = Begun(parser) \o wire
    BY <1>2 DEF UnderWay
  <1>5. UnderWay' = UnderWay \o F
    <2>1. (Begun(parser) \o wire) \o F = Begun(parser) \o (wire \o F)
      BY <1>1, ConcatAssociative
    <2> QED BY <1>4, <2>1
  <1> QED BY <1>2, <1>3, <1>5

LEMMA AskKeeps ==
    ASSUME LinkInv, Ask
    PROVE  LinkInv'
  <1> USE Bounds DEF linkVars, countVars
  <1>1. /\ round \notin open
        /\ request' = [request EXCEPT ![round] = Query(opt)]
        /\ UNCHANGED <<log, open, pending, received, unreported, told>>
        /\ UNCHANGED <<vars, linkVars, faults, countVars>>
    BY DEF Ask, Server!Ask
  <1>2. UNCHANGED <<opt, main, stream, outcome, answer, reached, printed>>
    BY <1>1 DEF vars, world, historyVars
  <1>3. SystemTypes'
    BY <1>1, <1>2 DEF LinkInv, SystemTypes
  <1>4. \A r \in open' : request'[r] = Query(opt)
    <2>1. \A r \in open : r # round /\ request[r] = Query(opt)
      BY <1>1 DEF LinkInv, RoundsCounted
    <2>2. open \subseteq Rounds
      <3>1. round \in 0..faults + 1 /\ faults \in 0..MaxFaults /\ open \subseteq 1..round
        BY DEF LinkInv, RoundsCounted
      <3> QED BY <3>1 DEF Rounds
    <2>3. \A r \in Rounds : r # round => request'[r] = request[r]
      BY <1>1 DEF LinkInv, SystemTypes
    <2> QED BY <1>1, <2>1, <2>2, <2>3
  <1>5. RoundsCounted'
    <2>1. open' \subseteq 1..round
      BY <1>1 DEF LinkInv, RoundsCounted
    <2>2. Serving
      BY <1>1, <1>4, <2>1 DEF Serving
    <2> QED BY <2>2, ServingKeeps
  <1>6. FreshStream'
    BY <1>1, <1>2 DEF LinkInv, FreshStream, Attached, Streaming
  <1>7. UnderWay' = UnderWay
    BY <1>1 DEF UnderWay
  <1>8. LinesWellFormed'
    BY <1>1, <1>2, <1>7 DEF LinkInv, LinesWellFormed
  <1>9. InOrder'
    BY <1>1, <1>2, <1>7 DEF LinkInv, InOrder, Terminal, Until
  <1>10. Accounted'
    BY <1>1, <1>2, <1>7 DEF LinkInv, Accounted
  <1> QED BY <1>3, <1>5, <1>6, <1>8, <1>9, <1>10 DEF LinkInv

\* The answer begins a subscription that is owed nothing yet.
LEMMA AnswerKeeps ==
    ASSUME LinkInv, Answer
    PROVE  LinkInv'
  <1> USE Bounds
  <1> DEFINE F == ServerSentEvent("ready", 0)
  <1>1. /\ Attached /\ ~cut /\ since' = Len(log) /\ wire' = F
        /\ UNCHANGED <<vars, round, cut, parser, faults, seen, warned>>
        /\ round \notin open /\ request[round] # None
        /\ pending[round] = <<>> /\ open' = open \cup {round}
        /\ UNCHANGED <<log, request, pending, received, unreported, told>>
    BY DEF Answer, Server!Open
  <1>2. UNCHANGED <<opt, main, stream, outcome, answer, reached, printed>>
    BY <1>1 DEF vars, world, historyVars
  <1>3. /\ F \in Seq(Sendable) /\ Len(F) = 3 /\ F[2].value = 0
        /\ Grammar(F) /\ Ended(F) /\ Plain(F) = {} /\ Named(F) = {2}
    <2>1. "ready" \in EventTypes /\ 0 \in Nat
      BY DEF EventTypes
    <2> QED BY <2>1, NamedSent
  <1>4. /\ Begun(parser) = <<>> /\ unreported[round] = 0 /\ warned = 0
    BY <1>1 DEF LinkInv, FreshStream
  <1>5. Len(F) <= MaxWire
    BY SystemAssumption
  <1> HIDE DEF F
  <1>6. UnderWay' = F
    <2>1. UnderWay' = <<>> \o F
      BY <1>1, <1>4 DEF UnderWay
    <2> QED BY <1>3, <2>1, ConcatEmptySeq
  <1>7. Len(log) \in Nat /\ log \in Seq(Deliveries) /\ seen \in Seq(Nat)
    BY LenProperties DEF LinkInv, SystemTypes
  <1>8. SystemTypes'
    <2>1. since' \in 0..Len(log')
      BY <1>1, <1>7
    <2>2. wire' \in Seq(Sendable) /\ Len(wire') <= MaxWire
      BY <1>1, <1>3, <1>5
    <2> QED BY <1>1, <1>2, <2>1, <2>2 DEF LinkInv, SystemTypes
  <1>9. round \in Rounds /\ round > 0 /\ open' = open \cup {round} /\ open' \subseteq 1..round
    <2>1. /\ round \in 0..faults + 1 /\ faults \in 0..MaxFaults /\ open \subseteq 1..round
          /\ Streaming => round > 0
      BY DEF LinkInv, RoundsCounted
    <2>2. round > 0
      BY <1>1, <2>1 DEF Attached
    <2>3. round \in Rounds
      <3>1. round \in 0..faults + 1 /\ faults \in 0..MaxFaults
        BY <2>1
      <3> QED BY <2>2, <3>1 DEF Rounds
    <2>4. open \subseteq 1..round /\ round \in 1..round
      BY <2>1, <2>2
    <2> QED BY <1>1, <2>2, <2>3, <2>4
  <1>10. RoundsCounted' /\ FreshStream'
    <2>1. request[round] = Query(opt)
      <3>1. request[round] \in {None, Query(opt)}
        BY <1>9 DEF LinkInv, SystemTypes
      <3> QED BY <1>1, <3>1
    <2>2. \A r \in open' : request'[r] = Query(opt)
      <3>1. \A r \in open : request[r] = Query(opt)
        BY DEF LinkInv, RoundsCounted
      <3> QED BY <1>1, <1>9, <2>1, <3>1
    <2>3. Serving
      BY <1>1, <1>9, <2>2 DEF Serving
    <2> QED BY <1>9, <2>3, ServingKeeps
  <1>11. LinesWellFormed'
    BY <1>2, <1>3, <1>6 DEF LinkInv, LinesWellFormed
  <1>12. InOrder'
    <2>1. WireRight(opt, log, seen, since', F) /\ QueueRight(opt, log, seen, since', F, <<>>)
      BY <1>3, NoneRight
    <2> QED BY <1>1, <1>2, <1>6, <2>1 DEF LinkInv, InOrder, Terminal, Until
  <1>13. Accounted'
    <2>1. Owed(opt, log, Len(log)) = {} /\ Since(seen, Len(log)) = {}
      BY <1>7, NothingOwed DEF LinkInv, InOrder
    <2>2. LagIn(F) = 0
      <3>1. LagIn(F) = Sum(Counts(F), {2})
        BY <1>3, LagIsSum
      <3>2. Sum(Counts(F), {2}) = 0
        <4>1. Counts(F)[2] = 0
          BY <1>3, DataOf
        <4>2. IsFiniteSet({2})
          BY FS_Singleton
        <4> QED BY <4>1, <4>2, SumZero
      <3> QED BY <3>1, <3>2
    <2>3. Cardinality({}) = 0
      BY FS_EmptySet
    <2>4. Len(<<>>) = 0
      OBVIOUS
    <2>5. /\ Cardinality(Owed(opt, log, since))' = 0 /\ Cardinality(Since(seen, since))' = 0
          /\ Cardinality(Plain(UnderWay))' = 0 /\ Len(pending[round])' = 0
          /\ unreported[round]' = 0 /\ LagIn(UnderWay)' = 0 /\ warned' = 0
      BY <1>1, <1>2, <1>3, <1>4, <1>6, <2>1, <2>2, <2>3, <2>4
    <2> QED BY <2>5 DEF Accounted
  <1> QED BY <1>8, <1>10, <1>11, <1>12, <1>13 DEF LinkInv

LEMMA OpenRound ==
    ASSUME LinkInv, round \in open
    PROVE  /\ round \in Rounds /\ round > 0 /\ open \subseteq 1..round
           /\ request[round] = Query(opt)
           /\ pending[round] \in Seq(Nat) /\ unreported[round] \in Nat
           /\ Len(pending[round]) \in Nat /\ warned \in Nat
           /\ UnderWay \in Seq(Sendable) /\ LagIn(UnderWay) \in Int
           /\ Cardinality(Plain(UnderWay)) \in Nat
           /\ Cardinality(Owed(opt, log, since)) \in Nat
           /\ Cardinality(Since(seen, since)) \in Nat
  <1> USE Bounds
  <1>1. /\ round \in 0..faults + 1 /\ faults \in 0..MaxFaults /\ open \subseteq 1..round
        /\ request[round] = Query(opt)
    BY DEF LinkInv, RoundsCounted
  <1>2. round \in 0..faults + 1 /\ faults \in 0..MaxFaults /\ round # 0
    BY <1>1
  <1>3. round \in Rounds /\ round > 0
    BY <1>2 DEF Rounds
  <1>4. pending[round] \in Seq(Nat) /\ unreported[round] \in Nat
    BY <1>3 DEF LinkInv, SystemTypes
  <1>5. Len(pending[round]) \in Nat /\ warned \in Nat
    BY <1>4, LenProperties DEF LinkInv, SystemTypes
  <1>6. UnderWay \in Seq(Sendable) /\ LagIn(UnderWay) \in Int
    BY UnderWayType, LagType DEF LinkInv
  <1>7. Cardinality(Plain(UnderWay)) \in Nat
    BY <1>6, DataOf, FS_CardinalityType
  <1>8. log \in Seq(Deliveries) /\ since \in Nat /\ seen \in Seq(Nat)
    <2>1. log \in Seq(Deliveries) /\ since \in 0..Len(log) /\ seen \in Seq(Nat)
      BY DEF LinkInv, SystemTypes
    <2> QED BY <2>1, LenProperties
  <1>9. Cardinality(Owed(opt, log, since)) \in Nat /\ Cardinality(Since(seen, since)) \in Nat
    BY <1>8, OwedType, SinceType
  <1> QED BY <1>1, <1>2, <1>3, <1>4, <1>5, <1>6, <1>7, <1>9

LEMMA PushKeeps ==
    ASSUME LinkInv, Push
    PROVE  LinkInv'
  <1> USE Bounds
  <1> DEFINE Q == pending[round]
             F == ServerSentEvent("message", Head(Q))
             V == UnderWay'
  <1>1. /\ round \in open /\ Q # <<>>
        /\ received' = [received EXCEPT ![round] = Append(@, Head(Q))]
        /\ pending' = [pending EXCEPT ![round] = Tail(@)]
        /\ UNCHANGED <<log, request, open, unreported, told, since>>
        /\ Send(F)
    BY DEF Push, Server!Receive
  <1>2. /\ round \in Rounds /\ open \subseteq 1..round /\ Q \in Seq(Nat) /\ UnderWay \in Seq(Sendable)
        /\ round > 0
    BY <1>1, OpenRound
  <1>3. /\ Head(Q) \in Nat /\ Tail(Q) \in Seq(Nat) /\ Len(Tail(Q)) = Len(Q) - 1
    BY <1>1, <1>2, HeadTailProperties
  <1>4. /\ F \in Seq(Sendable) /\ Len(F) = 2 /\ F[1].value = Head(Q)
        /\ Grammar(F) /\ Ended(F) /\ Plain(F) = {1} /\ Named(F) = {}
    BY <1>3, MessageSent
  <1> HIDE DEF F
  <1>5. /\ ~cut /\ UNCHANGED <<vars, round, cut, parser, faults, seen, warned>>
        /\ wire' \in Seq(Sendable) /\ Len(wire') <= MaxWire
        /\ V = UnderWay \o F
    BY <1>1, <1>4, SentLines DEF LinkInv
  <1>6. Grammar(UnderWay) /\ Ended(UnderWay)
    BY <1>5 DEF LinkInv, LinesWellFormed
  <1>7. /\ V \in Seq(Sendable) /\ Grammar(V) /\ Ended(V)
        /\ \A i \in 1..Len(UnderWay) : V[i] = UnderWay[i]
        /\ V[Len(UnderWay) + 1] = F[1]
        /\ Plain(V) = Plain(UnderWay) \cup {Len(UnderWay) + 1}
        /\ Cardinality(Plain(V)) = Cardinality(Plain(UnderWay)) + 1
        /\ LagIn(V) = LagIn(UnderWay)
    <2> DEFINE W == UnderWay \o F
    <2>1. W \in Seq(Sendable) /\ Grammar(W) /\ Ended(W)
      BY <1>2, <1>4, <1>6, Added
    <2>2. /\ \A i \in 1..Len(UnderWay) : W[i] = UnderWay[i]
          /\ W[Len(UnderWay) + 1] = F[1]
          /\ Plain(W) = Plain(UnderWay) \cup {Len(UnderWay) + 1}
          /\ Cardinality(Plain(W)) = Cardinality(Plain(UnderWay)) + 1
      BY <1>2, <1>4, <1>6, MessageAdded
    <2>3. LagIn(W) = LagIn(UnderWay)
      BY <1>2, <1>4, <1>6, NoLagAdded
    <2> HIDE DEF W, V
    <2>4. V = W
      BY <1>5 DEF W
    <2> QED BY <2>1, <2>2, <2>3, <2>4
  <1>8. UNCHANGED <<opt, main, stream, outcome, answer, reached, printed>>
    BY <1>5 DEF vars, world, historyVars
  <1>9. pending'[round] = Tail(Q) /\ pending' \in [Rounds -> Seq(Nat)]
    BY <1>1, <1>2, <1>3 DEF LinkInv, SystemTypes
  <1>10. SystemTypes'
    <2>1. received' \in [Rounds -> Seq(Nat)]
      <3>1. received \in [Rounds -> Seq(Nat)] /\ received[round] \in Seq(Nat)
        BY <1>2 DEF LinkInv, SystemTypes
      <3>2. Append(received[round], Head(Q)) \in Seq(Nat)
        BY <1>3, <3>1, AppendProperties
      <3> QED BY <1>1, <3>1, <3>2
    <2> QED BY <1>1, <1>5, <1>8, <1>9, <2>1 DEF LinkInv, SystemTypes
  <1>11. RoundsCounted' /\ FreshStream'
    <2>1. \A r \in open : request[r] = Query(opt)
      BY DEF LinkInv, RoundsCounted
    <2>2. Serving
      BY <1>1, <1>2, <1>5, <2>1 DEF Serving
    <2> QED BY <1>1, <2>2, ServingKeeps
  <1>12. LinesWellFormed'
    BY <1>7, <1>8 DEF LinkInv, LinesWellFormed
  <1>13. InOrder'
    <2>1. WireRight(opt, log, seen, since, UnderWay) /\ QueueRight(opt, log, seen, since, UnderWay, Q)
      BY <1>1 DEF LinkInv, InOrder
    <2>2. V[Len(UnderWay) + 1].value = Head(Q)
      BY <1>4, <1>7
    <2> HIDE DEF Q, V
    <2>3. WireRight(opt, log, seen, since, V) /\ QueueRight(opt, log, seen, since, V, Tail(Q))
      BY <1>1, <1>2, <1>7, <2>1, <2>2, PushRight
    <2>4. UNCHANGED <<opt, log, seen, since, reached, round, open>> /\ pending'[round'] = Tail(Q)
      BY <1>1, <1>5, <1>8, <1>9
    <2>5. WireRight(opt, log, seen, since, UnderWay)'
      BY <2>3, <2>4 DEF V
    <2>6. QueueRight(opt, log, seen, since, UnderWay, pending[round])'
      BY <2>3, <2>4 DEF V
    <2>7. PrintedRight(opt, log, seen)' /\ \A n \in 1..Len(log') : Terminal(log[n])' => reached'
      BY <2>4 DEF LinkInv, InOrder, Terminal, Until
    <2> QED BY <2>5, <2>6, <2>7 DEF InOrder
  <1>14. Accounted'
    <2>1. Cardinality(Owed(opt, log, since)) =
              Cardinality(Since(seen, since)) + Cardinality(Plain(UnderWay))
            + Len(Q) + unreported[round] + LagIn(UnderWay) + warned
      BY <1>1, <1>5 DEF LinkInv, Accounted
    <2> DEFINE a == Cardinality(Since(seen, since))
               b == Cardinality(Plain(UnderWay))
               c == unreported[round]
               d == LagIn(UnderWay)
               k == Len(Q)
    <2>2. /\ a \in Nat /\ b \in Nat /\ k \in Nat /\ c \in Nat /\ d \in Int /\ warned \in Nat
          /\ Cardinality(Owed(opt, log, since)) = a + b + k + c + d + warned
      BY <1>1, <2>1, OpenRound
    <2>3. /\ UNCHANGED <<opt, log, seen, since, round, warned>>
          /\ unreported'[round'] = c /\ Len(pending'[round']) = k - 1
          /\ Cardinality(Plain(UnderWay')) = b + 1 /\ LagIn(UnderWay') = d
      BY <1>1, <1>3, <1>5, <1>7, <1>8, <1>9
    <2>4. Cardinality(Owed(opt, log, since))' = Cardinality(Owed(opt, log, since))
            /\ Cardinality(Since(seen, since))' = a
      BY <2>3
    <2> HIDE DEF Q, a, b, c, d, k, V
    <2>5. Cardinality(Owed(opt, log, since))' = a + (b + 1) + (k - 1) + c + d + warned'
      BY <2>2, <2>3, <2>4
    <2>6. /\ Cardinality(Since(seen, since))' = a /\ Cardinality(Plain(UnderWay))' = b + 1
          /\ Len(pending[round])' = k - 1 /\ unreported[round]' = c /\ LagIn(UnderWay)' = d
      BY <2>3, <2>4
    <2>7. Cardinality(Owed(opt, log, since))' =
              Cardinality(Since(seen, since))' + Cardinality(Plain(UnderWay))'
            + Len(pending[round])' + unreported[round]' + LagIn(UnderWay)' + warned'
      BY <2>5, <2>6
    <2> QED BY <2>7 DEF Accounted
  <1> QED BY <1>10, <1>11, <1>12, <1>13, <1>14 DEF LinkInv

\* Lines that carry no event leave the events that are under way as they are.
LEMMA QuietAdded ==
    ASSUME NEW U \in Seq(Sendable), NEW F \in Seq(Sendable),
           Grammar(U), Ended(U), Grammar(F), Ended(F), Plain(F) = {}
    PROVE  /\ U \o F \in Seq(Sendable) /\ Grammar(U \o F) /\ Ended(U \o F)
           /\ Plain(U \o F) = Plain(U) /\ Taken(U, U \o F, 0)
  <1> DEFINE V == U \o F
  <1>1. /\ V \in Seq(Sendable) /\ Grammar(V) /\ Ended(V)
        /\ \A i \in 1..Len(U) : V[i] = U[i]
    BY Added
  <1>2. Plain(V) = Plain(U)
    BY NothingAdded
  <1> HIDE DEF V
  <1>3. \A i \in Plain(U) : i + 0 = i /\ i \in 1..Len(U)
    BY DataOf
  <1>4. Taken(U, V, 0)
    BY <1>1, <1>2, <1>3 DEF Taken
  <1>5. V \in Seq(Sendable) /\ Grammar(V) /\ Ended(V) /\ Plain(V) = Plain(U) /\ Taken(U, V, 0)
    BY <1>1, <1>2, <1>4
  <1> QED BY <1>5 DEF V

\* What such lines leave to be shown.
LEMMA QuietKeeps ==
    ASSUME LinkInv, NEW F \in Seq(Sendable), Grammar(F), Ended(F), Plain(F) = {}, Send(F),
           UNCHANGED <<log, request, open, pending, received, since>>,
           unreported' \in [Rounds -> Nat], told' \in [Rounds -> Nat],
           \A r \in Rounds : r > round => unreported'[r] = unreported[r]
    PROVE  /\ SystemTypes' /\ RoundsCounted' /\ FreshStream' /\ LinesWellFormed' /\ InOrder'
           /\ Plain(UnderWay)' = Plain(UnderWay) /\ UnderWay' = UnderWay \o F
           /\ UnderWay \in Seq(Sendable) /\ Grammar(UnderWay) /\ Ended(UnderWay)
  <1> USE Bounds
  <1> DEFINE V == UnderWay'
  <1>1. /\ round \in open /\ ~cut /\ UNCHANGED <<vars, round, cut, parser, faults, seen, warned>>
        /\ wire' \in Seq(Sendable) /\ Len(wire') <= MaxWire
        /\ V = UnderWay \o F
    BY SentLines DEF LinkInv
  <1>2. round \in Rounds /\ open \subseteq 1..round /\ UnderWay \in Seq(Sendable) /\ round > 0
    BY <1>1, OpenRound
  <1>3. Grammar(UnderWay) /\ Ended(UnderWay)
    BY <1>1 DEF LinkInv, LinesWellFormed
  <1>4. /\ V \in Seq(Sendable) /\ Grammar(V) /\ Ended(V)
        /\ Plain(V) = Plain(UnderWay) /\ Taken(UnderWay, V, 0)
    <2> DEFINE W == UnderWay \o F
    <2>1. /\ W \in Seq(Sendable) /\ Grammar(W) /\ Ended(W)
          /\ Plain(W) = Plain(UnderWay) /\ Taken(UnderWay, W, 0)
      BY <1>2, <1>3, QuietAdded
    <2> HIDE DEF W, V
    <2>2. V = W
      BY <1>1 DEF W
    <2> QED BY <2>1, <2>2
  <1>5. UNCHANGED <<opt, main, stream, outcome, answer, reached, printed>>
    BY <1>1 DEF vars, world, historyVars
  <1>6. SystemTypes'
    BY <1>1, <1>5 DEF LinkInv, SystemTypes
  <1>7. RoundsCounted' /\ FreshStream'
    <2>1. \A r \in open : request[r] = Query(opt)
      BY DEF LinkInv, RoundsCounted
    <2>2. Serving
      BY <1>1, <1>2, <2>1 DEF Serving
    <2> QED BY <1>1, <2>2, ServingKeeps
  <1>8. LinesWellFormed'
    BY <1>4, <1>5 DEF LinkInv, LinesWellFormed
  <1>9. InOrder'
    <2>1. WireRight(opt, log, seen, since, UnderWay)
            /\ QueueRight(opt, log, seen, since, UnderWay, pending[round])
      BY <1>1 DEF LinkInv, InOrder
    <2> HIDE DEF V
    <2>2. WireRight(opt, log, seen, since, V) /\ QueueRight(opt, log, seen, since, V, pending[round])
      BY <1>2, <1>4, <2>1, FewerRight
    <2>3. UNCHANGED <<opt, log, seen, since, reached, round, open, pending>>
      BY <1>1, <1>5
    <2>4. WireRight(opt, log, seen, since, UnderWay)'
      BY <2>2, <2>3 DEF V
    <2>5. QueueRight(opt, log, seen, since, UnderWay, pending[round])'
      BY <2>2, <2>3 DEF V
    <2>6. PrintedRight(opt, log, seen)' /\ \A n \in 1..Len(log') : Terminal(log[n])' => reached'
      BY <2>3 DEF LinkInv, InOrder, Terminal, Until
    <2> QED BY <2>4, <2>5, <2>6 DEF InOrder
  <1> QED BY <1>1, <1>2, <1>3, <1>4, <1>6, <1>7, <1>8, <1>9

LEMMA PingKeeps ==
    ASSUME LinkInv, Ping
    PROVE  LinkInv'
  <1> DEFINE F == <<Comment, Blank>>
  <1>1. /\ UNCHANGED <<log, request, open, pending, received, unreported, told, since>>
        /\ Send(F)
    BY DEF Ping, serverVars
  <1>2. /\ F \in Seq(Sendable) /\ Grammar(F) /\ Ended(F) /\ Plain(F) = {} /\ Named(F) = {}
    BY PingSent
  <1> HIDE DEF F
  <1>3. unreported' \in [Rounds -> Nat] /\ told' \in [Rounds -> Nat]
    BY <1>1 DEF LinkInv, SystemTypes
  <1>4. /\ SystemTypes' /\ RoundsCounted' /\ FreshStream' /\ LinesWellFormed' /\ InOrder'
        /\ Plain(UnderWay)' = Plain(UnderWay) /\ UnderWay' = UnderWay \o F
        /\ UnderWay \in Seq(Sendable) /\ Grammar(UnderWay) /\ Ended(UnderWay)
    BY <1>1, <1>2, <1>3, QuietKeeps
  <1>5. Accounted'
    <2>1. LagIn(UnderWay \o F) = LagIn(UnderWay)
      BY <1>2, <1>4, NoLagAdded
    <2>2. LagIn(UnderWay)' = LagIn(UnderWay)
      BY <1>4, <2>1
    <2>3. UNCHANGED <<opt, log, since, seen, open, pending, unreported, warned, cut, round>>
      BY <1>1, <1>2, SentLines DEF LinkInv, vars, world
    <2> QED BY <1>4, <2>2, <2>3 DEF LinkInv, Accounted
  <1> QED BY <1>4, <1>5 DEF LinkInv

\* The count of a lag frame is taken off what the server has not reported.
LEMMA WarnKeeps ==
    ASSUME LinkInv, Warn
    PROVE  LinkInv'
  <1> USE Bounds
  <1>1. PICK n \in 1..unreported[round] :
          /\ told' = [told EXCEPT ![round] = @ + n]
          /\ unreported' = [unreported EXCEPT ![round] = @ - n]
    BY DEF Warn, Server!Tell
  <1> DEFINE F == ServerSentEvent("lag", n)
  <1>2. /\ round \in open
        /\ UNCHANGED <<log, request, open, pending, received, since>>
        /\ Send(ServerSentEvent("lag", told'[round] - told[round]))
    BY DEF Warn, Server!Tell
  <1>3. /\ round \in Rounds /\ unreported[round] \in Nat /\ n \in Nat /\ n <= unreported[round]
        /\ unreported \in [Rounds -> Nat] /\ told \in [Rounds -> Nat] /\ round \in Int
    <2>1. round \in Rounds /\ unreported[round] \in Nat
      BY <1>2, OpenRound
    <2>2. round \in Int
      BY <2>1 DEF Rounds
    <2> QED BY <2>1, <2>2 DEF LinkInv, SystemTypes
  <1>4. Send(F)
    <2>1. told'[round] = told[round] + n /\ told[round] \in Nat
      BY <1>1, <1>3
    <2>2. told'[round] - told[round] = n
      BY <1>3, <2>1
    <2> QED BY <1>2, <2>2
  <1>5. unreported' \in [Rounds -> Nat] /\ told' \in [Rounds -> Nat]
    <2>1. unreported[round] - n \in Nat /\ told[round] + n \in Nat
      BY <1>3
    <2> QED BY <1>1, <1>3, <2>1
  <1>6. \A r \in Rounds : r > round => unreported'[r] = unreported[r]
    <2>1. \A r \in Rounds : r > round => r # round
      BY <1>3
    <2> QED BY <1>1, <1>3, <2>1
  <1>7. /\ F \in Seq(Sendable) /\ Grammar(F) /\ Ended(F) /\ Plain(F) = {} /\ Named(F) = {2}
        /\ F[2].value = n
    <2>1. "lag" \in EventTypes /\ "lag" # "ready"
      BY DEF EventTypes
    <2> QED BY <1>3, <2>1, NamedSent
  <1> HIDE DEF F
  <1>8. /\ SystemTypes' /\ RoundsCounted' /\ FreshStream' /\ LinesWellFormed' /\ InOrder'
        /\ Plain(UnderWay)' = Plain(UnderWay) /\ UnderWay' = UnderWay \o F
        /\ UnderWay \in Seq(Sendable) /\ Grammar(UnderWay) /\ Ended(UnderWay)
    BY <1>2, <1>4, <1>5, <1>6, <1>7, QuietKeeps
  <1>9. Accounted'
    <2>1. LagIn(UnderWay \o F) = LagIn(UnderWay) + n
      BY <1>7, <1>8, LagAdded
    <2>2. UNCHANGED <<opt, log, since, seen, open, pending, warned, cut, round>> /\ ~cut
      BY <1>2, <1>4, <1>7, SentLines DEF LinkInv, vars, world
    <2> DEFINE a == Cardinality(Since(seen, since))
               b == Cardinality(Plain(UnderWay))
               c == unreported[round]
               d == LagIn(UnderWay)
               k == Len(pending[round])
    <2>3. /\ a \in Nat /\ b \in Nat /\ k \in Nat /\ c \in Nat /\ d \in Int /\ warned \in Nat
      BY <1>2, OpenRound
    <2>4. Cardinality(Owed(opt, log, since)) = a + b + k + c + d + warned
      BY <1>2, <2>2 DEF LinkInv, Accounted
    <2>5. /\ Cardinality(Owed(opt, log, since))' = Cardinality(Owed(opt, log, since))
          /\ Cardinality(Since(seen, since))' = a /\ Cardinality(Plain(UnderWay))' = b
          /\ Len(pending[round])' = k
      BY <1>8, <2>2
    <2>6. unreported[round]' = c - n
      BY <1>1, <1>3, <2>2
    <2>7. LagIn(UnderWay)' = d + n
      BY <1>8, <2>1
    <2> HIDE DEF a, b, c, d, k
    <2>8. Cardinality(Owed(opt, log, since))' = a + b + k + (c - n) + (d + n) + warned'
      BY <1>3, <2>2, <2>3, <2>4, <2>5
    <2>9. Cardinality(Owed(opt, log, since))' =
              Cardinality(Since(seen, since))' + Cardinality(Plain(UnderWay))'
            + Len(pending[round])' + unreported[round]' + LagIn(UnderWay)' + warned'
      BY <2>5, <2>6, <2>7, <2>8
    <2> QED BY <2>9 DEF Accounted
  <1> QED BY <1>8, <1>9 DEF LinkInv

\* A published event is owed to the stream if it asked for it, and then it is
\* queued or its loss is counted.
LEMMA WebhookKeeps ==
    ASSUME LinkInv, NEW d \in Deliveries, Webhook(d)
    PROVE  LinkInv'
  <1> USE Bounds
  <1> DEFINE P == pending'
             X == unreported'
             l == Append(log, d)
  <1>1. /\ Len(log) < MaxLog /\ (Terminal(d) => reached)
        /\ log' = l
        /\ P = [s \in Rounds |->
                  IF Server!Concerned(s, d) /\ ~Server!AtCapacity(pending[s])
                  THEN Append(pending[s], Len(log) + 1) ELSE pending[s]]
        /\ X = [s \in Rounds |->
                  IF Server!Concerned(s, d) /\ Server!AtCapacity(pending[s])
                  THEN unreported[s] + 1 ELSE unreported[s]]
        /\ UNCHANGED <<request, open, received, told>>
        /\ UNCHANGED <<vars, linkVars, faults, countVars>>
    BY DEF Webhook, Server!Publish
  <1>2. UNCHANGED <<opt, main, stream, outcome, answer, reached, printed>>
    BY <1>1 DEF vars, world, historyVars
  <1>3. /\ log \in Seq(Deliveries) /\ Len(log) \in Nat /\ Len(log) + 1 \in Nat
        /\ l \in Seq(Deliveries) /\ Len(l) = Len(log) + 1 /\ l[Len(log) + 1] = d
        /\ \A i \in 1..Len(log) : l[i] = log[i]
        /\ since \in 0..Len(log) /\ since \in Nat /\ seen \in Seq(Nat)
    <2>1. log \in Seq(Deliveries) /\ since \in 0..Len(log) /\ seen \in Seq(Nat)
      BY DEF LinkInv, SystemTypes
    <2> QED BY <2>1, LenProperties, AppendProperties
  <1> HIDE DEF l
  <1>4. UNCHANGED <<round, wire, cut, parser, since, seen, warned, faults>>
    BY <1>1 DEF linkVars, countVars
  <1>5. UnderWay' = UnderWay /\ UnderWay \in Seq(Sendable)
    BY <1>4, UnderWayType DEF UnderWay, LinkInv
  <1>6. /\ pending \in [Rounds -> Seq(Nat)] /\ unreported \in [Rounds -> Nat]
        /\ open \subseteq 1..round /\ round \in Int
    BY DEF LinkInv, SystemTypes, RoundsCounted
  <1>7. P \in [Rounds -> Seq(Nat)] /\ X \in [Rounds -> Nat]
    <2>1. ASSUME NEW s \in Rounds
          PROVE  Append(pending[s], Len(log) + 1) \in Seq(Nat) /\ unreported[s] + 1 \in Nat
      <3>1. pending[s] \in Seq(Nat) /\ unreported[s] \in Nat
        BY <1>6
      <3> QED BY <1>3, <3>1, AppendProperties
    <2> QED BY <1>1, <1>6, <2>1
  <1>8. SystemTypes'
    <2>1. Len(log') <= MaxLog /\ since' \in 0..Len(log') /\ log' \in Seq(Deliveries)
      BY <1>1, <1>3, <1>4
    <2> QED BY <1>1, <1>2, <1>4, <1>7, <2>1 DEF LinkInv, SystemTypes
  <1>9. \A r \in Rounds : r > round => X[r] = unreported[r]
    <2>1. \A r \in Rounds : r > round => r \notin open
      BY <1>6 DEF Rounds
    <2>2. \A r \in Rounds : r > round => ~Server!Concerned(r, d)
      BY <2>1 DEF Server!Concerned
    <2> QED BY <1>1, <2>2
  <1> HIDE DEF P, X
  <1>10. RoundsCounted'
    <2>1. \A r \in Rounds : r > round => unreported'[r] = unreported[r]
      BY <1>9 DEF X
    <2>2. \A r \in open : request[r] = Query(opt)
      BY DEF LinkInv, RoundsCounted
    <2>3. Serving
      BY <1>1, <1>4, <1>6, <2>1, <2>2 DEF Serving
    <2> QED BY <2>3, ServingKeeps
  <1>11. FreshStream'
    <2>1. ASSUME Attached, round \notin open PROVE unreported'[round] = unreported[round]
      <3>1. round \in Rounds
        <4>1. /\ round \in 0..faults + 1 /\ faults \in 0..MaxFaults
              /\ Streaming => round > 0
          BY DEF LinkInv, RoundsCounted
        <4>2. round > 0
          BY <2>1, <4>1 DEF Attached
        <4>3. round \in 0..faults + 1 /\ faults \in 0..MaxFaults
          BY <4>1
        <4> QED BY <4>2, <4>3 DEF Rounds
      <3>2. ~Server!Concerned(round, d)
        BY <2>1 DEF Server!Concerned
      <3> QED BY <1>1, <3>1, <3>2 DEF X
    <2>2. UNCHANGED <<main, stream, open, round, wire, cut, parser, warned>>
      BY <1>1, <1>2, <1>4
    <2> QED BY <2>1, <2>2 DEF LinkInv, FreshStream, Attached, Streaming
  <1>12. LinesWellFormed'
    BY <1>2, <1>4, <1>5 DEF LinkInv, LinesWellFormed
  <1>13. ASSUME round \in open
         PROVE  IF Wants(Query(opt), d)
                THEN \/ P[round] = Append(pending[round], Len(log) + 1) /\ X[round] = unreported[round]
                     \/ P[round] = pending[round] /\ X[round] = unreported[round] + 1
                ELSE P[round] = pending[round] /\ X[round] = unreported[round]
    <2>1. round \in Rounds /\ request[round] = Query(opt)
      BY <1>13, OpenRound
    <2>2. Server!Concerned(round, d) <=> Wants(Query(opt), d)
      BY <1>13, <2>1 DEF Server!Concerned
    <2>3. CASE Wants(Query(opt), d)
      <3>1. CASE Server!AtCapacity(pending[round])
        BY <1>1, <2>1, <2>2, <2>3, <3>1
      <3>2. CASE ~Server!AtCapacity(pending[round])
        BY <1>1, <2>1, <2>2, <2>3, <3>2
      <3> QED BY <2>3, <3>1, <3>2
    <2>4. CASE ~Wants(Query(opt), d)
      BY <1>1, <2>1, <2>2, <2>4
    <2> QED BY <2>3, <2>4
  <1>14. InOrder'
    <2>1. PrintedRight(opt, log, seen) /\ WireRight(opt, log, seen, since, UnderWay)
      BY DEF LinkInv, InOrder
    <2>2. PrintedRight(opt, l, seen) /\ WireRight(opt, l, seen, since, UnderWay)
      BY <1>3, <1>5, <2>1, PublishRight DEF l
    <2>3. round \in open => QueueRight(opt, l, seen, since, UnderWay, P[round])
      <3> SUFFICES ASSUME round \in open PROVE QueueRight(opt, l, seen, since, UnderWay, P[round])
        OBVIOUS
      <3>1. pending[round] \in Seq(Nat) /\ QueueRight(opt, log, seen, since, UnderWay, pending[round])
        BY OpenRound DEF LinkInv, InOrder
      <3>2. /\ QueueRight(opt, l, seen, since, UnderWay, pending[round])
            /\ Wants(Query(opt), d) =>
                 QueueRight(opt, l, seen, since, UnderWay, Append(pending[round], Len(log) + 1))
        BY <1>3, <1>5, <2>1, <3>1, PublishRight DEF l
      <3> QED BY <1>13, <3>2
    <2>4. \A n \in 1..Len(log') : Terminal(log[n])' => reached'
      <3>1. \A n \in 1..Len(log) : Terminal(log[n]) => reached
        BY DEF LinkInv, InOrder
      <3>2. ASSUME NEW n \in 1..Len(l), Terminal(l[n]) PROVE reached
        <4>1. CASE n \in 1..Len(log)
          BY <1>3, <3>1, <3>2, <4>1
        <4>2. CASE n = Len(log) + 1
          BY <1>1, <1>3, <3>2, <4>2
        <4> QED BY <1>3, <4>1, <4>2
      <3> QED BY <1>1, <1>2, <3>2 DEF Terminal, Until
    <2>5. UNCHANGED <<opt, seen, since, open, round>> /\ UnderWay' = UnderWay /\ log' = l
      BY <1>1, <1>2, <1>4, <1>5
    <2>6. PrintedRight(opt, log, seen)' /\ WireRight(opt, log, seen, since, UnderWay)'
      BY <2>2, <2>5
    <2>7. round' \in open' => QueueRight(opt, log, seen, since, UnderWay, pending[round])'
      BY <2>3, <2>5 DEF P
    <2> QED BY <2>4, <2>6, <2>7 DEF InOrder
  <1>15. Accounted'
    <2> SUFFICES ASSUME round \in open, ~cut
                 PROVE  Cardinality(Owed(opt, log, since))' =
                            Cardinality(Since(seen, since))' + Cardinality(Plain(UnderWay))'
                          + Len(pending[round])' + unreported[round]' + LagIn(UnderWay)' + warned'
      BY <1>1, <1>4 DEF Accounted
    <2> DEFINE a == Cardinality(Since(seen, since))
               b == Cardinality(Plain(UnderWay))
               c == unreported[round]
               e == LagIn(UnderWay)
               k == Len(pending[round])
               o == Cardinality(Owed(opt, log, since))
    <2>1. /\ a \in Nat /\ b \in Nat /\ k \in Nat /\ c \in Nat /\ e \in Int /\ warned \in Nat
          /\ o = a + b + k + c + e + warned
      BY OpenRound DEF LinkInv, Accounted
    <2>2. /\ Cardinality(Since(seen, since))' = a /\ Cardinality(Plain(UnderWay))' = b
          /\ LagIn(UnderWay)' = e /\ warned' = warned /\ round' = round
      BY <1>4, <1>5
    <2>3. Cardinality(Owed(opt, l, since)) = IF AsksFor(opt, d) THEN o + 1 ELSE o
      BY <1>3, OwedMore DEF l
    <2>4. Cardinality(Owed(opt, log, since))' = IF Wants(Query(opt), d) THEN o + 1 ELSE o
      <3>1. Cardinality(Owed(opt, log, since))' = Cardinality(Owed(opt, l, since))
        BY <1>1, <1>2, <1>4
      <3> QED BY <2>3, <3>1, AskingIsWanting
    <2>5. Len(Append(pending[round], Len(log) + 1)) = k + 1
      BY <1>3, OpenRound, AppendProperties
    <2>6. /\ Len(pending[round])' = Len(P[round]) /\ unreported[round]' = X[round]
      BY <1>4 DEF P, X
    <2> HIDE DEF a, b, c, e, o
    <2>7. IF Wants(Query(opt), d)
          THEN \/ Len(P[round]) = k + 1 /\ X[round] = c
               \/ Len(P[round]) = k /\ X[round] = c + 1
          ELSE Len(P[round]) = k /\ X[round] = c
      BY <1>13, <2>5 DEF c
    <2> HIDE DEF k
    <2>8. Cardinality(Owed(opt, log, since))' =
            a + b + Len(pending[round])' + unreported[round]' + e + warned'
      <3> DEFINE p == Len(P[round])
                 x == X[round]
                 w == Cardinality(Owed(opt, log, since))'
      <3>1. /\ IF Wants(Query(opt), d) THEN w = o + 1 ELSE w = o
            /\ IF Wants(Query(opt), d)
               THEN (p = k + 1 /\ x = c) \/ (p = k /\ x = c + 1)
               ELSE p = k /\ x = c
        BY <2>4, <2>7
      <3> HIDE DEF p, x, w
      <3>2. w = a + b + p + x + e + warned
        <4>1. CASE Wants(Query(opt), d)
          <5>1. CASE p = k + 1 /\ x = c
            BY <2>1, <3>1, <4>1, <5>1
          <5>2. CASE p = k /\ x = c + 1
            BY <2>1, <3>1, <4>1, <5>2
          <5> QED BY <3>1, <4>1, <5>1, <5>2
        <4>2. CASE ~Wants(Query(opt), d)
          BY <2>1, <3>1, <4>2
        <4> QED BY <4>1, <4>2
      <3> QED BY <2>2, <2>6, <3>2 DEF p, x, w
    <2> QED BY <2>2, <2>8
  <1> QED BY <1>8, <1>10, <1>11, <1>12, <1>14, <1>15 DEF LinkInv

-----------------------------------------------------------------------------
(* A line is read: what was owed stays owed, or becomes printed or warned  *)
(* of.                                                                     *)

\* What has been printed, is under way or has been warned of.
Balance(s, m, U, w) ==
    Cardinality(Since(s, m)) + Cardinality(Plain(U)) + LagIn(U) + w

LEMMA AccountedIsBalance ==
    ASSUME LinkInv, round \in open
    PROVE  Accounted <=>
             (~cut => Cardinality(Owed(opt, log, since)) =
                        Balance(seen, since, UnderWay, warned)
                          + Len(pending[round]) + unreported[round])
  <1> DEFINE a == Cardinality(Since(seen, since))
             b == Cardinality(Plain(UnderWay))
             c == unreported[round]
             e == LagIn(UnderWay)
             k == Len(pending[round])
  <1>1. a \in Nat /\ b \in Nat /\ k \in Nat /\ c \in Nat /\ e \in Int /\ warned \in Nat
    BY OpenRound
  <1>2. Balance(seen, since, UnderWay, warned) = a + b + e + warned
    BY DEF Balance
  <1>3. Accounted <=> (~cut => Cardinality(Owed(opt, log, since)) = a + b + k + c + e + warned)
    BY DEF Accounted
  <1> HIDE DEF a, b, c, e, k
  <1>4. a + b + k + c + e + warned = (a + b + e + warned) + k + c
    BY <1>1
  <1>5. Accounted <=> (~cut => Cardinality(Owed(opt, log, since)) =
                                 Balance(seen, since, UnderWay, warned) + k + c)
    BY <1>2, <1>3, <1>4
  <1> QED BY <1>5 DEF k, c

LEMMA ReadRounds ==
    ASSUME LinkInv, Streaming, stream = "open",
           UNCHANGED <<opt, main, answer, serverVars, round, cut, faults>>,
           outcome' \in {outcome, "exit0"}
    PROVE  RoundsCounted' /\ FreshStream' /\ (~cut => round \in open)
  <1> USE DEF serverVars
  <1>1. Streaming' /\ (Broken' => Broken)
    BY DEF Streaming, Broken
  <1>2. RoundsCounted'
    BY <1>1 DEF LinkInv, RoundsCounted
  <1>3. ~cut => round \in open
    BY DEF LinkInv, FreshStream, Attached
  <1>4. FreshStream'
    BY <1>3 DEF FreshStream
  <1> QED BY <1>2, <1>3, <1>4

LEMMA ReadingKeeps ==
    ASSUME LinkInv, Streaming, stream = "open",
           UNCHANGED <<opt, main, answer, reached, serverVars, round, cut, faults, since>>,
           outcome' \in {outcome, "exit0"},
           parser' \in Parsers, wire' \in Seq(Sendable), Len(wire') <= MaxWire,
           seen' \in Seq(Nat), printed' = Len(seen'), warned' \in Nat,
           UnderWay' \in Seq(Sendable), Grammar(UnderWay'),
           Ended(UnderWay) => Ended(UnderWay'),
           PrintedRight(opt, log, seen'), WireRight(opt, log, seen', since, UnderWay'),
           \A Q : QueueRight(opt, log, seen, since, UnderWay, Q) =>
                    QueueRight(opt, log, seen', since, UnderWay', Q),
           Balance(seen', since, UnderWay', warned') = Balance(seen, since, UnderWay, warned)
    PROVE  LinkInv'
  <1> USE Bounds DEF serverVars
  <1>1. SystemTypes'
    BY DEF LinkInv, SystemTypes
  <1>2. RoundsCounted' /\ FreshStream' /\ (~cut => round \in open)
    BY ReadRounds
  <1>3. LinesWellFormed'
    BY DEF LinkInv, LinesWellFormed
  <1>4. InOrder'
    <2>1. WireRight(opt, log, seen, since, UnderWay)' /\ PrintedRight(opt, log, seen)'
      OBVIOUS
    <2>2. round \in open => QueueRight(opt, log, seen, since, UnderWay, pending[round])
      BY DEF LinkInv, InOrder
    <2>3. round' \in open' => QueueRight(opt, log, seen, since, UnderWay, pending[round])'
      BY <2>2
    <2>4. \A n \in 1..Len(log') : Terminal(log[n])' => reached'
      BY DEF LinkInv, InOrder, Terminal, Until
    <2> QED BY <2>1, <2>3, <2>4 DEF InOrder
  <1>5. Accounted'
    <2> SUFFICES ASSUME round \in open, ~cut
                 PROVE  Cardinality(Owed(opt, log, since))' =
                            Cardinality(Since(seen, since))' + Cardinality(Plain(UnderWay))'
                          + Len(pending[round])' + unreported[round]' + LagIn(UnderWay)' + warned'
      BY DEF Accounted
    <2>1. Cardinality(Owed(opt, log, since)) =
            Balance(seen, since, UnderWay, warned) + Len(pending[round]) + unreported[round]
      BY AccountedIsBalance DEF LinkInv
    <2> DEFINE a == Cardinality(Since(seen', since))
               b == Cardinality(Plain(UnderWay'))
               c == unreported[round]
               e == LagIn(UnderWay')
               k == Len(pending[round])
    <2>2. /\ k \in Nat /\ c \in Nat /\ warned' \in Nat /\ b \in Nat /\ e \in Int
      BY OpenRound, LagType, DataOf, FS_CardinalityType
    <2>3. a \in Nat
      <3>1. since \in Nat
        <4>1. log \in Seq(Deliveries) /\ since \in 0..Len(log)
          BY DEF LinkInv, SystemTypes
        <4> QED BY <4>1, LenProperties
      <3> QED BY <3>1, SinceType
    <2>4. Balance(seen, since, UnderWay, warned) = a + b + e + warned'
      BY DEF Balance
    <2>5. /\ Cardinality(Owed(opt, log, since))' = Cardinality(Owed(opt, log, since))
          /\ Cardinality(Since(seen, since))' = a /\ Cardinality(Plain(UnderWay))' = b
          /\ Len(pending[round])' = k /\ unreported[round]' = c /\ LagIn(UnderWay)' = e
      OBVIOUS
    <2>6. Cardinality(Owed(opt, log, since)) = Balance(seen, since, UnderWay, warned) + k + c
      BY <2>1
    <2> HIDE DEF a, b, c, e, k
    <2>7. Cardinality(Owed(opt, log, since))' = a + b + k + c + e + warned'
      <3>1. (a + b + e + warned') + k + c = a + b + k + c + e + warned'
        BY <2>2, <2>3
      <3> QED BY <2>4, <2>5, <2>6, <3>1
    <2> QED BY <2>5, <2>7
  <1> QED BY <1>1, <1>2, <1>3, <1>4, <1>5 DEF LinkInv

\* The lines that are left.
LEMMA RestRight ==
    ASSUME NEW U \in Seq(Sendable), NEW V \in Seq(Sendable), NEW k \in Nat \ {0},
           k <= Len(U), Shifted(U, V, k), U[k].field # "event", Grammar(U)
    PROVE  Grammar(V) /\ (Ended(U) => Ended(V)) /\ Taken(U, V, k)
  BY ShiftedData, RestTaken

\* What the frame that a line ended does.
LEMMA HandleEffect ==
    ASSUME Read, NEW e, NEW v, parser'.frame = <<[event |-> e, data |-> <<v>>]>>
    PROVE  /\ UNCHANGED <<opt, main, answer, reached>> /\ outcome' \in {outcome, "exit0"}
           /\ e \in {"ready", "lag"} => UNCHANGED <<seen, printed>>
           /\ e = "ready" => warned' = warned
           /\ e = "lag" => warned' = warned + v
           /\ e = "message" => /\ v \in DOMAIN log /\ seen' = Append(seen, v)
                               /\ printed' = printed + 1 /\ warned' = warned
  <1> DEFINE f == [event |-> e, data |-> <<v>>]
  <1>1. f.event = e /\ f.data = <<v>> /\ f.data[1] = v /\ Len(f.data) = 1
    OBVIOUS
  <1>2. Handle(f)
    <2>1. parser'.frame = <<f>> /\ <<f>> # <<>> /\ <<f>>[1] = f
      OBVIOUS
    <2> HIDE DEF f
    <2> QED BY <2>1 DEF Read
  <1> HIDE DEF f
  <1>3. CASE f.event = "ready" /\ ReadyFrame /\ UNCHANGED <<seen, warned>>
    BY <1>1, <1>3 DEF ReadyFrame, world
  <1>4. CASE f.event = "lag" /\ warned' = warned + f.data[1] /\ UNCHANGED <<vars, seen>>
    BY <1>1, <1>4 DEF vars, world, historyVars
  <1>5. CASE /\ f.event = "message" /\ f.data[1] \in DOMAIN log
             /\ EventFrame(log[f.data[1]])
             /\ seen' = Append(seen, f.data[1]) /\ UNCHANGED warned
    BY <1>1, <1>5 DEF EventFrame, EndStream, world
  <1> QED BY <1>1, <1>2, <1>3, <1>4, <1>5 DEF Handle

LEMMA ReadKeeps ==
    ASSUME LinkInv, Read
    PROVE  LinkInv'
  <1> USE Bounds
  <1> DEFINE U == UnderWay
             V == UnderWay'
             f == parser'.frame
  <1>1. /\ Streaming /\ stream = "open" /\ wire # <<>>
        /\ parser' = ParseLine(parser, Head(wire)) /\ wire' = Tail(wire)
        /\ UNCHANGED <<serverVars, round, cut, faults, since>>
    BY DEF Read
  <1>2. /\ wire \in Seq(Sendable) /\ Len(wire) <= MaxWire /\ parser \in Parsers
        /\ U \in Seq(Sendable) /\ Grammar(U) /\ seen \in Seq(Nat) /\ printed = Len(seen)
        /\ warned \in Nat /\ since \in 0..Len(log) /\ log \in Seq(Deliveries)
    BY UnderWayType DEF LinkInv, SystemTypes, LinesWellFormed
  <1>3. wire' \in Seq(Sendable) /\ Len(wire') <= MaxWire
    <2>1. Tail(wire) \in Seq(Sendable) /\ Len(Tail(wire)) = Len(wire) - 1 /\ Len(wire) \in Nat
      BY <1>1, <1>2, HeadTailProperties, LenProperties
    <2> QED BY <1>1, <1>2, <2>1
  <1>4. since \in Nat /\ Cardinality(Since(seen, since)) \in Nat
    BY <1>2, LenProperties, SinceType
  <1>5. /\ parser' \in Parsers /\ V \in Seq(Sendable)
        /\ MiddleRead(U, V, f) \/ IdleRead(U, V, f) \/ MessageRead(U, V, f) \/ NamedRead(U, V, f)
    <2>1. Grammar(Begun(parser) \o wire) /\ U = Begun(parser) \o wire
      BY <1>2 DEF UnderWay
    <2>2. V = Begun(parser') \o Tail(wire)
      BY <1>1 DEF UnderWay
    <2> HIDE DEF U, V
    <2> QED BY <1>1, <1>2, <2>1, <2>2, ReadEffect
  <1>6. PrintedRight(opt, log, seen) /\ WireRight(opt, log, seen, since, U)
    BY DEF LinkInv, InOrder
  <1>7. ASSUME f = <<>> PROVE UNCHANGED <<vars, seen, warned>>
    BY <1>7 DEF Read
  <1>8. ASSUME UNCHANGED <<vars, seen, warned>>
        PROVE  /\ UNCHANGED <<opt, main, answer, reached, seen, printed, warned>>
               /\ outcome' \in {outcome, "exit0"}
    BY <1>8 DEF vars, world, historyVars
  <1>9. Cardinality(Plain(U)) \in Nat /\ LagIn(U) \in Int
            /\ Cardinality(Plain(V)) \in Nat /\ LagIn(V) \in Int
    BY <1>2, <1>5, LagType, DataOf, FS_CardinalityType
  <1> HIDE DEF f, U, V
  <1>10. CASE MiddleRead(U, V, f)
    <2>1. V = U /\ UNCHANGED <<vars, seen, warned>>
      BY <1>7, <1>10 DEF MiddleRead
    <2>2. UnderWay' = UnderWay
      BY <2>1 DEF U, V
    <2>3. Balance(seen', since, UnderWay', warned') = Balance(seen, since, UnderWay, warned)
      BY <2>1, <2>2
    <2> QED BY <1>1, <1>2, <1>3, <1>5, <1>6, <1>8, <2>1, <2>2, <2>3, ReadingKeeps DEF U
  <1>11. CASE IdleRead(U, V, f)
    <2>1. /\ Len(U) >= 1 /\ Shifted(U, V, 1) /\ U[1].field \in {":", "blank"}
          /\ UNCHANGED <<vars, seen, warned>>
      BY <1>7, <1>11 DEF IdleRead
    <2>2. Grammar(V) /\ (Ended(U) => Ended(V)) /\ Taken(U, V, 1)
      <3>1. 1 \in Nat \ {0} /\ 1 <= Len(U) /\ U[1].field # "event"
        BY <2>1
      <3> QED BY <1>2, <1>5, <2>1, <3>1, RestRight
    <2>3. /\ WireRight(opt, log, seen, since, V)
          /\ \A Q : QueueRight(opt, log, seen, since, U, Q) =>
                      QueueRight(opt, log, seen, since, V, Q)
      BY <1>2, <1>5, <1>6, <2>2, FewerRight
    <2>4. Cardinality(Plain(V)) = Cardinality(Plain(U)) /\ LagIn(V) = LagIn(U)
      BY <1>2, <1>5, <2>1, DropIdle
    <2>5. Balance(seen', since, V, warned') = Balance(seen, since, U, warned)
      BY <2>1, <2>4 DEF Balance
    <2> QED BY <1>1, <1>2, <1>3, <1>5, <1>6, <1>8, <2>1, <2>2, <2>3, <2>5, ReadingKeeps DEF U, V
  <1>12. CASE MessageRead(U, V, f)
    <2> DEFINE v == U[1].value
    <2>1. /\ Len(U) >= 2 /\ Shifted(U, V, 2) /\ U[1].field = "data" /\ U[2].field = "blank"
          /\ f = <<[event |-> "message", data |-> <<v>>]>>
      BY <1>12 DEF MessageRead
    <2>2. 1 \in Plain(U)
      <3>1. 1 \in 1..Len(U)
        BY <1>2, <2>1, LenProperties
      <3> QED BY <1>2, <2>1, <3>1, FirstData
    <2>3. Grammar(V) /\ (Ended(U) => Ended(V)) /\ Taken(U, V, 2)
      <3>1. 2 \in Nat \ {0} /\ 2 <= Len(U) /\ U[2].field # "event"
        BY <2>1
      <3> QED BY <1>2, <1>5, <2>1, <3>1, RestRight
    <2>4. since < v /\ v \in Nat
      BY <1>2, <1>6, <2>2, DataOf DEF WireRight, Ahead
    <2> HIDE DEF v
    <2>5. /\ UNCHANGED <<opt, main, answer, reached, warned>> /\ outcome' \in {outcome, "exit0"}
          /\ seen' = Append(seen, v) /\ printed' = printed + 1
      BY <2>1, HandleEffect DEF f
    <2>6. /\ Append(seen, v) \in Seq(Nat)
          /\ PrintedRight(opt, log, Append(seen, v))
          /\ WireRight(opt, log, Append(seen, v), since, V)
          /\ \A Q : QueueRight(opt, log, seen, since, U, Q) =>
                      QueueRight(opt, log, Append(seen, v), since, V, Q)
      <3>1. 2 \in Nat \ {0} /\ v = U[1].value
        BY DEF v
      <3> QED BY <1>2, <1>5, <1>6, <2>2, <2>3, <3>1, PrintRight
    <2>7. printed' = Len(seen')
      BY <1>2, <2>4, <2>5, AppendProperties
    <2>8. Balance(seen', since, V, warned') = Balance(seen, since, U, warned)
      <3>1. Cardinality(Since(Append(seen, v), since)) = Cardinality(Since(seen, since)) + 1
        BY <1>2, <1>4, <2>4, SinceMore
      <3>2. Cardinality(Plain(U)) = Cardinality(Plain(V)) + 1 /\ LagIn(V) = LagIn(U)
        BY <1>2, <1>5, <2>1, DropMessage
      <3> DEFINE a == Cardinality(Since(seen, since))
                 b == Cardinality(Plain(V))
                 e == LagIn(V)
      <3>3. a \in Nat /\ b \in Nat /\ e \in Int
        BY <1>4, <1>9
      <3>4. /\ Balance(seen', since, V, warned') = (a + 1) + b + e + warned
            /\ Balance(seen, since, U, warned) = a + (b + 1) + e + warned
        BY <2>5, <3>1, <3>2 DEF Balance
      <3> HIDE DEF a, b, e
      <3> QED BY <1>2, <3>3, <3>4
    <2>9. seen' \in Seq(Nat) /\ warned' \in Nat
      BY <1>2, <2>5, <2>6
    <2> QED BY <1>1, <1>2, <1>3, <1>5, <2>3, <2>5, <2>6, <2>7, <2>8, <2>9, ReadingKeeps DEF U, V
  <1>13. CASE NamedRead(U, V, f)
    <2> DEFINE t == U[1].value
               n == U[2].value
    <2>1. /\ Len(U) >= 3 /\ Shifted(U, V, 3)
          /\ U[1].field = "event" /\ U[2].field = "data" /\ U[3].field = "blank"
          /\ f = <<[event |-> t, data |-> <<n>>]>>
      BY <1>13 DEF NamedRead
    <2>2. t \in {"ready", "lag"} /\ n \in Nat /\ (t = "ready" => n = 0)
      <3>1. U[1] \in Sendable /\ U[2] \in Sendable /\ 1 \in 1..Len(U) - 1 /\ 1 + 1 = 2
        BY <1>2, <2>1, LenProperties, DataOf
      <3>2. t \in EventTypes /\ n \in Nat
        BY <2>1, <3>1, Kinds
      <3>3. U[1].value = "ready" => U[1 + 1].value = 0
        BY <1>2, <2>1, <3>1 DEF Grammar
      <3> QED BY <3>1, <3>2, <3>3 DEF EventTypes
    <2>3. Grammar(V) /\ (Ended(U) => Ended(V)) /\ Taken(U, V, 3)
      <3>1. 3 \in Nat \ {0} /\ 3 <= Len(U) /\ U[3].field # "event"
        BY <2>1
      <3> QED BY <1>2, <1>5, <2>1, <3>1, RestRight
    <2>4. /\ WireRight(opt, log, seen, since, V)
          /\ \A Q : QueueRight(opt, log, seen, since, U, Q) =>
                      QueueRight(opt, log, seen, since, V, Q)
      BY <1>2, <1>5, <1>6, <2>3, FewerRight
    <2>5. Cardinality(Plain(V)) = Cardinality(Plain(U)) /\ LagIn(U) = n + LagIn(V)
      BY <1>2, <1>5, <2>1, DropNamed
    <2> HIDE DEF t, n
    <2>6. /\ UNCHANGED <<opt, main, answer, reached, seen, printed>>
          /\ outcome' \in {outcome, "exit0"} /\ warned' = warned + n
      <3>1. /\ UNCHANGED <<opt, main, answer, reached, seen, printed>>
            /\ outcome' \in {outcome, "exit0"}
            /\ t = "ready" => warned' = warned
            /\ t = "lag" => warned' = warned + n
        BY <2>1, <2>2, HandleEffect DEF f
      <3> QED BY <1>2, <2>2, <3>1
    <2>7. Balance(seen', since, V, warned') = Balance(seen, since, U, warned)
      <3> DEFINE a == Cardinality(Since(seen, since))
                 b == Cardinality(Plain(U))
                 e == LagIn(V)
      <3>1. a \in Nat /\ b \in Nat /\ e \in Int
        BY <1>4, <1>9
      <3>2. /\ Balance(seen', since, V, warned') = a + b + e + (warned + n)
            /\ Balance(seen, since, U, warned) = a + b + (n + e) + warned
        BY <2>5, <2>6 DEF Balance
      <3> HIDE DEF a, b, e
      <3> QED BY <1>2, <2>2, <3>1, <3>2
    <2>8. warned' \in Nat
      BY <1>2, <2>2, <2>6
    <2> QED BY <1>1, <1>2, <1>3, <1>5, <1>6, <2>3, <2>4, <2>6, <2>7, <2>8, ReadingKeeps DEF U, V
  <1> QED BY <1>5, <1>10, <1>11, <1>12, <1>13

-----------------------------------------------------------------------------
(* The invariant of the whole.                                             *)
SystemInv == ListenInv /\ Checked /\ LinkInv

LEMMA LinkInit == SystemInit => Checked /\ LinkInv
  <1> SUFFICES ASSUME SystemInit PROVE Checked /\ LinkInv
    OBVIOUS
  <1> USE Bounds
  <1>1. /\ main = "begin" /\ stream = "none" /\ outcome = "none" /\ answer = "none" /\ printed = 0
        /\ log = <<>> /\ open = {} /\ seen = <<>> /\ since = 0 /\ warned = 0
        /\ round = 0 /\ wire = <<>> /\ cut = FALSE /\ parser = NewParser /\ faults = 0
        /\ request = [r \in Rounds |-> None]
        /\ pending = [r \in Rounds |-> <<>>] /\ received = [r \in Rounds |-> <<>>]
        /\ unreported = [r \in Rounds |-> 0] /\ told = [r \in Rounds |-> 0]
    BY DEF SystemInit, Init, Server!FifoInit
  <1>2. Len(<<>>) = 0 /\ <<>> \in Seq(Nat) /\ <<>> \in Seq(Deliveries) /\ <<>> \in Seq(Sendable)
    OBVIOUS
  <1>3. NewParser \in Parsers /\ Begun(NewParser) = <<>>
    <2>1. /\ NewParser = [event |-> "message", data |-> <<>>, frame |-> <<>>]
          /\ <<>> \in Seq(Nat) /\ <<>> \in Seq(Frames)
      BY DEF NewParser
    <2>2. NewParser \in Parsers
      BY <2>1 DEF Parsers
    <2> QED BY <2>1, <2>2, NothingBegun
  <1>4. UnderWay = <<>>
    <2>1. Begun(parser) = <<>> /\ wire = <<>>
      BY <1>1, <1>3
    <2> QED BY <2>1 DEF UnderWay
  <1>5. SystemTypes
    <2>1. /\ pending \in [Rounds -> Seq(Nat)] /\ received \in [Rounds -> Seq(Nat)]
          /\ unreported \in [Rounds -> Nat] /\ told \in [Rounds -> Nat]
          /\ request \in [Rounds -> {None, Query(opt)}]
      BY <1>1, <1>2
    <2>2. Len(log) <= MaxLog /\ Len(wire) <= MaxWire /\ since \in 0..Len(log) /\ printed = Len(seen)
      BY <1>1, <1>2
    <2> QED BY <1>1, <1>2, <1>3, <2>1, <2>2 DEF SystemTypes
  <1>6. RoundsCounted
    <2>1. ~Broken /\ ~Streaming
      BY <1>1 DEF Broken, Streaming
    <2>2. faults \in 0..MaxFaults /\ round \in 0..faults + 1
      BY <1>1
    <2> QED BY <1>1, <2>1, <2>2 DEF RoundsCounted
  <1>7. FreshStream
    BY <1>1 DEF FreshStream, Attached, Streaming
  <1>8. LinesWellFormed
    BY <1>1, <1>4, NoLines DEF LinesWellFormed
  <1>9. InOrder
    <2>1. WireRight(opt, log, seen, since, UnderWay)
      BY <1>4, NoLines, NoneRight
    <2>2. PrintedRight(opt, log, seen)
      BY <1>1, <1>2 DEF PrintedRight, Increasing
    <2>3. \A n \in 1..Len(log) : Terminal(log[n]) => reached
      BY <1>1, <1>2
    <2> QED BY <1>1, <2>1, <2>2, <2>3 DEF InOrder
  <1>10. Accounted
    BY <1>1 DEF Accounted
  <1> QED BY <1>1, <1>5, <1>6, <1>7, <1>8, <1>9, <1>10 DEF LinkInv, Checked

LEMMA CheckedStep ==
    ASSUME ListenTypeOK, Shape, Checked, [SystemNext]_systemVars
    PROVE  Checked'
  <1> USE DEF vars, world, historyVars, linkVars, countVars
  <1>1. CASE MainStep
    BY <1>1, MainEffect DEF MainStep
  <1>2. ASSUME UNCHANGED <<opt, main>> PROVE Checked'
    BY <1>2 DEF Checked
  <1>3. CASE Read
    BY <1>2, <1>3 DEF Read, Handle, ReadyFrame, EventFrame, StreamEnds
  <1>4. CASE Ask \/ Connected \/ Denied \/ ConnectLost \/ EndOfStream \/ PollStep
    BY <1>2, <1>4 DEF Ask, Connected, Denied, ConnectLost, EndOfStream, Connect, StreamEnds,
       PollStep, PollWakes, PollAnswer
  <1>5. CASE ServerStep
    BY <1>2, <1>5 DEF ServerStep, Serve, Answer, Push, Warn, Ping, Send, Hangup, Webhook
  <1>6. CASE Break \/ ServerEnds \/ Restart
    BY <1>2, <1>6 DEF Break, ServerEnds, Restart, Cut
  <1>7. CASE ConnectFails \/ PollFails \/ GitHubStep
    BY <1>2, <1>7 DEF ConnectFails, Connect, PollFails, PollAnswer, GitHubStep, ReachTarget, Reopen
  <1>8. CASE Deadline
    BY <1>8 DEF Deadline, DeadlineExpires, Exit, Checked
  <1>9. CASE UNCHANGED systemVars
    BY <1>2, <1>9 DEF systemVars
  <1> QED BY <1>1, <1>3, <1>4, <1>5, <1>6, <1>7, <1>8, <1>9
          DEF SystemNext, ClientStep, StreamStep, Failure, Finished

LEMMA LinkStep ==
    ASSUME ListenTypeOK, Shape, Checked, LinkInv, [SystemNext]_systemVars
    PROVE  LinkInv'
  <1>1. CASE MainStep /\ stream' = "connecting"
    BY <1>1, NewStreamKeeps
  <1>2. CASE \/ MainStep /\ stream' # "connecting"
             \/ Connected \/ Denied \/ ConnectLost \/ EndOfStream \/ PollStep
             \/ ConnectFails \/ PollFails \/ Deadline \/ GitHubStep \/ UNCHANGED systemVars
    BY <1>2, AsideSteps, AsideKeeps
  <1>3. CASE Hangup \/ Break \/ ServerEnds \/ Restart
    BY <1>3, LossSteps, LossKeeps
  <1>4. CASE Ask
    BY <1>4, AskKeeps
  <1>5. CASE Read
    BY <1>5, ReadKeeps
  <1>6. CASE Answer
    BY <1>6, AnswerKeeps
  <1>7. CASE Push
    BY <1>7, PushKeeps
  <1>8. CASE Warn
    BY <1>8, WarnKeeps
  <1>9. CASE Ping
    BY <1>9, PingKeeps
  <1>10. ASSUME NEW d \in Deliveries, Webhook(d) PROVE LinkInv'
    BY <1>10, WebhookKeeps
  <1> QED BY <1>1, <1>2, <1>3, <1>4, <1>5, <1>6, <1>7, <1>8, <1>9, <1>10
          DEF SystemNext, ClientStep, StreamStep, ServerStep, Serve, Failure, Finished

LEMMA SystemInvStep == SystemInv /\ [SystemNext]_systemVars => SystemInv'
  <1> SUFFICES ASSUME SystemInv, [SystemNext]_systemVars PROVE SystemInv'
    OBVIOUS
  <1>1. ListenInv /\ ListenTypeOK /\ Shape /\ Checked /\ LinkInv
    BY DEF SystemInv, ListenInv
  <1>2. [Next]_vars
    <2>1. log \in Seq(Deliveries)
      BY <1>1 DEF LinkInv, SystemTypes
    <2> QED BY <2>1, SystemStepIsListenStep
  <1>3. ListenInv'
    BY <1>1, <1>2, TypeStep, ShapeStep, CauseStep, CountdownStep, BackoffStep DEF ListenInv
  <1>4. Checked' /\ LinkInv'
    BY <1>1, CheckedStep, LinkStep
  <1> QED BY <1>3, <1>4 DEF SystemInv

LEMMA SystemInvariant == SystemSpec => []SystemInv
  <1>1. SystemInit => SystemInv
    <2>1. SystemInit => Init
      BY DEF SystemInit
    <2>2. Init => ListenInv
      BY TypeInit, ShapeInit, CauseInit, CountdownInit, BackoffInit DEF ListenInv
    <2> QED BY <2>1, <2>2, LinkInit DEF SystemInv
  <1> QED BY <1>1, SystemInvStep, PTL DEF SystemSpec

-----------------------------------------------------------------------------
\* Whatever fails and however often, up to the bound on the failures: streams and
\* subscriptions are numbered alike, and what is printed was published.
THEOREM SystemTypesCorrect == SystemSpec => []SystemTypeOK
  <1>1. SystemInv => SystemTypeOK
    <2> SUFFICES ASSUME SystemInv PROVE SystemTypeOK
      OBVIOUS
    <2> USE Bounds
    <2>1. SystemTypes /\ RoundsCounted /\ InOrder
      BY DEF SystemInv, LinkInv
    <2>2. /\ faults \in 0..MaxFaults /\ round \in 0..faults + 1 /\ open \subseteq 1..round
      BY <2>1 DEF RoundsCounted
    <2>3. round \in 0..MaxFaults + 1 /\ open \subseteq 1..round
      <3>1. round \in Nat /\ (round # 0 => round \in 1..round) /\ round <= MaxFaults + 1
        BY <2>2
      <3>2. open \subseteq 1..round
        BY <2>2, <3>1
      <3> QED BY <3>1, <3>2
    <2>4. \A i \in 1..Len(seen) : seen[i] \in 1..Len(log)
      BY <2>1 DEF InOrder, PrintedRight, Wanted
    <2> QED BY <2>1, <2>2, <2>3, <2>4 DEF SystemTypes, SystemTypeOK
  <1> QED BY <1>1, SystemInvariant, PTL

\* From the webhook to the terminal, no event that a listening client asked for is
\* lost without being in a count that the client is or will be told.
THEOREM NothingSilentlyLostHolds == SystemSpec => []NothingSilentlyLost
  <1>1. SystemInv => NothingSilentlyLost
    <2> SUFFICES ASSUME SystemInv, Listening
                 PROVE  /\ round \in open
                        /\ Cardinality({n \in since + 1..Len(log) : AsksFor(opt, log[n])}) =
                               Cardinality({i \in 1..Len(seen) : seen[i] > since})
                             + Cardinality(Plain(UnderWay)) + Len(pending[round])
                             + unreported[round] + LagIn(UnderWay) + warned
      BY DEF NothingSilentlyLost
    <2>1. round \in open /\ ~cut
      BY DEF SystemInv, LinkInv, FreshStream, Listening, Attached
    <2>2. Cardinality(Owed(opt, log, since)) =
              Cardinality(Since(seen, since)) + Cardinality(Plain(UnderWay))
            + Len(pending[round]) + unreported[round] + LagIn(UnderWay) + warned
      BY <2>1 DEF SystemInv, LinkInv, Accounted
    <2> QED BY <2>1, <2>2 DEF Owed, Since
  <1> QED BY <1>1, SystemInvariant, PTL

\* Over all the streams of a run, only events that were asked for are printed, in
\* the order they were published and none twice.
THEOREM PrintedInOrderHolds == SystemSpec => []PrintedInOrder
  <1>1. SystemInv => PrintedInOrder
    <2> SUFFICES ASSUME SystemInv PROVE PrintedInOrder
      OBVIOUS
    <2>1. PrintedRight(opt, log, seen)
      BY DEF SystemInv, LinkInv, InOrder
    <2>2. \A i \in 1..Len(seen) : AsksFor(opt, log[seen[i]])
      BY <2>1, AskingIsWanting DEF PrintedRight, Wanted
    <2> QED BY <2>1, <2>2 DEF PrintedRight, Increasing, PrintedInOrder
  <1> QED BY <1>1, SystemInvariant, PTL

\* Wherever a stream breaks, the parser makes no frame of it that was not sent.
THEOREM FramesIntactHolds == SystemSpec => []FramesIntact
  <1>1. SystemInv => FramesIntact
    BY DEF SystemInv, LinkInv, LinesWellFormed, FramesIntact
  <1> QED BY <1>1, SystemInvariant, PTL

\* An event that is under way is one that the guards of Listen's EventFrame let
\* pass: none gets stuck for what Listen takes for granted of a server.
THEOREM EventsExpectedHolds == SystemSpec => []EventsExpected
  <1>1. SystemInv => EventsExpected
    <2> SUFFICES ASSUME SystemInv, NEW i \in Plain(UnderWay)
                 PROVE  /\ printed < MaxPrinted
                        /\ Wants(Query(opt), log[UnderWay[i].value])
                        /\ Terminal(log[UnderWay[i].value]) => reached
      BY DEF EventsExpected
    <2> DEFINE v == UnderWay[i].value
    <2>1. /\ PrintedRight(opt, log, seen) /\ Ahead(opt, log, seen, since, v)
          /\ \A n \in 1..Len(log) : Terminal(log[n]) => reached
      BY DEF SystemInv, LinkInv, InOrder, WireRight
    <2>2. /\ printed = Len(seen) /\ seen \in Seq(Nat) /\ log \in Seq(Deliveries)
          /\ Len(log) <= MaxLog
      BY DEF SystemInv, LinkInv, SystemTypes
    <2> HIDE DEF v
    <2>3. /\ v \in 1..Len(log) /\ Wants(Query(opt), log[v])
          /\ \A j \in 1..Len(seen) : seen[j] < v /\ j <= seen[j]
      BY <2>1 DEF Ahead, Wanted, PrintedRight
    <2>4. printed < MaxPrinted
      <3>1. Len(seen) \in Nat /\ Len(log) \in Nat
        BY <2>2, LenProperties
      <3>2. CASE Len(seen) = 0
        BY <2>2, <2>3, <3>1, <3>2, Bounds
      <3>3. CASE Len(seen) # 0
        <4> DEFINE k == Len(seen)
        <4>1. k \in 1..k
          BY <3>1, <3>3
        <4>2. seen[k] < v /\ k <= seen[k] /\ seen[k] \in Nat
          BY <2>2, <2>3, <4>1, ElementOfSeq
        <4> QED BY <2>2, <2>3, <3>1, <4>2, Bounds
      <3> QED BY <3>2, <3>3
    <2> QED BY <2>1, <2>3, <2>4 DEF v
  <1> QED BY <1>1, SystemInvariant, PTL

-----------------------------------------------------------------------------
(* The server's side is LossyFifo.                                         *)

FifoStep == [Server!FifoNext]_(Server!fifoVars)

LEMMA ServerStays == UNCHANGED serverVars => FifoStep
  BY DEF serverVars, FifoStep, Server!fifoVars

LEMMA ServerStepRefined == SystemInv /\ [SystemNext]_systemVars => FifoStep
  <1> SUFFICES ASSUME SystemInv, [SystemNext]_systemVars PROVE FifoStep
    OBVIOUS
  <1> USE Bounds
  <1>1. /\ ListenTypeOK /\ Checked /\ LinkInv
        /\ faults \in 0..MaxFaults /\ round \in 0..faults + 1 /\ open \subseteq 1..round
        /\ Streaming => round > 0
    BY DEF SystemInv, ListenInv, LinkInv, RoundsCounted
  <1>2. Streaming \/ round \in open => round \in Rounds
    <2>1. Streaming \/ round \in open => round > 0
      BY <1>1
    <2>2. round > 0 => round \in Rounds
      <3>1. faults \in 0..MaxFaults /\ round \in 0..faults + 1
        BY <1>1
      <3> QED BY <3>1 DEF Rounds
    <2> QED BY <2>1, <2>2
  <1>3. CASE Ask
    <2>1. Streaming /\ Server!Ask(round, Query(opt))
      BY <1>3 DEF Ask
    <2>2. opt \in CommandLines /\ Usable(opt) /\ round \in Rounds
      BY <1>1, <1>2, <2>1 DEF ListenTypeOK, Checked, Streaming
    <2> QED BY <2>1, <2>2 DEF FifoStep, Server!FifoNext
  <1>4. CASE Answer
    <2>1. Streaming /\ Server!Open(round)
      BY <1>4 DEF Answer, Attached
    <2> QED BY <1>2, <2>1 DEF FifoStep, Server!FifoNext
  <1>5. CASE Push
    BY <1>2, <1>5 DEF Push, Send, FifoStep, Server!FifoNext
  <1>6. CASE Warn
    BY <1>2, <1>6 DEF Warn, Send, FifoStep, Server!FifoNext
  <1>7. ASSUME NEW ended, Server!Shut(ended) PROVE FifoStep
    <2>1. open \subseteq Rounds
      <3>1. round \in 0..faults + 1 /\ faults \in 0..MaxFaults /\ open \subseteq 1..round
        BY <1>1
      <3> QED BY <3>1 DEF Rounds
    <2>2. ended \in SUBSET Rounds
      BY <1>7, <2>1 DEF Server!Shut
    <2> QED BY <1>7, <2>2 DEF FifoStep, Server!FifoNext
  <1>8. CASE Restart
    <2>1. open' = {} /\ UNCHANGED <<log, request, pending, received, unreported, told>>
      BY <1>8 DEF Restart
    <2>2. CASE open # {}
      <3>1. Server!Shut(open)
        BY <2>1, <2>2 DEF Server!Shut
      <3> QED BY <1>7, <3>1
    <2>3. CASE open = {}
      BY <2>1, <2>3, ServerStays DEF serverVars
    <2> QED BY <2>2, <2>3
  <1>9. ASSUME NEW d \in Deliveries, Webhook(d) PROVE FifoStep
    BY <1>9 DEF Webhook, FifoStep, Server!FifoNext
  <1>10. CASE MainStep \/ Connected \/ Denied \/ ConnectLost \/ Read \/ EndOfStream \/ PollStep
    BY <1>10, ServerStays DEF MainStep, Connected, Denied, ConnectLost, Read, EndOfStream, PollStep
  <1>11. CASE Ping \/ Break \/ ConnectFails \/ PollFails \/ Deadline \/ GitHubStep
              \/ UNCHANGED systemVars
    BY <1>11, ServerStays DEF Ping, Break, ConnectFails, PollFails, Deadline, GitHubStep, systemVars
  <1>12. CASE Hangup \/ ServerEnds
    BY <1>7, <1>12 DEF Hangup, ServerEnds
  <1> QED BY <1>3, <1>4, <1>5, <1>6, <1>8, <1>9, <1>10, <1>11, <1>12
          DEF SystemNext, ClientStep, StreamStep, ServerStep, Serve, Failure, Finished

\* What the server does to the client's subscriptions is what LossyFifo allows,
\* breaks and restarts included.
THEOREM SystemImplementsFifo == SystemSpec => ImplementsFifo
  <1>1. SystemInit => Server!FifoInit
    BY DEF SystemInit
  <1> QED BY <1>1, ServerStepRefined, SystemInvariant, PTL
          DEF SystemSpec, FifoStep, ImplementsFifo, Server!FifoSpec
=============================================================================
