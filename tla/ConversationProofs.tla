-------------------------- MODULE ConversationProofs --------------------------
(***************************************************************************)
(* A conversation keeps the promise of ReplyLog for any number of messages *)
(* and tools, and however the network cuts the stream.                     *)
(*                                                                         *)
(* Two facts carry the proof.  The pieces on their way are whole frames    *)
(* but for the start of the first one, which the buffer and the event type *)
(* account for: so a data line is handled as the event that was written.   *)
(* And only the newest reply can be open, exactly while the page is busy:  *)
(* so no timer, stream or message reaches a reply that is closed.          *)
(*                                                                         *)
(* Two more properties rest on them.  A piece on its way is the one that   *)
(* its place in the stream says, so what was handled is what was written   *)
(* and sound, up to what has arrived.  And the rows of the Activity panel  *)
(* tell of each tool as many calls and results as were handled.            *)
(***************************************************************************)
EXTENDS Conversation, SequenceTheorems, FiniteSetTheorems, WellFoundedInduction, TLAPS

Travelling == [line : [kind : {"event", "data", "blank"}, event : Events], part : {"head", "tail"}]

\* The piece that comes after another.
Follows(p, q) ==
    IF p.part = "head" THEN q.line = p.line /\ q.part = "tail"
    ELSE CASE p.line.kind = "event" -> q.line = Line("data", p.line.event) /\ q.part = "head"
           [] p.line.kind = "data" -> q.line = Line("blank", p.line.event) /\ q.part = "tail"
           [] OTHER -> q.line.kind = "event" /\ q.part = "head"

\* What the page remembers of a line it has the start of, or is about to read.
Remembers(first, text, type) ==
    /\ text = IF first.part = "tail" /\ first.line.kind # "blank"
                THEN <<Piece(first.line, "head")>> ELSE << >>
    /\ first.line.kind = "data" => type = first.line.event.type
    /\ first.line.kind = "blank" => first.part = "tail"

Framed ==
    /\ wire \in Seq(Travelling)
    /\ \A i \in 1..(Len(wire) - 1) : Follows(wire[i], wire[i + 1])
    /\ wire = << >> => buffer = << >>
    /\ wire # << >> => /\ wire[Len(wire)].line.kind = "blank"
                       /\ wire[Len(wire)].part = "tail"
                       /\ Remembers(wire[1], buffer, eventType)

\* None of the pieces is a card that failed.
Unfailed(pieces) == \A i \in DOMAIN pieces : pieces[i] # "failed"

OnlyNewestOpen ==
    /\ busy <=> (turn > 0 /\ Item.how = "streaming")
    /\ \A t \in 1..turn : t # turn => replies[t].how # "streaming"
    /\ waiting # "nothing" => busy /\ card = "partial"
    /\ busy /\ card # "retrying" => Unfailed(Item.pieces)

IInv == TypeOK /\ Framed /\ OnlyNewestOpen

(***************************************************************************)
(* Events and pieces                                                       *)
(***************************************************************************)

LEMMA EventShape ==
    ASSUME NEW e \in Events
    PROVE  /\ e = Event(e.type, e.tool, e.how)
           /\ e.tool \in Tools \cup {None}
           /\ e.type = "text_delta" => e.how \in {"word", "blank"}
           /\ e.type \in {"tool_call", "tool_result", "progress"} => e.tool \in Tools
           /\ e.type = "tool_result" => e.how \in {"ok", "error", "blocked"}
           /\ e.type # ""
<1> DEFINE Shaped(x) ==
        /\ x = Event(x.type, x.tool, x.how)
        /\ x.tool \in Tools \cup {None}
        /\ x.type = "text_delta" => x.how \in {"word", "blank"}
        /\ x.type \in {"tool_call", "tool_result", "progress"} => x.tool \in Tools
        /\ x.type = "tool_result" => x.how \in {"ok", "error", "blocked"}
        /\ x.type # ""
<1>1. \A how \in {"word", "blank"} : Shaped(Event("text_delta", None, how))
    BY DEF Event
<1>2. \A t \in Tools : Shaped(Event("tool_call", t, ""))
    BY DEF Event
<1>3. \A t \in Tools, how \in {"ok", "error", "blocked"} : Shaped(Event("tool_result", t, how))
    BY DEF Event
<1>4. \A t \in Tools : Shaped(Event("progress", t, ""))
    BY DEF Event
<1>5. \A type \in {"ui_partial", "ui", "suggestions", "error", "turn_complete", "garbled"} :
          Shaped(Plain(type))
    BY DEF Event, Plain
<1> HIDE DEF Shaped
<1>6. \/ \E how \in {"word", "blank"} : e = Event("text_delta", None, how)
      \/ \E t \in Tools : e = Event("tool_call", t, "")
      \/ \E t \in Tools, how \in {"ok", "error", "blocked"} : e = Event("tool_result", t, how)
      \/ \E t \in Tools : e = Event("progress", t, "")
      \/ \E type \in {"ui_partial", "ui", "suggestions", "error", "turn_complete", "garbled"} :
            e = Plain(type)
    BY DEF Events
<1>7. Shaped(e)
    BY <1>1, <1>2, <1>3, <1>4, <1>5, <1>6
<1>8. QED
    BY <1>7 DEF Shaped

LEMMA FrameShape ==
    ASSUME NEW e \in Events
    PROVE  /\ Frame(e) \in Seq(Travelling)
           /\ Len(Frame(e)) = 5
           /\ \A i \in 1..4 : Follows(Frame(e)[i], Frame(e)[i + 1])
           /\ Frame(e)[1].line.kind = "event" /\ Frame(e)[1].part = "head"
           /\ Frame(e)[5].line.kind = "blank" /\ Frame(e)[5].part = "tail"
<1>1. \A k \in {"event", "data", "blank"}, p \in {"head", "tail"} : Piece(Line(k, e), p) \in Travelling
    BY DEF Piece, Line, Travelling
<1>2. Frame(e) \in Seq(Travelling) /\ Len(Frame(e)) = 5
    BY <1>1 DEF Frame
<1>3. \A i \in 1..4 : Follows(Frame(e)[i], Frame(e)[i + 1])
  <2>1. Follows(Frame(e)[1], Frame(e)[2])
      BY DEF Frame, Follows, Piece, Line
  <2>2. Follows(Frame(e)[2], Frame(e)[3])
      BY DEF Frame, Follows, Piece, Line
  <2>3. Follows(Frame(e)[3], Frame(e)[4])
      BY DEF Frame, Follows, Piece, Line
  <2>4. Follows(Frame(e)[4], Frame(e)[5])
      BY DEF Frame, Follows, Piece, Line
  <2>5. QED
      BY <2>1, <2>2, <2>3, <2>4
<1>4. Frame(e)[1].line.kind = "event" /\ Frame(e)[1].part = "head"
    BY DEF Frame, Piece, Line
<1>5. Frame(e)[5].line.kind = "blank" /\ Frame(e)[5].part = "tail"
    BY DEF Frame, Piece, Line
<1>6. QED
    BY <1>2, <1>3, <1>4, <1>5

\* A data line that has come whole is the event that was written, and nothing else.
LEMMA DataLineIsItsEvent ==
    ASSUME IInv, wire # << >>, wire[1].part = "tail", wire[1].line.kind = "data"
    PROVE  [wire[1].line.event EXCEPT !.type = eventType] = wire[1].line.event
<1>1. wire[1] \in Travelling
    BY DEF IInv, Framed
<1>2. wire[1].line.event \in Events
    BY <1>1 DEF Travelling
<1>3. eventType = wire[1].line.event.type
    BY DEF IInv, Framed, Remembers
<1>4. QED
    BY <1>2, <1>3, EventShape DEF Event

\* What is on its way stays whole frames when the service writes and when a piece arrives.
LEMMA WriteFramed ==
    ASSUME IInv, NEW e \in Events, Write(e)
    PROVE  Framed'
<1> DEFINE n == Len(wire)
<1>1. wire \in Seq(Travelling) /\ n \in Nat
    BY DEF IInv, Framed
<1>2. wire' = wire \o Frame(e) /\ UNCHANGED <<buffer, eventType>>
    BY DEF Write
<1> HIDE DEF n
<1>f. Frame(e) \in Seq(Travelling) /\ Len(Frame(e)) = 5
    BY FrameShape
<1>c. /\ wire \o Frame(e) \in Seq(Travelling)
      /\ Len(wire \o Frame(e)) = n + 5
      /\ \A i \in 1..(n + 5) : (wire \o Frame(e))[i] = IF i <= n THEN wire[i] ELSE Frame(e)[i - n]
  <2> DEFINE f == Frame(e)
  <2>1. f \in Seq(Travelling) /\ Len(f) = 5
      BY <1>f
  <2> HIDE DEF f
  <2>2. /\ wire \o f \in Seq(Travelling)
        /\ Len(wire \o f) = Len(wire) + Len(f)
        /\ \A i \in 1..(Len(wire) + Len(f)) : (wire \o f)[i] = IF i <= Len(wire) THEN wire[i] ELSE f[i - Len(wire)]
      BY <1>1, <2>1, ConcatProperties
  <2>3. QED
      BY <2>1, <2>2 DEF f, n
<1>3. wire' \in Seq(Travelling) /\ Len(wire') = n + 5
    BY <1>1, <1>2, <1>f, <1>c DEF n
<1>4. \A i \in 1..(n + 5) : wire'[i] = IF i <= n THEN wire[i] ELSE Frame(e)[i - n]
    BY <1>1, <1>2, <1>f, <1>c DEF n
<1>5. ASSUME NEW i \in 1..(n + 4) PROVE Follows(wire'[i], wire'[i + 1])
  <2>1. CASE i < n
    <3>1. i \in 1..(Len(wire) - 1) /\ wire'[i] = wire[i] /\ wire'[i + 1] = wire[i + 1]
        BY <1>1, <1>4, <2>1 DEF n
    <3>2. QED
        BY <3>1 DEF IInv, Framed
  <2>2. CASE i = n
    <3>1. wire'[i] = wire[n] /\ wire'[i + 1] = Frame(e)[1]
        BY <1>1, <1>4, <2>2
    <3>2. wire[n].line.kind = "blank" /\ wire[n].part = "tail"
        BY <1>1, <2>2 DEF IInv, Framed, n
    <3>3. QED
        BY <3>1, <3>2, FrameShape DEF Follows
  <2>3. CASE i > n
    <3>1. i - n \in 1..4 /\ wire'[i] = Frame(e)[i - n] /\ wire'[i + 1] = Frame(e)[(i - n) + 1]
        BY <1>1, <1>4, <2>3
    <3>2. QED
        BY <3>1, FrameShape
  <2>4. QED
      BY <1>1, <2>1, <2>2, <2>3
<1>6. wire' # << >> /\ wire'[Len(wire')] = Frame(e)[5]
    BY <1>1, <1>3, <1>4
<1>7. Remembers(wire'[1], buffer', eventType')
  <2>1. CASE wire = << >>
    <3>1. wire'[1] = Frame(e)[1] /\ buffer = << >>
        BY <1>1, <1>4, <2>1 DEF IInv, Framed, n
    <3>2. QED
        BY <3>1, <1>2, FrameShape DEF Remembers
  <2>2. CASE wire # << >>
      BY <1>1, <1>2, <1>4, <2>2 DEF IInv, Framed, n
  <2>3. QED
      BY <2>1, <2>2
<1>8. QED
  <2>1. \A i \in 1..(Len(wire') - 1) : Follows(wire'[i], wire'[i + 1])
      BY <1>1, <1>3, <1>5
  <2>2. wire'[Len(wire')].line.kind = "blank" /\ wire'[Len(wire')].part = "tail"
      BY <1>6, FrameShape
  <2>3. QED
      BY <1>3, <1>6, <1>7, <2>1, <2>2 DEF Framed

\* The text the page has once a line's end arrives is the whole line.
LEMMA TextIsWhole ==
    ASSUME IInv, wire # << >>, wire[1].part = "tail"
    PROVE  LET text == Append(buffer, Head(wire))
           IN  /\ text[Len(text)] = wire[1]
               /\ Whole(text)
<1> DEFINE text == Append(buffer, Head(wire))
<1>1. Head(wire) = wire[1]
    BY DEF IInv, Framed
<1>2. CASE wire[1].line.kind = "blank"
  <2>1. buffer = << >>
      BY <1>2 DEF IInv, Framed, Remembers
  <2>2. text = <<wire[1]>>
      BY <1>1, <2>1
  <2>3. QED
      BY <1>2, <2>2 DEF Whole
<1>3. CASE wire[1].line.kind # "blank"
  <2>1. buffer = <<Piece(wire[1].line, "head")>>
      BY <1>3 DEF IInv, Framed, Remembers
  <2>2. wire[1] \in Travelling
      BY EmptySeq DEF IInv, Framed
  <2>3. buffer \in Seq(Travelling) /\ Len(buffer) = 1 /\ buffer[1].part = "head"
      BY <2>1, <2>2 DEF Travelling, Piece
  <2>x. text = Append(buffer, wire[1])
      BY <1>1
  <2> HIDE DEF text
  <2>4. Len(text) = 2 /\ text[1].part = "head" /\ text[2] = wire[1]
    <3>1. \A q \in Travelling : /\ Len(Append(buffer, q)) = Len(buffer) + 1
                                /\ \A i \in 1..Len(buffer) : Append(buffer, q)[i] = buffer[i]
                                /\ Append(buffer, q)[Len(buffer) + 1] = q
      <4>1. buffer \in Seq(Travelling)
          BY <2>3
      <4>2. QED
          BY <4>1, AppendProperties
    <3>2. QED
        BY <2>2, <2>3, <2>x, <3>1
  <2>5. QED
      BY <2>4 DEF Whole, text
<1>4. QED
    BY <1>2, <1>3

\* What readEventStream does with a piece, in terms of that piece alone.
LEMMA DeliverStep ==
    ASSUME IInv, Deliver
    PROVE  /\ wire # << >>
           /\ wire[1] \in Travelling
           /\ wire' = Tail(wire)
           /\ buffer' = IF wire[1].part = "head" THEN <<wire[1]>> ELSE << >>
           /\ eventType' = IF wire[1].part = "tail" /\ wire[1].line.kind = "event"
                             THEN wire[1].line.event.type
                           ELSE IF wire[1].line.kind = "blank" THEN "" ELSE eventType
           /\ \/ UNCHANGED replyVars
              \/ \E e \in Events : HandleEvent(e)
<1> DEFINE text == Append(buffer, Head(wire))
<1>1. wire # << >> /\ wire' = Tail(wire) /\ wire[1] \in Travelling /\ Head(wire) = wire[1]
    BY DEF Deliver, IInv, Framed
<1>2. wire[1].part \in {"head", "tail"} /\ wire[1].line.kind \in {"event", "data", "blank"}
    BY <1>1 DEF Travelling
<1>3. Remembers(wire[1], buffer, eventType)
    BY <1>1 DEF IInv, Framed
<1>4. CASE wire[1].part = "head"
  <2>1. wire[1].line.kind # "blank" /\ buffer = << >>
      BY <1>3, <1>4 DEF Remembers
  <2>2. buffer' = Append(buffer, Head(wire)) /\ UNCHANGED <<eventType, replyVars>>
      BY <1>1, <1>4 DEF Deliver
  <2>3. QED
      BY <1>1, <1>4, <2>1, <2>2
<1>5. CASE wire[1].part = "tail"
  <2>1. buffer' = << >> /\ ReadLine(text)
      BY <1>1, <1>5 DEF Deliver
  <2>2. text[Len(text)] = wire[1] /\ Whole(text)
      BY <1>1, <1>5, TextIsWhole
  <2> HIDE DEF text
  <2>3. CASE wire[1].line.kind = "blank"
      BY <1>1, <1>5, <2>1, <2>2, <2>3 DEF ReadLine
  <2>4. CASE wire[1].line.kind = "event"
      BY <1>1, <1>5, <2>1, <2>2, <2>4 DEF ReadLine
  <2>5. CASE wire[1].line.kind = "data"
    <3>1. [wire[1].line.event EXCEPT !.type = eventType] = wire[1].line.event
        BY <1>1, <1>5, <2>5, DataLineIsItsEvent
    <3>2. wire[1].line.event \in Events
        BY <1>1 DEF Travelling
    <3>3. UNCHANGED eventType /\ (UNCHANGED replyVars \/ HandleEvent(wire[1].line.event))
        BY <2>1, <2>2, <2>5, <3>1 DEF ReadLine
    <3>4. QED
        BY <1>1, <1>5, <2>1, <2>5, <3>2, <3>3
  <2>6. QED
      BY <1>2, <2>3, <2>4, <2>5
<1>6. QED
    BY <1>2, <1>4, <1>5

LEMMA DeliverFramed ==
    ASSUME IInv, Deliver
    PROVE  Framed'
<1> DEFINE n == Len(wire)
<1>1. wire \in Seq(Travelling) /\ wire # << >> /\ n \in Nat \ {0}
    BY DeliverStep, EmptySeq DEF IInv, Framed
<1>2. /\ wire' \in Seq(Travelling)
      /\ Len(wire') = n - 1
      /\ \A i \in 1..(n - 1) : wire'[i] = wire[i + 1]
    BY <1>1, DeliverStep, HeadTailProperties
<1>3. \A i \in 1..(n - 2) : Follows(wire'[i], wire'[i + 1])
  <2>1. \A i \in 1..(n - 2) : wire'[i] = wire[i + 1] /\ wire'[i + 1] = wire[(i + 1) + 1]
      BY <1>1, <1>2
  <2>2. \A i \in 1..(n - 2) : Follows(wire[i + 1], wire[(i + 1) + 1])
      BY <1>1 DEF IInv, Framed
  <2>3. QED
      BY <2>1, <2>2
<1>4. Remembers(wire[1], buffer, eventType)
    BY <1>1 DEF IInv, Framed
<1>5. wire[1].part \in {"head", "tail"} /\ wire[1].line.kind \in {"event", "data", "blank"}
    BY DeliverStep DEF Travelling
<1>6. CASE n = 1
  <2>1. wire' = << >> /\ wire[1].part = "tail" /\ wire[1].line.kind = "blank"
      BY <1>1, <1>2, <1>6, EmptySeq DEF IInv, Framed
  <2>2. QED
    <3>1. buffer' = << >>
        BY <2>1, DeliverStep
    <3>2. \A i \in 1..(Len(wire') - 1) : Follows(wire'[i], wire'[i + 1])
        BY <1>2, <1>6
    <3>3. QED
        BY <1>2, <2>1, <3>1, <3>2 DEF Framed
<1>7. CASE n > 1
  <2>1. wire' # << >> /\ wire'[1] = wire[2] /\ wire'[Len(wire')] = wire[n]
      BY <1>1, <1>2, <1>7
  <2>2. Follows(wire[1], wire[2])
      BY <1>1, <1>7 DEF IInv, Framed
  <2>3. wire[2] \in Travelling
      BY <1>1, <1>7
  <2>4. Remembers(wire[2], buffer', eventType')
    <3>1. CASE wire[1].part = "head"
      <4>1. wire[1].line.kind # "blank" /\ wire[2].line = wire[1].line /\ wire[2].part = "tail"
          BY <1>4, <2>2, <3>1 DEF Remembers, Follows
      <4>2. buffer' = <<Piece(wire[2].line, "head")>> /\ eventType' = eventType
        <5>1. wire[1] = [line |-> wire[1].line, part |-> wire[1].part]
            BY DeliverStep DEF Travelling
        <5>2. QED
            BY <3>1, <4>1, <5>1, DeliverStep DEF Piece
      <4>3. QED
          BY <1>4, <4>1, <4>2 DEF Remembers
    <3>2. CASE wire[1].part = "tail" /\ wire[1].line.kind = "event"
        BY <2>2, <3>2, DeliverStep DEF Remembers, Follows, Line
    <3>3. CASE wire[1].part = "tail" /\ wire[1].line.kind = "data"
        BY <2>2, <3>3, DeliverStep DEF Remembers, Follows, Line
    <3>4. CASE wire[1].part = "tail" /\ wire[1].line.kind = "blank"
        BY <2>2, <3>4, DeliverStep DEF Remembers, Follows, Line
    <3>5. QED
        BY <1>5, <3>1, <3>2, <3>3, <3>4
  <2>5. wire[n].line.kind = "blank" /\ wire[n].part = "tail"
      BY <1>1 DEF IInv, Framed
  <2>6. QED
      BY <1>2, <1>3, <2>1, <2>4, <2>5 DEF Framed
<1> HIDE DEF n
<1>8. n = 1 \/ n > 1
    BY <1>1
<1>9. QED
    BY <1>6, <1>7, <1>8

(***************************************************************************)
(* Induction on the numbers                                                *)
(***************************************************************************)

Below == {p \in Nat \X Nat : p[1] < p[2]}

LEMMA BelowWellFounded == IsWellFoundedOn(Below, Nat)
<1>1. IsWellFoundedOn(OpToRel(<, Nat), Nat)
    BY NatLessThanWellFounded
<1>2. OpToRel(<, Nat) = Below
    BY DEF OpToRel, Below
<1>3. QED
    BY <1>1, <1>2

LEMMA Least ==
    ASSUME NEW T, T \subseteq Nat, T # {}
    PROVE  \E x \in T : \A y \in T : x <= y
<1>1. PICK x \in T : \A y \in T : ~(<<y, x>> \in Below)
    BY BelowWellFounded, WFMin
<1>2. x \in Nat /\ \A y \in T : y \in Nat
    OBVIOUS
<1>3. \A y \in T : ~(y < x)
    BY <1>1, <1>2 DEF Below
<1>4. \A y \in T : x <= y
    BY <1>2, <1>3
<1>5. QED
    BY <1>4

LEMMA SetInduction ==
    ASSUME NEW S, 0 \in S, \A n \in Nat : n \in S => n + 1 \in S
    PROVE  Nat \subseteq S
<1> DEFINE T == Nat \ S
<1>1. SUFFICES ASSUME T # {} PROVE FALSE
    OBVIOUS
<1>2. PICK x \in T : \A y \in T : x <= y
    BY <1>1, Least
<1>3. x # 0
    OBVIOUS
<1>4. x - 1 \in Nat /\ x - 1 \notin T
    BY <1>2, <1>3
<1>5. QED
    BY <1>4

(***************************************************************************)
(* The replies and their image in ReplyLog                                 *)
(***************************************************************************)

Kept == Pieces \ {"failed"}

\* What a reply may say in one step.
More == {<< >>} \cup {<<p>> : p \in Kept} \cup UNION {{<<p, q>> : p \in Kept} : q \in Kept}

Image(r) == [said |-> r.pieces, standing |-> StandingOf(r)]
Logged == [t \in DOMAIN replies |-> Image(replies[t])]

\* What a handler may make of the newest reply: it adds to it, takes its failed cards up
\* again, or has its cards fail.
Grows(item) ==
    /\ card = "retrying" => card' = "retrying"
    /\ \E more \in More : item.pieces = Item.pieces \o more
Recovers(item) == item.pieces = Marked(Item.pieces, "failed", "card")
Falters(item) ==
    /\ card' = "retrying"
    /\ item.pieces = Marked(Item.pieces, "card", "failed")
Extends(item) ==
    /\ item.how = Item.how
    /\ Grows(item) \/ Recovers(item) \/ Falters(item)

\* A handler leaves the replies alone or changes the newest one.
Extended ==
    \/ replies' = replies /\ (card = "retrying" => card' = "retrying")
    \/ \E item \in Reply : Update(item) /\ Extends(item)

LEMMA MoreIsKept ==
    /\ \A more \in More : more \in Seq(Kept) /\ more \in Seq(Pieces)
    /\ << >> \in More
    /\ \A p \in Kept : <<p>> \in More
    /\ \A first, second \in Kept : <<first, second>> \in More
<1>1. \A p \in Kept : p \in Pieces
    BY DEF Kept
<1>2. \A more \in More : \/ more = << >>
                         \/ \E p \in Kept : more = <<p>>
                         \/ \E p, q \in Kept : more = <<p, q>>
    BY DEF More
<1>3. \A p \in Kept : <<p>> \in Seq(Kept) /\ <<p>> \in Seq(Pieces)
    BY <1>1
<1>4. \A p, q \in Kept : <<p, q>> \in Seq(Kept) /\ <<p, q>> \in Seq(Pieces)
    BY <1>1
<1>5. << >> \in Seq(Kept) /\ << >> \in Seq(Pieces)
    OBVIOUS
<1>6. \A more \in More : more \in Seq(Kept) /\ more \in Seq(Pieces)
    BY <1>2, <1>3, <1>4, <1>5
<1>7. << >> \in More /\ (\A p \in Kept : <<p>> \in More) /\ (\A p, q \in Kept : <<p, q>> \in More)
    BY DEF More
<1>8. QED
    BY <1>6, <1>7

LEMMA MarkedPieces ==
    ASSUME NEW s \in Seq(Pieces), NEW from \in Pieces, NEW to \in Pieces
    PROVE  /\ Marked(s, from, to) \in Seq(Pieces)
           /\ Len(Marked(s, from, to)) = Len(s)
           /\ DOMAIN Marked(s, from, to) = DOMAIN s
           /\ \A i \in DOMAIN s : Marked(s, from, to)[i] = IF s[i] = from THEN to ELSE s[i]
<1>1. DOMAIN s = 1..Len(s) /\ Len(s) \in Nat
    OBVIOUS
<1>2. Marked(s, from, to) = [i \in 1..Len(s) |-> IF s[i] = from THEN to ELSE s[i]]
    BY <1>1 DEF Marked
<1>3. \A i \in 1..Len(s) : (IF s[i] = from THEN to ELSE s[i]) \in Pieces
    OBVIOUS
<1>4. QED
    BY <1>1, <1>2, <1>3

LEMMA UnfailedStays ==
    ASSUME NEW s \in Seq(Pieces), Unfailed(s)
    PROVE  Marked(s, "failed", "card") = s
<1>1. s = [i \in DOMAIN s |-> s[i]]
    OBVIOUS
<1>2. QED
    BY <1>1 DEF Unfailed, Marked

LEMMA UnfailedOnceMarked ==
    ASSUME NEW s \in Seq(Pieces)
    PROVE  Unfailed(Marked(s, "failed", "card"))
BY DEF Unfailed, Marked

\* Pieces that are added are no failed card.
LEMMA UnfailedGrows ==
    ASSUME NEW s \in Seq(Pieces), NEW more \in More, Unfailed(s)
    PROVE  Unfailed(s \o more)
<1>1. more \in Seq(Kept) /\ more \in Seq(Pieces)
    BY MoreIsKept
<1>2. /\ s \o more \in Seq(Pieces)
      /\ Len(s \o more) = Len(s) + Len(more)
      /\ \A i \in 1..(Len(s) + Len(more)) :
           (s \o more)[i] = IF i <= Len(s) THEN s[i] ELSE more[i - Len(s)]
    BY <1>1, ConcatProperties
<1>3. \A i \in 1..Len(s) : s[i] # "failed"
    BY DEF Unfailed
<1>4. \A i \in 1..Len(more) : more[i] # "failed"
    BY <1>1 DEF Kept
<1>5. Len(s) \in Nat /\ Len(more) \in Nat
    BY <1>1
<1> DEFINE all == s \o more
<1>6. DOMAIN all = 1..(Len(s) + Len(more))
    BY <1>2
<1> HIDE DEF all
<1>7. ASSUME NEW i \in 1..(Len(s) + Len(more)) PROVE all[i] # "failed"
  <2>1. CASE i <= Len(s)
    <3>1. i \in 1..Len(s)
        BY <1>5, <2>1
    <3>2. QED
        BY <1>2, <1>3, <2>1, <3>1 DEF all
  <2>2. CASE ~(i <= Len(s))
    <3>1. i - Len(s) \in 1..Len(more)
        BY <1>5, <2>2
    <3>2. QED
        BY <1>2, <1>4, <2>2, <3>1 DEF all
  <2>3. QED
      BY <2>1, <2>2
<1>8. Unfailed(all)
    BY <1>6, <1>7 DEF Unfailed
<1>9. QED
    BY <1>8 DEF all

\* Left[k] is what stays of the first k pieces, for k up to n.
Sifts(f, pieces, n) ==
    f = [k \in 0..n |-> IF k = 0 THEN << >>
                        ELSE IF pieces[k] = "failed" THEN f[k - 1] ELSE Append(f[k - 1], pieces[k])]

LEMMA SiftsExist ==
    ASSUME NEW pieces
    PROVE  \A n \in Nat : \E f : Sifts(f, pieces, n)
<1> DEFINE S == {n \in Nat : \E f : Sifts(f, pieces, n)}
<1>1. 0 \in S
  <2>1. Sifts([k \in 0..0 |-> << >>], pieces, 0)
      BY DEF Sifts
  <2>2. QED
      BY <2>1
<1>2. ASSUME NEW n \in Nat, n \in S PROVE n + 1 \in S
  <2>1. PICK f : Sifts(f, pieces, n)
      BY <1>2
  <2> DEFINE last == IF pieces[n + 1] = "failed" THEN f[n] ELSE Append(f[n], pieces[n + 1])
             g == [k \in 0..(n + 1) |-> IF k = n + 1 THEN last ELSE f[k]]
  <2>2. g[n] = f[n] /\ \A k \in 0..n : g[k] = f[k]
      OBVIOUS
  <2>3. ASSUME NEW k \in 0..(n + 1)
        PROVE  g[k] = IF k = 0 THEN << >>
                      ELSE IF pieces[k] = "failed" THEN g[k - 1] ELSE Append(g[k - 1], pieces[k])
    <3>1. CASE k = n + 1
      <4>1. k # 0 /\ k - 1 = n /\ g[k] = last
          BY <3>1
      <4>2. g[k - 1] = f[n] /\ pieces[k] = pieces[n + 1]
          BY <2>2, <3>1, <4>1
      <4> HIDE DEF g
      <4>3. QED
          BY <4>1, <4>2
    <3>2. CASE k # n + 1
      <4>1. k \in 0..n /\ g[k] = f[k]
          BY <3>2
      <4>2. f[k] = IF k = 0 THEN << >>
                   ELSE IF pieces[k] = "failed" THEN f[k - 1] ELSE Append(f[k - 1], pieces[k])
          BY <2>1, <4>1 DEF Sifts
      <4>3. k # 0 => g[k - 1] = f[k - 1]
          BY <2>2, <4>1
      <4> HIDE DEF g, last
      <4>4. QED
          BY <4>1, <4>2, <4>3
    <3>3. QED
        BY <3>1, <3>2
  <2>4. Sifts(g, pieces, n + 1)
    <3>1. g = [k \in 0..(n + 1) |-> g[k]]
        OBVIOUS
    <3> HIDE DEF g
    <3>2. QED
        BY <2>3, <3>1 DEF Sifts
  <2>5. QED
      BY <2>4
<1> HIDE DEF S
<1>3. Nat \subseteq S
    BY <1>1, <1>2, SetInduction
<1>4. QED
    BY <1>3 DEF S

\* What stays of a reply is pieces that were there, and no failed card.
LEMMA LeftIsKept ==
    ASSUME NEW pieces \in Seq(Pieces)
    PROVE  Left(pieces) \in Seq(Kept)
<1> DEFINE n == Len(pieces)
           f == CHOOSE h : Sifts(h, pieces, n)
<1>1. n \in Nat
    OBVIOUS
<1>2. Sifts(f, pieces, n)
    BY <1>1, SiftsExist
<1>3. Left(pieces) = f[n]
    BY DEF Left, Sifts
<1> HIDE DEF n, f
<1> DEFINE S == {k \in Nat : k <= n => f[k] \in Seq(Kept)}
<1>4. 0 \in S
  <2>1. 0 \in 0..n
      BY <1>1
  <2>2. f[0] = << >>
      BY <1>2, <2>1 DEF Sifts
  <2>3. QED
      BY <2>2, EmptySeq
<1>5. ASSUME NEW k \in Nat, k \in S PROVE k + 1 \in S
  <2>1. SUFFICES ASSUME k + 1 <= n PROVE f[k + 1] \in Seq(Kept)
      OBVIOUS
  <2>2. f[k] \in Seq(Kept) /\ k + 1 \in 0..n /\ k + 1 # 0 /\ (k + 1) - 1 = k /\ k + 1 \in 1..n
      BY <1>1, <1>5, <2>1
  <2>3. f[k + 1] = IF pieces[k + 1] = "failed" THEN f[(k + 1) - 1]
                   ELSE Append(f[(k + 1) - 1], pieces[k + 1])
      BY <1>2, <2>2 DEF Sifts
  <2>4. pieces[k + 1] \in Pieces
      BY <2>2 DEF n
  <2>5. CASE pieces[k + 1] = "failed"
      BY <2>2, <2>3, <2>5
  <2>6. CASE pieces[k + 1] # "failed"
    <3>1. pieces[k + 1] \in Kept
        BY <2>4, <2>6 DEF Kept
    <3>2. Append(f[k], pieces[k + 1]) \in Seq(Kept)
        BY <2>2, <3>1, AppendProperties
    <3>3. QED
        BY <2>2, <2>3, <2>6, <3>2
  <2>7. QED
      BY <2>5, <2>6
<1> HIDE DEF S
<1>6. n \in S
    BY <1>1, <1>4, <1>5, SetInduction
<1>7. f[n] \in Seq(Kept)
    BY <1>1, <1>6 DEF S
<1>8. QED
    BY <1>3, <1>7

LEMMA KeptIsPieces ==
    ASSUME NEW s \in Seq(Kept)
    PROVE  s \in Seq(Pieces)
<1>1. Kept \subseteq Pieces
    BY DEF Kept
<1>2. QED
    BY <1>1

\* The log drops what the page drops.
LEMMA LogLeft ==
    ASSUME NEW said
    PROVE  Log!Left(said) = Left(said)
BY DEF Left, Log!Left

\* A change of the newest reply is a change of the newest entry of the log.
LEMMA UpdateLogged ==
    ASSUME IInv, turn > 0, NEW item \in Reply, Update(item)
    PROVE  /\ replies' \in Seq(Reply)
           /\ turn' = turn
           /\ \A t \in 1..turn : replies'[t] = IF t = turn THEN item ELSE replies[t]
           /\ Logged' = [Logged EXCEPT ![turn] = Image(item)]
<1>1. replies \in Seq(Reply)
    BY DEF IInv, TypeOK
<1>2. turn \in Nat /\ turn \in 1..Len(replies) /\ DOMAIN replies = 1..turn
    BY <1>1 DEF turn
<1>3. replies' = [replies EXCEPT ![turn] = item]
    BY DEF Update
<1>4. /\ replies' \in Seq(Reply)
      /\ Len(replies') = Len(replies)
      /\ \A t \in 1..Len(replies) : replies'[t] = IF t = turn THEN item ELSE replies[t]
    BY <1>1, <1>2, <1>3, ExceptSeq
<1>5. DOMAIN replies' = 1..turn
    BY <1>2, <1>3
<1>6. Logged = [t \in 1..turn |-> Image(replies[t])]
    BY <1>2 DEF Logged
<1>7. Logged' = [t \in 1..turn |-> Image(replies'[t])]
    BY <1>5 DEF Logged, Image, StandingOf
<1>8. \A t \in 1..turn : Image(replies'[t]) = IF t = turn THEN Image(item) ELSE Image(replies[t])
    BY <1>4 DEF turn
<1>9. Logged' = [Logged EXCEPT ![turn] = Image(item)]
    BY <1>6, <1>7, <1>8
<1>10. QED
    BY <1>4, <1>9 DEF turn

(***************************************************************************)
(* The handlers                                                            *)
(***************************************************************************)

\* What a handler leaves of the card and of the tools.
Remembered ==
    /\ afterTool \in BOOLEAN
    /\ progressTool \in Tools \cup {None}
    /\ card \in {"none", "partial", "retrying", "final"}
    /\ waiting \in {"nothing", "frames", "final"}
    /\ waiting # "nothing" => card = "partial"

LEMMA ItemOfTheTurn ==
    ASSUME IInv, turn > 0
    PROVE  /\ turn \in 1..Len(replies)
           /\ Item \in Reply
           /\ Item.pieces \in Seq(Pieces)
<1>1. replies \in Seq(Reply)
    BY DEF IInv, TypeOK
<1>2. turn \in 1..Len(replies)
    BY <1>1 DEF turn
<1>3. Item \in Reply
    BY <1>1, <1>2 DEF Item
<1>4. QED
    BY <1>2, <1>3 DEF Reply

LEMMA Joining ==
    ASSUME NEW s \in Seq(Pieces), NEW more \in More
    PROVE  s \o more \in Seq(Pieces)
BY MoreIsKept, ConcatProperties

LEMMA NothingMore ==
    ASSUME NEW item \in Reply, IInv, turn > 0, item.pieces = Item.pieces, item.how = Item.how,
           card' = card
    PROVE  Extends(item)
<1>1. Item.pieces = Item.pieces \o << >>
    BY ItemOfTheTurn, ConcatEmptySeq
<1>2. QED
    BY <1>1, MoreIsKept DEF Extends, Grows

\* A commit puts the card on the reply, or takes a failed one up again.
LEMMA CommittedExtends ==
    ASSUME IInv, turn > 0
    PROVE  Committed(Item) \in Reply /\ Extends(Committed(Item))
<1>1. Item \in Reply /\ Item.pieces \in Seq(Pieces)
    BY ItemOfTheTurn
<1>2. NoActivity \in Activity
    BY DEF NoActivity, Activity
<1>3. CASE card = "none"
  <2>1. "card" \in Kept /\ "card" \in Pieces
      BY DEF Kept, Pieces
  <2>2. Append(Item.pieces, "card") = Item.pieces \o <<"card">>
      BY <1>1, <2>1, AppendIsConcat
  <2>3. <<"card">> \in More
      BY <2>1, MoreIsKept
  <2>4. Item.pieces \o <<"card">> \in Seq(Pieces)
      BY <1>1, <2>3, Joining
  <2>5. Committed(Item) = [Item EXCEPT !.pieces = Item.pieces \o <<"card">>, !.activity = NoActivity]
      BY <1>1, <1>3, <2>2 DEF Committed, Reply
  <2>6. Committed(Item) \in Reply /\ Committed(Item).how = Item.how
        /\ Committed(Item).pieces = Item.pieces \o <<"card">>
      BY <1>1, <1>2, <2>4, <2>5 DEF Reply
  <2>7. QED
      BY <1>3, <2>3, <2>6 DEF Extends, Grows
<1>4. CASE card # "none"
  <2> DEFINE marked == Marked(Item.pieces, "failed", "card")
  <2>1. marked \in Seq(Pieces)
      BY <1>1, MarkedPieces DEF Pieces
  <2>2. Committed(Item) = [Item EXCEPT !.pieces = marked, !.activity = NoActivity]
      BY <1>1, <1>4 DEF Committed, Reply
  <2> HIDE DEF marked
  <2>3. Committed(Item) \in Reply /\ Committed(Item).how = Item.how
        /\ Committed(Item).pieces = marked
      BY <1>1, <1>2, <2>1, <2>2 DEF Reply
  <2>4. QED
      BY <2>3 DEF Extends, Recovers, marked
<1>5. QED
    BY <1>3, <1>4

LEMMA TextExtends ==
    ASSUME IInv, busy, NEW e \in Events, TextDelta(e)
    PROVE  Extended /\ Remembered'
<1>1. turn > 0 /\ Item \in Reply /\ Item.pieces \in Seq(Pieces)
    BY ItemOfTheTurn DEF IInv, OnlyNewestOpen
<1>2. e.how \in {"word", "blank"}
    BY EventShape DEF TextDelta
<1>3. PICK more \in More : Joined(Item.pieces, e.how) = Item.pieces \o more
  <2>1. "gap" \in Kept /\ e.how \in Kept
      BY <1>2 DEF Kept, Pieces
  <2>2. <<"gap", e.how>> \in More /\ <<e.how>> \in More
      BY <2>1, MoreIsKept
  <2>3. QED
      BY <2>2 DEF Joined
<1>4. NoActivity \in Activity
    BY DEF NoActivity, Activity
<1>5. Item.pieces \o more \in Seq(Pieces)
    BY <1>1, Joining
<1> DEFINE item == [Item EXCEPT !.pieces = Item.pieces \o more, !.activity = NoActivity]
<1>6. Update(item)
    BY <1>1, <1>3 DEF TextDelta, Reply
<1>7. item \in Reply /\ item.how = Item.how /\ item.pieces = Item.pieces \o more
    BY <1>1, <1>4, <1>5 DEF Reply
<1>8. Extended
  <2>1. card' = card
      BY DEF TextDelta
  <2>2. QED
      BY <1>6, <1>7, <2>1 DEF Extended, Extends, Grows
<1>9. Remembered'
    BY DEF TextDelta, Remembered, IInv, TypeOK, OnlyNewestOpen
<1>10. QED
    BY <1>8, <1>9

LEMMA CardExtends ==
    ASSUME IInv, busy, NEW e \in Events, UiPartial(e) \/ UiFinal(e)
    PROVE  Extended /\ Remembered'
<1>1. turn > 0
    BY DEF IInv, OnlyNewestOpen
<1>2. (replies' = replies /\ card' = card) \/ Update(Committed(Item))
    BY DEF UiPartial, UiFinal
<1>3. Extended
    BY <1>1, <1>2, CommittedExtends DEF Extended
<1>4. Remembered'
  <2>1. CASE UiPartial(e)
      BY <2>1 DEF UiPartial, Remembered, IInv, TypeOK, OnlyNewestOpen
  <2>2. CASE UiFinal(e)
      BY <2>2 DEF UiFinal, Remembered, IInv, TypeOK, OnlyNewestOpen
  <2>3. QED
      BY <2>1, <2>2
<1>5. QED
    BY <1>3, <1>4

\* The handlers that change the line of activity or the chips, and of what the reply said at
\* most a card that fails.
LEMMA LineExtends ==
    ASSUME IInv, busy, NEW e \in Events,
           \/ UiChips(e)
           \/ ToolCall(e)
           \/ ToolResult(e)
           \/ Progress(e)
           \/ TurnComplete(e)
    PROVE  Extended /\ Remembered'
<1>1. turn > 0 /\ Item \in Reply
    BY ItemOfTheTurn DEF IInv, OnlyNewestOpen
<1>2. NoActivity \in Activity
    BY DEF NoActivity, Activity
<1>3. e.type \in {"tool_call", "tool_result", "progress"} => e.tool \in Tools
    BY EventShape
<1>4. card' = card =>
        \A a \in Activity : /\ [Item EXCEPT !.activity = a] \in Reply
                             /\ Extends([Item EXCEPT !.activity = a])
  <2>1. ASSUME NEW a \in Activity
        PROVE  /\ [Item EXCEPT !.activity = a] \in Reply
               /\ [Item EXCEPT !.activity = a].pieces = Item.pieces
               /\ [Item EXCEPT !.activity = a].how = Item.how
      BY <1>1 DEF Reply
  <2>2. QED
      BY <1>1, <2>1, NothingMore
<1>5. CASE UiChips(e)
  <2> DEFINE item == [Item EXCEPT !.chips = TRUE, !.activity = NoActivity]
  <2>1. item \in Reply /\ item.pieces = Item.pieces /\ item.how = Item.how
      BY <1>1, <1>2 DEF Reply
  <2>2. card' = card /\ Update(item)
      BY <1>5 DEF UiChips
  <2> HIDE DEF item
  <2>x. Extended
      BY <1>1, <2>1, <2>2, NothingMore DEF Extended
  <2>3. Remembered'
      BY <1>5 DEF UiChips, Remembered, IInv, TypeOK, OnlyNewestOpen
  <2>4. QED
      BY <2>x, <2>3
<1>6. CASE ToolCall(e)
  <2>1. [by |-> "call", tool |-> e.tool] \in Activity
      BY <1>3, <1>6 DEF ToolCall, Activity
  <2>2. Extended
      BY <1>4, <1>6, <2>1 DEF Extended, ToolCall
  <2>3. Remembered'
      BY <1>6 DEF ToolCall, Remembered, IInv, TypeOK, OnlyNewestOpen
  <2>4. QED
      BY <2>2, <2>3
<1>7. CASE ToolResult(e)
  <2> DEFINE ended == IF progressTool = e.tool THEN [Item EXCEPT !.activity = NoActivity] ELSE Item
  <2>0. ended \in Reply /\ ended.pieces = Item.pieces /\ ended.how = Item.how
      BY <1>1, <1>2 DEF Reply
  <2>1. Extended
    <3>1. \/ /\ Update([ended EXCEPT !.pieces = Marked(@, "card", "failed")])
             /\ card' = "retrying"
          \/ Update(ended) /\ card' = card
        BY <1>7 DEF ToolResult
    <3> HIDE DEF ended
    <3>2. CASE Update(ended) /\ card' = card
        BY <1>1, <2>0, <3>2, NothingMore DEF Extended
    <3>3. CASE /\ Update([ended EXCEPT !.pieces = Marked(@, "card", "failed")])
               /\ card' = "retrying"
      <4> DEFINE marked == Marked(Item.pieces, "card", "failed")
                 item == [ended EXCEPT !.pieces = marked]
      <4>1. marked \in Seq(Pieces)
          BY <1>1, ItemOfTheTurn, MarkedPieces DEF Pieces
      <4>2. Update(item)
          BY <2>0, <3>3 DEF Reply
      <4> HIDE DEF marked
      <4>3. item \in Reply /\ item.pieces = marked /\ item.how = Item.how
          BY <2>0, <4>1 DEF Reply
      <4> HIDE DEF item
      <4>4. Falters(item)
          BY <3>3, <4>3 DEF Falters, marked
      <4>5. QED
          BY <4>2, <4>3, <4>4 DEF Extended, Extends
    <3>4. QED
        BY <3>1, <3>2, <3>3
  <2>2. Remembered'
      BY <1>7 DEF ToolResult, Remembered, IInv, TypeOK, OnlyNewestOpen
  <2>3. QED
      BY <2>1, <2>2
<1>8. CASE Progress(e)
  <2>1. [by |-> "progress", tool |-> e.tool] \in Activity /\ e.tool \in Tools
      BY <1>3, <1>8 DEF Progress, Activity
  <2>2. Extended
      BY <1>4, <1>8, <2>1 DEF Extended, Progress
  <2>3. Remembered'
      BY <1>8, <2>1 DEF Progress, Remembered, IInv, TypeOK, OnlyNewestOpen
  <2>4. QED
      BY <2>2, <2>3
<1>9. CASE TurnComplete(e)
    BY <1>9 DEF TurnComplete, Extended, Remembered, IInv, TypeOK, OnlyNewestOpen
<1>10. QED
    BY <1>5, <1>6, <1>7, <1>8, <1>9

LEMMA ErrorExtends ==
    ASSUME IInv, busy, NEW e \in Events, ErrorEvent(e)
    PROVE  Extended /\ Remembered'
<1>1. turn > 0 /\ Item \in Reply /\ Item.pieces \in Seq(Pieces)
    BY ItemOfTheTurn DEF IInv, OnlyNewestOpen
<1>2. "error" \in Kept /\ "error" \in Pieces
    BY DEF Kept, Pieces
<1>3. Append(Item.pieces, "error") = Item.pieces \o <<"error">>
    BY <1>1, <1>2, AppendIsConcat
<1>4. <<"error">> \in More
    BY <1>2, MoreIsKept
<1>5. Item.pieces \o <<"error">> \in Seq(Pieces)
    BY <1>1, <1>4, Joining
<1> DEFINE item == [Item EXCEPT !.pieces = Item.pieces \o <<"error">>]
<1>6. Update(item)
    BY <1>1, <1>3 DEF ErrorEvent, Reply
<1>7. item \in Reply /\ item.how = Item.how /\ item.pieces = Item.pieces \o <<"error">>
    BY <1>1, <1>5 DEF Reply
<1>8. Extended
  <2>1. card' = card
      BY DEF ErrorEvent
  <2>2. QED
      BY <1>4, <1>6, <1>7, <2>1 DEF Extended, Extends, Grows
<1>9. Remembered'
    BY DEF ErrorEvent, Remembered, IInv, TypeOK, OnlyNewestOpen
<1>10. QED
    BY <1>8, <1>9

LEMMA HandlerExtends ==
    ASSUME IInv, busy, NEW e \in Events, HandleEvent(e)
    PROVE  Extended /\ Remembered' /\ handled' \in Seq(Events)
<1>1. Extended /\ Remembered'
    BY TextExtends, CardExtends, LineExtends, ErrorExtends DEF HandleEvent
<1>2. handled \in Seq(Events) /\ handled' = Append(handled, e)
    BY DEF HandleEvent, IInv, TypeOK
<1>3. QED
    BY <1>1, <1>2, AppendProperties

(***************************************************************************)
(* The steps of the log                                                    *)
(***************************************************************************)

LEMMA LoggedShape ==
    ASSUME IInv
    PROVE  /\ Len(Logged) = turn
           /\ turn \in Nat
           /\ DOMAIN Logged = 1..turn
           /\ \A t \in 1..turn : Logged[t] = Image(replies[t])
           /\ Logged \in Seq([said : Seq(Pieces), standing : {"open", "done", "broken"}])
<1>1. replies \in Seq(Reply) /\ turn \in Nat /\ DOMAIN replies = 1..turn
    BY DEF IInv, TypeOK, turn
<1>2. Logged = [t \in 1..turn |-> Image(replies[t])]
    BY <1>1 DEF Logged
<1>3. ASSUME NEW t \in 1..turn
      PROVE  Image(replies[t]) \in [said : Seq(Pieces), standing : {"open", "done", "broken"}]
  <2>1. replies[t] \in Reply
      BY <1>1 DEF turn
  <2>2. replies[t].pieces \in Seq(Pieces)
      BY <2>1 DEF Reply
  <2>3. StandingOf(replies[t]) \in {"open", "done", "broken"}
      BY DEF StandingOf
  <2>4. QED
      BY <2>2, <2>3 DEF Image
<1>4. QED
    BY <1>1, <1>2, <1>3

\* The newest entry of the log while a reply streams, and what a change of it is.
LEMMA LogChanges ==
    ASSUME IInv, busy, NEW item \in Reply, Update(item), item.how = Item.how
    PROVE  /\ Logged # << >> /\ Len(Logged) = turn
           /\ Logged[turn] = [said |-> Item.pieces, standing |-> "open"]
           /\ Logged' = [Logged EXCEPT ![turn] = [said |-> item.pieces, standing |-> "open"]]
           /\ Logged' = [Logged EXCEPT ![turn].said = item.pieces]
<1>1. turn > 0 /\ turn \in 1..turn /\ turn \in Nat
    BY ItemOfTheTurn, LoggedShape DEF IInv, OnlyNewestOpen
<1>2. Item.how = "streaming" /\ item.how = "streaming"
    BY DEF IInv, OnlyNewestOpen
<1>3. Logged' = [Logged EXCEPT ![turn] = Image(item)]
    BY <1>1, UpdateLogged
<1>4. Image(item) = [said |-> item.pieces, standing |-> "open"]
    BY <1>2 DEF Image, StandingOf
<1>5. Logged[turn] = [said |-> Item.pieces, standing |-> "open"]
    BY <1>1, <1>2, LoggedShape DEF Image, StandingOf, Item
<1>6. Logged # << >> /\ Len(Logged) = turn
    BY <1>1, LoggedShape
<1>7. \A c, d : [[said |-> c, standing |-> "open"] EXCEPT !.said = d]
                  = [said |-> d, standing |-> "open"]
    OBVIOUS
<1>8. Logged' = [Logged EXCEPT ![turn] = [said |-> item.pieces, standing |-> "open"]]
    BY <1>3, <1>4
<1>9. [Logged[turn] EXCEPT !.said = item.pieces] = [said |-> item.pieces, standing |-> "open"]
    BY <1>5, <1>7
<1>10. Logged' = [Logged EXCEPT ![turn].said = item.pieces]
    BY <1>8, <1>9
<1>11. QED
    BY <1>5, <1>6, <1>8, <1>10

LEMMA LogSays ==
    ASSUME IInv, busy, NEW item \in Reply, Update(item), item.how = Item.how, Grows(item)
    PROVE  Logged' = Logged \/ Log!Say
<1>1. turn > 0 /\ Item.pieces \in Seq(Pieces)
    BY ItemOfTheTurn DEF IInv, OnlyNewestOpen
<1>2. PICK more \in More : item.pieces = Item.pieces \o more
    BY DEF Grows
<1>3. /\ Logged # << >> /\ Len(Logged) = turn
      /\ Logged[turn] = [said |-> Item.pieces, standing |-> "open"]
      /\ Logged' = [Logged EXCEPT ![turn] = [said |-> item.pieces, standing |-> "open"]]
      /\ Logged' = [Logged EXCEPT ![turn].said = item.pieces]
    BY LogChanges
<1>4. CASE more = << >>
  <2>1. item.pieces = Item.pieces
      BY <1>1, <1>2, <1>4, ConcatEmptySeq
  <2>2. QED
      BY <1>1, <1>3, <2>1, LoggedShape
<1>5. CASE more # << >>
  <2>1. \E n \in 1..2 : more \in [1..n -> Kept]
    <3>1. \A p \in Kept : <<p>> \in [1..1 -> Kept]
        OBVIOUS
    <3>2. \A p, q \in Kept : <<p, q>> \in [1..2 -> Kept]
        OBVIOUS
    <3>3. (\E p \in Kept : more = <<p>>) \/ (\E p, q \in Kept : more = <<p, q>>)
        BY <1>2, <1>5 DEF More
    <3>4. QED
        BY <3>1, <3>2, <3>3
  <2>2. Logged[turn].said = Item.pieces /\ Logged[turn].standing = "open"
      BY <1>3
  <2>3. Logged' = [Logged EXCEPT ![turn].said = @ \o more]
      BY <1>2, <1>3, <2>2
  <2>4. Log!Say
      BY <1>3, <2>1, <2>2, <2>3 DEF Log!Say, Log!Open, Log!Newest, Logged, Image, Kept
  <2>5. QED
      BY <2>4
<1>6. QED
    BY <1>4, <1>5

LEMMA LogMarks ==
    ASSUME IInv, busy, NEW item \in Reply, Update(item), item.how = Item.how,
           NEW from \in Pieces, NEW to \in Pieces, item.pieces = Marked(Item.pieces, from, to)
    PROVE  Log!Mark(from, to)
<1>1. turn > 0 /\ Item.pieces \in Seq(Pieces)
    BY ItemOfTheTurn DEF IInv, OnlyNewestOpen
<1>2. /\ Logged # << >> /\ Len(Logged) = turn
      /\ Logged[turn] = [said |-> Item.pieces, standing |-> "open"]
      /\ Logged' = [Logged EXCEPT ![turn].said = item.pieces]
    BY LogChanges
<1>3. Logged[turn].said = Item.pieces /\ Logged[turn].standing = "open"
    BY <1>2
<1> DEFINE marked == {i \in DOMAIN Item.pieces : Item.pieces[i] = from}
<1>4. item.pieces = [i \in DOMAIN Item.pieces |-> IF i \in marked THEN to ELSE Item.pieces[i]]
    BY DEF Marked
<1>5. marked \in SUBSET DOMAIN Logged[turn].said /\ \A i \in marked : Logged[turn].said[i] = from
    BY <1>3
<1> HIDE DEF marked
<1>6. Logged' = [Logged EXCEPT ![turn].said = [i \in DOMAIN @ |-> IF i \in marked THEN to ELSE @[i]]]
    BY <1>2, <1>3, <1>4
<1>l. /\ marked \in SUBSET DOMAIN Logged[Len(Logged)].said
      /\ \A i \in marked : Logged[Len(Logged)].said[i] = from
      /\ Logged' = [Logged EXCEPT ![Len(Logged)].said =
                        [i \in DOMAIN @ |-> IF i \in marked THEN to ELSE @[i]]]
    BY <1>2, <1>5, <1>6
<1>7. /\ Logged # << >>
      /\ Logged[Len(Logged)].standing = "open"
      /\ \E m \in SUBSET DOMAIN Logged[Len(Logged)].said :
           /\ \A i \in m : Logged[Len(Logged)].said[i] = from
           /\ Logged' = [Logged EXCEPT ![Len(Logged)].said =
                             [i \in DOMAIN @ |-> IF i \in m THEN to ELSE @[i]]]
    BY <1>2, <1>3, <1>l, Zenon
<1>8. QED
    BY <1>7 DEF Log!Mark, Log!Open, Log!Newest, Logged, Image

\* A step of a reply that stays open.
LogMoves == Log!Say \/ Log!Mark("failed", "card") \/ Log!Mark("card", "failed")

\* A handler's step keeps the newest reply the only open one, and is a step of the log.
LEMMA ExtendedKeeps ==
    ASSUME IInv, busy, busy' = busy, Extended, Remembered'
    PROVE  /\ replies' \in Seq(Reply)
           /\ OnlyNewestOpen'
           /\ Logged' = Logged \/ LogMoves
<1>1. turn > 0 /\ turn \in 1..Len(replies) /\ Item.pieces \in Seq(Pieces)
    BY ItemOfTheTurn DEF IInv, OnlyNewestOpen
<1>2. CASE replies' = replies /\ (card = "retrying" => card' = "retrying")
  <2>1. turn' = turn /\ Item' = Item
      BY <1>2 DEF turn, Item
  <2>2. OnlyNewestOpen'
      BY <1>2, <2>1 DEF IInv, OnlyNewestOpen, Remembered, Unfailed
  <2>3. Logged' = Logged
      BY <1>2 DEF Logged, Image, StandingOf
  <2>4. QED
      BY <1>2, <2>2, <2>3 DEF IInv, TypeOK
<1>3. CASE \E item \in Reply : Update(item) /\ Extends(item)
  <2>1. PICK item \in Reply : Update(item) /\ Extends(item)
      BY <1>3
  <2>2. /\ replies' \in Seq(Reply)
        /\ turn' = turn
        /\ \A t \in 1..turn : replies'[t] = IF t = turn THEN item ELSE replies[t]
      BY <1>1, <2>1, UpdateLogged
  <2>3. Item' = item
      BY <1>1, <2>2 DEF turn, Item
  <2>4. "card" \in Pieces /\ "failed" \in Pieces
      BY DEF Pieces
  <2>5. ASSUME card' # "retrying" PROVE Unfailed(item.pieces)
    <3>1. CASE Grows(item)
      <4>1. PICK more \in More : item.pieces = Item.pieces \o more
          BY <3>1 DEF Grows
      <4>2. Unfailed(Item.pieces)
          BY <2>5, <3>1 DEF Grows, IInv, OnlyNewestOpen
      <4>3. QED
          BY <1>1, <4>1, <4>2, UnfailedGrows
    <3>2. CASE Recovers(item)
        BY <1>1, <3>2, UnfailedOnceMarked DEF Recovers
    <3>3. QED
        BY <2>1, <2>5, <3>1, <3>2 DEF Extends, Falters
  <2>6. item.how = "streaming"
      BY <2>1 DEF Extends, IInv, OnlyNewestOpen
  <2>7. OnlyNewestOpen'
    <3>1. Unfailed(item.pieces) => Unfailed(Item.pieces)'
        BY <2>3 DEF Unfailed
    <3>2. QED
        BY <1>1, <2>2, <2>3, <2>5, <2>6, <3>1 DEF IInv, OnlyNewestOpen, Remembered
  <2>8. Logged' = Logged \/ LogMoves
    <3>1. item.how = Item.how
        BY <2>1 DEF Extends
    <3>2. CASE Grows(item)
        BY <2>1, <3>1, <3>2, LogSays DEF LogMoves
    <3>3. CASE Recovers(item)
        BY <2>1, <2>4, <3>1, <3>3, LogMarks DEF LogMoves, Recovers
    <3>4. CASE Falters(item)
        BY <2>1, <2>4, <3>1, <3>4, LogMarks DEF LogMoves, Falters
    <3>5. QED
        BY <2>1, <3>2, <3>3, <3>4 DEF Extends
  <2>9. QED
      BY <2>2, <2>7, <2>8
<1>4. QED
    BY <1>2, <1>3 DEF Extended

(***************************************************************************)
(* A message is sent, a reply is over                                      *)
(***************************************************************************)

LEMMA SendKeeps ==
    ASSUME IInv, Send
    PROVE  replies' \in Seq(Reply) /\ OnlyNewestOpen' /\ Log!Begin
<1>1. replies \in Seq(Reply) /\ turn \in Nat
    BY DEF IInv, TypeOK, turn
<1>2. NewReply \in Reply
    BY DEF NewReply, NoActivity, Reply, Activity, Pieces
<1>3. replies' = Append(replies, NewReply)
    BY DEF Send
<1>4. /\ replies' \in Seq(Reply)
      /\ turn' = turn + 1
      /\ \A t \in 1..turn : replies'[t] = replies[t]
      /\ replies'[turn + 1] = NewReply
    BY <1>1, <1>2, <1>3, AppendProperties DEF turn
<1>5. Item' = NewReply
    BY <1>4 DEF Item, turn
<1>6. ~busy /\ busy' /\ waiting' = "nothing"
    BY DEF Send
<1>7. \A t \in 1..turn : replies[t].how # "streaming"
    BY <1>1, <1>6 DEF IInv, OnlyNewestOpen, Item
<1>8. OnlyNewestOpen'
  <2>1. Item'.how = "streaming" /\ Item'.pieces = << >> /\ turn' > 0
      BY <1>1, <1>4, <1>5 DEF NewReply
  <2>2. \A t \in 1..turn' : t # turn' => replies'[t].how # "streaming"
      BY <1>1, <1>4, <1>7
  <2>3. Unfailed(Item'.pieces)
      BY <1>5 DEF Unfailed, NewReply
  <2>4. QED
      BY <1>6, <2>1, <2>2, <2>3 DEF OnlyNewestOpen, Unfailed
<1>9. Image(NewReply) = [said |-> << >>, standing |-> "open"]
    BY DEF Image, StandingOf, NewReply
<1>10. Logged' = Append(Logged, [said |-> << >>, standing |-> "open"])
  <2>1. DOMAIN replies' = 1..(turn + 1)
      BY <1>1, <1>4 DEF turn
  <2>2. Logged' = [t \in 1..(turn + 1) |-> Image(replies'[t])]
      BY <2>1 DEF Logged, Image, StandingOf
  <2>3. \A t \in 1..(turn + 1) : Image(replies'[t]) = IF t = turn + 1 THEN Image(NewReply) ELSE Logged[t]
      BY <1>1, <1>4, LoggedShape
  <2>4. Append(Logged, Image(NewReply)) =
          [t \in 1..(turn + 1) |-> IF t = turn + 1 THEN Image(NewReply) ELSE Logged[t]]
    <3> DEFINE S == [said : Seq(Pieces), standing : {"open", "done", "broken"}]
    <3>1. Logged \in Seq(S) /\ Image(NewReply) \in S
        BY <1>9, LoggedShape, EmptySeq
    <3> HIDE DEF S
    <3>2. /\ Append(Logged, Image(NewReply)) \in Seq(S)
          /\ Len(Append(Logged, Image(NewReply))) = Len(Logged) + 1
          /\ \A t \in 1..Len(Logged) : Append(Logged, Image(NewReply))[t] = Logged[t]
          /\ Append(Logged, Image(NewReply))[Len(Logged) + 1] = Image(NewReply)
        BY <3>1, AppendProperties
    <3>3. Append(Logged, Image(NewReply)) = [t \in 1..(turn + 1) |-> Append(Logged, Image(NewReply))[t]]
      <4> DEFINE appended == Append(Logged, Image(NewReply))
      <4>1. appended \in Seq(S) /\ Len(appended) = turn + 1
          BY <3>2, LoggedShape
      <4> HIDE DEF appended
      <4>2. appended = [t \in 1..Len(appended) |-> appended[t]]
          BY <4>1
      <4>3. QED
          BY <4>1, <4>2 DEF appended
    <3>4. \A t \in 1..(turn + 1) : Append(Logged, Image(NewReply))[t] =
                                     IF t = turn + 1 THEN Image(NewReply) ELSE Logged[t]
        BY <3>2, LoggedShape
    <3>5. QED
        BY <3>3, <3>4
  <2>5. QED
      BY <1>9, <2>2, <2>3, <2>4
<1>11. Logged # << >> => Logged[Len(Logged)].standing # "open"
  <2>1. ASSUME Logged # << >> PROVE Logged[turn].standing # "open"
    <3>1. turn \in 1..turn
        BY <2>1, LoggedShape, EmptySeq
    <3>2. Logged[turn] = Image(replies[turn]) /\ replies[turn].how # "streaming"
        BY <1>7, <3>1, LoggedShape
    <3>3. QED
        BY <3>2 DEF Image, StandingOf
  <2>2. QED
      BY <2>1, LoggedShape
<1>12. Log!Begin
    BY <1>10, <1>11 DEF Log!Begin, Log!Open, Log!Newest, Logged, Image
<1>13. QED
    BY <1>4, <1>8, <1>12

\* A reply that is over says what it said without the cards that failed.
LEMMA SettledSaysWhatIsLeft ==
    ASSUME IInv, busy, NEW item \in Reply, NEW how \in {"complete", "broken"},
           card # "retrying" => Unfailed(item.pieces)
    PROVE  /\ Settled(item, how) \in Reply
           /\ Settled(item, how).how = how
           /\ Settled(item, how).pieces = Left(item.pieces)
<1> DEFINE shown == IF waiting = "nothing" THEN item ELSE Committed(item)
           left == Left(item.pieces)
<1>1. NoActivity \in Activity
    BY DEF NoActivity, Activity
<1>2. item.pieces \in Seq(Pieces)
    BY DEF Reply
<1>3. waiting # "nothing" => card # "none" /\ card # "retrying"
    BY DEF IInv, OnlyNewestOpen
<1>4. waiting # "nothing" => Marked(item.pieces, "failed", "card") = item.pieces
    BY <1>2, <1>3, UnfailedStays
<1>5. shown \in Reply /\ shown.pieces = item.pieces
  <2>1. CASE waiting = "nothing"
      BY <2>1
  <2>2. CASE waiting # "nothing"
    <3>1. Committed(item) = [item EXCEPT !.pieces = item.pieces, !.activity = NoActivity]
        BY <1>3, <1>4, <2>2 DEF Committed, Reply
    <3>2. QED
        BY <1>1, <1>2, <2>2, <3>1 DEF Reply
  <2>3. QED
      BY <2>1, <2>2
<1>6. left \in Seq(Pieces)
    BY <1>2, LeftIsKept, KeptIsPieces
<1> DEFINE settled == [shown EXCEPT !.pieces = left, !.pending = FALSE, !.activity = NoActivity,
                                    !.how = how]
<1>7. Settled(item, how) = [shown EXCEPT !.pieces = Left(@), !.pending = FALSE,
                                         !.activity = NoActivity, !.how = how]
    BY DEF Settled
<1> HIDE DEF shown
<1>8. Settled(item, how) = settled
    BY <1>5, <1>7 DEF Reply
<1> HIDE DEF left
<1>9. settled \in Reply /\ settled.how = how /\ settled.pieces = left
    BY <1>1, <1>5, <1>6 DEF Reply
<1>10. QED
    BY <1>8, <1>9 DEF left

\* The end of a reply: a step of the log that closes it, and no reply is open then.
LEMMA EndKeeps ==
    ASSUME IInv, busy, NEW item \in Reply, NEW how \in {"complete", "broken"},
           NEW last \in {<< >>} \cup {<<p>> : p \in Kept}, item.pieces = Item.pieces \o last,
           how = "broken" => item.pieces # << >>, EndTurn(item, how)
    PROVE  /\ replies' \in Seq(Reply)
           /\ OnlyNewestOpen'
           /\ \E standing \in {"done", "broken"} : Log!Close(standing)
<1> DEFINE standing == IF how = "complete" THEN "done" ELSE "broken"
<1>1. turn > 0 /\ Item \in Reply /\ turn \in 1..turn /\ turn \in Nat /\ Item.pieces \in Seq(Pieces)
    BY ItemOfTheTurn, LoggedShape DEF IInv, OnlyNewestOpen
<1>2. Settled(item, how) \in Reply /\ Settled(item, how).how = how
      /\ Settled(item, how).pieces = Left(item.pieces)
  <2>1. last \in More
      BY DEF More
  <2>2. card # "retrying" => Unfailed(Item.pieces)
      BY DEF IInv, OnlyNewestOpen
  <2>3. card # "retrying" => Unfailed(item.pieces)
      BY <1>1, <2>1, <2>2, UnfailedGrows
  <2>4. QED
      BY <2>3, SettledSaysWhatIsLeft
<1>3. /\ replies' \in Seq(Reply)
      /\ turn' = turn
      /\ \A t \in 1..turn : replies'[t] = IF t = turn THEN Settled(item, how) ELSE replies[t]
      /\ Logged' = [Logged EXCEPT ![turn] = Image(Settled(item, how))]
    BY <1>1, <1>2, UpdateLogged DEF EndTurn
<1>4. Item' = Settled(item, how)
    BY <1>1, <1>3 DEF Item, turn
<1>5. OnlyNewestOpen'
    BY <1>1, <1>2, <1>3, <1>4 DEF IInv, OnlyNewestOpen, EndTurn
<1>6. Image(Settled(item, how)) = [said |-> Left(item.pieces), standing |-> standing]
    BY <1>2 DEF Image, StandingOf
<1>7. Logged[turn] = [said |-> Item.pieces, standing |-> "open"]
    BY <1>1, LoggedShape DEF Image, StandingOf, Item, IInv, OnlyNewestOpen
<1>8. Logged # << >> /\ Len(Logged) = turn
    BY <1>1, LoggedShape
<1>9. standing = "broken" => item.pieces # << >>
    OBVIOUS
<1> HIDE DEF standing
<1>10. Logged[turn].said = Item.pieces /\ Logged[turn].standing = "open"
    BY <1>7
<1>11. Logged' = [Logged EXCEPT ![turn] = [said |-> Log!Left(Logged[turn].said \o last),
                                           standing |-> standing]]
    BY <1>3, <1>6, <1>10, LogLeft
<1>12. Log!Close(standing)
  <2>1. /\ Logged # << >>
        /\ Logged[Len(Logged)].standing = "open"
        /\ standing = "broken" => Logged[Len(Logged)].said \o last # << >>
        /\ Logged' = [Logged EXCEPT ![Len(Logged)] =
                         [said |-> Log!Left(Logged[Len(Logged)].said \o last), standing |-> standing]]
      BY <1>8, <1>9, <1>10, <1>11
  <2>2. QED
      BY <2>1 DEF Log!Close, Log!Open, Log!Newest, Logged, Image, Kept
<1>13. standing \in {"done", "broken"}
    BY DEF standing
<1>14. QED
    BY <1>3, <1>5, <1>12, <1>13

(***************************************************************************)
(* Every step                                                              *)
(***************************************************************************)

LEMMA InitInvariant == Init => IInv /\ Log!Init
<1> SUFFICES ASSUME Init PROVE IInv /\ Log!Init
    OBVIOUS
<1>1. TypeOK
  <2>1. << >> \in Seq(Events) /\ << >> \in Seq(Reply)
      BY EmptySeq
  <2>2. 0 \in 0..MaxSpent
      BY ConversationAssumption
  <2>3. QED
      BY <2>1, <2>2 DEF Init, TypeOK
<1>2. Framed
  <2>1. \A i \in 1..(Len(wire) - 1) : Follows(wire[i], wire[i + 1])
    <3>1. Len(wire) = 0
        BY DEF Init
    <3>2. QED
        BY <3>1
  <2>2. QED
      BY <2>1, EmptySeq DEF Init, Framed
<1>3. turn = 0
    BY DEF Init, turn
<1>4. OnlyNewestOpen
  <2>1. busy = FALSE /\ waiting = "nothing"
      BY DEF Init
  <2>2. \A t \in 1..turn : FALSE
      BY <1>3
  <2>3. QED
      BY <1>3, <2>1, <2>2 DEF OnlyNewestOpen
<1>5. IInv
    BY <1>1, <1>2, <1>4 DEF IInv
<1>6. Logged = << >>
    BY <1>3, <1>5, LoggedShape
<1>7. Log!Init
    BY <1>6 DEF Log!Init, Logged, Image
<1>8. QED
    BY <1>5, <1>7

LEMMA RepliesUntouched ==
    ASSUME IInv, UNCHANGED <<busy, replies, card, waiting>>
    PROVE  OnlyNewestOpen' /\ Logged' = Logged
<1>1. turn' = turn /\ Item' = Item
    BY DEF turn, Item
<1>2. OnlyNewestOpen'
    BY <1>1 DEF IInv, OnlyNewestOpen, Unfailed
<1>3. Logged' = Logged
    BY DEF Logged, Image, StandingOf
<1>4. QED
    BY <1>2, <1>3

LEMMA WireUntouched ==
    ASSUME IInv, UNCHANGED <<wire, buffer, eventType>>
    PROVE  Framed'
BY DEF IInv, Framed, Remembers

\* What a step does to the invariant and to the log.
Keeps == IInv' /\ (Logged' = Logged \/ Log!Next)

LEMMA ServiceKeeps ==
    ASSUME IInv, SessionStarts \/ CloseStream \/ \E e \in Events : Write(e)
    PROVE  Keeps
<1>1. UNCHANGED <<busy, replies, card, waiting>>
    BY DEF SessionStarts, CloseStream, Write, replyVars
<1>2. Framed'
    BY WireUntouched, WriteFramed DEF SessionStarts, CloseStream, streamVars
<1>3. TypeOK'
  <2>1. CASE SessionStarts
      BY <2>1 DEF SessionStarts, streamVars, replyVars, IInv, TypeOK
  <2>2. CASE CloseStream
      BY <2>2 DEF CloseStream, replyVars, IInv, TypeOK
  <2>3. CASE \E e \in Events : Write(e)
    <3>1. PICK e \in Events : Write(e)
        BY <2>3
    <3>2. written' \in Seq(Events) /\ spent' \in 0..MaxSpent
        BY <3>1, AppendProperties, ConversationAssumption DEF Write, IInv, TypeOK
    <3>3. QED
        BY <3>1, <3>2 DEF Write, replyVars, IInv, TypeOK
  <2>4. QED
      BY <2>1, <2>2, <2>3
<1>4. QED
    BY <1>1, <1>2, <1>3, RepliesUntouched DEF Keeps, IInv

LEMMA DeliverKeeps ==
    ASSUME IInv, Deliver
    PROVE  Keeps
<1>1. busy /\ UNCHANGED <<ready, busy, server, written, spent>>
    BY DEF Deliver
<1>2. CASE UNCHANGED replyVars
  <2>1. UNCHANGED <<busy, replies, card, waiting>>
      BY <1>1, <1>2 DEF replyVars
  <2>2. TypeOK'
      BY <1>1, <1>2 DEF replyVars, IInv, TypeOK
  <2>3. QED
      BY <2>1, <2>2, DeliverFramed, RepliesUntouched DEF Keeps, IInv
<1>3. CASE \E e \in Events : HandleEvent(e)
  <2>1. Extended /\ Remembered' /\ handled' \in Seq(Events)
      BY <1>1, <1>3, HandlerExtends
  <2>2. replies' \in Seq(Reply) /\ OnlyNewestOpen' /\ (Logged' = Logged \/ LogMoves)
      BY <1>1, <2>1, ExtendedKeeps
  <2>3. TypeOK'
      BY <1>1, <2>1, <2>2 DEF Remembered, IInv, TypeOK
  <2>4. QED
      BY <2>2, <2>3, DeliverFramed DEF Keeps, IInv, LogMoves, Log!Next
<1>4. QED
    BY <1>2, <1>3, DeliverStep

LEMMA TickKeeps ==
    ASSUME IInv, Tick
    PROVE  Keeps
<1>1. busy /\ card = "partial" /\ turn > 0
    BY DEF Tick, IInv, OnlyNewestOpen
<1>2. Update(Committed(Item)) /\ UNCHANGED <<ready, busy, streamVars, handled, afterTool, progressTool>>
    BY DEF Tick
<1>3. Extended
    BY <1>1, <1>2, CommittedExtends DEF Extended
<1>4. Remembered'
    BY <1>2 DEF Tick, Remembered, IInv, TypeOK
<1>5. replies' \in Seq(Reply) /\ OnlyNewestOpen' /\ (Logged' = Logged \/ LogMoves)
    BY <1>1, <1>2, <1>3, <1>4, ExtendedKeeps
<1>6. TypeOK'
    BY <1>2, <1>4, <1>5 DEF Remembered, streamVars, IInv, TypeOK
<1>7. Framed'
    BY <1>2, WireUntouched DEF streamVars
<1>8. QED
    BY <1>5, <1>6, <1>7 DEF Keeps, IInv, LogMoves, Log!Next

LEMMA SentKeeps ==
    ASSUME IInv, Send
    PROVE  Keeps
<1>1. replies' \in Seq(Reply) /\ OnlyNewestOpen' /\ Log!Begin
    BY SendKeeps
<1>2. Framed'
  <2>1. \A i \in 1..(Len(wire') - 1) : Follows(wire'[i], wire'[i + 1])
    <3>1. Len(wire') = 0
        BY DEF Send
    <3>2. QED
        BY <3>1
  <2>2. QED
      BY <2>1, EmptySeq DEF Send, Framed
<1>3. TypeOK'
  <2>1. spent' \in 0..MaxSpent
    <3>1. spent \in 0..MaxSpent /\ spent < MaxSpent /\ spent' = spent + 1
        BY DEF Send, IInv, TypeOK
    <3>2. QED
        BY <3>1, ConversationAssumption
  <2>2. written' \in Seq(Events) /\ handled' \in Seq(Events)
      BY EmptySeq DEF Send
  <2>3. QED
      BY <1>1, <2>1, <2>2 DEF Send, IInv, TypeOK
<1>4. QED
    BY <1>1, <1>2, <1>3 DEF Keeps, IInv, Log!Next

LEMMA EndsKeep ==
    ASSUME IInv, Complete \/ Break
    PROVE  Keeps
<1>1. turn > 0 /\ Item \in Reply /\ Item.pieces \in Seq(Pieces) /\ busy
    BY ItemOfTheTurn DEF IInv, OnlyNewestOpen, Complete, Break
<1>2. Item.pieces = Item.pieces \o << >>
    BY <1>1, ConcatEmptySeq
<1> DEFINE Closed == /\ \E item, how : EndTurn(item, how)
                     /\ replies' \in Seq(Reply)
                     /\ OnlyNewestOpen'
                     /\ \E standing \in {"done", "broken"} : Log!Close(standing)
<1>3. ASSUME Complete PROVE Closed
  <2>1. EndTurn(Item, "complete")
      BY <1>3 DEF Complete
  <2>2. QED
      BY <1>1, <1>2, <2>1, EndKeeps
<1> DEFINE item == [Item EXCEPT !.pieces = IF @ = << >> THEN <<"error">> ELSE @]
<1>4. ASSUME Break PROVE Closed
  <2>1. EndTurn(item, "broken")
      BY <1>4 DEF Break
  <2>2. "error" \in Kept /\ "error" \in Pieces
      BY DEF Kept, Pieces
  <2>3. CASE Item.pieces = << >>
    <3>1. item = [Item EXCEPT !.pieces = <<"error">>]
        BY <1>1, <2>3 DEF Reply
    <3>2. item \in Reply /\ item.pieces = <<"error">>
      <4>1. <<"error">> \in Seq(Pieces)
          BY <2>2
      <4> HIDE DEF item
      <4>2. QED
          BY <1>1, <3>1, <4>1 DEF Reply
    <3>3. item.pieces = Item.pieces \o <<"error">> /\ item.pieces # << >>
        BY <2>2, <2>3, <3>2
    <3> HIDE DEF item
    <3>4. QED
        BY <1>1, <2>1, <2>2, <3>2, <3>3, EndKeeps
  <2>4. CASE Item.pieces # << >>
    <3>1. item = Item
        BY <1>1, <2>4 DEF Reply
    <3>2. QED
        BY <1>1, <1>2, <2>1, <2>4, <3>1, EndKeeps
  <2>5. QED
      BY <2>3, <2>4
<1>5. Closed
    BY <1>3, <1>4
<1>6. PICK last, how : EndTurn(last, how)
    BY <1>5
<1>7. UNCHANGED <<ready, written, wire, buffer, eventType, spent, handled, afterTool, progressTool>>
      /\ busy' = FALSE /\ server' = "closed" /\ waiting' = "nothing"
      /\ card' = IF waiting = "final" THEN "final" ELSE card
    BY <1>6 DEF EndTurn
<1>8. TypeOK'
    BY <1>5, <1>7 DEF IInv, TypeOK
<1>9. Framed'
    BY <1>7, WireUntouched
<1>10. Log!Next
    BY <1>5 DEF Log!Next
<1>11. QED
    BY <1>5, <1>8, <1>9, <1>10 DEF Keeps, IInv

LEMMA StepKeeps ==
    ASSUME IInv, [Next]_vars
    PROVE  Keeps
<1>1. CASE Next
    BY <1>1, ServiceKeeps, DeliverKeeps, TickKeeps, SentKeeps, EndsKeep DEF Next
<1>2. CASE UNCHANGED vars
  <2>1. UNCHANGED <<busy, replies, card, waiting>> /\ UNCHANGED <<wire, buffer, eventType>>
      BY <1>2 DEF vars, streamVars, replyVars
  <2>2. TypeOK'
      BY <1>2 DEF vars, streamVars, replyVars, IInv, TypeOK
  <2>3. QED
      BY <2>1, <2>2, RepliesUntouched, WireUntouched DEF Keeps, IInv
<1>3. QED
    BY <1>1, <1>2

\* Nothing the stream carries, and no order in which it comes, gives the page a value it has
\* no case for.
THEOREM TypeCorrect == Spec => []TypeOK
<1>1. Init => IInv
    BY InitInvariant
<1>2. IInv /\ [Next]_vars => IInv'
    BY StepKeeps DEF Keeps
<1>3. IInv => TypeOK
    BY DEF IInv
<1>4. QED
    BY <1>1, <1>2, <1>3, PTL DEF Spec

\* The pieces on their way, the buffer and the event type always fit together: a data line
\* that ends is the event the service wrote (readEventStream).
THEOREM StreamIsFramed == Spec => []Framed
<1>1. Init => IInv
    BY InitInvariant
<1>2. IInv /\ [Next]_vars => IInv'
    BY StepKeeps DEF Keeps
<1>3. IInv => Framed
    BY DEF IInv
<1>4. QED
    BY <1>1, <1>2, <1>3, PTL DEF Spec

\* The conversation implements ReplyLog: a closed reply never changes, no word or error line
\* is taken back, a card only if its attempt failed and no other took it up, and a reply that
\* broke off is empty only if it had nothing but such a card (useAgentTurn).
THEOREM RepliesAreKept == Spec => KeepsReplyLog
<1>1. Init => IInv /\ Log!Init
    BY InitInvariant
<1>2. IInv /\ [Next]_vars => IInv' /\ [Log!Next]_(Log!replyVars)
  <2>1. SUFFICES ASSUME IInv, [Next]_vars PROVE IInv' /\ [Log!Next]_(Log!replyVars)
      OBVIOUS
  <2>2. IInv' /\ (Logged' = Logged \/ Log!Next)
      BY <2>1, StepKeeps DEF Keeps
  <2>3. Logged' = Logged => UNCHANGED Log!replyVars
      BY DEF Log!replyVars, Logged, Image
  <2>4. QED
      BY <2>2, <2>3
<1>3. QED
    BY <1>1, <1>2, PTL DEF Spec, KeepsReplyLog, Log!Spec

(***************************************************************************)
(* What the page has handled                                               *)
(*                                                                         *)
(* Counted from the end of the stream, a frame is five pieces.  So the     *)
(* place of a piece says which event it is a piece of, and the number of   *)
(* pieces on their way says how many events have not arrived.              *)
(***************************************************************************)

\* The first n of some places hold one more if the n-th is among them.
LEMMA CountOneMore ==
    ASSUME NEW n \in Nat, NEW S \in SUBSET (1..(n + 1))
    PROVE  /\ IsFiniteSet(S) /\ Cardinality(S) \in Nat
           /\ Cardinality(S \cap (1..n)) \in Nat
           /\ Cardinality(S) = Cardinality(S \cap (1..n)) + IF n + 1 \in S THEN 1 ELSE 0
<1> DEFINE R == S \cap (1..n)
<1>1. IsFiniteSet(1..(n + 1)) /\ IsFiniteSet(1..n)
    BY FS_Interval
<1>2. IsFiniteSet(S) /\ IsFiniteSet(R)
    BY <1>1, FS_Subset
<1>3. Cardinality(S) \in Nat /\ Cardinality(R) \in Nat
    BY <1>2, FS_CardinalityType
<1>p. 1..(n + 1) = (1..n) \cup {n + 1} /\ n + 1 \notin 1..n
    OBVIOUS
<1>4. CASE n + 1 \in S
  <2>1. S = R \cup {n + 1} /\ n + 1 \notin R
      BY ONLY <1>4, <1>p, S \in SUBSET (1..(n + 1)), Zenon
  <2> HIDE DEF R
  <2>2. Cardinality(R \cup {n + 1}) = Cardinality(R) + 1
      BY <1>2, <2>1, FS_AddElement
  <2>3. QED
      BY <1>2, <1>3, <1>4, <2>1, <2>2 DEF R
<1>5. CASE n + 1 \notin S
  <2>1. S = R
      BY ONLY <1>5, <1>p, S \in SUBSET (1..(n + 1)), Zenon
  <2> HIDE DEF R
  <2>2. QED
      BY <1>2, <1>3, <1>5, <2>1 DEF R
<1>6. QED
    BY <1>4, <1>5

\* Of n places, counted from the last, every fifth beginning with the second.
LEMMA EveryFifth ==
    ASSUME NEW n \in Nat
    PROVE  Cardinality({i \in 1..n : (n - i) % 5 = 1}) = (n + 3) \div 5
<1> DEFINE S == {i \in 1..n : (n - i) % 5 = 1}
           m == (n + 3) \div 5
           f == [k \in 1..m |-> n - 5 * k + 4]
<1>1. m \in Nat /\ 5 * m <= n + 3 /\ n + 3 < 5 * m + 5
    OBVIOUS
<1>2. \A k \in 1..m : n - 5 * k + 4 \in S
  <2>1. SUFFICES ASSUME NEW k \in 1..m PROVE n - 5 * k + 4 \in 1..n /\ (n - (n - 5 * k + 4)) % 5 = 1
      OBVIOUS
  <2>2. k \in Nat /\ k >= 1 /\ k <= m
      BY <1>1
  <2> HIDE DEF m
  <2>3. n - 5 * k + 4 \in 1..n
      BY <1>1, <2>2
  <2>4. n - (n - 5 * k + 4) = 5 * (k - 1) + 1
      BY <2>2
  <2>5. (5 * (k - 1) + 1) % 5 = 1
      BY <2>2
  <2>6. QED
      BY <2>3, <2>4, <2>5
<1>3. \A i \in S : \E k \in 1..m : i = n - 5 * k + 4
  <2>1. SUFFICES ASSUME NEW i \in 1..n, (n - i) % 5 = 1
                 PROVE  \E k \in 1..m : i = n - 5 * k + 4
      OBVIOUS
  <2> DEFINE q == (n - i) \div 5
  <2>2. q \in Nat /\ n - i = 5 * q + 1
      BY <2>1
  <2> HIDE DEF q, m
  <2>3. q + 1 \in 1..m
      BY <1>1, <2>2
  <2>4. i = n - 5 * (q + 1) + 4
      BY <2>2
  <2>5. QED
      BY <2>3, <2>4
<1> HIDE DEF S, m
<1>4. f \in Bijection(1..m, S)
  <2>1. f \in [1..m -> S]
      BY <1>2
  <2>2. \A j, k \in 1..m : f[j] = f[k] => j = k
      BY <1>1
  <2>3. \A i \in S : \E k \in 1..m : f[k] = i
      BY <1>3
  <2> HIDE DEF f
  <2>4. QED
      BY <2>1, <2>2, <2>3 DEF Bijection, Injection, Surjection, IsInjective
<1>5. ExistsBijection(1..m, S)
    BY <1>4 DEF ExistsBijection
<1>6. Cardinality(S) = m
    BY <1>1, <1>5, FS_CountingElements
<1>7. QED
    BY <1>6 DEF S, m

\* The event, and the piece of it, at the place a pieces before the end.
EventAt(a) == written[Len(written) - a \div 5]
PieceAt(a) == Frame(EventAt(a))[5 - (a % 5)]

\* Every piece on its way is the one its place says.
Placed ==
    /\ Len(wire) <= 5 * Len(written)
    /\ \A i \in 1..Len(wire) : wire[i] = PieceAt(Len(wire) - i)

HeardInv == Placed /\ HandledIsWritten

LEMMA PieceAtShape ==
    ASSUME NEW a \in Nat
    PROVE  /\ a % 5 \in 0..4 /\ a \div 5 \in Nat
           /\ PieceAt(a).line.event = EventAt(a)
           /\ PieceAt(a).line.kind = "data" /\ PieceAt(a).part = "tail" <=> a % 5 = 1
<1>1. a % 5 \in 0..4 /\ a \div 5 \in Nat
    OBVIOUS
<1>2. a % 5 = 0 \/ a % 5 = 1 \/ a % 5 = 2 \/ a % 5 = 3 \/ a % 5 = 4
    BY <1>1
<1> DEFINE r == a % 5
           e == EventAt(a)
<1> DEFINE Right(p, k) == /\ p.line.event = e
                          /\ (p.line.kind = "data" /\ p.part = "tail") <=> k = 1
<1>3. /\ Frame(e)[5] = Piece(Line("blank", e), "tail") /\ Frame(e)[4] = Piece(Line("data", e), "tail")
      /\ Frame(e)[3] = Piece(Line("data", e), "head") /\ Frame(e)[2] = Piece(Line("event", e), "tail")
      /\ Frame(e)[1] = Piece(Line("event", e), "head")
    BY DEF Frame
<1> HIDE DEF e
<1>4. /\ Right(Frame(e)[5], 0) /\ Right(Frame(e)[4], 1) /\ Right(Frame(e)[3], 2)
      /\ Right(Frame(e)[2], 3) /\ Right(Frame(e)[1], 4)
    BY <1>3 DEF Piece, Line
<1> HIDE DEF Right, r
<1>5. Right(Frame(e)[5 - r], r)
  <2>1. r = 0 \/ r = 1 \/ r = 2 \/ r = 3 \/ r = 4
      BY <1>2 DEF r
  <2>2. QED
      BY <1>4, <2>1
<1>6. QED
    BY <1>1, <1>5 DEF PieceAt, Right, r, e

\* How many events have arrived, by the number of pieces that have not.
LEMMA ArrivedByPlace ==
    ASSUME IInv, Placed
    PROVE  /\ Arrived = Len(written) - (Len(wire) + 3) \div 5
           /\ Arrived \in 0..Len(written)
<1> DEFINE n == Len(wire)
           S == {i \in DOMAIN wire : wire[i].line.kind = "data" /\ wire[i].part = "tail"}
<1>1. n \in Nat /\ DOMAIN wire = 1..n /\ Len(written) \in Nat
    BY DEF IInv, Framed, TypeOK
<1>2. S = {i \in 1..n : (n - i) % 5 = 1}
  <2>1. ASSUME NEW i \in 1..n
        PROVE  (wire[i].line.kind = "data" /\ wire[i].part = "tail") <=> (n - i) % 5 = 1
    <3>1. n - i \in Nat
        BY <1>1
    <3>2. wire[i] = PieceAt(n - i)
        BY DEF Placed
    <3> HIDE DEF n
    <3>3. QED
        BY <3>1, <3>2, PieceAtShape
  <2>2. QED
      BY <1>1, <2>1
<1> HIDE DEF n, S
<1>3. Cardinality(S) = (n + 3) \div 5
    BY <1>1, <1>2, EveryFifth
<1>4. Arrived = Len(written) - (n + 3) \div 5
    BY <1>3 DEF Arrived, S
<1>5. n <= 5 * Len(written)
    BY DEF Placed, n
<1>6. QED
    BY <1>1, <1>4, <1>5 DEF n

LEMMA SoundCounts ==
    ASSUME NEW n \in Nat
    PROVE  /\ SoundUpTo(n) \in Nat
           /\ SoundUpTo(0) = 0
           /\ SoundUpTo(n + 1) = SoundUpTo(n) + IF Sound(written[n + 1]) THEN 1 ELSE 0
           /\ \A j \in 0..n : SoundUpTo(j) <= SoundUpTo(n)
<1> DEFINE S(k) == {i \in 1..k : Sound(written[i])}
<1>1. S(n + 1) \in SUBSET (1..(n + 1)) /\ S(n + 1) \cap (1..n) = S(n)
    OBVIOUS
<1>2. n + 1 \in S(n + 1) <=> Sound(written[n + 1])
    OBVIOUS
<1>3. S(0) = {}
    OBVIOUS
<1>4. ASSUME NEW j \in 0..n PROVE Cardinality(S(j)) <= Cardinality(S(n))
  <2>1. IsFiniteSet(S(n))
    <3>1. IsFiniteSet(1..n) /\ S(n) \in SUBSET (1..n)
        BY FS_Interval
    <3>2. QED
        BY <3>1, FS_Subset
  <2>2. S(j) \in SUBSET S(n)
      OBVIOUS
  <2> HIDE DEF S
  <2>3. QED
      BY <2>1, <2>2, FS_Subset
<1> HIDE DEF S
<1>5. /\ Cardinality(S(n)) \in Nat
      /\ Cardinality(S(n + 1)) = Cardinality(S(n)) + IF n + 1 \in S(n + 1) THEN 1 ELSE 0
    BY <1>1, CountOneMore
<1>6. Cardinality(S(0)) = 0
    BY <1>3, FS_EmptySet
<1>7. \A k : SoundUpTo(k) = Cardinality(S(k))
    BY DEF SoundUpTo, S
<1>8. QED
    BY <1>2, <1>4, <1>5, <1>6, <1>7

\* What the page does with the piece that has come: a data line's end is an event for
\* handleEvent if it parses, and nothing else is one.
LEMMA WhatIsHandled ==
    ASSUME IInv, Deliver
    PROVE  LET e == wire[1].line.event
           IN  IF wire[1].line.kind = "data" /\ wire[1].part = "tail" /\ Sound(e)
                 THEN HandleEvent(e) ELSE UNCHANGED replyVars
<1> DEFINE text == Append(buffer, Head(wire))
           e == wire[1].line.event
<1>1. wire # << >> /\ wire[1] \in Travelling /\ Head(wire) = wire[1]
    BY DEF Deliver, IInv, Framed
<1>2. wire[1].part \in {"head", "tail"} /\ wire[1].line.kind \in {"event", "data", "blank"}
    BY <1>1 DEF Travelling
<1>3. CASE wire[1].part = "head"
    BY <1>1, <1>3 DEF Deliver
<1>4. CASE wire[1].part = "tail"
  <2>1. ReadLine(text)
      BY <1>1, <1>4 DEF Deliver
  <2>2. text[Len(text)] = wire[1] /\ Whole(text)
      BY <1>1, <1>4, TextIsWhole
  <2> HIDE DEF text
  <2>3. CASE wire[1].line.kind = "blank"
      BY <1>1, <1>4, <2>1, <2>2, <2>3 DEF ReadLine
  <2>4. CASE wire[1].line.kind = "event"
      BY <1>1, <1>4, <2>1, <2>2, <2>4 DEF ReadLine
  <2>5. CASE wire[1].line.kind = "data"
    <3>1. [e EXCEPT !.type = eventType] = e
        BY <1>1, <1>4, <2>5, DataLineIsItsEvent
    <3>2. e \in Events
        BY <1>1 DEF Travelling
    <3>3. eventType # ""
      <4>1. eventType = e.type
          BY <1>1, <2>5 DEF IInv, Framed, Remembers
      <4>2. e.type # ""
          BY <3>2, EventShape
      <4>3. QED
          BY <4>1, <4>2
    <3>4. IF Sound(e) THEN HandleEvent(e) ELSE UNCHANGED replyVars
        BY <2>1, <2>2, <2>5, <3>1, <3>3 DEF ReadLine
    <3>5. QED
        BY <1>4, <2>5, <3>4
  <2>6. QED
      BY <1>2, <2>3, <2>4, <2>5
<1>5. QED
    BY <1>2, <1>3, <1>4

LEMMA WriteHeard ==
    ASSUME IInv, HeardInv, NEW e \in Events, Write(e)
    PROVE  /\ HeardInv'
           /\ Arrived' = Arrived /\ Arrived \in 0..Len(written)
<1> DEFINE n == Len(wire)
           w == Len(written)
<1>1. /\ wire \in Seq(Travelling) /\ n \in Nat
      /\ written \in Seq(Events) /\ w \in Nat
      /\ wire' = wire \o Frame(e)
      /\ written' = Append(written, e)
      /\ handled' = handled
    BY DEF IInv, Framed, TypeOK, Write, replyVars
<1>2. Len(written') = w + 1 /\ written'[w + 1] = e /\ \A i \in 1..w : written'[i] = written[i]
    BY <1>1, AppendProperties
<1>3. Frame(e) \in Seq(Travelling) /\ Len(Frame(e)) = 5
    BY FrameShape
<1>4. Len(wire') = n + 5 /\ \A i \in 1..(n + 5) : wire'[i] = IF i <= n THEN wire[i] ELSE Frame(e)[i - n]
  <2> DEFINE f == Frame(e)
  <2>1. f \in Seq(Travelling) /\ Len(f) = 5 /\ wire' = wire \o f
      BY <1>1, <1>3
  <2> HIDE DEF f
  <2>2. /\ Len(wire \o f) = Len(wire) + Len(f)
        /\ \A i \in 1..(Len(wire) + Len(f)) : (wire \o f)[i] = IF i <= Len(wire) THEN wire[i] ELSE f[i - Len(wire)]
      BY <1>1, <2>1, ConcatProperties
  <2>3. QED
      BY <2>1, <2>2 DEF f, n
<1>5. n <= 5 * w
    BY DEF HeardInv, Placed
<1>6. Placed'
  <2>1. Len(wire') <= 5 * Len(written')
      BY <1>1, <1>2, <1>4, <1>5
  <2>2. ASSUME NEW i \in 1..(n + 5)
        PROVE  wire'[i] = Frame(written'[(w + 1) - ((n + 5) - i) \div 5])[5 - (((n + 5) - i) % 5)]
    <3>1. CASE i <= n
      <4> DEFINE a == n - i
      <4>1. a \in Nat /\ (n + 5) - i = a + 5 /\ i \in 1..n
          BY <1>1, <3>1
      <4>2. wire[i] = Frame(written[w - a \div 5])[5 - (a % 5)]
          BY <4>1 DEF HeardInv, Placed, PieceAt, EventAt
      <4>3. (a + 5) \div 5 = a \div 5 + 1 /\ (a + 5) % 5 = a % 5 /\ a \div 5 \in Nat
          BY <4>1
      <4>4. a < 5 * w
          BY <1>1, <1>5, <4>1
      <4> HIDE DEF a
      <4>5. w - a \div 5 \in 1..w
          BY <1>1, <4>1, <4>3, <4>4
      <4>6. (w + 1) - (a + 5) \div 5 = w - a \div 5
          BY <1>1, <4>3
      <4>7. QED
          BY <1>2, <1>4, <3>1, <4>1, <4>2, <4>3, <4>5, <4>6
    <3>2. CASE i > n
      <4> DEFINE a == (n + 5) - i
      <4>1. a \in 0..4 /\ i - n = 5 - a
          BY <1>1, <3>2
      <4>2. a \div 5 = 0 /\ a % 5 = a
          BY <4>1
      <4>3. wire'[i] = Frame(e)[5 - a]
          BY <1>1, <1>4, <3>2, <4>1
      <4> HIDE DEF a
      <4>4. (w + 1) - a \div 5 = w + 1
          BY <1>1, <4>2
      <4>5. QED
        <5>1. wire'[i] = Frame(written'[(w + 1) - a \div 5])[5 - (a % 5)]
            BY <1>2, <4>2, <4>3, <4>4
        <5>2. QED
            BY <5>1 DEF a
    <3>3. i <= n \/ i > n
        BY <1>1
    <3>4. QED
        BY <3>1, <3>2, <3>3, Zenon
  <2>3. QED
      BY <1>2, <1>4, <2>1, <2>2 DEF Placed, PieceAt, EventAt
<1>7. IInv'
    BY ServiceKeeps DEF Keeps
<1>8. Arrived' = Arrived /\ Arrived \in 0..w
  <2>1. Arrived = w - (n + 3) \div 5 /\ Arrived \in 0..w
      BY ArrivedByPlace DEF HeardInv
  <2>2. Arrived' = (w + 1) - ((n + 5) + 3) \div 5
    <3>1. (IInv /\ Placed)' => (Arrived = Len(written) - (Len(wire) + 3) \div 5)'
        BY ArrivedByPlace, PTL
    <3>2. QED
        BY <1>2, <1>4, <1>6, <1>7, <3>1
  <2>3. ((n + 5) + 3) \div 5 = (n + 3) \div 5 + 1 /\ (n + 3) \div 5 \in Nat
      BY <1>1
  <2>4. QED
      BY <1>1, <2>1, <2>2, <2>3
<1>9. \A j \in 0..w : SoundUpTo(j)' = SoundUpTo(j)
  <2>1. ASSUME NEW j \in 0..w
        PROVE  {i \in 1..j : Sound(written'[i])} = {i \in 1..j : Sound(written[i])}
      BY <1>1, <1>2
  <2>2. QED
      BY <2>1 DEF SoundUpTo, Sound
<1>10. HandledIsWritten'
  <2>1. Len(handled') = SoundUpTo(Arrived)'
    <3>1. SoundUpTo(Arrived)' = Cardinality({i \in 1..Arrived : Sound(written'[i])})
        BY <1>8 DEF SoundUpTo, Sound
    <3>2. {i \in 1..Arrived : Sound(written'[i])} = {i \in 1..Arrived : Sound(written[i])}
        BY <1>1, <1>2, <1>8
    <3>3. QED
        BY <1>1, <3>1, <3>2 DEF HeardInv, HandledIsWritten, SoundUpTo
  <2>2. ASSUME NEW j \in 1..Arrived, Sound(written'[j])
        PROVE  handled'[SoundUpTo(j)'] = written'[j]
    <3>1. j \in 0..w /\ j \in 1..w
        BY <1>1, <1>8
    <3>2. SoundUpTo(j)' = SoundUpTo(j) /\ written'[j] = written[j]
        BY <1>2, <1>9, <3>1
    <3>3. QED
        BY <1>1, <2>2, <3>2 DEF HeardInv, HandledIsWritten
  <2>3. QED
      BY <1>8, <2>1, <2>2 DEF HandledIsWritten, Sound
<1>11. QED
    BY <1>6, <1>8, <1>10 DEF HeardInv

LEMMA DeliverHeard ==
    ASSUME IInv, HeardInv, Deliver
    PROVE  /\ HeardInv'
           /\ IF wire[1].line.kind = "data" /\ wire[1].part = "tail"
                THEN Arrived' = Arrived + 1 /\ wire[1].line.event = written[Arrived + 1]
                     /\ Arrived + 1 \in 1..Len(written)
                ELSE Arrived' = Arrived
<1> DEFINE n == Len(wire)
           w == Len(written)
           m == Arrived
           e == wire[1].line.event
           ends == wire[1].line.kind = "data" /\ wire[1].part = "tail"
<1>1. /\ wire \in Seq(Travelling) /\ wire # << >> /\ n \in Nat \ {0}
      /\ written \in Seq(Events) /\ w \in Nat /\ handled \in Seq(Events)
      /\ wire' = Tail(wire) /\ written' = written
    BY EmptySeq DEF IInv, Framed, TypeOK, Deliver
<1>2. Len(wire') = n - 1 /\ \A i \in 1..(n - 1) : wire'[i] = wire[i + 1]
    BY <1>1, HeadTailProperties
<1>3. n <= 5 * w /\ \A i \in 1..n : wire[i] = PieceAt(n - i)
    BY DEF HeardInv, Placed
<1>4. Placed'
  <2>1. \A i \in 1..(n - 1) : wire'[i] = PieceAt((n - 1) - i)
    <3>1. SUFFICES ASSUME NEW i \in 1..(n - 1) PROVE wire'[i] = PieceAt((n - 1) - i)
        OBVIOUS
    <3>2. i + 1 \in 1..n /\ n - (i + 1) = (n - 1) - i
        BY <1>1
    <3>3. QED
        BY <1>2, <1>3, <3>2
  <2>2. QED
      BY <1>1, <1>2, <1>3, <2>1 DEF Placed, PieceAt, EventAt
<1>5. IInv'
    BY DeliverKeeps DEF Keeps
<1>6. m = w - (n + 3) \div 5 /\ m \in 0..w
    BY ArrivedByPlace DEF HeardInv
<1>7. Arrived' = w - (n + 2) \div 5
  <2>1. (IInv /\ Placed)' => (Arrived = Len(written) - (Len(wire) + 3) \div 5)'
      BY ArrivedByPlace, PTL
  <2>2. Arrived' = w - ((n - 1) + 3) \div 5
      BY <1>1, <1>2, <1>4, <1>5, <2>1
  <2>3. (n - 1) + 3 = n + 2
      BY <1>1
  <2>4. QED
      BY <2>2, <2>3
<1>8. /\ e = written[w - (n - 1) \div 5]
      /\ ends <=> (n - 1) % 5 = 1
  <2>1. wire[1] = PieceAt(n - 1) /\ n - 1 \in Nat
      BY <1>1, <1>3
  <2> DEFINE a == n - 1
  <2>2. a \in Nat
      BY <2>1
  <2>3. wire[1] = PieceAt(a)
      BY <2>1
  <2> HIDE DEF a
  <2>4. /\ PieceAt(a).line.event = EventAt(a)
        /\ PieceAt(a).line.kind = "data" /\ PieceAt(a).part = "tail" <=> a % 5 = 1
      BY <2>2, PieceAtShape
  <2>5. e = EventAt(a) /\ (ends <=> a % 5 = 1)
      BY <2>3, <2>4
  <2> HIDE DEF e, ends
  <2>6. QED
      BY <2>5 DEF EventAt, a
<1> HIDE DEF n, w, m, e, ends
<1>9. /\ ends => Arrived' = m + 1 /\ e = written[m + 1] /\ m + 1 \in 1..w
      /\ ~ends => Arrived' = m
  <2>1. CASE (n - 1) % 5 = 1
    <3>1. (n + 2) \div 5 = (n + 3) \div 5 - 1 /\ (n - 1) \div 5 = (n + 3) \div 5 - 1
      <4> DEFINE q == (n - 1) \div 5
      <4>1. q \in Nat /\ n = 5 * q + 2
          BY <1>1, <2>1
      <4> HIDE DEF q
      <4>2. (n + 2) \div 5 = q /\ (n + 3) \div 5 = q + 1
        <5>1. (5 * q + 4) \div 5 = q /\ (5 * (q + 1)) \div 5 = q + 1
            BY <4>1
        <5>2. n + 2 = 5 * q + 4 /\ n + 3 = 5 * (q + 1)
            BY <4>1
        <5>3. QED
            BY <5>1, <5>2
      <4>3. QED
          BY <4>1, <4>2 DEF q
    <3>2. (n - 1) \div 5 \in Nat /\ (n + 3) \div 5 \in Nat
        BY <1>1
    <3>3. QED
        BY <1>1, <1>6, <1>7, <1>8, <2>1, <3>1, <3>2
  <2>2. CASE (n - 1) % 5 # 1
    <3>1. (n + 2) \div 5 = (n + 3) \div 5
      <4> DEFINE q == (n + 2) \div 5
                 r == (n + 2) % 5
      <4>1. q \in Nat /\ r \in 0..4 /\ n + 2 = 5 * q + r
          BY <1>1
      <4> HIDE DEF q, r
      <4>2. r # 4
        <5>1. ASSUME r = 4 PROVE FALSE
          <6>1. n - 1 = 5 * q + 1
              BY <1>1, <4>1, <5>1
          <6>2. (5 * q + 1) % 5 = 1
              BY <4>1
          <6>3. QED
              BY <2>2, <6>1, <6>2
        <5>2. QED
            BY <5>1
      <4>3. n + 3 = 5 * q + (r + 1) /\ r + 1 \in 0..4
          BY <1>1, <4>1, <4>2
      <4>4. (n + 3) \div 5 = q
          BY <1>1, <4>1, <4>3
      <4>5. QED
          BY <4>4 DEF q
    <3>2. QED
        BY <1>6, <1>7, <1>8, <2>2, <3>1
  <2>3. QED
      BY <2>1, <2>2
<1>10. IF ends /\ Sound(e) THEN handled' = Append(handled, e) ELSE handled' = handled
    BY WhatIsHandled DEF HandleEvent, replyVars, ends, e
<1>11. /\ Len(handled) = SoundUpTo(m)
       /\ \A j \in 1..m : Sound(written[j]) => handled[SoundUpTo(j)] = written[j]
    BY DEF HeardInv, HandledIsWritten, m
<1>12. m \in Nat /\ SoundUpTo(m) \in Nat /\ SoundUpTo(m + 1) = SoundUpTo(m) + IF Sound(written[m + 1]) THEN 1 ELSE 0
  <2>1. m \in Nat
      BY <1>1, <1>6
  <2>2. QED
      BY <2>1, SoundCounts
<1>13. ASSUME NEW j \in 1..m, Sound(written[j])
       PROVE  SoundUpTo(j) \in 1..Len(handled)
  <2>1. j - 1 \in Nat /\ (j - 1) + 1 = j /\ j \in 0..m
      BY <1>12
  <2>2. SoundUpTo(j) = SoundUpTo(j - 1) + 1 /\ SoundUpTo(j - 1) \in Nat
      BY <1>13, <2>1, SoundCounts
  <2>3. SoundUpTo(j) <= SoundUpTo(m)
      BY <1>12, <2>1, SoundCounts
  <2>4. QED
      BY <1>11, <1>12, <2>2, <2>3
<1>14. \A k : SoundUpTo(k)' = SoundUpTo(k)
    BY <1>1 DEF SoundUpTo, Sound
<1>15. /\ Len(handled') = SoundUpTo(Arrived')
       /\ \A j \in 1..Arrived' : Sound(written[j]) => handled'[SoundUpTo(j)] = written[j]
  <2>1. CASE ends /\ Sound(e)
    <3>1. e \in Events
        BY <1>1, <1>9, <2>1 DEF w
    <3>2. /\ Len(handled') = Len(handled) + 1
          /\ \A k \in 1..Len(handled) : handled'[k] = handled[k]
          /\ handled'[Len(handled) + 1] = e
      <4>1. handled' = Append(handled, e)
          BY <1>10, <2>1
      <4>2. handled \in Seq(Events)
          BY <1>1
      <4>3. QED
          BY ONLY <3>1, <4>1, <4>2, AppendProperties
    <3>3. SoundUpTo(m + 1) = SoundUpTo(m) + 1 /\ Arrived' = m + 1 /\ e = written[m + 1]
        BY <1>9, <1>12, <2>1
    <3>4. ASSUME NEW j \in 1..(m + 1), Sound(written[j]) PROVE handled'[SoundUpTo(j)] = written[j]
      <4>1. CASE j = m + 1
          BY <1>11, <3>2, <3>3, <4>1
      <4>2. CASE j # m + 1
        <5>1. j \in 1..m
            BY <1>12, <4>2
        <5>2. QED
            BY <1>11, <1>13, <3>2, <3>4, <5>1
      <4>3. QED
          BY <4>1, <4>2
    <3>5. QED
        BY <1>11, <3>2, <3>3, <3>4
  <2>2. CASE ends /\ ~Sound(e)
    <3>1. SoundUpTo(m + 1) = SoundUpTo(m) /\ Arrived' = m + 1 /\ e = written[m + 1] /\ handled' = handled
        BY <1>9, <1>10, <1>12, <2>2
    <3>2. \A j \in 1..(m + 1) : j = m + 1 \/ j \in 1..m
        BY <1>12
    <3>3. QED
        BY <1>11, <2>2, <3>1, <3>2
  <2>3. CASE ~ends
      BY <1>9, <1>10, <1>11, <2>3
  <2>4. QED
      BY <2>1, <2>2, <2>3
<1>16. HandledIsWritten'
  <2>1. SoundUpTo(Arrived)' = SoundUpTo(Arrived')
      BY <1>1 DEF SoundUpTo, Sound
  <2>2. QED
      BY <1>1, <1>14, <1>15, <2>1 DEF HandledIsWritten, Sound
<1>17. QED
    BY <1>4, <1>9, <1>16 DEF HeardInv, ends, e, m, w

\* Every other step leaves the stream alone, or begins a new one.
LEMMA OthersHeard ==
    ASSUME IInv, HeardInv, UNCHANGED <<wire, written, handled>>
    PROVE  HeardInv'
<1>1. Placed'
    BY DEF HeardInv, Placed, PieceAt, EventAt
<1>2. Arrived' = Arrived /\ \A k : SoundUpTo(k)' = SoundUpTo(k)
    BY DEF Arrived, SoundUpTo, Sound
<1>3. SoundUpTo(Arrived)' = SoundUpTo(Arrived)
    BY <1>2 DEF SoundUpTo, Sound
<1>4. HandledIsWritten'
    BY <1>2, <1>3 DEF HeardInv, HandledIsWritten, Sound
<1>5. QED
    BY <1>1, <1>4 DEF HeardInv

LEMMA NothingHeard ==
    ASSUME wire = << >>, written = << >>, handled = << >>
    PROVE  HeardInv
<1>1. Placed
    BY DEF Placed
<1>2. Arrived = 0
  <2>1. {i \in DOMAIN wire : wire[i].line.kind = "data" /\ wire[i].part = "tail"} = {}
      OBVIOUS
  <2>2. QED
      BY <2>1, FS_EmptySet DEF Arrived
<1>3. SoundUpTo(0) = 0
    BY SoundCounts
<1>4. QED
    BY <1>1, <1>2, <1>3 DEF HeardInv, HandledIsWritten

LEMMA HeardStep ==
    ASSUME IInv, HeardInv, [Next]_vars
    PROVE  HeardInv'
<1>1. CASE Send
  <2>1. (wire = << >> /\ written = << >> /\ handled = << >>)'
      BY <1>1 DEF Send
  <2>2. (wire = << >> /\ written = << >> /\ handled = << >>)' => HeardInv'
      BY NothingHeard, PTL
  <2>3. QED
      BY <2>1, <2>2
<1>2. CASE SessionStarts \/ CloseStream \/ Tick \/ Complete \/ Break \/ UNCHANGED vars
  <2>1. UNCHANGED <<wire, written, handled>>
      BY <1>2 DEF SessionStarts, CloseStream, Tick, Complete, Break, EndTurn, vars, streamVars, replyVars
  <2>2. QED
      BY <2>1, OthersHeard
<1>3. QED
    BY <1>1, <1>2, WriteHeard, DeliverHeard DEF Next

\* However the network cuts the stream, the page has handled the events that have come whole,
\* each once and in its place, but for those that do not parse (readEventStream).
THEOREM EveryEventHandled == Spec => []HandledIsWritten
<1>1. Init => IInv /\ HeardInv
    BY InitInvariant, NothingHeard DEF Init
<1>2. IInv /\ HeardInv /\ [Next]_vars => (IInv /\ HeardInv)'
    BY StepKeeps, HeardStep DEF Keeps
<1>3. HeardInv => HandledIsWritten
    BY DEF HeardInv
<1>4. QED
    BY <1>1, <1>2, <1>3, PTL DEF Spec

(***************************************************************************)
(* The rows of the Activity panel                                          *)
(*                                                                         *)
(* ToolRows is a recursive function: that there is one, and that it says   *)
(* of a longer trace what it said of the shorter one, is by induction on   *)
(* the numbers.                                                            *)
(***************************************************************************)

\* f[k] is the rows after the first k entries, for k up to n.
Builds(f, entries, t, n) ==
    f = [k \in 0..n |-> IF k = 0 THEN << >>
                        ELSE IF entries[k].turn # t THEN f[k - 1] ELSE WithEntry(f[k - 1], entries[k])]

LEMMA RowsExist ==
    ASSUME NEW entries, NEW t
    PROVE  \A n \in Nat : \E f : Builds(f, entries, t, n)
<1> DEFINE S == {n \in Nat : \E f : Builds(f, entries, t, n)}
<1>1. 0 \in S
  <2>1. Builds([k \in 0..0 |-> << >>], entries, t, 0)
      BY DEF Builds
  <2>2. QED
      BY <2>1
<1>2. ASSUME NEW n \in Nat, n \in S PROVE n + 1 \in S
  <2>1. PICK f : Builds(f, entries, t, n)
      BY <1>2
  <2> DEFINE last == IF entries[n + 1].turn # t THEN f[n] ELSE WithEntry(f[n], entries[n + 1])
             g == [k \in 0..(n + 1) |-> IF k = n + 1 THEN last ELSE f[k]]
  <2>2. g[n] = f[n] /\ \A k \in 0..n : g[k] = f[k]
      OBVIOUS
  <2>3. ASSUME NEW k \in 0..(n + 1)
        PROVE  g[k] = IF k = 0 THEN << >>
                      ELSE IF entries[k].turn # t THEN g[k - 1] ELSE WithEntry(g[k - 1], entries[k])
    <3>1. CASE k = n + 1
      <4>1. k # 0 /\ k - 1 = n /\ g[k] = last
          BY <3>1
      <4>2. QED
          BY <2>2, <3>1, <4>1
    <3>2. CASE k # n + 1
      <4>1. k \in 0..n /\ g[k] = f[k]
          BY <3>2
      <4>2. f[k] = IF k = 0 THEN << >>
                   ELSE IF entries[k].turn # t THEN f[k - 1] ELSE WithEntry(f[k - 1], entries[k])
          BY <2>1, <4>1 DEF Builds
      <4>3. k # 0 => g[k - 1] = f[k - 1]
          BY <2>2, <4>1
      <4> HIDE DEF g, last
      <4>4. QED
          BY <4>1, <4>2, <4>3
    <3>3. QED
        BY <3>1, <3>2
  <2>4. Builds(g, entries, t, n + 1)
    <3>1. g = [k \in 0..(n + 1) |-> g[k]]
        OBVIOUS
    <3> HIDE DEF g
    <3>2. QED
        BY <2>3, <3>1 DEF Builds
  <2>5. QED
      BY <2>4
<1> HIDE DEF S
<1>3. Nat \subseteq S
    BY <1>1, <1>2, SetInduction
<1>4. QED
    BY <1>3 DEF S

LEMMA RowsAgree ==
    ASSUME NEW a, NEW b, NEW t, NEW m \in Nat, NEW n \in Nat, m <= n,
           \A k \in 1..m : a[k] = b[k],
           NEW f, NEW g, Builds(f, a, t, m), Builds(g, b, t, n)
    PROVE  f[m] = g[m]
<1> DEFINE S == {k \in Nat : k <= m => f[k] = g[k]}
<1>1. 0 \in S
    BY DEF Builds
<1>2. ASSUME NEW k \in Nat, k \in S PROVE k + 1 \in S
  <2>1. SUFFICES ASSUME k + 1 <= m PROVE f[k + 1] = g[k + 1]
      OBVIOUS
  <2>2. f[k] = g[k] /\ k + 1 \in 0..m /\ k + 1 \in 0..n /\ k + 1 \in 1..m /\ k + 1 # 0 /\ (k + 1) - 1 = k
      BY <1>2, <2>1
  <2>3. f[k + 1] = IF a[k + 1].turn # t THEN f[(k + 1) - 1] ELSE WithEntry(f[(k + 1) - 1], a[k + 1])
      BY <2>2 DEF Builds
  <2>4. g[k + 1] = IF b[k + 1].turn # t THEN g[(k + 1) - 1] ELSE WithEntry(g[(k + 1) - 1], b[k + 1])
      BY <2>2 DEF Builds
  <2>5. QED
      BY <2>2, <2>3, <2>4
<1> HIDE DEF S
<1>3. Nat \subseteq S
    BY <1>1, <1>2, SetInduction
<1>4. QED
    BY <1>3 DEF S

LEMMA ToolRowsBuilt ==
    ASSUME NEW entries, NEW t, Len(entries) \in Nat, NEW f, Builds(f, entries, t, Len(entries))
    PROVE  ToolRows(entries, t) = f[Len(entries)]
<1> DEFINE g == CHOOSE h : Builds(h, entries, t, Len(entries))
<1>1. Builds(g, entries, t, Len(entries))
    BY RowsExist
<1>2. ToolRows(entries, t) = g[Len(entries)]
    BY DEF ToolRows, Builds
<1> HIDE DEF g
<1>3. QED
    BY <1>1, <1>2, RowsAgree

\* A trace that is one entry longer.
LEMMA RowsOfLonger ==
    ASSUME NEW S, NEW entries \in Seq(S), NEW e \in S, NEW t
    PROVE  ToolRows(Append(entries, e), t) =
             IF e.turn # t THEN ToolRows(entries, t) ELSE WithEntry(ToolRows(entries, t), e)
<1> DEFINE n == Len(entries)
           more == Append(entries, e)
<1>1. /\ n \in Nat /\ Len(more) = n + 1 /\ more[n + 1] = e
      /\ \A k \in 1..n : entries[k] = more[k]
    BY AppendProperties
<1> HIDE DEF n, more
<1>2. PICK f : Builds(f, entries, t, n)
    BY <1>1, RowsExist
<1>3. PICK g : Builds(g, more, t, n + 1)
  <2>1. n + 1 \in Nat
      BY <1>1
  <2>2. \E g : Builds(g, more, t, n + 1)
      BY <2>1, RowsExist
  <2>3. QED
      BY <2>2
<1>4. ToolRows(entries, t) = f[n] /\ ToolRows(more, t) = g[n + 1]
  <2>1. ToolRows(more, t) = g[n + 1]
      BY <1>1, <1>3, ToolRowsBuilt
  <2>2. ToolRows(entries, t) = f[n]
      BY <1>1, <1>2, ToolRowsBuilt DEF n
  <2>3. QED
      BY <2>1, <2>2
<1>5. g[n + 1] = IF more[n + 1].turn # t THEN g[n] ELSE WithEntry(g[n], more[n + 1])
  <2>1. n + 1 \in 0..(n + 1) /\ n + 1 # 0 /\ (n + 1) - 1 = n
      BY <1>1
  <2>2. QED
      BY <1>3, <2>1 DEF Builds
<1>6. f[n] = g[n]
  <2> DEFINE h == [k \in 0..n |-> g[k]]
  <2>1. h[n] = g[n]
      BY <1>1
  <2>2. ASSUME NEW k \in 0..n
        PROVE  h[k] = IF k = 0 THEN << >>
                      ELSE IF more[k].turn # t THEN h[k - 1] ELSE WithEntry(h[k - 1], more[k])
    <3>1. k \in 0..(n + 1) /\ h[k] = g[k] /\ (k # 0 => k - 1 \in 0..n /\ h[k - 1] = g[k - 1])
        BY <1>1
    <3>2. g[k] = IF k = 0 THEN << >>
                 ELSE IF more[k].turn # t THEN g[k - 1] ELSE WithEntry(g[k - 1], more[k])
        BY <1>3, <3>1 DEF Builds
    <3> HIDE DEF h
    <3>3. QED
        BY <3>1, <3>2
  <2>3. Builds(h, more, t, n)
    <3>1. h = [k \in 0..n |-> h[k]]
        OBVIOUS
    <3> HIDE DEF h
    <3>2. QED
        BY <2>2, <3>1 DEF Builds
  <2> HIDE DEF h
  <2>4. f[n] = h[n]
      BY <1>1, <1>2, <2>3, RowsAgree
  <2>5. QED
      BY <2>1, <2>4
<1>7. QED
    BY <1>1, <1>4, <1>5, <1>6 DEF more

\* A reply nothing was traced of has no rows.
LEMMA RowsOfNothing ==
    ASSUME NEW entries, NEW t, Len(entries) \in Nat, \A k \in 1..Len(entries) : entries[k].turn # t
    PROVE  ToolRows(entries, t) = << >>
<1> DEFINE n == Len(entries)
           f == [k \in 0..n |-> << >>]
<1>1. Builds(f, entries, t, n)
  <2>1. \A k \in 0..n : k # 0 => k \in 1..n /\ k - 1 \in 0..n
      OBVIOUS
  <2>2. QED
      BY <2>1 DEF Builds
<1>2. f[n] = << >>
    OBVIOUS
<1> HIDE DEF f
<1>3. QED
    BY <1>1, <1>2, ToolRowsBuilt

RowSet == [tool : Tools, result : {"none", "ok", "error", "blocked"}]
RowStatuses == {"running", "ok", "error", "blocked"}
RowCount(rows, tool, status) ==
    Cardinality({i \in DOMAIN rows : rows[i].tool = tool /\ RowStatus(rows[i]) = status})

LEMMA RowsFinite ==
    ASSUME NEW rows \in Seq(RowSet), NEW tool, NEW status
    PROVE  /\ IsFiniteSet({i \in DOMAIN rows : rows[i].tool = tool /\ RowStatus(rows[i]) = status})
           /\ RowCount(rows, tool, status) \in Nat
<1> DEFINE S == {i \in DOMAIN rows : rows[i].tool = tool /\ RowStatus(rows[i]) = status}
<1>1. IsFiniteSet(1..Len(rows)) /\ S \in SUBSET (1..Len(rows))
    BY FS_Interval
<1>2. IsFiniteSet(S)
    BY <1>1, FS_Subset
<1>3. QED
    BY <1>2, FS_CardinalityType DEF RowCount

\* A call opens a row.
LEMMA CallAddsRow ==
    ASSUME NEW rows \in Seq(RowSet), NEW e, e.kind = "tool_call", e.tool \in Tools
    PROVE  /\ WithEntry(rows, e) \in Seq(RowSet)
           /\ \A t \in Tools, s \in RowStatuses :
                RowCount(WithEntry(rows, e), t, s) =
                  RowCount(rows, t, s) + IF t = e.tool /\ s = "running" THEN 1 ELSE 0
<1> DEFINE n == Len(rows)
           more == Append(rows, Row(e.tool, "none"))
<1>1. WithEntry(rows, e) = more
    BY DEF WithEntry
<1>2. Row(e.tool, "none") \in RowSet
    BY DEF Row, RowSet
<1>3. /\ more \in Seq(RowSet) /\ n \in Nat /\ Len(more) = n + 1
      /\ DOMAIN more = 1..(n + 1) /\ DOMAIN rows = 1..n
      /\ more[n + 1] = Row(e.tool, "none") /\ \A i \in 1..n : more[i] = rows[i]
  <2>1. more \in Seq(RowSet) /\ Len(more) = n + 1 /\ n \in Nat
      BY <1>2, AppendProperties
  <2>2. more[n + 1] = Row(e.tool, "none") /\ \A i \in 1..n : more[i] = rows[i]
      BY <1>2, AppendProperties
  <2> HIDE DEF more
  <2>3. QED
      BY <2>1, <2>2
<1> HIDE DEF more, n
<1>4. ASSUME NEW t \in Tools, NEW s \in RowStatuses
      PROVE  RowCount(more, t, s) = RowCount(rows, t, s) + IF t = e.tool /\ s = "running" THEN 1 ELSE 0
  <2> DEFINE S == {i \in 1..(n + 1) : more[i].tool = t /\ RowStatus(more[i]) = s}
             R == {i \in 1..n : rows[i].tool = t /\ RowStatus(rows[i]) = s}
  <2>1. S \in SUBSET (1..(n + 1)) /\ S \cap (1..n) = R
      BY <1>3
  <2>2. n + 1 \in S <=> t = e.tool /\ s = "running"
      BY <1>3 DEF Row, RowStatus
  <2>3. RowCount(more, t, s) = Cardinality(S) /\ RowCount(rows, t, s) = Cardinality(R)
      BY <1>3 DEF RowCount
  <2> HIDE DEF S, R
  <2>4. Cardinality(S) = Cardinality(R) + IF n + 1 \in S THEN 1 ELSE 0
      BY <1>3, <2>1, CountOneMore
  <2>5. QED
      BY <2>2, <2>3, <2>4
<1>5. QED
    BY <1>1, <1>3, <1>4

\* A result ends a row, if one is open.
LEMMA ResultEndsRow ==
    ASSUME NEW rows \in Seq(RowSet), NEW e, e.kind = "tool_result", e.tool \in Tools,
           e.how \in {"ok", "error", "blocked"}, RowCount(rows, e.tool, "running") > 0
    PROVE  /\ WithEntry(rows, e) \in Seq(RowSet)
           /\ \A t \in Tools, s \in RowStatuses :
                RowCount(WithEntry(rows, e), t, s) =
                  IF t = e.tool /\ s = "running" THEN RowCount(rows, t, s) - 1
                  ELSE IF t = e.tool /\ s = e.how THEN RowCount(rows, t, s) + 1 ELSE RowCount(rows, t, s)
<1> DEFINE n == Len(rows)
           open == OpenRows(rows, e.tool)
           k == CHOOSE i \in open : \A j \in open : i <= j
           ended == [rows EXCEPT ![k] = Row(e.tool, e.how)]
<1>1. n \in Nat /\ DOMAIN rows = 1..n /\ \A i \in 1..n : rows[i] \in RowSet
    OBVIOUS
<1>2. open # {} /\ open \subseteq Nat
  <2> DEFINE S == {i \in DOMAIN rows : rows[i].tool = e.tool /\ RowStatus(rows[i]) = "running"}
  <2>1. S # {}
    <3>1. Cardinality(S) > 0
        BY DEF RowCount
    <3> HIDE DEF S
    <3>2. ASSUME S = {} PROVE FALSE
      <4>1. Cardinality({}) = 0
          BY FS_EmptySet
      <4>2. QED
          BY <3>1, <3>2, <4>1
    <3>3. QED
        BY <3>2
  <2>2. PICK i \in DOMAIN rows : rows[i].tool = e.tool /\ RowStatus(rows[i]) = "running"
      BY <2>1
  <2>3. rows[i] = Row(e.tool, "none")
      BY <1>1, <2>2 DEF RowSet, RowStatus, Row
  <2>4. i \in open
      BY <2>3 DEF OpenRows
  <2>5. QED
      BY <1>1, <2>4 DEF OpenRows
<1>3. k \in open
  <2>1. \E i \in open : \A j \in open : i <= j
      BY <1>2, Least
  <2>2. QED
      BY <2>1
<1>4. k \in 1..n /\ rows[k] = Row(e.tool, "none")
    BY <1>1, <1>3 DEF OpenRows
<1>5. WithEntry(rows, e) = ended
    BY <1>2 DEF WithEntry
<1>6. Row(e.tool, e.how) \in RowSet
    BY DEF Row, RowSet
<1> HIDE DEF k, open
<1>7. /\ ended \in Seq(RowSet) /\ DOMAIN ended = 1..n
      /\ \A i \in 1..n : ended[i] = IF i = k THEN Row(e.tool, e.how) ELSE rows[i]
    BY <1>1, <1>4, <1>6, ExceptSeq
<1> HIDE DEF ended, n
<1>8. ASSUME NEW t \in Tools, NEW s \in RowStatuses
      PROVE  RowCount(ended, t, s) =
               IF t = e.tool /\ s = "running" THEN RowCount(rows, t, s) - 1
               ELSE IF t = e.tool /\ s = e.how THEN RowCount(rows, t, s) + 1 ELSE RowCount(rows, t, s)
  <2> DEFINE S == {i \in 1..n : ended[i].tool = t /\ RowStatus(ended[i]) = s}
             R == {i \in 1..n : rows[i].tool = t /\ RowStatus(rows[i]) = s}
  <2>1. RowCount(ended, t, s) = Cardinality(S) /\ RowCount(rows, t, s) = Cardinality(R)
      BY <1>1, <1>7 DEF RowCount
  <2>2. IsFiniteSet(R) /\ Cardinality(R) \in Nat
    <3>1. IsFiniteSet(1..n) /\ R \in SUBSET (1..n)
        BY <1>1, FS_Interval
    <3> HIDE DEF R
    <3>2. QED
        BY <3>1, FS_Subset, FS_CardinalityType
  <2>3. \A i \in (1..n) \ {k} : i \in S <=> i \in R
      BY <1>7
  <2>4. k \in R <=> t = e.tool /\ s = "running"
      BY <1>4 DEF Row, RowStatus
  <2>5. k \in S <=> t = e.tool /\ s = e.how
      BY <1>4, <1>7 DEF Row, RowStatus
  <2>6. S \subseteq 1..n /\ R \subseteq 1..n
      OBVIOUS
  <2> HIDE DEF S, R
  <2>7. CASE t = e.tool /\ s = "running"
    <3>1. S = R \ {k} /\ k \in R
        BY <2>3, <2>4, <2>5, <2>6, <2>7
    <3>2. QED
        BY <2>1, <2>2, <2>7, <3>1, FS_RemoveElement
  <2>8. CASE t = e.tool /\ s = e.how
    <3>1. S = R \cup {k} /\ k \notin R /\ s # "running"
        BY <1>4, <2>3, <2>4, <2>5, <2>6, <2>8
    <3>2. Cardinality(R \cup {k}) = Cardinality(R) + 1
        BY <2>2, <3>1, FS_AddElement
    <3>3. QED
        BY <2>1, <2>8, <3>1, <3>2
  <2>9. CASE ~(t = e.tool /\ s = "running") /\ ~(t = e.tool /\ s = e.how)
    <3>1. \A i \in 1..n : i \in S <=> i \in R
        BY <2>3, <2>4, <2>5, <2>9
    <3>3. S = R
        BY ONLY <2>6, <3>1, Zenon
    <3>2. QED
        BY <2>1, <2>9, <3>3
  <2>10. QED
      BY <2>7, <2>8, <2>9
<1>9. QED
    BY <1>5, <1>7, <1>8

(***************************************************************************)
(* The tools as the stream told them                                       *)
(*                                                                         *)
(* A result is only written of a call that is open, and the calls and      *)
(* results handled are those among the events that have arrived.  So every *)
(* result the page handles finds a row to end, and the line of activity    *)
(* belongs to a tool that is owed its result.                              *)
(***************************************************************************)

\* Among the first k events of the reply.
CountUpTo(seq, k, type, tool) == Cardinality({i \in 1..k : seq[i].type = type /\ seq[i].tool = tool})
OwedUpTo(seq, k, tool) == CountUpTo(seq, k, "tool_call", tool) - CountUpTo(seq, k, "tool_result", tool)

\* A result, or a line of progress, is of a call that was open when it was written.
Answerable ==
    \A k \in 1..Len(written) :
      written[k].type \in {"tool_result", "progress"} => OwedUpTo(written, k - 1, written[k].tool) > 0

\* The calls and results handled are those that have arrived.
HandledCounts ==
    \A type \in {"tool_call", "tool_result"}, tool \in Tools :
      Count(handled, type, tool) = CountUpTo(written, Arrived, type, tool)

\* The results of a tool that said so.
HowCount(seq, tool, how) == Cardinality({i \in DOMAIN seq : seq[i] = Event("tool_result", tool, how)})

\* The rows say of each tool what some events say.
AsHandled(rows, seq) ==
    /\ rows \in Seq(RowSet)
    /\ \A t \in Tools :
         /\ RowCount(rows, t, "running") = Owed(seq, t)
         /\ \A how \in {"ok", "error", "blocked"} : RowCount(rows, t, how) = HowCount(seq, t, how)

EntryOf(t, e) == [turn |-> t, kind |-> e.type, tool |-> e.tool, how |-> e.how]
Entries == {EntryOf(t, e) : t \in Nat, e \in Events}

\* Nothing was traced of a reply to come, and the panel on the newest one is right.
RowsInv ==
    /\ trace \in Seq(Entries)
    /\ \A k \in 1..Len(trace) : trace[k].turn <= turn
    /\ turn > 0 => AsHandled(ToolRows(trace, turn), handled)

\* A line of progress is of the tool the page remembers, which is owed its result.
LineInv ==
    turn > 0 /\ Item.activity.by = "progress" =>
      /\ Item.activity.tool = progressTool
      /\ progressTool \in Tools
      /\ Owed(handled, progressTool) > 0

ToolInv == Answerable /\ HandledCounts /\ RowsInv /\ LineInv

LEMMA CountsGrow ==
    ASSUME NEW seq \in Seq(Events), NEW e \in Events
    PROVE  /\ \A type, tool :
                /\ Count(seq, type, tool) \in Nat
                /\ Count(Append(seq, e), type, tool) =
                     Count(seq, type, tool) + IF e.type = type /\ e.tool = tool THEN 1 ELSE 0
           /\ \A tool, how :
                /\ HowCount(seq, tool, how) \in Nat
                /\ HowCount(Append(seq, e), tool, how) =
                     HowCount(seq, tool, how) + IF e = Event("tool_result", tool, how) THEN 1 ELSE 0
<1> DEFINE n == Len(seq)
           more == Append(seq, e)
<1>1. n \in Nat /\ DOMAIN seq = 1..n /\ more \in Seq(Events) /\ Len(more) = n + 1
    BY AppendProperties
<1>2. more[n + 1] = e /\ \A i \in 1..n : more[i] = seq[i]
    BY AppendProperties
<1> HIDE DEF more
<1>3. DOMAIN more = 1..(n + 1)
    BY <1>1
<1> HIDE DEF n
<1>4. ASSUME NEW type, NEW tool
      PROVE  /\ Count(seq, type, tool) \in Nat
             /\ Count(more, type, tool) = Count(seq, type, tool) + IF e.type = type /\ e.tool = tool THEN 1 ELSE 0
  <2> DEFINE S == {i \in 1..(n + 1) : more[i].type = type /\ more[i].tool = tool}
             R == {i \in 1..n : seq[i].type = type /\ seq[i].tool = tool}
  <2>1. S \in SUBSET (1..(n + 1)) /\ S \cap (1..n) = R
      BY <1>1, <1>2
  <2>2. n + 1 \in S <=> e.type = type /\ e.tool = tool
      BY <1>1, <1>2
  <2>3. Count(more, type, tool) = Cardinality(S) /\ Count(seq, type, tool) = Cardinality(R)
      BY <1>1, <1>3 DEF Count
  <2> HIDE DEF S, R
  <2>4. Cardinality(S) = Cardinality(R) + (IF n + 1 \in S THEN 1 ELSE 0) /\ Cardinality(R) \in Nat
      BY <1>1, <2>1, CountOneMore
  <2>5. QED
      BY <2>2, <2>3, <2>4
<1>5. ASSUME NEW tool, NEW how
      PROVE  /\ HowCount(seq, tool, how) \in Nat
             /\ HowCount(more, tool, how) = HowCount(seq, tool, how) + IF e = Event("tool_result", tool, how) THEN 1 ELSE 0
  <2> DEFINE S == {i \in 1..(n + 1) : more[i] = Event("tool_result", tool, how)}
             R == {i \in 1..n : seq[i] = Event("tool_result", tool, how)}
  <2>1. S \in SUBSET (1..(n + 1)) /\ S \cap (1..n) = R
      BY <1>1, <1>2
  <2>2. n + 1 \in S <=> e = Event("tool_result", tool, how)
      BY <1>1, <1>2
  <2>3. HowCount(more, tool, how) = Cardinality(S) /\ HowCount(seq, tool, how) = Cardinality(R)
      BY <1>1, <1>3 DEF HowCount
  <2> HIDE DEF S, R
  <2>4. Cardinality(S) = Cardinality(R) + (IF n + 1 \in S THEN 1 ELSE 0) /\ Cardinality(R) \in Nat
      BY <1>1, <2>1, CountOneMore
  <2>5. QED
      BY <2>2, <2>3, <2>4
<1>6. QED
    BY <1>4, <1>5 DEF more

LEMMA CountsUpTo ==
    ASSUME NEW n \in Nat, NEW type, NEW tool
    PROVE  /\ CountUpTo(written, n, type, tool) \in Nat
           /\ CountUpTo(written, 0, type, tool) = 0
           /\ CountUpTo(written, n + 1, type, tool) =
                CountUpTo(written, n, type, tool) + IF written[n + 1].type = type /\ written[n + 1].tool = tool THEN 1 ELSE 0
<1> DEFINE S(k) == {i \in 1..k : written[i].type = type /\ written[i].tool = tool}
<1>1. S(n + 1) \in SUBSET (1..(n + 1)) /\ S(n + 1) \cap (1..n) = S(n) /\ S(0) = {}
    OBVIOUS
<1>2. n + 1 \in S(n + 1) <=> written[n + 1].type = type /\ written[n + 1].tool = tool
    OBVIOUS
<1>3. \A k : CountUpTo(written, k, type, tool) = Cardinality(S(k))
    BY DEF CountUpTo
<1> HIDE DEF S
<1>4. /\ Cardinality(S(n)) \in Nat
      /\ Cardinality(S(n + 1)) = Cardinality(S(n)) + IF n + 1 \in S(n + 1) THEN 1 ELSE 0
    BY <1>1, CountOneMore
<1>5. Cardinality(S(0)) = 0
    BY <1>1, FS_EmptySet
<1>6. QED
    BY <1>2, <1>3, <1>4, <1>5

\* An event handled, and its entry, do the same to the counts.
LEMMA RowsFollow ==
    ASSUME NEW rows, NEW seq \in Seq(Events), AsHandled(rows, seq), NEW t \in Nat, NEW e \in Events,
           e.type = "tool_result" => Owed(seq, e.tool) > 0
    PROVE  /\ AsHandled(WithEntry(rows, EntryOf(t, e)), Append(seq, e))
           /\ e.type \notin {"tool_call", "tool_result"} => AsHandled(rows, Append(seq, e))
<1> DEFINE x == EntryOf(t, e)
           more == Append(seq, e)
<1>1. rows \in Seq(RowSet) /\ x.kind = e.type /\ x.tool = e.tool /\ x.how = e.how
    BY DEF AsHandled, EntryOf
<1>2. /\ e = Event(e.type, e.tool, e.how)
      /\ e.type \in {"tool_call", "tool_result"} => e.tool \in Tools
      /\ e.type = "tool_result" => e.how \in {"ok", "error", "blocked"}
    BY EventShape
<1>3. ASSUME NEW tool \in Tools
      PROVE  /\ Owed(seq, tool) \in Int
             /\ Owed(more, tool) = Owed(seq, tool) + (IF e.tool = tool /\ e.type = "tool_call" THEN 1 ELSE 0)
                                                   - (IF e.tool = tool /\ e.type = "tool_result" THEN 1 ELSE 0)
    BY CountsGrow DEF Owed
<1>4. ASSUME NEW tool, NEW how
      PROVE  /\ HowCount(seq, tool, how) \in Nat
             /\ HowCount(more, tool, how) = HowCount(seq, tool, how) +
                  IF e.type = "tool_result" /\ e.tool = tool /\ e.how = how THEN 1 ELSE 0
  <2>1. e = Event("tool_result", tool, how) <=> e.type = "tool_result" /\ e.tool = tool /\ e.how = how
    <3>1. e = [type |-> e.type, tool |-> e.tool, how |-> e.how]
        BY <1>2 DEF Event
    <3>2. QED
        BY <3>1 DEF Event
  <2>2. QED
      BY <2>1, CountsGrow
<1> HIDE DEF x, more
<1>5. CASE e.type = "tool_call"
  <2>1. /\ WithEntry(rows, x) \in Seq(RowSet)
        /\ \A u \in Tools, s \in RowStatuses :
             RowCount(WithEntry(rows, x), u, s) =
               RowCount(rows, u, s) + IF u = x.tool /\ s = "running" THEN 1 ELSE 0
      BY <1>1, <1>2, <1>5, CallAddsRow
  <2>2. ASSUME NEW u \in Tools
        PROVE  RowCount(WithEntry(rows, x), u, "running") = Owed(more, u)
    <3>1. RowCount(WithEntry(rows, x), u, "running") = Owed(seq, u) + IF u = e.tool THEN 1 ELSE 0
        BY <1>1, <2>1 DEF AsHandled, RowStatuses
    <3>2. QED
        BY <1>3, <1>5, <3>1
  <2>3. ASSUME NEW u \in Tools, NEW how \in {"ok", "error", "blocked"}
        PROVE  RowCount(WithEntry(rows, x), u, how) = HowCount(more, u, how)
    <3>1. RowCount(WithEntry(rows, x), u, how) = HowCount(seq, u, how) + 0
        BY <2>1 DEF AsHandled, RowStatuses
    <3>2. QED
        BY <1>4, <1>5, <3>1
  <2>4. QED
      BY <1>5, <2>1, <2>2, <2>3 DEF AsHandled, x, more
<1>6. CASE e.type = "tool_result"
  <2>1. RowCount(rows, x.tool, "running") > 0
      BY <1>1, <1>2, <1>6 DEF AsHandled
  <2>2. /\ WithEntry(rows, x) \in Seq(RowSet)
        /\ \A u \in Tools, s \in RowStatuses :
             RowCount(WithEntry(rows, x), u, s) =
               IF u = x.tool /\ s = "running" THEN RowCount(rows, u, s) - 1
               ELSE IF u = x.tool /\ s = x.how THEN RowCount(rows, u, s) + 1 ELSE RowCount(rows, u, s)
      BY <1>1, <1>2, <1>6, <2>1, ResultEndsRow
  <2>3. ASSUME NEW u \in Tools
        PROVE  RowCount(WithEntry(rows, x), u, "running") = Owed(more, u)
    <3>1. RowCount(WithEntry(rows, x), u, "running") =
            IF u = e.tool THEN Owed(seq, u) - 1 ELSE Owed(seq, u)
      <4>1. RowCount(rows, u, "running") = Owed(seq, u)
          BY DEF AsHandled
      <4>2. x.how # "running"
          BY <1>1, <1>2, <1>6
      <4>3. QED
          BY <1>1, <2>2, <4>1, <4>2 DEF RowStatuses
    <3>2. QED
        BY <1>3, <1>6, <3>1
  <2>4. ASSUME NEW u \in Tools, NEW how \in {"ok", "error", "blocked"}
        PROVE  RowCount(WithEntry(rows, x), u, how) = HowCount(more, u, how)
    <3>1. RowCount(WithEntry(rows, x), u, how) =
            IF u = e.tool /\ how = e.how THEN HowCount(seq, u, how) + 1 ELSE HowCount(seq, u, how)
      <4>1. RowCount(rows, u, how) = HowCount(seq, u, how)
          BY DEF AsHandled
      <4>2. QED
          BY <1>1, <2>2, <4>1 DEF RowStatuses
    <3>2. QED
        BY <1>4, <1>6, <3>1
  <2>5. QED
      BY <1>6, <2>2, <2>3, <2>4 DEF AsHandled, x, more
<1>7. CASE e.type \notin {"tool_call", "tool_result"}
  <2>1. WithEntry(rows, x) = rows
      BY <1>1, <1>7 DEF WithEntry
  <2>2. \A u \in Tools : Owed(more, u) = Owed(seq, u)
      BY <1>3, <1>7
  <2>3. \A u, how : HowCount(more, u, how) = HowCount(seq, u, how)
      BY <1>4, <1>7
  <2>4. AsHandled(rows, more)
      BY <2>2, <2>3 DEF AsHandled
  <2>5. QED
      BY <2>1, <2>4 DEF x, more
<1>8. QED
    BY <1>5, <1>6, <1>7

LEMMA WriteTools ==
    ASSUME IInv, HeardInv, ToolInv, NEW e \in Events, Write(e)
    PROVE  Answerable' /\ HandledCounts'
<1> DEFINE w == Len(written)
<1>1. /\ written \in Seq(Events) /\ w \in Nat /\ handled' = handled
      /\ written' = Append(written, e) /\ Plausible(e)
    BY DEF IInv, TypeOK, Write, replyVars
<1>2. Len(written') = w + 1 /\ written'[w + 1] = e /\ \A i \in 1..w : written'[i] = written[i]
    BY <1>1, AppendProperties
<1>3. Arrived' = Arrived /\ Arrived \in 0..w
    BY WriteHeard
<1>4. ASSUME NEW k \in 0..w, NEW type, NEW tool
      PROVE  CountUpTo(written', k, type, tool) = CountUpTo(written, k, type, tool)
  <2>1. {i \in 1..k : written'[i].type = type /\ written'[i].tool = tool}
          = {i \in 1..k : written[i].type = type /\ written[i].tool = tool}
      BY <1>1, <1>2
  <2>2. QED
      BY <2>1 DEF CountUpTo
<1>5. HandledCounts'
  <2>1. ASSUME NEW type \in {"tool_call", "tool_result"}, NEW tool \in Tools
        PROVE  Count(handled', type, tool) = CountUpTo(written', Arrived', type, tool)
      BY <1>1, <1>3, <1>4 DEF ToolInv, HandledCounts
  <2>2. QED
      BY <2>1 DEF HandledCounts
<1>6. ASSUME NEW k \in 1..(w + 1), written'[k].type \in {"tool_result", "progress"}
      PROVE  OwedUpTo(written', k - 1, written'[k].tool) > 0
  <2>1. k - 1 \in 0..w
      BY <1>1
  <2>2. \A tool : OwedUpTo(written', k - 1, tool) = OwedUpTo(written, k - 1, tool)
      BY <1>4, <2>1 DEF OwedUpTo
  <2>3. OwedUpTo(written, k - 1, written'[k].tool) > 0
    <3>1. CASE k = w + 1
      <4>1. Owed(written, e.tool) > 0
          BY <1>1, <1>2, <1>6, <3>1 DEF Plausible
      <4>2. \A type : Count(written, type, e.tool) = CountUpTo(written, w, type, e.tool)
        <5>1. DOMAIN written = 1..w
            BY <1>1
        <5> HIDE DEF w
        <5>2. QED
            BY <5>1 DEF Count, CountUpTo
      <4>3. k - 1 = w
          BY <1>1, <3>1
      <4>4. QED
          BY <1>2, <3>1, <4>1, <4>2, <4>3 DEF Owed, OwedUpTo
    <3>2. CASE k # w + 1
      <4>1. k \in 1..w
          BY <1>1, <3>2
      <4>2. QED
          BY <1>2, <1>6, <4>1 DEF ToolInv, Answerable
    <3>3. QED
        BY <3>1, <3>2
  <2>4. QED
      BY <2>2, <2>3
<1>7. Answerable'
  <2>1. \A k \in 1..Len(written') : written'[k].type \in {"tool_result", "progress"}
           => OwedUpTo(written', k - 1, written'[k].tool) > 0
      BY <1>2, <1>6
  <2>2. QED
      BY <2>1 DEF Answerable
<1>8. QED
    BY <1>5, <1>7

\* What an update of the newest reply leaves.
LEMMA ItemUpdated ==
    ASSUME IInv, turn > 0, NEW item, Update(item)
    PROVE  turn' = turn /\ Item' = item
<1>1. replies \in Seq(Reply) /\ turn \in 1..Len(replies)
    BY ItemOfTheTurn DEF IInv, TypeOK
<1>2. replies' = [replies EXCEPT ![turn] = item]
    BY DEF Update
<1> HIDE DEF turn
<1>3. replies \in Seq(Reply \cup {item})
    BY <1>1
<1>4. Len(replies') = Len(replies) /\ replies'[turn] = item
    BY <1>1, <1>2, <1>3, ExceptSeq
<1>5. QED
    BY <1>4 DEF turn, Item

\* What the handler does to the line of activity, by the tool it is of.
LEMMA LineAfter ==
    ASSUME IInv, turn > 0, NEW e \in Events, HandleEvent(e)
    PROVE  /\ turn' = turn
           /\ \/ Item'.activity.by # "progress"
              \/ e.type = "progress" /\ Item'.activity.tool = e.tool /\ progressTool' = e.tool
              \/ /\ Item'.activity = Item.activity
                 /\ progressTool' = progressTool
                 /\ e.type \notin {"tool_call", "progress"}
                 /\ e.type = "tool_result" => e.tool # progressTool
<1>1. Item \in Reply
    BY ItemOfTheTurn
<1>2. Committed(Item).activity = NoActivity
    BY <1>1 DEF Committed, Reply
<1>3. NoActivity.by # "progress"
    BY DEF NoActivity
<1>4. replies' = replies => turn' = turn /\ Item' = Item
    BY DEF turn, Item
<1>5. CASE TextDelta(e)
  <2> DEFINE item == [Item EXCEPT !.pieces = Joined(Item.pieces, e.how), !.activity = NoActivity]
  <2>1. Update(item)
      BY <1>5 DEF TextDelta
  <2>2. item.activity = NoActivity
      BY <1>1 DEF Reply
  <2> HIDE DEF item
  <2>3. QED
      BY <1>3, <2>1, <2>2, ItemUpdated
<1>6. CASE UiPartial(e) \/ UiFinal(e)
  <2>1. Update(Committed(Item)) \/ (replies' = replies /\ progressTool' = progressTool)
      BY <1>6 DEF UiPartial, UiFinal
  <2>2. e.type \in {"ui_partial", "ui"}
      BY <1>6 DEF UiPartial, UiFinal
  <2>3. CASE Update(Committed(Item))
      BY <1>2, <1>3, <2>3, ItemUpdated
  <2>4. QED
      BY <1>4, <2>1, <2>2, <2>3
<1>7. CASE UiChips(e)
  <2> DEFINE item == [Item EXCEPT !.chips = TRUE, !.activity = NoActivity]
  <2>1. Update(item)
      BY <1>7 DEF UiChips
  <2>2. item.activity = NoActivity
      BY <1>1 DEF Reply
  <2> HIDE DEF item
  <2>3. QED
      BY <1>3, <2>1, <2>2, ItemUpdated
<1>8. CASE ToolCall(e)
  <2> DEFINE item == [Item EXCEPT !.activity = [by |-> "call", tool |-> e.tool]]
  <2>1. Update(item)
      BY <1>8 DEF ToolCall
  <2>2. item.activity.by = "call"
      BY <1>1 DEF Reply
  <2> HIDE DEF item
  <2>3. QED
      BY <2>1, <2>2, ItemUpdated
<1>9. CASE ToolResult(e)
  <2> DEFINE ended == IF progressTool = e.tool THEN [Item EXCEPT !.activity = NoActivity] ELSE Item
             failed == [ended EXCEPT !.pieces = Marked(@, "card", "failed")]
  <2>1. /\ e.type = "tool_result"
        /\ progressTool' = IF progressTool = e.tool THEN None ELSE progressTool
        /\ Update(failed) \/ Update(ended)
      BY <1>9 DEF ToolResult
  <2>2. failed.activity = ended.activity
      BY <1>1 DEF Reply
  <2>3. ended.activity = IF progressTool = e.tool THEN NoActivity ELSE Item.activity
      BY <1>1 DEF Reply
  <2> HIDE DEF ended, failed
  <2>4. turn' = turn /\ Item'.activity = ended.activity
    <3>1. CASE Update(failed)
        BY <2>2, <3>1, ItemUpdated
    <3>2. CASE Update(ended)
        BY <3>2, ItemUpdated
    <3>3. QED
        BY <2>1, <3>1, <3>2
  <2>5. CASE progressTool = e.tool
      BY <1>3, <2>3, <2>4, <2>5
  <2>6. CASE progressTool # e.tool
      BY <2>1, <2>3, <2>4, <2>6
  <2>7. QED
      BY <2>5, <2>6
<1>10. CASE Progress(e)
  <2> DEFINE item == [Item EXCEPT !.activity = [by |-> "progress", tool |-> e.tool]]
  <2>1. Update(item) /\ progressTool' = e.tool /\ e.type = "progress"
      BY <1>10 DEF Progress
  <2>2. item.activity.tool = e.tool
      BY <1>1 DEF Reply
  <2> HIDE DEF item
  <2>3. QED
      BY <2>1, <2>2, ItemUpdated
<1>11. CASE ErrorEvent(e)
  <2> DEFINE item == [Item EXCEPT !.pieces = Append(Item.pieces, "error")]
  <2>1. Update(item) /\ progressTool' = progressTool /\ e.type = "error"
      BY <1>11 DEF ErrorEvent
  <2>2. item.activity = Item.activity
      BY <1>1 DEF Reply
  <2> HIDE DEF item
  <2>3. QED
      BY <2>1, <2>2, ItemUpdated
<1>12. CASE TurnComplete(e)
  <2>1. replies' = replies /\ progressTool' = progressTool /\ e.type = "turn_complete"
      BY <1>12 DEF TurnComplete
  <2>2. QED
      BY <1>4, <2>1
<1>13. QED
    BY <1>5, <1>6, <1>7, <1>8, <1>9, <1>10, <1>11, <1>12 DEF HandleEvent

LEMMA TraceAfter ==
    ASSUME NEW e \in Events, HandleEvent(e)
    PROVE  \/ trace' = Append(trace, EntryOf(turn, e))
           \/ trace' = trace /\ e.type \notin {"tool_call", "tool_result"}
<1>1. CASE TextDelta(e) \/ UiPartial(e) \/ UiFinal(e) \/ UiChips(e) \/ Progress(e)
    BY <1>1 DEF TextDelta, UiPartial, UiFinal, UiChips, Progress
<1>2. CASE ToolCall(e) \/ ToolResult(e) \/ ErrorEvent(e) \/ TurnComplete(e)
    BY <1>2 DEF ToolCall, ToolResult, ErrorEvent, TurnComplete, Traced, EntryOf
<1>3. QED
    BY <1>1, <1>2 DEF HandleEvent

\* The handler keeps the rows and the line, given that a result or a line of progress is of a
\* call the page knows to be open.
LEMMA HandlerTools ==
    ASSUME IInv, ToolInv, busy, NEW e \in Events, HandleEvent(e),
           e.type \in {"tool_result", "progress"} => Owed(handled, e.tool) > 0
    PROVE  RowsInv' /\ LineInv'
<1>1. /\ turn > 0 /\ turn \in Nat /\ handled \in Seq(Events) /\ handled' = Append(handled, e)
      /\ turn' = turn
  <2>1. turn > 0
      BY DEF IInv, OnlyNewestOpen
  <2>2. turn' = turn
      BY <2>1, LineAfter
  <2>3. turn \in Nat /\ handled \in Seq(Events)
      BY DEF IInv, TypeOK, turn
  <2>4. QED
      BY <2>1, <2>2, <2>3 DEF HandleEvent
<1>2. trace \in Seq(Entries) /\ AsHandled(ToolRows(trace, turn), handled)
    BY <1>1 DEF ToolInv, RowsInv
<1> DEFINE x == EntryOf(turn, e)
<1>3. x \in Entries /\ x.turn = turn
  <2>1. x \in Entries
    <3>1. \A t \in Nat, y \in Events : EntryOf(t, y) \in Entries
        BY DEF Entries
    <3>2. QED
        BY <1>1, <3>1
  <2>2. QED
      BY <2>1 DEF EntryOf
<1>4. /\ AsHandled(WithEntry(ToolRows(trace, turn), x), handled')
      /\ e.type \notin {"tool_call", "tool_result"} => AsHandled(ToolRows(trace, turn), handled')
    BY <1>1, <1>2, RowsFollow
<1>5. AsHandled(ToolRows(trace', turn), handled')
  <2>1. CASE trace' = Append(trace, x)
    <3>1. ToolRows(trace', turn) = WithEntry(ToolRows(trace, turn), x)
        BY <1>2, <1>3, <2>1, RowsOfLonger
    <3>2. QED
        BY <1>4, <3>1
  <2>2. CASE trace' = trace /\ e.type \notin {"tool_call", "tool_result"}
      BY <1>4, <2>2
  <2>3. QED
      BY <2>1, <2>2, TraceAfter
<1>6. trace' \in Seq(Entries) /\ \A k \in 1..Len(trace') : trace'[k].turn <= turn
  <2>1. \A k \in 1..Len(trace) : trace[k].turn <= turn
      BY DEF ToolInv, RowsInv
  <2>2. CASE trace' = Append(trace, x)
    <3>1. /\ Len(Append(trace, x)) = Len(trace) + 1
          /\ Append(trace, x)[Len(trace) + 1] = x
          /\ \A k \in 1..Len(trace) : Append(trace, x)[k] = trace[k]
          /\ Append(trace, x) \in Seq(Entries)
          /\ Len(trace) \in Nat
        BY <1>2, <1>3, AppendProperties
    <3> HIDE DEF x
    <3>2. QED
        BY <1>1, <1>3, <2>1, <2>2, <3>1
  <2>3. QED
      BY <1>2, <2>1, <2>2, TraceAfter
<1>7. RowsInv'
    BY <1>1, <1>5, <1>6 DEF RowsInv
<1>8. LineInv'
  <2>1. SUFFICES ASSUME Item'.activity.by = "progress"
                 PROVE  Item'.activity.tool = progressTool' /\ progressTool' \in Tools /\ Owed(handled', progressTool') > 0
      BY DEF LineInv
  <2>2. \A tool : Owed(handled, tool) \in Int
               /\ Owed(handled', tool) = Owed(handled, tool)
                    + (IF e.type = "tool_call" /\ e.tool = tool THEN 1 ELSE 0)
                    - (IF e.type = "tool_result" /\ e.tool = tool THEN 1 ELSE 0)
    <3>1. handled \in Seq(Events) /\ e \in Events /\ handled' = Append(handled, e)
        BY <1>1
    <3>2. ASSUME NEW type, NEW tool
          PROVE  /\ Count(handled, type, tool) \in Nat
                 /\ Count(handled', type, tool) =
                      Count(handled, type, tool) + IF e.type = type /\ e.tool = tool THEN 1 ELSE 0
        BY <3>1, CountsGrow
    <3>3. QED
        BY <3>2 DEF Owed
  <2>3. CASE e.type = "progress" /\ Item'.activity.tool = e.tool /\ progressTool' = e.tool
    <3>1. e.tool \in Tools
        BY <2>3, EventShape
    <3>2. Owed(handled', e.tool) = Owed(handled, e.tool)
        BY <2>2, <2>3
    <3>3. QED
        BY <2>3, <3>1, <3>2
  <2>4. CASE /\ Item'.activity = Item.activity
             /\ progressTool' = progressTool
             /\ e.type \notin {"tool_call", "progress"}
             /\ e.type = "tool_result" => e.tool # progressTool
    <3>1. Item.activity.tool = progressTool /\ progressTool \in Tools /\ Owed(handled, progressTool) > 0
        BY <1>1, <2>1, <2>4 DEF ToolInv, LineInv
    <3>2. Owed(handled', progressTool) = Owed(handled, progressTool)
        BY <2>2, <2>4
    <3>3. QED
        BY <2>4, <3>1, <3>2
  <2>5. QED
      BY <1>1, <2>1, <2>3, <2>4, LineAfter
<1>9. QED
    BY <1>7, <1>8

LEMMA DeliverTools ==
    ASSUME IInv, HeardInv, ToolInv, Deliver
    PROVE  ToolInv'
<1> DEFINE e == wire[1].line.event
           m == Arrived
           ends == wire[1].line.kind = "data" /\ wire[1].part = "tail"
<1>1. /\ busy /\ wire # << >> /\ written' = written
      /\ wire[1] \in Travelling
    BY DeliverStep DEF Deliver
<1>2. e \in Events
    BY <1>1 DEF Travelling
<1>3. /\ turn > 0
      /\ m \in Nat
  <2>1. Arrived \in 0..Len(written)
      BY ArrivedByPlace DEF HeardInv
  <2>2. turn > 0
      BY <1>1 DEF IInv, OnlyNewestOpen
  <2>3. QED
      BY <2>1, <2>2
<1>4. IF ends /\ Sound(e) THEN HandleEvent(e) ELSE UNCHANGED replyVars
    BY WhatIsHandled
<1>5. IF ends THEN Arrived' = m + 1 /\ e = written[m + 1] /\ m + 1 \in 1..Len(written) ELSE Arrived' = m
    BY DeliverHeard
<1>6. Answerable'
    BY <1>1 DEF ToolInv, Answerable
<1> HIDE DEF e, m, ends
<1>7. /\ \A type, tool :
           CountUpTo(written, m + 1, type, tool) =
             CountUpTo(written, m, type, tool) + IF written[m + 1].type = type /\ written[m + 1].tool = tool THEN 1 ELSE 0
      /\ \A type, tool : CountUpTo(written, m, type, tool) \in Nat
    BY <1>3, CountsUpTo
<1>8. \A type \in {"tool_call", "tool_result"}, tool \in Tools :
        Count(handled, type, tool) = CountUpTo(written, m, type, tool)
    BY DEF ToolInv, HandledCounts, m
<1>9. CASE ends /\ Sound(e)
  <2>1. HandleEvent(e) /\ Arrived' = m + 1 /\ e = written[m + 1] /\ m + 1 \in 1..Len(written)
      BY <1>4, <1>5, <1>9
  <2>2. handled \in Seq(Events) /\ handled' = Append(handled, e)
      BY <2>1 DEF HandleEvent, IInv, TypeOK
  <2>3. \A type, tool :
          Count(handled', type, tool) = Count(handled, type, tool) + IF e.type = type /\ e.tool = tool THEN 1 ELSE 0
      BY <1>2, <2>2, CountsGrow
  <2>4. HandledCounts'
    <3>1. ASSUME NEW type \in {"tool_call", "tool_result"}, NEW tool \in Tools
          PROVE  Count(handled', type, tool) = CountUpTo(written', Arrived', type, tool)
        BY <1>1, <1>7, <1>8, <2>1, <2>3
    <3>2. QED
        BY <3>1 DEF HandledCounts
  <2>5. ASSUME e.type \in {"tool_result", "progress"}
        PROVE  Owed(handled, e.tool) > 0
    <3>1. e.tool \in Tools
        BY <1>2, <2>5, EventShape
    <3>2. OwedUpTo(written, m, e.tool) > 0
      <4>1. (m + 1) - 1 = m
          BY <1>3
      <4>2. OwedUpTo(written, (m + 1) - 1, written[m + 1].tool) > 0
          BY <2>1, <2>5 DEF ToolInv, Answerable
      <4>3. QED
          BY <2>1, <4>1, <4>2
    <3>3. QED
        BY <1>8, <3>1, <3>2 DEF Owed, OwedUpTo
  <2>6. RowsInv' /\ LineInv'
      BY <1>1, <1>2, <2>1, <2>5, HandlerTools
  <2>7. QED
      BY <1>6, <2>4, <2>6 DEF ToolInv
<1>10. CASE ~(ends /\ Sound(e))
  <2>1. UNCHANGED replyVars
      BY <1>4, <1>10
  <2>2. handled' = handled /\ replies' = replies /\ trace' = trace /\ progressTool' = progressTool
      BY <2>1 DEF replyVars
  <2>3. RowsInv' /\ LineInv'
    <3>1. turn' = turn /\ Item' = Item
        BY <2>2 DEF turn, Item
    <3>2. QED
        BY <2>2, <3>1 DEF ToolInv, RowsInv, LineInv
  <2>4. ASSUME NEW type \in {"tool_call", "tool_result"}, NEW tool \in Tools
        PROVE  Count(handled', type, tool) = CountUpTo(written', Arrived', type, tool)
    <3>1. CASE ends
      <4>1. Arrived' = m + 1 /\ e = written[m + 1] /\ e.type = "garbled"
          BY <1>5, <1>10, <3>1 DEF Sound
      <4>2. CountUpTo(written, m + 1, type, tool) = CountUpTo(written, m, type, tool)
          BY <1>7, <4>1
      <4>3. QED
          BY <1>1, <1>8, <2>2, <4>1, <4>2
    <3>2. CASE ~ends
        BY <1>1, <1>5, <1>8, <2>2, <3>2
    <3>3. QED
        BY <3>1, <3>2
  <2>5. HandledCounts'
      BY <2>4 DEF HandledCounts
  <2>6. QED
      BY <1>6, <2>3, <2>5 DEF ToolInv
<1>11. QED
    BY <1>9, <1>10

LEMMA NothingCounted ==
    ASSUME wire = << >>, written = << >>, handled = << >>
    PROVE  HandledCounts
<1>1. {i \in DOMAIN << >> : << >>[i].line.kind = "data" /\ << >>[i].part = "tail"} = {}
    OBVIOUS
<1>2. Arrived = 0
    BY <1>1, FS_EmptySet DEF Arrived
<1>3. ASSUME NEW type, NEW tool
      PROVE  Count(<< >>, type, tool) = 0 /\ CountUpTo(<< >>, 0, type, tool) = 0
  <2>1. {i \in 1..0 : << >>[i].type = type /\ << >>[i].tool = tool} = {}
      OBVIOUS
  <2>2. {i \in DOMAIN << >> : << >>[i].type = type /\ << >>[i].tool = tool} = {}
      OBVIOUS
  <2>3. QED
      BY <2>1, <2>2, FS_EmptySet DEF Count, CountUpTo
<1>4. QED
    BY <1>2, <1>3 DEF HandledCounts

\* A message begins a reply nothing has happened of.
LEMMA SendTools ==
    ASSUME IInv, ToolInv, Send
    PROVE  ToolInv'
<1>1. /\ wire' = << >> /\ written' = << >> /\ handled' = << >> /\ trace' = trace
      /\ replies' = Append(replies, NewReply)
    BY DEF Send
<1>2. replies \in Seq(Reply) /\ turn \in Nat
    BY DEF IInv, TypeOK, turn
<1>3. turn' = turn + 1 /\ Item' = NewReply
  <2>1. NewReply \in Reply
      BY DEF NewReply, NoActivity, Reply, Activity, Pieces
  <2>2. Len(replies') = Len(replies) + 1 /\ replies'[Len(replies) + 1] = NewReply
      BY <1>1, <1>2, <2>1, AppendProperties
  <2>3. QED
      BY <2>2 DEF turn, Item
<1>4. /\ \A type, tool : Count(<< >>, type, tool) = 0
      /\ \A tool, how : HowCount(<< >>, tool, how) = 0
  <2>1. Cardinality({}) = 0
      BY FS_EmptySet
  <2>2. \A type, tool : {i \in DOMAIN << >> : << >>[i].type = type /\ << >>[i].tool = tool} = {}
      OBVIOUS
  <2>3. \A tool, how : {i \in DOMAIN << >> : << >>[i] = Event("tool_result", tool, how)} = {}
      OBVIOUS
  <2>4. QED
      BY <2>1, <2>2, <2>3 DEF Count, HowCount
<1>5. Answerable'
    BY <1>1 DEF Answerable
<1>6. HandledCounts'
  <2>1. (wire = << >> /\ written = << >> /\ handled = << >>)' => HandledCounts'
      BY NothingCounted, PTL
  <2>2. QED
      BY <1>1, <2>1
<1>7. AsHandled(<< >>, << >>)
  <2>1. \A t, s : RowCount(<< >>, t, s) = 0
    <3>1. \A t, s : {i \in DOMAIN << >> : << >>[i].tool = t /\ RowStatus(<< >>[i]) = s} = {}
        OBVIOUS
    <3>2. QED
        BY <3>1, FS_EmptySet DEF RowCount
  <2>2. QED
      BY <1>4, <2>1 DEF AsHandled, Owed
<1>8. ToolRows(trace, turn + 1) = << >>
  <2>1. trace \in Seq(Entries) /\ \A k \in 1..Len(trace) : trace[k].turn <= turn
      BY DEF ToolInv, RowsInv
  <2>2. \A k \in 1..Len(trace) : trace[k].turn # turn + 1
    <3>1. \A x \in Entries : x.turn \in Nat
        BY DEF Entries, EntryOf
    <3>2. \A k \in 1..Len(trace) : trace[k].turn \in Nat
        BY <2>1, <3>1
    <3>3. QED
        BY <1>2, <2>1, <3>2
  <2>3. QED
      BY <2>1, <2>2, RowsOfNothing
<1>9. RowsInv'
  <2>1. trace \in Seq(Entries) /\ \A k \in 1..Len(trace) : trace[k].turn <= turn + 1
    <3>1. \A x \in Entries : x.turn \in Nat
        BY DEF Entries, EntryOf
    <3>2. trace \in Seq(Entries) /\ \A k \in 1..Len(trace) : trace[k].turn <= turn
        BY DEF ToolInv, RowsInv
    <3>3. \A k \in 1..Len(trace) : trace[k].turn \in Nat
        BY <3>1, <3>2
    <3>4. QED
        BY <1>2, <3>2, <3>3
  <2>2. AsHandled(ToolRows(trace', turn'), handled')
      BY <1>1, <1>3, <1>7, <1>8
  <2>3. QED
      BY <1>1, <1>3, <2>1, <2>2 DEF RowsInv
<1>10. LineInv'
    BY <1>3 DEF LineInv, NewReply, NoActivity
<1>11. QED
    BY <1>5, <1>6, <1>9, <1>10 DEF ToolInv

\* The timer and the end of a reply clear its line and touch nothing the panel is built from.
LEMMA QuietTools ==
    ASSUME IInv, ToolInv, Tick \/ Complete \/ Break
    PROVE  ToolInv'
<1>1. turn > 0
    BY DEF IInv, OnlyNewestOpen, Tick, Complete, Break
<1>2. UNCHANGED <<wire, written, handled, trace, progressTool>>
    BY DEF Tick, Complete, Break, EndTurn, streamVars
<1>3. Item \in Reply
    BY <1>1, ItemOfTheTurn
<1>4. turn' = turn /\ Item'.activity = NoActivity
  <2>1. CASE Tick
    <3>1. Update(Committed(Item))
        BY <2>1 DEF Tick
    <3>2. Committed(Item).activity = NoActivity
        BY <1>3 DEF Committed, Reply
    <3>3. QED
        BY <1>1, <3>1, <3>2, ItemUpdated
  <2>2. ASSUME NEW item \in Reply, NEW how, EndTurn(item, how)
        PROVE  turn' = turn /\ Item'.activity = NoActivity
    <3>1. Update(Settled(item, how))
        BY <2>2 DEF EndTurn
    <3>2. Settled(item, how).activity = NoActivity
        BY DEF Settled, Committed, Reply
    <3>3. QED
        BY <1>1, <3>1, <3>2, ItemUpdated
  <2>3. CASE Complete
      BY <1>3, <2>2, <2>3 DEF Complete
  <2>4. CASE Break
    <3> DEFINE item == [Item EXCEPT !.pieces = IF Item.pieces = << >> THEN <<"error">> ELSE Item.pieces]
    <3>1. item \in Reply
      <4>1. Item.pieces \in Seq(Pieces) /\ <<"error">> \in Seq(Pieces)
          BY <1>3 DEF Reply, Pieces
      <4>2. QED
          BY <1>3, <4>1 DEF Reply
    <3>2. EndTurn(item, "broken")
        BY <2>4 DEF Break
    <3>3. QED
        BY <2>2, <3>1, <3>2
  <2>5. QED
      BY <2>1, <2>3, <2>4
<1>5. Arrived' = Arrived
    BY <1>2 DEF Arrived
<1>6. Answerable' /\ HandledCounts'
    BY <1>2, <1>5 DEF ToolInv, Answerable, HandledCounts
<1>7. RowsInv'
    BY <1>2, <1>4 DEF ToolInv, RowsInv
<1>8. LineInv'
    BY <1>4 DEF LineInv, NoActivity
<1>9. QED
    BY <1>6, <1>7, <1>8 DEF ToolInv

LEMMA ToolStep ==
    ASSUME IInv, HeardInv, ToolInv, [Next]_vars
    PROVE  ToolInv'
<1>1. CASE SessionStarts \/ CloseStream \/ UNCHANGED vars
  <2>1. UNCHANGED <<wire, written, handled, trace, progressTool, replies>>
      BY <1>1 DEF SessionStarts, CloseStream, vars, streamVars, replyVars
  <2>2. turn' = turn /\ Item' = Item /\ Arrived' = Arrived
      BY <2>1 DEF turn, Item, Arrived
  <2>3. QED
      BY <2>1, <2>2 DEF ToolInv, Answerable, HandledCounts, RowsInv, LineInv
<1>2. ASSUME NEW e \in Events, Write(e)
      PROVE  ToolInv'
  <2>1. UNCHANGED <<handled, trace, progressTool, replies>>
      BY <1>2 DEF Write, replyVars
  <2>2. turn' = turn /\ Item' = Item
      BY <2>1 DEF turn, Item
  <2>3. RowsInv' /\ LineInv'
      BY <2>1, <2>2 DEF ToolInv, RowsInv, LineInv
  <2>4. QED
      BY <1>2, <2>3, WriteTools DEF ToolInv
<1>3. QED
    BY <1>1, <1>2, DeliverTools, SendTools, QuietTools DEF Next

\* However the network cuts the stream and whichever tools run beside each other, a progress
\* line is of a tool that still owes a result, and the Activity panel shows as running exactly
\* the calls that are owed one (progressToolRef, buildToolRows).
THEOREM ToolsAreAsTold == Spec => []ToolsAsTold
<1>1. Init => IInv /\ HeardInv /\ ToolInv
  <2>1. ASSUME Init PROVE ToolInv
    <3>1. Answerable /\ RowsInv /\ LineInv
      <4>1. written = << >> /\ trace = << >> /\ turn = 0
          BY <2>1 DEF Init, turn
      <4>2. << >> \in Seq(Entries)
          OBVIOUS
      <4>3. QED
          BY <4>1, <4>2 DEF Answerable, RowsInv, LineInv
    <3>2. HandledCounts
        BY <2>1, NothingCounted DEF Init
    <3>3. QED
        BY <3>1, <3>2 DEF ToolInv
  <2>2. QED
      BY <2>1, InitInvariant, NothingHeard DEF Init
<1>2. IInv /\ HeardInv /\ ToolInv /\ [Next]_vars => (IInv /\ HeardInv /\ ToolInv)'
    BY StepKeeps, HeardStep, ToolStep DEF Keeps
<1>3. ToolInv => ToolsAsTold
  <2>1. SUFFICES ASSUME ToolInv, turn > 0
                 PROVE  /\ LineShown(Item).by = "progress" => Owed(handled, LineShown(Item).tool) > 0
                        /\ AsHandled(ToolRows(trace, turn), handled)
      BY DEF ToolsAsTold, AsHandled, Rows, RowCount, StepsOf, HowCount
  <2>2. LineShown(Item).by = "progress" => LineShown(Item) = Item.activity
      BY DEF LineShown, LineUnder, Shimmer, NoActivity
  <2>3. QED
      BY <2>1, <2>2 DEF ToolInv, RowsInv, LineInv
<1>4. QED
    BY <1>1, <1>2, <1>3, PTL DEF Spec
==============================================================================
