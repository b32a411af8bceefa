----------------------------- MODULE Conversation -----------------------------
(***************************************************************************)
(* The conversation of a web page: useAgentTurn as it sends a message,     *)
(* reads the reply's event stream off the network and builds the reply's   *)
(* item, the line of activity under it and the trace the Activity panel    *)
(* shows.                                                                  *)
(*                                                                         *)
(* The service writes each event as an event line, a data line and a blank *)
(* one.  The network cuts the text anywhere: here it may cut the two long  *)
(* lines once each and hands over a piece at a time (a larger chunk is its *)
(* pieces with no other step between them).  A request can fail, and a     *)
(* stream can break, at any time.                                          *)
(*                                                                         *)
(* Prose is a word or blank space.  A reply's card is what module Turn     *)
(* describes in full: here it is one card that may have frames or a final  *)
(* block waiting for a timer, because what waits changes the reply when it *)
(* lands.                                                                  *)
(***************************************************************************)
EXTENDS Integers, Sequences, FiniteSets

CONSTANTS
    Tools,         \* the tools a reply may call
    Presenter,     \* the one of them whose arguments make a card
    MaxTurns,      \* the messages sent (bound)
    MaxSpent,      \* the messages sent and the events written, together (bound)
    MaxWire,       \* the pieces on their way when the service writes its next event (bound)
    None           \* no tool

ASSUME ConversationAssumption ==
    /\ Presenter \in Tools
    /\ None \notin Tools
    /\ MaxTurns \in Nat
    /\ MaxSpent \in Nat
    /\ MaxWire \in Nat

VARIABLES
    ready,         \* the page has its session
    busy,          \* a reply is streaming
    server,        \* the service's end of the stream: "closed" or "open"
    written,       \* history: the events the service wrote for this reply
    wire,          \* pieces on their way
    buffer,        \* readEventStream: the pieces of a line that has not ended
    eventType,     \* readEventStream: the event line a data line belongs to
    handled,       \* history: the events handleEvent has seen of this reply
    replies,       \* the assistant's items
    afterTool,     \* afterToolRef: a tool was called since the last prose
    progressTool,  \* progressToolRef: the tool the line of activity belongs to
    card,          \* the reply's card
    waiting,       \* what waits behind the card for its timer
    trace,         \* the steps the Activity panel is built from
    spent          \* the messages sent and the events written so far

streamVars == <<server, written, wire, buffer, eventType, spent>>
replyVars == <<handled, replies, afterTool, progressTool, card, waiting, trace>>
vars == <<ready, busy, streamVars, replyVars>>

(***************************************************************************)
(* Events and the pieces they travel in                                    *)
(***************************************************************************)

\* "how" is the kind of prose, or the outcome of a call.
Event(type, tool, how) == [type |-> type, tool |-> tool, how |-> how]
Plain(type) == Event(type, None, "")

Events ==
    {Event("text_delta", None, how) : how \in {"word", "blank"}}
      \cup {Event("tool_call", t, "") : t \in Tools}
      \cup {Event("tool_result", t, "ok") : t \in Tools}
      \cup {Event("tool_result", t, "error") : t \in Tools}
      \cup {Event("tool_result", t, "blocked") : t \in Tools}
      \cup {Event("progress", t, "") : t \in Tools}
      \cup {Plain(type) : type \in {"ui_partial", "ui", "suggestions", "error",
                                    "turn_complete", "garbled"}}

\* Garbled is a data line that is no JSON: it travels, and is dropped on arrival.
Sound(e) == e.type # "garbled"

Count(seq, type, tool) == Cardinality({i \in DOMAIN seq : seq[i].type = type /\ seq[i].tool = tool})

\* The calls of a tool that have not been answered.
Owed(seq, tool) == Count(seq, "tool_call", tool) - Count(seq, "tool_result", tool)

\* The agent loop: results and progress belong to a call that is open, a reply makes one
\* card (bound) and its attempts end with the final block, and nothing follows the last event.
Plausible(e) ==
    /\ e.type \in {"tool_result", "progress"} => Owed(written, e.tool) > 0
    /\ Count(written, "ui", None) > 0
         => /\ e.type \notin {"ui_partial", "ui"}
            /\ e.type = "tool_result" /\ e.tool = Presenter => e.how = "ok"
    /\ written # << >> => written[Len(written)].type \notin {"error", "turn_complete"}

Line(kind, e) == [kind |-> kind, event |-> e]
Piece(line, part) == [line |-> line, part |-> part]

\* to_sse: an event line, a data line, a blank line; "head" has no newline, "tail" ends in one.
Frame(e) ==
    <<Piece(Line("event", e), "head"), Piece(Line("event", e), "tail"),
      Piece(Line("data", e), "head"), Piece(Line("data", e), "tail"),
      Piece(Line("blank", e), "tail")>>

\* The text up to a newline is a line again only if all its pieces are still there.
Whole(text) == text[Len(text)].line.kind = "blank" \/ text[1].part = "head"

(***************************************************************************)
(* The reply's item                                                        *)
(***************************************************************************)

\* A card is "failed" while its slot's status is "retrying".
Pieces == {"word", "blank", "gap", "card", "failed", "error"}
Prose == {"word", "blank", "gap"}

NoActivity == [by |-> "nobody", tool |-> None]
Activity == [by : {"nobody", "call", "progress"}, tool : Tools \cup {None}]

Reply == [pieces : Seq(Pieces), pending : BOOLEAN, activity : Activity, chips : BOOLEAN,
          how : {"streaming", "complete", "broken"}]

turn == Len(replies)
Item == replies[turn]

\* updateTurn: only the reply of this turn.
Update(item) == replies' = [replies EXCEPT ![turn] = item]

\* Prose joins the text it follows, after a paragraph break when a tool was called between.
Joined(pieces, how) ==
    LET last == pieces[Len(pieces)]
        gap == pieces # << >> /\ last \in Prose /\ afterTool /\ last = "word" /\ how = "word"
    IN  pieces \o (IF gap THEN <<"gap", how>> ELSE <<how>>)

\* The card of a reply, marked where it stands.
Marked(pieces, from, to) == [i \in DOMAIN pieces |-> IF pieces[i] = from THEN to ELSE pieces[i]]

\* commit: the card is replaced where it stands or comes last; the line of activity goes.
Committed(item) ==
    [item EXCEPT !.pieces = IF card = "none" THEN Append(@, "card") ELSE Marked(@, "failed", "card"),
                 !.activity = NoActivity]

\* A queued block comes to the card on its timer, whatever the reply is doing by then.
Tick ==
    /\ waiting # "nothing"
    /\ \/ /\ card' = "partial"
          /\ waiting' \in (IF waiting = "final" THEN {"final"} ELSE {"frames", "nothing"})
       \/ /\ waiting = "final"
          /\ card' = "final"
          /\ waiting' = "nothing"
    /\ Update(Committed(Item))
    /\ UNCHANGED <<ready, busy, streamVars, handled, afterTool, progressTool, trace>>

Traced(e) == trace' = Append(trace, [turn |-> turn, kind |-> e.type, tool |-> e.tool, how |-> e.how])

(***************************************************************************)
(* handleEvent                                                             *)
(***************************************************************************)

TextDelta(e) ==
    /\ e.type = "text_delta"
    /\ Update([Item EXCEPT !.pieces = Joined(@, e.how), !.activity = NoActivity])
    /\ afterTool' = FALSE
    /\ progressTool' = None
    /\ UNCHANGED <<card, waiting, trace>>

\* A frame goes on the card at once, or a burst of them waits; a failed card is taken over.
UiPartial(e) ==
    /\ e.type = "ui_partial"
    /\ IF card = "partial"
         THEN \/ /\ waiting = "nothing"
                 /\ Update(Committed(Item))
                 /\ UNCHANGED <<card, waiting>>
              \/ /\ waiting' = "frames"
                 /\ UNCHANGED <<card, replies>>
         ELSE /\ Update(Committed(Item))
              /\ card' = "partial"
              /\ waiting' \in {"frames", "nothing"}
    /\ UNCHANGED <<afterTool, progressTool, trace>>

\* The final block waits its turn behind frames, else it settles the card.
UiFinal(e) ==
    /\ e.type = "ui"
    /\ IF waiting # "nothing"
         THEN /\ waiting' = "final"
              /\ UNCHANGED <<card, replies>>
         ELSE /\ Update(Committed(Item))
              /\ card' = "final"
              /\ waiting' = "nothing"
    /\ UNCHANGED <<afterTool, progressTool, trace>>

UiChips(e) ==
    /\ e.type = "suggestions"
    /\ Update([Item EXCEPT !.chips = TRUE, !.activity = NoActivity])
    /\ UNCHANGED <<afterTool, progressTool, card, waiting, trace>>

ToolCall(e) ==
    /\ e.type = "tool_call"
    /\ Update([Item EXCEPT !.activity = [by |-> "call", tool |-> e.tool]])
    /\ afterTool' = TRUE
    /\ progressTool' = None
    /\ Traced(e)
    /\ UNCHANGED <<card, waiting>>

\* The result of an attempt that failed: a call that was held at a gate may be an error, too.
Fails(e) ==
    /\ e.tool = Presenter
    /\ card = "partial"
    /\ e.how \in {"error", "blocked"}

\* The tool's own progress line goes; an attempt that failed leaves its frames for a retry.
ToolResult(e) ==
    LET ended == IF progressTool = e.tool THEN [Item EXCEPT !.activity = NoActivity] ELSE Item
    IN  /\ e.type = "tool_result"
        /\ progressTool' = IF progressTool = e.tool THEN None ELSE progressTool
        /\ \/ /\ Fails(e)
              /\ Update([ended EXCEPT !.pieces = Marked(@, "card", "failed")])
              /\ card' = "retrying"
              /\ waiting' = "nothing"
           \/ /\ ~(Fails(e) /\ e.how = "error")
              /\ Update(ended)
              /\ UNCHANGED <<card, waiting>>
        /\ Traced(e)
        /\ UNCHANGED afterTool

\* Mutant: nobody remembers whose line it is.
ProgressUnowned(e) ==
    /\ e.type = "progress"
    /\ Update([Item EXCEPT !.activity = [by |-> "progress", tool |-> e.tool]])
    /\ UNCHANGED <<afterTool, progressTool, card, waiting, trace>>

Progress(e) ==
    /\ e.type = "progress"
    /\ progressTool' = e.tool
    /\ Update([Item EXCEPT !.activity = [by |-> "progress", tool |-> e.tool]])
    /\ UNCHANGED <<afterTool, card, waiting, trace>>

ErrorEvent(e) ==
    /\ e.type = "error"
    /\ Update([Item EXCEPT !.pieces = Append(@, "error")])
    /\ Traced(e)
    /\ UNCHANGED <<afterTool, progressTool, card, waiting>>

\* Only the trace hears of the end.
TurnComplete(e) ==
    /\ e.type = "turn_complete"
    /\ Traced(e)
    /\ UNCHANGED <<replies, afterTool, progressTool, card, waiting>>

HandleEvent(e) ==
    /\ handled' = Append(handled, e)
    /\ \/ TextDelta(e)
       \/ UiPartial(e)
       \/ UiFinal(e)
       \/ UiChips(e)
       \/ ToolCall(e)
       \/ ToolResult(e)
       \/ Progress(e)
       \/ ErrorEvent(e)
       \/ TurnComplete(e)

(***************************************************************************)
(* readEventStream                                                         *)
(***************************************************************************)

\* A data line is an event of the type before it; one that does not parse is dropped.
ReadLine(text) ==
    LET line == text[Len(text)].line
        event == [line.event EXCEPT !.type = eventType]
    IN  CASE line.kind = "blank" -> eventType' = "" /\ UNCHANGED replyVars
          [] line.kind = "event" -> /\ eventType' = IF Whole(text) THEN line.event.type ELSE eventType
                                    /\ UNCHANGED replyVars
          [] OTHER -> /\ UNCHANGED eventType
                      /\ IF Whole(text) /\ eventType # "" /\ Sound(event)
                           THEN HandleEvent(event)
                           ELSE UNCHANGED replyVars

\* Mutant: what is left after the last newline of a chunk is forgotten.
DeliverForgetful ==
    /\ busy
    /\ wire # << >>
    /\ wire' = Tail(wire)
    /\ buffer' = << >>
    /\ IF Head(wire).part = "head"
         THEN UNCHANGED <<eventType, replyVars>>
         ELSE ReadLine(<<Head(wire)>>)
    /\ UNCHANGED <<ready, busy, server, written, spent>>

\* A piece arrives.  A line without its newline waits in the buffer.
Deliver ==
    LET text == Append(buffer, Head(wire))
    IN  /\ busy
        /\ wire # << >>
        /\ wire' = Tail(wire)
        /\ IF Head(wire).part = "head"
             THEN /\ buffer' = text
                  /\ UNCHANGED <<eventType, replyVars>>
             ELSE /\ buffer' = << >>
                  /\ ReadLine(text)
        /\ UNCHANGED <<ready, busy, server, written, spent>>

(***************************************************************************)
(* The service                                                             *)
(***************************************************************************)

Write(e) ==
    /\ server = "open"
    /\ spent < MaxSpent
    /\ Len(wire) <= MaxWire
    /\ Plausible(e)
    /\ written' = Append(written, e)
    /\ wire' = wire \o Frame(e)
    /\ spent' = spent + 1
    /\ UNCHANGED <<ready, busy, server, buffer, eventType, replyVars>>

\* The reply is written, or the service stops short of it.
CloseStream ==
    /\ server = "open"
    /\ server' = "closed"
    /\ UNCHANGED <<ready, busy, written, wire, buffer, eventType, spent, replyVars>>

(***************************************************************************)
(* send and runTurn                                                        *)
(***************************************************************************)

SessionStarts ==
    /\ ~ready
    /\ ready' = TRUE
    /\ UNCHANGED <<busy, streamVars, replyVars>>

\* The line under a reply: its activity, else a shimmer before the first word.
Shimmer == [by |-> "shimmer", tool |-> None]
LineUnder(item) == IF item.activity = NoActivity /\ item.pieces = << >> THEN Shimmer ELSE item.activity
LineShown(item) == IF item.pending THEN LineUnder(item) ELSE NoActivity

\* What the page shows of reply t: its pieces, the line while it is being made, and its chips
\* if it is the newest and done.
Transcript(t) ==
    LET item == replies[t]
    IN  [pieces |-> item.pieces,
         line |-> LineShown(item),
         chips |-> t = turn /\ ~item.pending /\ item.chips]

\* A chip sends its text, unless a reply is streaming.
ChipsOffered == turn > 0 /\ Transcript(turn).chips

\* Where a message can come from: the composer, a chip, a starter of the empty page.
Senders == {"composer"} \cup (IF ChipsOffered THEN {"chip"} ELSE {})
                        \cup (IF turn = 0 THEN {"starter"} ELSE {})

NewReply == [pieces |-> << >>, pending |-> TRUE, activity |-> NoActivity, chips |-> FALSE,
             how |-> "streaming"]

Send ==
    /\ \E from \in Senders : ready /\ ~busy
    /\ turn < MaxTurns
    /\ spent < MaxSpent
    /\ busy' = TRUE
    /\ server' = "open"
    /\ written' = << >>
    /\ wire' = << >>
    /\ buffer' = << >>
    /\ eventType' = ""
    /\ handled' = << >>
    /\ replies' = Append(replies, NewReply)
    /\ afterTool' = FALSE
    /\ progressTool' = None
    /\ card' = "none"
    /\ waiting' = "nothing"
    /\ spent' = spent + 1
    /\ UNCHANGED <<ready, trace>>

\* The pieces that stay when a reply ends: a card whose attempt failed goes.
Left(pieces) ==
    LET left[n \in 0..Len(pieces)] ==
          IF n = 0 THEN << >>
          ELSE IF pieces[n] = "failed" THEN left[n - 1] ELSE Append(left[n - 1], pieces[n])
    IN  left[Len(pieces)]

\* The finally block: what waits goes on the card, a failed card goes, the rest stays.
Settled(item, how) ==
    LET shown == IF waiting = "nothing" THEN item ELSE Committed(item)
    IN  [shown EXCEPT !.pieces = Left(@), !.pending = FALSE, !.activity = NoActivity, !.how = how]

EndTurn(item, how) ==
    /\ busy' = FALSE
    /\ Update(Settled(item, how))
    /\ card' = IF waiting = "final" THEN "final" ELSE card
    /\ waiting' = "nothing"
    /\ server' = "closed"
    /\ UNCHANGED <<ready, written, wire, buffer, eventType, spent, handled, afterTool, progressTool,
                   trace>>

\* Mutant: the reply is over with its turn_complete event.
CompleteWhenTold ==
    /\ busy
    /\ \E i \in DOMAIN handled : handled[i].type = "turn_complete"
    /\ EndTurn(Item, "complete")

Complete ==
    /\ busy
    /\ server = "closed"
    /\ wire = << >>
    /\ EndTurn(Item, "complete")

\* Mutant: a broken stream ends the reply as a complete one does.
BreakSilently == busy /\ EndTurn(Item, "broken")

\* The catch block: a reply with nothing in it says that the service was unreachable.  A failed
\* card counts as something here and is taken off after that.
Break ==
    /\ busy
    /\ EndTurn([Item EXCEPT !.pieces = IF @ = << >> THEN <<"error">> ELSE @], "broken")

Init ==
    /\ ready = FALSE
    /\ busy = FALSE
    /\ server = "closed"
    /\ written = << >>
    /\ wire = << >>
    /\ buffer = << >>
    /\ eventType = ""
    /\ handled = << >>
    /\ replies = << >>
    /\ afterTool = FALSE
    /\ progressTool = None
    /\ card = "none"
    /\ waiting = "nothing"
    /\ trace = << >>
    /\ spent = 0

Next ==
    \/ SessionStarts
    \/ Send
    \/ \E e \in Events : Write(e)
    \/ CloseStream
    \/ Deliver
    \/ Tick
    \/ Complete
    \/ Break

Spec == Init /\ [][Next]_vars

\* The network hands over what was written, the service ends every stream it opened, and
\* the page reads the end of it.
FairSpec == Spec /\ WF_vars(Deliver) /\ WF_vars(CloseStream) /\ WF_vars(Complete)

(***************************************************************************)
(* The steps of the Activity panel                                         *)
(***************************************************************************)

\* A call opens a row; a result ends the first open row of its tool, and is passed over if
\* there is none.
Row(tool, result) == [tool |-> tool, result |-> result]
OpenRows(rows, tool) == {i \in DOMAIN rows : rows[i] = Row(tool, "none")}
WithEntry(rows, e) ==
    LET open == OpenRows(rows, e.tool)
    IN  CASE e.kind = "tool_call" -> Append(rows, Row(e.tool, "none"))
          [] e.kind = "tool_result" /\ open # {} ->
               [rows EXCEPT ![CHOOSE i \in open : \A j \in open : i <= j] = Row(e.tool, e.how)]
          [] OTHER -> rows

\* buildToolRows, of the entries of reply t: a tool's k-th call with its k-th result.
ToolRows(entries, t) ==
    LET rows[n \in 0..Len(entries)] ==
          IF n = 0 THEN << >>
          ELSE IF entries[n].turn # t THEN rows[n - 1] ELSE WithEntry(rows[n - 1], entries[n])
    IN  rows[Len(entries)]

\* What a row shows at its end: that its call runs, was held at a gate, failed, or how long
\* it took.
RowStatus(row) == IF row.result = "none" THEN "running" ELSE row.result

\* The panel on reply t.
StepsOf(t) == ToolRows(trace, t)

(***************************************************************************)
(* Properties                                                              *)
(***************************************************************************)

TypeOK ==
    /\ ready \in BOOLEAN
    /\ busy \in BOOLEAN
    /\ server \in {"open", "closed"}
    /\ written \in Seq(Events)
    /\ handled \in Seq(Events)
    /\ replies \in Seq(Reply)
    /\ afterTool \in BOOLEAN
    /\ progressTool \in Tools \cup {None}
    /\ card \in {"none", "partial", "retrying", "final"}
    /\ waiting \in {"nothing", "frames", "final"}
    /\ spent \in 0..MaxSpent

\* The events whose data line has reached the page whole.
Arrived == Len(written) - Cardinality({i \in DOMAIN wire : wire[i].line.kind = "data" /\ wire[i].part = "tail"})

\* Those among the first n that parse.
SoundUpTo(n) == Cardinality({i \in 1..n : Sound(written[i])})

\* However the network cuts the text, the page handles exactly the events that have arrived
\* whole, each in its place, but for those that do not parse: none is lost between two chunks,
\* split, or taken with the type of another (readEventStream).
HandledIsWritten ==
    /\ Len(handled) = SoundUpTo(Arrived)
    /\ \A j \in 1..Arrived : Sound(written[j]) => handled[SoundUpTo(j)] = written[j]

Rows(t, tool, status) ==
    Cardinality({i \in DOMAIN StepsOf(t) : StepsOf(t)[i].tool = tool /\ RowStatus(StepsOf(t)[i]) = status})

\* The page's account of a reply's tools is the stream's.  A progress line is there only
\* while its tool still owes a result, whichever tools run beside it (progressToolRef), and
\* the Activity panel shows as running exactly the calls that are owed one, as held or failed
\* those whose result said so.
ToolsAsTold ==
    turn > 0 =>
      /\ LineShown(Item).by = "progress" => Owed(handled, LineShown(Item).tool) > 0
      /\ \A t \in Tools :
           /\ Rows(turn, t, "running") = Owed(handled, t)
           /\ \A how \in {"ok", "error", "blocked"} :
                Rows(turn, t, how) = Cardinality({i \in DOMAIN handled : handled[i] = Event("tool_result", t, how)})

StandingOf(reply) == CASE reply.how = "streaming" -> "open"
                       [] reply.how = "complete" -> "done"
                       [] OTHER -> "broken"

Log == INSTANCE ReplyLog WITH
    Said <- Pieces \ {"failed"},
    Card <- "card",
    Failed <- "failed",
    replies <- [t \in DOMAIN replies |->
                  [said |-> replies[t].pieces, standing |-> StandingOf(replies[t])]]

\* The conversation keeps the promise of ReplyLog: late timers, a broken stream and a second
\* message never touch a reply that is closed, no word or error line is ever taken back, a card
\* only if its attempt failed and no other took it up, and a reply that breaks off says
\* something, unless it had nothing but such a card (runTurn tests for emptiness before it
\* takes the card off).
KeepsReplyLog == Log!Spec

\* A message that was sent frees the composer again, whatever the stream carries and
\* wherever it ends.
SendSettles == busy ~> ~busy
===============================================================================
