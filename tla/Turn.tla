--------------------------------- MODULE Turn ---------------------------------
(***************************************************************************)
(* The cards of one chat turn, as useAgentTurn builds them in the browser  *)
(* from the events of the reply's stream.                                  *)
(*                                                                         *)
(* A tool call whose arguments make a card is an attempt with a stream id: *)
(* its frames arrive while the model still writes them, each with at least *)
(* as many items as the one before, then its final card, or a refusal. The *)
(* page does not show the frames as they come.  It cuts a burst into one-  *)
(* item steps, queues them, and lets a timer put one on the card at a      *)
(* time; an attempt that is refused leaves its card for the next attempt   *)
(* at the same component.                                                  *)
(*                                                                         *)
(* A block is known by the attempt it came from, the number of its items,  *)
(* and whether it is final.                                                *)
(***************************************************************************)
EXTENDS Integers, Sequences, FiniteSets

CONSTANTS
    Streams,       \* the attempts of the turn that carry a stream id (bound)
    Components,    \* the components of the turn's cards
    Whole,         \* the components of plain tools, whose card comes as one event
    Skeletons,     \* the components pendingComponent mounts a skeleton for
    MaxItems,      \* the most items a block has (bound)
    MaxQueue,      \* MAX_QUEUE, above which every second frame is dropped
    None           \* no block, and the stream of a block that has none

ASSUME TurnAssumption ==
    /\ Whole \subseteq Components
    /\ Skeletons \subseteq Components
    /\ MaxItems \in Nat
    /\ MaxQueue \in Nat
    /\ None \notin Streams

VARIABLES
    phase,         \* the turn is "streaming" or "ended"
    slots,         \* slotsRef in the order of insertion, each with the card it shows
    slotByStream,  \* the slot of each attempt, 0 when there is none
    attempt,       \* where the stream is with each attempt
    component,     \* the component of each attempt
    latest         \* history: the last block each slot was handed

vars == <<phase, slots, slotByStream, attempt, component, latest>>

Items == 0..MaxItems
Frame(s, n) == [stream |-> s, count |-> n, final |-> FALSE]
FinalBlock(s, n) == [stream |-> s, count |-> n, final |-> TRUE]
Block == [stream : Streams \cup {None}, count : Items, final : BOOLEAN]

ASSUME NoneAssumption == None \notin Block

Status == {"pending", "partial", "retrying", "final"}

\* "gone" is a card the end of the turn takes off the page.
Card == [block : Block, status : Status \cup {"gone"}]
Slot == [component : Components, status : Status, rendered : Items, queue : Seq(Block),
         timer : BOOLEAN, final : Block \cup {None}, card : Card]

LastOf(q) == q[Len(q)]

\* What waits behind the card.
Waiting(slot) == slot.queue # << >> \/ slot.final # None

(***************************************************************************)
(* Slots                                                                   *)
(***************************************************************************)

\* Mutant: the item the next frame may add is counted as shown.
CommitOneAhead(slot, block, status) ==
    [slot EXCEPT !.status = status, !.rendered = block.count + 1,
                 !.card = [block |-> block, status |-> status]]

Commit(slot, block, status) ==
    [slot EXCEPT !.status = status, !.rendered = block.count,
                 !.card = [block |-> block, status |-> status]]

\* Mutant: the last frame's timer does not come again for a final block behind it.
DrainFrames(slot) ==
    IF slot.queue # << >>
      THEN [Commit(slot, Head(slot.queue), "partial") EXCEPT
              !.queue = Tail(slot.queue), !.timer = Tail(slot.queue) # << >>]
    ELSE IF slot.final # None
      THEN [Commit(slot, slot.final, "final") EXCEPT !.timer = FALSE, !.final = None]
    ELSE [slot EXCEPT !.timer = FALSE]

\* The timer's callback: the next frame, or the final block when no frame is left.
Drain(slot) ==
    IF slot.queue # << >>
      THEN LET shown == Commit(slot, Head(slot.queue), "partial")
           IN  [shown EXCEPT !.queue = Tail(slot.queue),
                             !.timer = Tail(slot.queue) # << >> \/ slot.final # None]
    ELSE IF slot.final # None
      THEN [Commit(slot, slot.final, "final") EXCEPT !.timer = FALSE, !.final = None]
    ELSE [slot EXCEPT !.timer = FALSE]

\* Every second frame, and always the last.
Thinned(q) ==
    LET n == Len(q)
    IN  [k \in 1..((n + 1) \div 2) |-> IF 2 * k <= n THEN q[2 * k] ELSE q[n]]

\* The last queued frame, or what is shown, sets how far a new frame goes beyond.
TailCount(slot) == IF slot.queue = << >> THEN slot.rendered ELSE LastOf(slot.queue).count

\* The queue with one frame for every item the new one adds, each cut from the new one.
Steps(slot, block) ==
    slot.queue \o [k \in 1..(block.count - TailCount(slot) - 1) |->
                      [block EXCEPT !.count = TailCount(slot) + k]] \o <<block>>

Enqueue(slot, block) ==
    LET q == Steps(slot, block)
    IN  [slot EXCEPT !.queue = IF Len(q) > MaxQueue THEN Thinned(q) ELSE q]

\* Mutant: a frame that adds one item goes on the card at once, past those that wait.
ScheduleAtOnce(slot, block) ==
    IF block.count <= slot.rendered + 1
      THEN Commit(slot, block, "partial")
      ELSE LET more == Enqueue(slot, block)
           IN  IF slot.timer THEN more
               ELSE IF slot.status = "pending" THEN Drain(more)
               ELSE [more EXCEPT !.timer = TRUE]

\* Mutant: only a slot's first frame sees to a timer.
ScheduleOnce(slot, block) ==
    IF slot.queue = << >> /\ ~slot.timer /\ block.count <= TailCount(slot) + 1
      THEN Commit(slot, block, "partial")
    ELSE LET more == Enqueue(slot, block)
         IN  IF slot.status = "pending" THEN Drain(more) ELSE more

Schedule(slot, block) ==
    IF slot.queue = << >> /\ ~slot.timer /\ block.count <= TailCount(slot) + 1
      THEN Commit(slot, block, "partial")
    ELSE IF slot.queue # << >> /\ block.count <= TailCount(slot)
      THEN [slot EXCEPT !.queue[Len(slot.queue)] = block]
    ELSE LET more == Enqueue(slot, block)
         IN  IF slot.timer THEN more
             ELSE IF slot.status = "pending" THEN Drain(more)
             ELSE [more EXCEPT !.timer = TRUE]

\* The part of a "ui" event that meets a slot: frames still queued are shown first.
Settle(slot, block) ==
    IF slot.queue # << >> /\ slot.timer
      THEN [slot EXCEPT !.final = block]
      ELSE [Commit(slot, block, "final") EXCEPT !.timer = FALSE, !.queue = << >>, !.final = None]

\* A slot just opened or adopted, before its first block reaches the card.
Opened(c, status, card) ==
    [component |-> c, status |-> status, rendered |-> 0, queue |-> << >>,
     timer |-> FALSE, final |-> None, card |-> card]

\* findSlot: the slots of a component with one of these statuses; the last is taken.
Found(c, statuses) == {i \in DOMAIN slots : slots[i].component = c /\ slots[i].status \in statuses}
IsLast(i, S) == i \in S /\ \A j \in S : j <= i

\* Mutant: a card that is still being built may be taken over.
AdoptableAny(c) == Found(c, {"pending", "partial", "retrying"})

\* The slots a new attempt may take over.
Adoptable(c) == Found(c, {"pending", "retrying"})

(***************************************************************************)
(* The stream's events                                                     *)
(***************************************************************************)

Init ==
    /\ phase = "streaming"
    /\ slots = << >>
    /\ slotByStream = [s \in Streams |-> 0]
    /\ attempt = [s \in Streams |-> "new"]
    /\ component \in [Streams -> Components \ Whole]
    /\ latest = << >>

\* Slot i becomes this, having been handed block; i may be one more than there were.
Put(i, slot, block) ==
    /\ slots' = [j \in 1..(IF i > Len(slots) THEN i ELSE Len(slots)) |->
                    IF j = i THEN slot ELSE slots[j]]
    /\ latest' = [j \in DOMAIN slots' |-> IF j = i THEN block ELSE latest[j]]

\* tool_call: a skeleton, unless the component has a card.  A chat with no skeletons
\* (none of the two sites asks for one) takes no step here.
ToolCall(c) ==
    LET block == Frame(None, 0)
        blank == [block |-> block, status |-> "pending"]
    IN  /\ phase = "streaming"
        /\ c \in Skeletons
        /\ Found(c, Status) = {}
        /\ Put(Len(slots) + 1, Opened(c, "pending", blank), block)
        /\ UNCHANGED <<phase, slotByStream, attempt, component>>

\* The one of these slots that was opened last, or a new one when there is none.
Target(i, S) == IsLast(i, S) \/ (S = {} /\ i = Len(slots) + 1)

\* ui_partial: the attempt's own slot, or one it takes over and empties, or a new one.
Partial(s, n) ==
    LET block == Frame(s, n)
        own == slotByStream[s]
        blank == [block |-> block, status |-> "pending"]
    IN  /\ phase = "streaming"
        /\ attempt[s] \in {"new", "open"}
        /\ own # 0 => n >= latest[own].count
        /\ \E i \in 1..(Len(slots) + 1) :
             /\ IF own # 0 THEN i = own ELSE Target(i, Adoptable(component[s]))
             /\ LET card == IF i \in DOMAIN slots THEN slots[i].card ELSE blank
                    slot == IF own # 0 THEN slots[i] ELSE Opened(component[s], "pending", card)
                IN  Put(i, Schedule(slot, block), block)
             /\ slotByStream' = [slotByStream EXCEPT ![s] = i]
        /\ attempt' = [attempt EXCEPT ![s] = "open"]
        /\ UNCHANGED <<phase, component>>

\* A final block that meets slot i, or opens it.
Land(i, c, block) ==
    IF i \in DOMAIN slots
      THEN Put(i, Settle(slots[i], block), block)
      ELSE LET blank == [block |-> block, status |-> "final"]
           IN  Put(i, Settle(Opened(c, "final", blank), block), block)

\* ui with a stream id.
Final(s, n) ==
    LET own == slotByStream[s]
    IN  /\ phase = "streaming"
        /\ attempt[s] \in {"new", "open"}
        /\ \E i \in 1..(Len(slots) + 1) :
             /\ IF own # 0 THEN i = own ELSE Target(i, Adoptable(component[s]))
             /\ Land(i, component[s], FinalBlock(s, n))
             /\ slotByStream' = [slotByStream EXCEPT ![s] = i]
        /\ attempt' = [attempt EXCEPT ![s] = "done"]
        /\ UNCHANGED <<phase, component>>

\* ui without one: it replaces the component's card.
WholeCard(c, n) ==
    /\ phase = "streaming"
    /\ \E i \in 1..(Len(slots) + 1) :
         /\ Target(i, Found(c, Status))
         /\ Land(i, c, FinalBlock(None, n))
    /\ UNCHANGED <<phase, slotByStream, attempt, component>>

\* tool_result with is_error: what was streamed stays, dimmed, for the retry to adopt.
Refuse(s) ==
    LET i == slotByStream[s]
    IN  /\ phase = "streaming"
        /\ attempt[s] \in {"new", "open"}
        /\ attempt' = [attempt EXCEPT ![s] = "refused"]
        /\ IF i # 0 /\ slots[i].status = "partial"
             THEN LET last == IF slots[i].queue = << >> THEN slots[i].card.block
                              ELSE LastOf(slots[i].queue)
                  IN  slots' = [slots EXCEPT ![i].status = "retrying", ![i].timer = FALSE,
                                             ![i].queue = << >>, ![i].final = None,
                                             ![i].card = [block |-> last, status |-> "retrying"]]
             ELSE slots' = slots
        /\ UNCHANGED <<phase, slotByStream, component, latest>>

\* A slot's timeout fires; nothing in the callback asks whether the turn still runs.
Tick(i) ==
    /\ i \in DOMAIN slots
    /\ slots[i].timer
    /\ slots' = [slots EXCEPT ![i] = Drain(slots[i])]
    /\ UNCHANGED <<phase, slotByStream, attempt, component, latest>>

(***************************************************************************)
(* The end of the stream, complete or broken off                           *)
(***************************************************************************)

\* Mutant: the queue's last frame is preferred to the final block.
FlushedFrames(slot) ==
    LET last == IF slot.queue # << >> THEN LastOf(slot.queue) ELSE slot.final
        shown == IF Waiting(slot)
                   THEN Commit(slot, last, IF slot.final # None THEN "final" ELSE slot.status)
                   ELSE slot
    IN  [shown EXCEPT !.timer = FALSE, !.queue = << >>, !.final = None]

\* flush: what waits last goes on the card.
Flushed(slot) ==
    LET last == IF slot.final # None THEN slot.final ELSE LastOf(slot.queue)
        shown == IF Waiting(slot)
                   THEN Commit(slot, last, IF slot.final # None THEN "final" ELSE slot.status)
                   ELSE slot
    IN  [shown EXCEPT !.timer = FALSE, !.queue = << >>, !.final = None]

\* Frames freeze as they are; skeletons and failed cards go.
Closed(card) ==
    [card EXCEPT !.status = IF @ \in {"pending", "retrying"} THEN "gone" ELSE "final"]

End ==
    /\ phase = "streaming"
    /\ phase' = "ended"
    /\ slots' = [i \in DOMAIN slots |->
                   LET flushed == Flushed(slots[i])
                   IN  [flushed EXCEPT !.card = Closed(flushed.card)]]
    /\ UNCHANGED <<slotByStream, attempt, component, latest>>

Next ==
    \/ \E c \in Components : ToolCall(c)
    \/ \E s \in Streams, n \in Items : Partial(s, n)
    \/ \E s \in Streams, n \in Items : Final(s, n)
    \/ \E c \in Whole, n \in Items : WholeCard(c, n)
    \/ \E s \in Streams : Refuse(s)
    \/ \E i \in DOMAIN slots : Tick(i)
    \/ End

Spec == Init /\ [][Next]_vars

\* At most one slot for each attempt, skeleton and plain card.
SlotIds == 1..(Cardinality(Streams) + Cardinality(Components))

\* The browser runs a timeout that is not cleared.
FairSpec == Spec /\ \A i \in SlotIds : WF_vars(Tick(i))

(***************************************************************************)
(* Properties                                                              *)
(***************************************************************************)

\* Every variable keeps its shape, and an attempt's slot is one that was opened.
TypeOK ==
    /\ phase \in {"streaming", "ended"}
    /\ slots \in Seq(Slot)
    /\ slotByStream \in [Streams -> Nat]
    /\ \A s \in Streams : slotByStream[s] \in 0..Len(slots)
    /\ attempt \in [Streams -> {"new", "open", "done", "refused"}]
    /\ component \in [Streams -> Components]
    /\ latest \in Seq(Block)
    /\ Len(latest) = Len(slots)

\* A frame or a final block that waits always has a timer coming for it: no order of
\* frames, adoptions, finals and timeouts leaves a card behind with nobody to move it.
\* (schedule, drain and the two places that clear a timer share this duty.)
NothingStranded == \A i \in DOMAIN slots : Waiting(slots[i]) => slots[i].timer

\* When the turn is over every card shows the last block it was handed, whatever was
\* queued, thinned out, retried or cut off (flush; "Partials freeze as they are").
EndShowsLatest ==
    phase = "ended" => \A i \in DOMAIN slots : slots[i].card.block = latest[i]

\* When the turn is over an attempt that sent a block and was not refused has one card,
\* with its final block if it sent one, and a refused attempt has none: a retry never
\* takes the card of an attempt that is still good, and never leaves two.
CardPerAttempt ==
    phase = "ended" => \A s \in Streams :
        LET cards == {i \in DOMAIN slots : slots[i].card.block.stream = s
                                          /\ slots[i].card.status = "final"}
        IN  CASE attempt[s] \in {"open", "done"} ->
                   \E i \in cards : /\ cards = {i}
                                   /\ slots[i].card.block.final = (attempt[s] = "done")
              [] OTHER -> cards = {}

\* A card that is being built never loses an item before the reader's eyes: frames reach
\* it in order, also across thinning and late timeouts.
ShownGrows ==
    [][\A i \in DOMAIN slots :
          (slots[i].card.status = "partial" /\ slots'[i].card.status = "partial")
             => slots'[i].card.block.count >= slots[i].card.block.count]_vars

\* Every card catches up with its stream, again and again, however many events come: the
\* paced queue never falls behind for good.
CatchesUp ==
    \A i \in SlotIds : []<>(i \in DOMAIN slots => slots[i].card.block = latest[i])
===============================================================================
