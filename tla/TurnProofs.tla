------------------------------ MODULE TurnProofs ------------------------------
(***************************************************************************)
(* What holds of a turn's cards for any number of attempts, components and *)
(* items, and any depth of the queue: a card that has something to show    *)
(* has a timer coming for it, at the end every attempt that was not        *)
(* refused has one card with the last block it sent, and what a card shows *)
(* grows while it is built.                                                *)
(***************************************************************************)
EXTENDS Turn, SequenceTheorems, TLAPS

\* The block a slot was handed last, wherever it is by now.
Newest(slot) ==
    IF slot.final # None THEN slot.final
    ELSE IF slot.queue # << >> THEN LastOf(slot.queue)
    ELSE slot.card.block

\* Only a card that is being built has anything to wait for.
Paced(slot) ==
    /\ Waiting(slot) => slot.timer
    /\ slot.status # "partial" => ~slot.timer

\* What becomes of a card at the end of the turn.
ClosedStatus(status) == IF status \in {"pending", "retrying"} THEN "gone" ELSE "final"

Pacing == \A i \in DOMAIN slots : Paced(slots[i])
NothingLost == \A i \in DOMAIN slots : latest[i] = Newest(slots[i])
CardFollows ==
    \A i \in DOMAIN slots :
        IF phase = "ended"
          THEN /\ slots[i].card.status = ClosedStatus(slots[i].status)
               /\ ~slots[i].timer
          ELSE slots[i].card.status = slots[i].status

\* A block's attempt knows the slot the block is in.
Known ==
    \A i \in DOMAIN slots, s \in Streams : latest[i].stream = s => slotByStream[s] = i

\* The slot of an attempt that is not refused is its own: nothing may adopt or replace it.
Owned(s) ==
    LET i == slotByStream[s]
    IN  /\ component[s] \notin Whole
        /\ attempt[s] = "new" => i = 0
        /\ attempt[s] \in {"open", "done"} =>
             /\ i # 0
             /\ slots[i].component = component[s]
             /\ latest[i].stream = s
             /\ latest[i].final = (attempt[s] = "done")
        /\ attempt[s] = "open" => slots[i].status = "partial" /\ slots[i].final = None
        /\ attempt[s] = "done" => \/ slots[i].status = "final"
                                  \/ slots[i].status = "partial" /\ slots[i].final # None
        /\ (attempt[s] = "refused" /\ i # 0) =>
             (latest[i].stream = s => slots[i].status = "retrying")

IInv == TypeOK /\ Pacing /\ NothingLost /\ CardFollows /\ Known /\ (\A s \in Streams : Owned(s))

(***************************************************************************)
(* The operators on one slot                                               *)
(***************************************************************************)

\* Thinning a queue drops no type and keeps its last frame (schedule, MAX_QUEUE).
LEMMA ThinnedKeepsLast ==
    ASSUME NEW q \in Seq(Block), q # << >>
    PROVE  /\ Thinned(q) \in Seq(Block)
           /\ Thinned(q) # << >>
           /\ LastOf(Thinned(q)) = LastOf(q)
<1> DEFINE n == Len(q)
           m == (n + 1) \div 2
           f(k) == IF 2 * k <= n THEN q[2 * k] ELSE q[n]
<1>1. n \in Nat \ {0}
    OBVIOUS
<1>2. m \in Nat /\ m >= 1 /\ (2 * m = n \/ 2 * m = n + 1)
    BY <1>1
<1>3. \A k \in 1..m : f(k) \in Block
    BY <1>1, <1>2
<1>4. Thinned(q) = [k \in 1..m |-> f(k)]
    BY DEF Thinned
<1>5. [k \in 1..m |-> f(k)] \in Seq(Block)
    BY <1>2, <1>3
<1>6. Len(Thinned(q)) = m /\ Thinned(q)[m] = f(m)
    BY <1>2, <1>4
<1>7. f(m) = q[n]
    BY <1>1, <1>2
<1> QED BY <1>2, <1>4, <1>5, <1>6, <1>7 DEF LastOf

\* A burst becomes frames of a slot's block type, the last of them the block that came.
LEMMA StepsEndWithBlock ==
    ASSUME NEW slot \in Slot, NEW block \in Block
    PROVE  /\ Steps(slot, block) \in Seq(Block)
           /\ Steps(slot, block) # << >>
           /\ LastOf(Steps(slot, block)) = block
<1> DEFINE t == TailCount(slot)
           cut == [k \in 1..(block.count - t - 1) |-> [block EXCEPT !.count = t + k]]
<1>1. slot.queue \in Seq(Block) /\ slot.rendered \in Items
    BY DEF Slot
<1>2. t \in Items
  <2>1. CASE slot.queue = << >>
    BY <1>1, <2>1 DEF TailCount
  <2>2. CASE slot.queue # << >>
    <3>1. LastOf(slot.queue) \in Block
        BY <1>1, <2>2 DEF LastOf
    <3> QED BY <2>2, <3>1 DEF TailCount, Block
  <2> QED BY <2>1, <2>2
<1>3. block.count \in Items
    BY DEF Block
<1>4. cut \in Seq(Block)
  <2>1. \A k \in 1..(block.count - t - 1) : [block EXCEPT !.count = t + k] \in Block
      BY <1>2, <1>3, TurnAssumption DEF Block, Items
  <2>2. CASE block.count - t - 1 \in Nat
      BY <2>1, <2>2
  <2>3. CASE block.count - t - 1 \notin Nat
    <3>1. 1..(block.count - t - 1) = 1..0
        BY <1>2, <1>3, <2>3, TurnAssumption DEF Items
    <3>2. cut = [k \in 1..0 |-> [block EXCEPT !.count = t + k]]
        BY <3>1
    <3>3. cut \in [1..0 -> Block]
        BY <3>2
    <3>4. 0 \in Nat
        OBVIOUS
    <3>5. [1..0 -> Block] \subseteq Seq(Block)
        BY <3>4, SeqDef, Zenon
    <3> QED BY <3>3, <3>5, Zenon
  <2> QED BY <2>2, <2>3
<1>5. Steps(slot, block) = (slot.queue \o cut) \o <<block>>
    BY DEF Steps
<1> HIDE DEF cut, t
<1>6. slot.queue \o cut \in Seq(Block)
    BY <1>1, <1>4
<1> DEFINE head == slot.queue \o cut
<1> HIDE DEF head
<1>7. head \in Seq(Block) /\ Steps(slot, block) = head \o <<block>>
    BY <1>5, <1>6 DEF head
<1>8. head \o <<block>> \in Seq(Block) /\ Len(head \o <<block>>) = Len(head) + 1
    BY <1>7
<1>9. (head \o <<block>>)[Len(head) + 1] = block
    BY <1>7
<1> QED BY <1>7, <1>8, <1>9 DEF LastOf

\* Queueing a block changes the queue only, and leaves the block at its end.
LEMMA EnqueueEndsWithBlock ==
    ASSUME NEW slot \in Slot, NEW block \in Block
    PROVE  LET more == Enqueue(slot, block)
           IN  /\ more \in Slot
               /\ more.queue # << >>
               /\ LastOf(more.queue) = block
               /\ more = [slot EXCEPT !.queue = more.queue]
<1> DEFINE q == Steps(slot, block)
           kept == IF Len(q) > MaxQueue THEN Thinned(q) ELSE q
<1>1. q \in Seq(Block) /\ q # << >> /\ LastOf(q) = block
    BY StepsEndWithBlock
<1>2. kept \in Seq(Block) /\ kept # << >> /\ LastOf(kept) = block
    BY <1>1, ThinnedKeepsLast
<1>3. Enqueue(slot, block) = [slot EXCEPT !.queue = kept]
    BY DEF Enqueue
<1> HIDE DEF kept, q
<1> QED BY <1>2, <1>3 DEF Slot


\* A block on the card keeps a slot's shape, and leaves the queue alone.
LEMMA CommitIsSlot ==
    ASSUME NEW slot \in Slot, NEW block \in Block, NEW status \in Status
    PROVE  LET shown == Commit(slot, block, status)
           IN  /\ shown \in Slot
               /\ shown.component = slot.component /\ shown.status = status
               /\ shown.queue = slot.queue /\ shown.timer = slot.timer
               /\ shown.final = slot.final
               /\ shown.card.block = block /\ shown.card.status = status
<1> DEFINE card == [block |-> block, status |-> status]
<1>1. block.count \in Items
    BY DEF Block
<1>2. card \in Card
    BY DEF Card
<1>3. Commit(slot, block, status) =
        [slot EXCEPT !.status = status, !.rendered = block.count, !.card = card]
    BY DEF Commit
<1>4. card.block = block /\ card.status = status
    OBVIOUS
<1> HIDE DEF card
<1> QED BY <1>1, <1>2, <1>3, <1>4 DEF Slot

\* A timeout moves nothing but the card and what waits behind it, and comes again as long
\* as something waits (drain).
LEMMA DrainKeepsNewest ==
    ASSUME NEW slot \in Slot
    PROVE  LET shown == Drain(slot)
           IN  /\ shown \in Slot
               /\ shown.component = slot.component
               /\ Newest(shown) = Newest(slot)
               /\ Waiting(shown) <=> shown.timer
               /\ \/ slot.queue # << >> /\ shown.status = "partial" /\ shown.card.status = "partial"
                                      /\ shown.final = slot.final
                  \/ slot.queue = << >> /\ slot.final # None /\ ~Waiting(shown)
                        /\ shown.status = "final" /\ shown.card.status = "final"
                  \/ ~Waiting(slot) /\ shown.status = slot.status /\ shown.card = slot.card
                                   /\ shown.final = slot.final
<1> DEFINE shown == Drain(slot)
<1>1. CASE slot.queue # << >>
  <2> DEFINE first == Head(slot.queue)
             rest == Tail(slot.queue)
             card == Commit(slot, first, "partial")
             timer == rest # << >> \/ slot.final # None
  <2>1. /\ first \in Block /\ rest \in Seq(Block)
        /\ Len(rest) = Len(slot.queue) - 1 /\ Len(slot.queue) \in Nat \ {0}
        /\ first = slot.queue[1]
        /\ \A k \in 1..Len(rest) : rest[k] = slot.queue[k + 1]
      BY <1>1 DEF Slot
  <2>2. shown = [card EXCEPT !.queue = rest, !.timer = timer]
      BY <1>1 DEF Drain
  <2>3. timer \in BOOLEAN
      OBVIOUS
  <2> HIDE DEF first, rest
  <2>4. rest = << >> => Len(rest) = 0
      OBVIOUS
  <2>5. rest # << >> => LastOf(rest) = LastOf(slot.queue)
      BY <2>1 DEF LastOf
  <2>6. rest = << >> => first = LastOf(slot.queue)
      BY <2>1, <2>4 DEF LastOf
  <2>7. "partial" \in Status
      BY DEF Status
  <2>8. /\ card \in Slot /\ card.component = slot.component /\ card.status = "partial"
        /\ card.final = slot.final /\ card.card.block = first
        /\ card.card.status = "partial"
      BY <2>1, <2>7, CommitIsSlot
  <2> HIDE DEF card, timer
  <2>9. /\ shown \in Slot /\ shown.component = slot.component /\ shown.status = "partial"
        /\ shown.queue = rest /\ shown.timer = timer /\ shown.final = slot.final
        /\ shown.card = card.card
      BY <2>1, <2>2, <2>3, <2>8 DEF Slot
  <2>10. Newest(shown) = Newest(slot)
      BY <1>1, <2>5, <2>6, <2>8, <2>9 DEF Newest
  <2>11. Waiting(shown) <=> shown.timer
      BY <2>9 DEF Waiting, timer
  <2> QED BY <1>1, <2>8, <2>9, <2>10, <2>11
<1>2. CASE slot.queue = << >> /\ slot.final # None
  <2> DEFINE final == slot.final
             card == Commit(slot, final, "final")
  <2>1. final \in Block /\ "final" \in Status
      BY <1>2 DEF Slot, Status
  <2>2. shown = [card EXCEPT !.timer = FALSE, !.final = None]
      BY <1>2 DEF Drain
  <2>3. final = slot.final
      OBVIOUS
  <2> HIDE DEF final
  <2>4. /\ card \in Slot /\ card.component = slot.component /\ card.status = "final"
        /\ card.queue = << >> /\ card.card.block = final /\ card.card.status = "final"
      BY <1>2, <2>1, CommitIsSlot
  <2> HIDE DEF card
  <2>5. /\ shown \in Slot /\ shown.component = slot.component /\ shown.status = "final"
        /\ shown.queue = << >> /\ shown.timer = FALSE /\ shown.final = None
        /\ shown.card = card.card
      BY <2>2, <2>4 DEF Slot
  <2> QED BY <1>2, <2>3, <2>4, <2>5 DEF Newest, Waiting
<1>3. CASE slot.queue = << >> /\ slot.final = None
  <2>1. shown = [slot EXCEPT !.timer = FALSE]
      BY <1>3 DEF Drain
  <2> QED BY <1>3, <2>1 DEF Slot, Newest, Waiting
<1> QED BY <1>1, <1>2, <1>3

\* A frame handed to a slot is its newest block, on the card or on its way there, with a
\* timer coming if it waits (schedule).
LEMMA ScheduleTakesBlock ==
    ASSUME NEW slot \in Slot, NEW block \in Block,
           slot.status \in {"pending", "partial"},
           slot.final = None,
           Paced(slot),
           slot.status = "partial" => slot.card.status = "partial",
           slot.status = "pending" => slot.queue = << >> /\ slot.rendered = 0
    PROVE  LET given == Schedule(slot, block)
           IN  /\ given \in Slot
               /\ given.component = slot.component
               /\ given.status = "partial"
               /\ given.card.status = "partial"
               /\ given.final = None
               /\ Newest(given) = block
               /\ Paced(given)
<1> DEFINE given == Schedule(slot, block)
           t == TailCount(slot)
<1>1. CASE slot.queue = << >> /\ ~slot.timer /\ block.count <= t + 1
  <2>1. given = Commit(slot, block, "partial")
      BY <1>1 DEF Schedule
  <2>2. /\ given \in Slot /\ given.component = slot.component /\ given.status = "partial"
        /\ given.queue = << >> /\ given.timer = FALSE /\ given.final = None
        /\ given.card.block = block /\ given.card.status = "partial"
      BY <1>1, <2>1, CommitIsSlot DEF Status, Slot
  <2> QED BY <2>2 DEF Newest, Paced, Waiting
<1>2. CASE slot.queue # << >> /\ block.count <= t
  <2> DEFINE q == [slot.queue EXCEPT ![Len(slot.queue)] = block]
  <2>1. given = [slot EXCEPT !.queue = q]
      BY <1>2 DEF Schedule
  <2>2. q \in Seq(Block) /\ q # << >> /\ LastOf(q) = block
      BY <1>2 DEF Slot, LastOf
  <2> HIDE DEF q
  <2>3. slot.timer /\ slot.status = "partial"
      BY <1>2 DEF Paced, Waiting
  <2>4. given \in Slot
      BY <2>1, <2>2 DEF Slot
  <2> QED BY <2>1, <2>2, <2>3, <2>4 DEF Slot, Newest, Paced, Waiting
<1>3. CASE /\ ~(slot.queue = << >> /\ ~slot.timer /\ block.count <= t + 1)
           /\ ~(slot.queue # << >> /\ block.count <= t)
  <2> DEFINE more == Enqueue(slot, block)
  <2>1. /\ more \in Slot
        /\ more.queue # << >>
        /\ LastOf(more.queue) = block
        /\ more = [slot EXCEPT !.queue = more.queue]
      BY EnqueueEndsWithBlock
  <2>2. given = IF slot.timer THEN more
                ELSE IF slot.status = "pending" THEN Drain(more)
                ELSE [more EXCEPT !.timer = TRUE]
      BY <1>3 DEF Schedule
  <2>3. /\ more.component = slot.component /\ more.status = slot.status
        /\ more.card = slot.card /\ more.final = None /\ more.timer = slot.timer
      BY <2>1 DEF Slot
  <2>4. Newest(more) = block
      BY <2>1, <2>3 DEF Newest
  <2> HIDE DEF more
  <2>5. CASE slot.timer
    <3>1. slot.status = "partial"
        BY <2>5 DEF Paced
    <3> QED BY <2>1, <2>2, <2>3, <2>4, <2>5, <3>1 DEF Paced
  <2>6. CASE ~slot.timer /\ slot.status = "pending"
    <3>1. given = Drain(more)
        BY <2>2, <2>6
    <3>2. /\ given \in Slot /\ given.component = more.component
          /\ Newest(given) = Newest(more) /\ (Waiting(given) <=> given.timer)
          /\ given.status = "partial" /\ given.card.status = "partial"
          /\ given.final = more.final
        BY <2>1, <3>1, DrainKeepsNewest DEF Waiting
    <3> QED BY <2>3, <2>4, <3>2 DEF Paced
  <2>7. CASE ~slot.timer /\ slot.status = "partial"
    <3>1. given = [more EXCEPT !.timer = TRUE]
        BY <2>2, <2>7
    <3>2. given \in Slot
        BY <2>1, <3>1 DEF Slot
    <3> QED BY <2>1, <2>3, <2>4, <2>7, <3>1, <3>2 DEF Paced, Waiting, Newest, Slot
  <2> QED BY <2>5, <2>6, <2>7
<1> QED BY <1>1, <1>2, <1>3

\* A final block is shown at once, or waits behind frames that have a timer (the "ui" event).
LEMMA SettleTakesBlock ==
    ASSUME NEW slot \in Slot, NEW block \in Block, Paced(slot)
    PROVE  LET given == Settle(slot, block)
           IN  /\ given \in Slot
               /\ given.component = slot.component
               /\ Newest(given) = block
               /\ Paced(given)
               /\ \/ given.status = "final" /\ given.card.status = "final"
                  \/ /\ slot.status = "partial" /\ given.status = "partial"
                     /\ given.card = slot.card /\ given.final # None
<1> DEFINE given == Settle(slot, block)
<1>1. block # None /\ block.count \in Items
    BY NoneAssumption DEF Block
<1>2. CASE slot.queue # << >> /\ slot.timer
  <2>1. given = [slot EXCEPT !.final = block]
      BY <1>2 DEF Settle
  <2>2. slot.status = "partial"
      BY <1>2 DEF Paced
  <2>3. given \in Slot
      BY <2>1 DEF Slot
  <2> QED BY <1>1, <1>2, <2>1, <2>2, <2>3 DEF Slot, Newest, Paced, Waiting
<1>3. CASE ~(slot.queue # << >> /\ slot.timer)
  <2> DEFINE card == Commit(slot, block, "final")
  <2>1. given = [card EXCEPT !.timer = FALSE, !.queue = << >>, !.final = None]
      BY <1>3 DEF Settle
  <2>2. /\ card \in Slot /\ card.component = slot.component /\ card.status = "final"
        /\ card.card.block = block /\ card.card.status = "final"
      BY CommitIsSlot DEF Status
  <2>3. << >> \in Seq(Block)
      OBVIOUS
  <2> HIDE DEF card
  <2>4. /\ given \in Slot /\ given.component = slot.component /\ given.status = "final"
        /\ given.queue = << >> /\ given.timer = FALSE /\ given.final = None
        /\ given.card = card.card
      BY <2>1, <2>2, <2>3 DEF Slot
  <2> QED BY <2>2, <2>4 DEF Newest, Paced, Waiting
<1> QED BY <1>2, <1>3

\* The end of the turn shows what came last and stops the timer (flush).
LEMMA FlushShowsNewest ==
    ASSUME NEW slot \in Slot, slot.card.status = slot.status, Paced(slot)
    PROVE  LET flushed == Flushed(slot)
           IN  /\ flushed \in Slot
               /\ flushed.component = slot.component
               /\ flushed.card.block = Newest(slot)
               /\ ~Waiting(flushed) /\ ~flushed.timer
               /\ flushed.card.status = flushed.status
               /\ flushed.status = IF slot.final # None THEN "final" ELSE slot.status
<1> DEFINE flushed == Flushed(slot)
           last == IF slot.final # None THEN slot.final ELSE LastOf(slot.queue)
           status == IF slot.final # None THEN "final" ELSE slot.status
<1>1. CASE Waiting(slot)
  <2> DEFINE card == Commit(slot, last, status)
  <2>1. flushed = [card EXCEPT !.timer = FALSE, !.queue = << >>, !.final = None]
      BY <1>1 DEF Flushed
  <2>2. last \in Block
      BY <1>1 DEF Waiting, Slot, LastOf
  <2>3. status \in Status
      BY DEF Slot, Status
  <2>4. last = Newest(slot)
      BY <1>1 DEF Waiting, Newest
  <2> HIDE DEF last, status
  <2>5. /\ card \in Slot /\ card.component = slot.component /\ card.status = status
        /\ card.card.block = last /\ card.card.status = status
      BY <2>2, <2>3, CommitIsSlot
  <2>6. << >> \in Seq(Block)
      OBVIOUS
  <2> HIDE DEF card
  <2>7. /\ flushed \in Slot /\ flushed.component = slot.component /\ flushed.status = status
        /\ flushed.queue = << >> /\ flushed.timer = FALSE /\ flushed.final = None
        /\ flushed.card = card.card
      BY <2>1, <2>5, <2>6 DEF Slot
  <2> QED BY <2>4, <2>5, <2>7 DEF Waiting, status
<1>2. CASE ~Waiting(slot)
  <2>1. flushed = [slot EXCEPT !.timer = FALSE, !.queue = << >>, !.final = None]
      BY <1>2 DEF Flushed
  <2>2. << >> \in Seq(Block)
      OBVIOUS
  <2>3. /\ flushed \in Slot /\ flushed.component = slot.component
        /\ flushed.status = slot.status
        /\ flushed.queue = << >> /\ flushed.timer = FALSE /\ flushed.final = None
        /\ flushed.card = slot.card
      BY <2>1, <2>2 DEF Slot
  <2> QED BY <1>2, <2>3 DEF Waiting, Newest
<1> QED BY <1>1, <1>2


\* A slot just opened or adopted is empty and may be handed a block.
LEMMA OpenedIsEmpty ==
    ASSUME NEW c \in Components, NEW status \in Status, NEW card \in Card
    PROVE  LET slot == Opened(c, status, card)
           IN  /\ slot \in Slot
               /\ slot.component = c /\ slot.status = status /\ slot.card = card
               /\ slot.queue = << >> /\ slot.rendered = 0
               /\ slot.final = None /\ ~slot.timer
               /\ Paced(slot)
<1>1. << >> \in Seq(Block) /\ 0 \in Items
    BY TurnAssumption DEF Items
<1> QED BY <1>1 DEF Opened, Slot, Paced, Waiting

(***************************************************************************)
(* What a step does to the slots                                           *)
(***************************************************************************)

\* One slot becomes another or is added; the rest stay.
LEMMA PutChangesOne ==
    ASSUME TypeOK, NEW i \in 1..(Len(slots) + 1), NEW slot \in Slot, NEW block \in Block,
           Put(i, slot, block)
    PROVE  /\ slots' \in Seq(Slot) /\ latest' \in Seq(Block) /\ Len(latest') = Len(slots')
           /\ DOMAIN slots' = DOMAIN slots \cup {i}
           /\ Len(slots') >= Len(slots) /\ i \in 1..Len(slots')
           /\ slots'[i] = slot /\ latest'[i] = block
           /\ \A j \in DOMAIN slots \ {i} : slots'[j] = slots[j] /\ latest'[j] = latest[j]
<1> DEFINE n == IF i > Len(slots) THEN i ELSE Len(slots)
<1>1. /\ slots \in Seq(Slot) /\ latest \in Seq(Block) /\ Len(latest) = Len(slots)
      /\ Len(slots) \in Nat
    BY DEF TypeOK
<1>2. /\ n \in Nat /\ 1..n = (1..Len(slots)) \cup {i} /\ n >= Len(slots)
    BY <1>1
<1>3. slots' = [j \in 1..n |-> IF j = i THEN slot ELSE slots[j]]
    BY DEF Put
<1>4. latest' = [j \in 1..n |-> IF j = i THEN block ELSE latest[j]]
    BY <1>3 DEF Put
<1>5. \A j \in 1..n : /\ (IF j = i THEN slot ELSE slots[j]) \in Slot
                       /\ (IF j = i THEN block ELSE latest[j]) \in Block
    BY <1>1, <1>2
<1> HIDE DEF n
<1>6. slots' \in Seq(Slot) /\ Len(slots') = n /\ DOMAIN slots' = 1..n
    BY <1>2, <1>3, <1>5
<1>7. latest' \in Seq(Block) /\ Len(latest') = n
    BY <1>2, <1>4, <1>5
<1>8. DOMAIN slots = 1..Len(slots)
    BY <1>1
<1> QED BY <1>2, <1>3, <1>4, <1>6, <1>7, <1>8

\* A slot that took the block it was handed is as sound as the others.
LEMMA PutKeepsCards ==
    ASSUME IInv, phase = "streaming", phase' = phase,
           NEW i \in 1..(Len(slots) + 1), NEW slot \in Slot, NEW block \in Block,
           Put(i, slot, block),
           Paced(slot), Newest(slot) = block, slot.card.status = slot.status
    PROVE  Pacing' /\ NothingLost' /\ CardFollows'
<1>1. /\ DOMAIN slots' = DOMAIN slots \cup {i}
      /\ slots'[i] = slot /\ latest'[i] = block
      /\ \A j \in DOMAIN slots \ {i} : slots'[j] = slots[j] /\ latest'[j] = latest[j]
    BY PutChangesOne DEF IInv
<1>2. Pacing'
    BY <1>1 DEF IInv, Pacing, Paced, Waiting
<1>3. NothingLost'
    BY <1>1 DEF IInv, NothingLost, Newest
<1>4. CardFollows'
    BY <1>1 DEF IInv, CardFollows
<1> QED BY <1>2, <1>3, <1>4

\* An attempt keeps what it has when a block of another one, or of none, goes elsewhere.
LEMMA PutKeepsOwned ==
    ASSUME IInv, NEW i \in 1..(Len(slots) + 1), NEW slot \in Slot, NEW block \in Block,
           Put(i, slot, block), component' = component,
           NEW t \in Streams, block.stream # t,
           slotByStream'[t] = slotByStream[t], attempt'[t] = attempt[t],
           slotByStream[t] = i => attempt[t] \notin {"open", "done"}
    PROVE  Owned(t)'
<1>1. /\ DOMAIN slots' = DOMAIN slots \cup {i}
      /\ latest'[i] = block
      /\ \A j \in DOMAIN slots \ {i} : slots'[j] = slots[j] /\ latest'[j] = latest[j]
    BY PutChangesOne DEF IInv
<1>2. slotByStream[t] = 0 \/ slotByStream[t] \in DOMAIN slots
    BY DEF IInv, TypeOK
<1>3. Owned(t)
    BY DEF IInv
<1> QED BY <1>1, <1>2, <1>3 DEF Owned

\* The block's attempt is the only one whose slot may be new.
LEMMA PutKeepsKnown ==
    ASSUME IInv, NEW i \in 1..(Len(slots) + 1), NEW slot \in Slot, NEW block \in Block,
           Put(i, slot, block),
           block.stream \in Streams,
           slotByStream[block.stream] \in {0, i},
           slotByStream' = [slotByStream EXCEPT ![block.stream] = i]
    PROVE  Known'
<1>1. TypeOK
    BY DEF IInv
<1>2. /\ DOMAIN slots' = DOMAIN slots \cup {i}
      /\ latest'[i] = block
      /\ \A j \in DOMAIN slots \ {i} : slots'[j] = slots[j] /\ latest'[j] = latest[j]
    BY ONLY <1>1, PutChangesOne, Put(i, slot, block), i \in 1..(Len(slots) + 1),
            slot \in Slot, block \in Block
<1>3. slotByStream \in [Streams -> Nat] /\ DOMAIN slots = 1..Len(slots)
    BY DEF IInv, TypeOK
<1> SUFFICES ASSUME NEW j \in DOMAIN slots', NEW t \in Streams, latest'[j].stream = t
             PROVE  slotByStream'[t] = j
    BY DEF Known
<1>4. CASE j = i
    BY <1>2, <1>3, <1>4
<1>5. CASE j # i
  <2>1. j \in DOMAIN slots /\ latest[j].stream = t
      BY <1>2, <1>5
  <2>2. slotByStream[t] = j /\ j # 0
      BY <1>3, <2>1 DEF IInv, Known
  <2> QED BY <1>3, <1>5, <2>2
<1> QED BY <1>4, <1>5

\* The parts of the type invariant that such a step may touch.
LEMMA PutKeepsTypes ==
    ASSUME IInv, NEW i \in 1..(Len(slots) + 1), NEW slot \in Slot, NEW block \in Block,
           Put(i, slot, block), phase' = phase, component' = component,
           attempt' \in [Streams -> {"new", "open", "done", "refused"}],
           slotByStream' \in [Streams -> Nat],
           \A t \in Streams : slotByStream'[t] \in {slotByStream[t], i}
    PROVE  TypeOK'
<1>1. TypeOK
    BY DEF IInv
<1>2. /\ slots' \in Seq(Slot) /\ latest' \in Seq(Block) /\ Len(latest') = Len(slots')
      /\ Len(slots') >= Len(slots) /\ i \in 1..Len(slots')
    BY <1>1, PutChangesOne
<1>3. Len(slots') \in Nat /\ Len(slots) \in Nat
    BY <1>1, <1>2 DEF TypeOK
<1>4. \A t \in Streams : slotByStream[t] \in 0..Len(slots)
    BY <1>1 DEF TypeOK
<1>5. \A t \in Streams : slotByStream'[t] \in 0..Len(slots')
    BY <1>2, <1>3, <1>4
<1> QED BY <1>2, <1>5 DEF IInv, TypeOK


(***************************************************************************)
(* The actions                                                             *)
(***************************************************************************)

\* While the stream runs, a slot of the invariant is fit to be handed a block.
LEMMA StreamingSlot ==
    ASSUME IInv, phase = "streaming", NEW i \in DOMAIN slots
    PROVE  /\ slots[i] \in Slot /\ Paced(slots[i])
           /\ slots[i].card \in Card /\ slots[i].card.status = slots[i].status
<1>1. slots[i] \in Slot
    BY DEF IInv, TypeOK
<1> QED BY <1>1 DEF IInv, Pacing, CardFollows, Slot

\* An attempt that may adopt or open a slot takes it from no attempt that is still good.
LEMMA TargetIsFree ==
    ASSUME IInv, NEW c \in Components, NEW t \in Streams, NEW i,
           Target(i, Adoptable(c)), slotByStream[t] = i
    PROVE  attempt[t] \notin {"open", "done"}
<1>1. Len(slots) \in Nat /\ DOMAIN slots = 1..Len(slots) /\ slotByStream[t] \in 0..Len(slots)
    BY DEF IInv, TypeOK
<1>2. CASE IsLast(i, Adoptable(c))
  <2>1. slots[i].status \in {"pending", "retrying"}
      BY <1>2 DEF IsLast, Adoptable, Found
  <2> QED BY <2>1 DEF IInv, Owned
<1>3. CASE i = Len(slots) + 1
    BY <1>1, <1>3
<1> QED BY <1>2, <1>3 DEF Target

\* tool_call: a skeleton is nobody's.
LEMMA ToolCallStep ==
    ASSUME IInv, NEW c \in Components, ToolCall(c)
    PROVE  IInv'
<1> DEFINE block == Frame(None, 0)
           blank == [block |-> block, status |-> "pending"]
           slot == Opened(c, "pending", blank)
           i == Len(slots) + 1
<1>1. /\ phase = "streaming" /\ Put(i, slot, block)
      /\ UNCHANGED <<phase, slotByStream, attempt, component>>
    BY DEF ToolCall
<1>2. Len(slots) \in Nat /\ DOMAIN slots = 1..Len(slots) /\ i \in 1..(Len(slots) + 1)
    BY DEF IInv, TypeOK
<1>3. block \in Block /\ block.stream = None
    BY TurnAssumption DEF Block, Frame, Items
<1>4. blank \in Card /\ "pending" \in Status
    BY <1>3 DEF Card, Status
<1>5. blank.block = block /\ blank.status = "pending"
    OBVIOUS
<1> HIDE DEF block, blank
<1>6. /\ slot \in Slot /\ slot.status = "pending" /\ slot.card = blank
      /\ slot.queue = << >> /\ slot.final = None /\ Paced(slot)
    BY <1>4, OpenedIsEmpty
<1>7. Newest(slot) = block
    BY <1>5, <1>6 DEF Newest
<1> HIDE DEF slot, i
<1>8. Pacing' /\ NothingLost' /\ CardFollows'
    BY <1>1, <1>2, <1>3, <1>5, <1>6, <1>7, PutKeepsCards
<1>9. TypeOK'
    BY <1>1, <1>2, <1>3, <1>6, PutKeepsTypes DEF IInv, TypeOK
<1>10. \A t \in Streams : Owned(t)'
    BY <1>1, <1>2, <1>3, <1>6, PutKeepsOwned, TurnAssumption DEF IInv, TypeOK, i
<1>11. /\ DOMAIN slots' = DOMAIN slots \cup {i} /\ latest'[i] = block
       /\ \A j \in DOMAIN slots \ {i} : slots'[j] = slots[j] /\ latest'[j] = latest[j]
  <2>1. /\ TypeOK /\ i \in 1..(Len(slots) + 1) /\ slot \in Slot /\ block \in Block
        /\ Put(i, slot, block)
      BY <1>1, <1>2, <1>3, <1>6 DEF IInv
  <2> QED BY ONLY <2>1, PutChangesOne
<1>12. Known'
    BY <1>1, <1>3, <1>11, TurnAssumption DEF IInv, Known
<1> QED BY <1>8, <1>9, <1>10, <1>12 DEF IInv

\* The attempt s is handed block in slot i: the part that frames and final blocks share.
LEMMA HandedStep ==
    ASSUME IInv, phase = "streaming",
           NEW s \in Streams, NEW i \in 1..(Len(slots) + 1),
           NEW slot \in Slot, NEW block \in Block, NEW where \in {"open", "done"},
           attempt[s] \in {"new", "open"},
           IF slotByStream[s] # 0 THEN i = slotByStream[s] ELSE Target(i, Adoptable(component[s])),
           Put(i, slot, block),
           slotByStream' = [slotByStream EXCEPT ![s] = i],
           attempt' = [attempt EXCEPT ![s] = where],
           UNCHANGED <<phase, component>>,
           block.stream = s, block.final = (where = "done"),
           Newest(slot) = block, Paced(slot), slot.card.status = slot.status,
           slot.component = component[s],
           where = "open" => slot.status = "partial" /\ slot.final = None,
           where = "done" => slot.status = "final" \/ (slot.status = "partial" /\ slot.final # None)
    PROVE  IInv'
<1>1. TypeOK
    BY DEF IInv
<1>2. /\ Len(slots) \in Nat /\ DOMAIN slots = 1..Len(slots)
      /\ slotByStream \in [Streams -> Nat]
      /\ attempt \in [Streams -> {"new", "open", "done", "refused"}]
      /\ component[s] \in Components
    BY <1>1 DEF TypeOK
<1>3. Pacing' /\ NothingLost' /\ CardFollows'
    BY PutKeepsCards
<1>4. attempt' \in [Streams -> {"new", "open", "done", "refused"}]
    BY <1>2
<1>5. slotByStream' \in [Streams -> Nat] /\ slotByStream'[s] = i
      /\ \A t \in Streams \ {s} : slotByStream'[t] = slotByStream[t] /\ attempt'[t] = attempt[t]
    BY <1>2
<1>6. TypeOK'
    BY <1>4, <1>5, PutKeepsTypes
<1>7. slotByStream[s] \in {0, i}
    BY <1>2
<1>8. Known'
    BY <1>7, PutKeepsKnown
<1>9. ASSUME NEW t \in Streams, t # s PROVE Owned(t)'
  <2>1. ASSUME slotByStream[t] = i PROVE attempt[t] \notin {"open", "done"}
    <3>1. CASE slotByStream[s] = 0
        BY <1>2, <2>1, <3>1, TargetIsFree
    <3>2. CASE slotByStream[s] # 0
      <4>1. attempt[s] = "open" /\ latest[i].stream = s
          BY <3>2 DEF IInv, Owned
      <4>2. attempt[t] \in {"open", "done"} => latest[i].stream = t
          BY <2>1 DEF IInv, Owned
      <4> QED BY <1>9, <4>1, <4>2
    <3> QED BY <3>1, <3>2
  <2>2. slotByStream'[t] = slotByStream[t] /\ attempt'[t] = attempt[t] /\ block.stream # t
      BY <1>5, <1>9
  <2>3. component' = component
      OBVIOUS
  <2> QED BY ONLY IInv, <2>1, <2>2, <2>3, PutKeepsOwned, Put(i, slot, block), t \in Streams,
                  i \in 1..(Len(slots) + 1), slot \in Slot, block \in Block
<1>10. Owned(s)'
  <2>1. slots'[i] = slot /\ latest'[i] = block
      BY ONLY <1>1, PutChangesOne, Put(i, slot, block), i \in 1..(Len(slots) + 1),
              slot \in Slot, block \in Block
  <2>2. attempt'[s] = where
      BY <1>2
  <2>3. component[s] \notin Whole
      BY DEF IInv, Owned
  <2>4. i # 0
      BY <1>2
  <2> QED BY <1>5, <2>1, <2>2, <2>3, <2>4 DEF Owned
<1> QED BY <1>3, <1>6, <1>8, <1>9, <1>10 DEF IInv


\* ui_partial.
LEMMA PartialStep ==
    ASSUME IInv, NEW s \in Streams, NEW n \in Items, Partial(s, n)
    PROVE  IInv'
<1> DEFINE block == Frame(s, n)
           own == slotByStream[s]
           blank == [block |-> block, status |-> "pending"]
           card(i) == IF i \in DOMAIN slots THEN slots[i].card ELSE blank
           slot(i) == IF own # 0 THEN slots[i] ELSE Opened(component[s], "pending", card(i))
<1>1. PICK i \in 1..(Len(slots) + 1) :
        /\ IF own # 0 THEN i = own ELSE Target(i, Adoptable(component[s]))
        /\ Put(i, Schedule(slot(i), block), block)
        /\ slotByStream' = [slotByStream EXCEPT ![s] = i]
    BY DEF Partial
<1>2. /\ phase = "streaming" /\ attempt[s] \in {"new", "open"}
      /\ attempt' = [attempt EXCEPT ![s] = "open"]
      /\ UNCHANGED <<phase, component>>
    BY DEF Partial
<1>3. block \in Block /\ block.stream = s /\ block.final = FALSE
    BY DEF Block, Frame
<1>4. /\ DOMAIN slots = 1..Len(slots) /\ own \in 0..Len(slots) /\ component[s] \in Components
      /\ Len(slots) \in Nat
    BY DEF IInv, TypeOK
<1>5. /\ slot(i) \in Slot /\ slot(i).component = component[s]
      /\ slot(i).status \in {"pending", "partial"} /\ slot(i).final = None /\ Paced(slot(i))
      /\ slot(i).status = "partial" => slot(i).card.status = "partial"
      /\ slot(i).status = "pending" => slot(i).queue = << >> /\ slot(i).rendered = 0
  <2>1. CASE own # 0
    <3>1. i = own /\ i \in DOMAIN slots /\ slot(i) = slots[i]
        BY <1>1, <1>4, <2>1
    <3>2. attempt[s] = "open"
        BY <1>2, <2>1 DEF IInv, Owned
    <3>3. slots[i].component = component[s] /\ slots[i].status = "partial" /\ slots[i].final = None
        BY <3>1, <3>2 DEF IInv, Owned
    <3> QED BY <1>2, <3>1, <3>3, StreamingSlot
  <2>2. CASE own = 0
    <3>1. slot(i) = Opened(component[s], "pending", card(i))
        BY <2>2
    <3>2. blank \in Card /\ "pending" \in Status
        BY <1>3 DEF Card, Status
    <3>3. card(i) \in Card
        BY <1>2, <3>2, StreamingSlot
    <3> HIDE DEF card, slot
    <3> QED BY <1>4, <3>1, <3>2, <3>3, OpenedIsEmpty
  <2> QED BY <2>1, <2>2
<1> DEFINE given == Schedule(slot(i), block)
<1> HIDE DEF slot, block
<1>6. /\ given \in Slot /\ given.component = component[s]
      /\ given.status = "partial" /\ given.card.status = "partial" /\ given.final = None
      /\ Newest(given) = block /\ Paced(given)
    BY <1>3, <1>5, ScheduleTakesBlock
<1> HIDE DEF given, own
<1>7. Put(i, given, block)
    BY <1>1 DEF given
<1>8. IF slotByStream[s] # 0 THEN i = slotByStream[s] ELSE Target(i, Adoptable(component[s]))
    BY <1>1 DEF own
<1> QED BY <1>1, <1>2, <1>3, <1>6, <1>7, <1>8, HandedStep

\* ui with a stream id.
LEMMA FinalStep ==
    ASSUME IInv, NEW s \in Streams, NEW n \in Items, Final(s, n)
    PROVE  IInv'
<1> DEFINE block == FinalBlock(s, n)
           own == slotByStream[s]
           blank == [block |-> block, status |-> "final"]
           slot(i) == IF i \in DOMAIN slots THEN slots[i]
                      ELSE Opened(component[s], "final", blank)
<1>1. PICK i \in 1..(Len(slots) + 1) :
        /\ IF own # 0 THEN i = own ELSE Target(i, Adoptable(component[s]))
        /\ Land(i, component[s], block)
        /\ slotByStream' = [slotByStream EXCEPT ![s] = i]
    BY DEF Final
<1>2. /\ phase = "streaming" /\ attempt[s] \in {"new", "open"}
      /\ attempt' = [attempt EXCEPT ![s] = "done"]
      /\ UNCHANGED <<phase, component>>
    BY DEF Final
<1>3. block \in Block /\ block.stream = s /\ block.final = TRUE
    BY DEF Block, FinalBlock
<1>4. /\ DOMAIN slots = 1..Len(slots) /\ own \in 0..Len(slots) /\ component[s] \in Components
      /\ Len(slots) \in Nat
    BY DEF IInv, TypeOK
<1>5. slot(i) \in Slot /\ slot(i).component = component[s] /\ Paced(slot(i))
      /\ slot(i).card.status = slot(i).status
  <2>1. CASE i \in DOMAIN slots
    <3>1. slots[i].component = component[s]
      <4>1. CASE own # 0
        <5>1. attempt[s] = "open"
            BY <1>2, <4>1 DEF IInv, Owned
        <5> QED BY <1>1, <4>1, <5>1 DEF IInv, Owned
      <4>2. CASE own = 0
          BY <1>1, <1>4, <2>1, <4>2 DEF Target, IsLast, Adoptable, Found
      <4> QED BY <4>1, <4>2
    <3> QED BY <1>2, <2>1, <3>1, StreamingSlot
  <2>2. CASE i \notin DOMAIN slots
    <3>1. slot(i) = Opened(component[s], "final", blank)
        BY <2>2
    <3>2. blank \in Card /\ "final" \in Status /\ blank.status = "final"
        BY <1>3 DEF Card, Status
    <3> HIDE DEF blank, slot
    <3> QED BY <1>4, <3>1, <3>2, OpenedIsEmpty
  <2> QED BY <2>1, <2>2
<1> DEFINE given == Settle(slot(i), block)
<1>6. Put(i, given, block)
    BY <1>1 DEF Land
<1> HIDE DEF slot, block
<1>7. /\ given \in Slot /\ given.component = component[s]
      /\ Newest(given) = block /\ Paced(given)
      /\ \/ given.status = "final" /\ given.card.status = "final"
         \/ /\ slot(i).status = "partial" /\ given.status = "partial"
            /\ given.card = slot(i).card /\ given.final # None
    BY <1>3, <1>5, SettleTakesBlock
<1> HIDE DEF given, own
<1>8. given.card.status = given.status
    BY <1>5, <1>7
<1>9. IF slotByStream[s] # 0 THEN i = slotByStream[s] ELSE Target(i, Adoptable(component[s]))
    BY <1>1 DEF own
<1> QED BY <1>1, <1>2, <1>3, <1>6, <1>7, <1>8, <1>9, HandedStep

\* ui without a stream id: the component is of no attempt.
LEMMA WholeCardStep ==
    ASSUME IInv, NEW c \in Whole, NEW n \in Items, WholeCard(c, n)
    PROVE  IInv'
<1> DEFINE block == FinalBlock(None, n)
           blank == [block |-> block, status |-> "final"]
           slot(i) == IF i \in DOMAIN slots THEN slots[i] ELSE Opened(c, "final", blank)
<1>1. PICK i \in 1..(Len(slots) + 1) : Target(i, Found(c, Status)) /\ Land(i, c, block)
    BY DEF WholeCard
<1>2. /\ phase = "streaming"
      /\ UNCHANGED <<phase, slotByStream, attempt, component>>
    BY DEF WholeCard
<1>3. block \in Block /\ block.stream = None
    BY DEF Block, FinalBlock
<1>4. /\ DOMAIN slots = 1..Len(slots) /\ c \in Components /\ Len(slots) \in Nat
      /\ slotByStream \in [Streams -> Nat] /\ \A t \in Streams : slotByStream[t] \in 0..Len(slots)
    BY TurnAssumption DEF IInv, TypeOK
<1>5. slot(i) \in Slot /\ Paced(slot(i)) /\ slot(i).card.status = slot(i).status
  <2>1. CASE i \in DOMAIN slots
      BY <1>2, <2>1, StreamingSlot
  <2>2. CASE i \notin DOMAIN slots
    <3>1. slot(i) = Opened(c, "final", blank)
        BY <2>2
    <3>2. blank \in Card /\ "final" \in Status /\ blank.status = "final"
        BY <1>3 DEF Card, Status
    <3> HIDE DEF blank, slot
    <3> QED BY <1>4, <3>1, <3>2, OpenedIsEmpty
  <2> QED BY <2>1, <2>2
<1> DEFINE given == Settle(slot(i), block)
<1>6. Put(i, given, block)
    BY <1>1 DEF Land
<1> HIDE DEF slot, block
<1>7. /\ given \in Slot /\ Newest(given) = block /\ Paced(given)
      /\ \/ given.status = "final" /\ given.card.status = "final"
         \/ /\ slot(i).status = "partial" /\ given.status = "partial"
            /\ given.card = slot(i).card /\ given.final # None
    BY <1>3, <1>5, SettleTakesBlock
<1> HIDE DEF given
<1>8. given.card.status = given.status
    BY <1>5, <1>7
<1>9. Pacing' /\ NothingLost' /\ CardFollows'
    BY <1>1, <1>2, <1>3, <1>6, <1>7, <1>8, PutKeepsCards
<1>10. TypeOK'
    BY <1>1, <1>2, <1>3, <1>4, <1>6, <1>7, PutKeepsTypes DEF IInv, TypeOK
<1>11. ASSUME NEW t \in Streams PROVE Owned(t)'
  <2>1. ASSUME slotByStream[t] = i PROVE attempt[t] \notin {"open", "done"}
    <3>1. CASE i \in Found(c, Status)
        BY <2>1, <3>1 DEF Found, IInv, Owned
    <3>2. CASE i = Len(slots) + 1
        BY <1>4, <2>1, <3>2
    <3> QED BY <1>1, <3>1, <3>2 DEF Target, IsLast
  <2>2. block.stream # t
      BY <1>3, TurnAssumption
  <2> QED BY <1>1, <1>2, <1>3, <1>6, <1>7, <2>1, <2>2, PutKeepsOwned
<1>12. /\ DOMAIN slots' = DOMAIN slots \cup {i} /\ latest'[i] = block
       /\ \A j \in DOMAIN slots \ {i} : slots'[j] = slots[j] /\ latest'[j] = latest[j]
    BY <1>1, <1>3, <1>6, <1>7, PutChangesOne DEF IInv
<1>13. Known'
    BY <1>2, <1>3, <1>12, TurnAssumption DEF IInv, Known
<1> QED BY <1>9, <1>10, <1>11, <1>13 DEF IInv


\* One slot changes in place: a refusal, a timeout.
LEMMA MoveStep ==
    ASSUME IInv, NEW i \in DOMAIN slots, NEW slot \in Slot,
           slots' = [slots EXCEPT ![i] = slot],
           UNCHANGED <<phase, slotByStream, component, latest>>,
           attempt' \in [Streams -> {"new", "open", "done", "refused"}],
           phase = "streaming", slot.card.status = slot.status,
           Paced(slot), Newest(slot) = Newest(slots[i])
    PROVE  TypeOK' /\ Pacing' /\ NothingLost' /\ CardFollows' /\ Known'
<1>1. slots \in Seq(Slot) /\ DOMAIN slots = 1..Len(slots)
    BY DEF IInv, TypeOK
<1>2. /\ slots' \in Seq(Slot) /\ Len(slots') = Len(slots) /\ DOMAIN slots' = DOMAIN slots
      /\ slots'[i] = slot /\ \A j \in DOMAIN slots \ {i} : slots'[j] = slots[j]
    BY <1>1
<1>3. TypeOK'
    BY <1>2 DEF IInv, TypeOK
<1>4. Pacing'
    BY <1>2 DEF IInv, Pacing, Paced, Waiting
<1>5. NothingLost'
    BY <1>2 DEF IInv, NothingLost, Newest
<1>6. CardFollows'
    BY <1>2 DEF IInv, CardFollows
<1>7. Known'
    BY <1>2 DEF IInv, Known
<1> QED BY <1>3, <1>4, <1>5, <1>6, <1>7

\* tool_result with is_error.
LEMMA RefuseStep ==
    ASSUME IInv, NEW s \in Streams, Refuse(s)
    PROVE  IInv'
<1> DEFINE i == slotByStream[s]
           last == IF slots[i].queue = << >> THEN slots[i].card.block ELSE LastOf(slots[i].queue)
           card == [block |-> last, status |-> "retrying"]
<1>1. /\ phase = "streaming" /\ attempt[s] \in {"new", "open"}
      /\ attempt' = [attempt EXCEPT ![s] = "refused"]
      /\ UNCHANGED <<phase, slotByStream, component, latest>>
    BY DEF Refuse
<1>2. /\ attempt \in [Streams -> {"new", "open", "done", "refused"}]
      /\ i \in 0..Len(slots) /\ slots \in Seq(Slot) /\ DOMAIN slots = 1..Len(slots)
    BY DEF IInv, TypeOK
<1>3. /\ attempt' \in [Streams -> {"new", "open", "done", "refused"}]
      /\ attempt'[s] = "refused"
      /\ \A t \in Streams \ {s} : attempt'[t] = attempt[t]
    BY <1>1, <1>2
<1>4. CASE i # 0
  <2>1. /\ attempt[s] = "open" /\ slots[i].status = "partial" /\ slots[i].final = None
        /\ latest[i].stream = s
      BY <1>1, <1>4 DEF IInv, Owned
  <2>2. i \in DOMAIN slots /\ slots[i] \in Slot
      BY <1>2, <1>4
  <2> DEFINE slot == [slots[i] EXCEPT !.status = "retrying", !.timer = FALSE,
                                      !.queue = << >>, !.final = None, !.card = card]
  <2>3. slots' = [slots EXCEPT ![i] = slot]
      BY <1>4, <2>1, <2>2 DEF Refuse
  <2>4. last \in Block
    <3>1. slots[i].card.block \in Block /\ slots[i].queue \in Seq(Block)
        BY <2>2 DEF Slot, Card
    <3> QED BY <3>1 DEF LastOf
  <2>5. card \in Card /\ card.block = last /\ card.status = "retrying"
      BY <2>4 DEF Card, Status
  <2>6. "retrying" \in Status /\ << >> \in Seq(Block)
      BY DEF Status
  <2>7. last = Newest(slots[i])
      BY <2>1 DEF Newest
  <2> HIDE DEF card, last
  <2>8. /\ slot \in Slot /\ slot.status = "retrying" /\ slot.card = card
        /\ slot.timer = FALSE /\ slot.queue = << >> /\ slot.final = None
      BY <2>2, <2>5, <2>6 DEF Slot
  <2> HIDE DEF slot
  <2>9. Paced(slot) /\ Newest(slot) = Newest(slots[i]) /\ slot.card.status = slot.status
      BY <2>5, <2>7, <2>8 DEF Paced, Waiting, Newest
  <2>10. TypeOK' /\ Pacing' /\ NothingLost' /\ CardFollows' /\ Known'
      BY <1>1, <1>3, <2>2, <2>3, <2>8, <2>9, MoveStep
  <2>11. ASSUME NEW t \in Streams PROVE Owned(t)'
    <3>1. slots'[i] = slot /\ \A j \in DOMAIN slots \ {i} : slots'[j] = slots[j]
        BY <2>2, <2>3
    <3>2. slotByStream[t] = 0 \/ slotByStream[t] \in DOMAIN slots
        BY DEF IInv, TypeOK
    <3>3. CASE t = s
        BY <1>1, <1>3, <1>4, <2>8, <3>1, <3>3 DEF IInv, Owned
    <3>4. CASE t # s
      <4>1. slotByStream[t] = i => attempt[t] \notin {"open", "done"}
          BY <2>1, <3>4 DEF IInv, Owned
      <4> QED BY <1>1, <1>3, <2>1, <3>1, <3>2, <3>4, <4>1 DEF IInv, Owned
    <3> QED BY <3>3, <3>4
  <2> QED BY <2>10, <2>11 DEF IInv
<1>5. CASE i = 0
  <2>1. slots' = slots
      BY <1>5 DEF Refuse
  <2>2. TypeOK' /\ Pacing' /\ NothingLost' /\ CardFollows' /\ Known'
      BY <1>1, <1>3, <2>1
         DEF IInv, TypeOK, Pacing, Paced, Waiting, NothingLost, Newest, CardFollows, Known
  <2>3. \A t \in Streams : Owned(t)'
      BY <1>1, <1>3, <1>5, <2>1 DEF IInv, Owned
  <2> QED BY <2>2, <2>3 DEF IInv
<1> QED BY <1>4, <1>5

\* A slot's timeout.
LEMMA TickStep ==
    ASSUME IInv, NEW i \in DOMAIN slots, Tick(i)
    PROVE  IInv'
<1> DEFINE slot == Drain(slots[i])
<1>1. /\ slots[i].timer /\ slots' = [slots EXCEPT ![i] = slot]
      /\ UNCHANGED <<phase, slotByStream, attempt, component, latest>>
    BY DEF Tick
<1>2. phase = "streaming"
    BY <1>1 DEF IInv, TypeOK, CardFollows
<1>3. /\ slots[i] \in Slot /\ Paced(slots[i]) /\ slots[i].card.status = slots[i].status
    BY <1>2, StreamingSlot
<1>4. slots[i].status = "partial"
    BY <1>1, <1>3 DEF Paced
<1>5. /\ slot \in Slot /\ Newest(slot) = Newest(slots[i])
      /\ (Waiting(slot) <=> slot.timer)
      /\ \/ slot.status = "partial" /\ slot.card.status = "partial" /\ slot.final = slots[i].final
         \/ /\ slots[i].final # None /\ ~Waiting(slot)
            /\ slot.status = "final" /\ slot.card.status = "final"
  <2>1. /\ slot \in Slot /\ Newest(slot) = Newest(slots[i]) /\ (Waiting(slot) <=> slot.timer)
      BY <1>3, DrainKeepsNewest
  <2>2. CASE slots[i].queue # << >>
      BY <1>3, <2>1, <2>2, DrainKeepsNewest DEF Waiting
  <2>3. CASE slots[i].queue = << >> /\ slots[i].final # None
      BY <1>3, <2>1, <2>3, DrainKeepsNewest DEF Waiting
  <2>4. CASE slots[i].queue = << >> /\ slots[i].final = None
      BY <1>3, <1>4, <2>1, <2>4, DrainKeepsNewest DEF Waiting
  <2> QED BY <2>1, <2>2, <2>3, <2>4
<1> HIDE DEF slot
<1>6. Paced(slot) /\ slot.card.status = slot.status
    BY <1>5 DEF Paced
<1>7. attempt' \in [Streams -> {"new", "open", "done", "refused"}]
    BY <1>1 DEF IInv, TypeOK
<1>8. TypeOK' /\ Pacing' /\ NothingLost' /\ CardFollows' /\ Known'
    BY <1>1, <1>2, <1>5, <1>6, <1>7, MoveStep
<1>9. ASSUME NEW t \in Streams PROVE Owned(t)'
  <2>1. slots'[i] = slot /\ (\A j \in DOMAIN slots \ {i} : slots'[j] = slots[j])
      BY <1>1
  <2>2. slotByStream[t] = 0 \/ slotByStream[t] \in DOMAIN slots
      BY DEF IInv, TypeOK
  <2>3. slot.component = slots[i].component
      BY <1>3, DrainKeepsNewest DEF slot
  <2> QED BY <1>1, <1>4, <1>5, <2>1, <2>2, <2>3 DEF IInv, Owned
<1> QED BY <1>8, <1>9 DEF IInv


\* The end of the turn.
LEMMA EndStep ==
    ASSUME IInv, End
    PROVE  IInv'
<1>1. /\ phase = "streaming" /\ phase' = "ended"
      /\ UNCHANGED <<slotByStream, attempt, component, latest>>
    BY DEF End
<1>2. /\ slots \in Seq(Slot) /\ DOMAIN slots = 1..Len(slots) /\ Len(slots) \in Nat
      /\ \A t \in Streams : slotByStream[t] \in 0..Len(slots)
    BY DEF IInv, TypeOK
<1> DEFINE closed(i) == [Flushed(slots[i]) EXCEPT !.card = Closed(Flushed(slots[i]).card)]
<1>3. slots' = [i \in DOMAIN slots |-> closed(i)]
    BY DEF End
<1>4. ASSUME NEW i \in DOMAIN slots
      PROVE  /\ closed(i) \in Slot /\ closed(i).component = slots[i].component
             /\ closed(i).card.block = Newest(slots[i])
             /\ ~Waiting(closed(i)) /\ ~closed(i).timer
             /\ closed(i).status = IF slots[i].final # None THEN "final" ELSE slots[i].status
             /\ closed(i).card.status = ClosedStatus(closed(i).status)
  <2> DEFINE flushed == Flushed(slots[i])
             card == Closed(flushed.card)
  <2>1. slots[i] \in Slot /\ Paced(slots[i]) /\ slots[i].card.status = slots[i].status
      BY <1>1, StreamingSlot
  <2>2. /\ flushed \in Slot /\ flushed.component = slots[i].component
        /\ flushed.card.block = Newest(slots[i])
        /\ ~Waiting(flushed) /\ ~flushed.timer
        /\ flushed.card.status = flushed.status
        /\ flushed.status = IF slots[i].final # None THEN "final" ELSE slots[i].status
      BY <2>1, FlushShowsNewest
  <2> HIDE DEF flushed
  <2>3. flushed.card \in Card
      BY <2>2 DEF Slot
  <2>4. /\ card \in Card /\ card.block = flushed.card.block
        /\ card.status = ClosedStatus(flushed.card.status)
    <3> DEFINE shown == flushed.card
    <3>1. card = [shown EXCEPT !.status = ClosedStatus(shown.status)]
        BY DEF Closed, ClosedStatus
    <3>2. ClosedStatus(shown.status) \in Status \cup {"gone"}
        BY DEF ClosedStatus, Status
    <3> HIDE DEF shown, card
    <3>3. shown \in Card
        BY <2>3 DEF shown
    <3>4. card \in Card /\ card.block = shown.block /\ card.status = ClosedStatus(shown.status)
        BY <3>1, <3>2, <3>3 DEF Card
    <3> QED BY <3>4 DEF shown
  <2> HIDE DEF card
  <2>5. closed(i) = [flushed EXCEPT !.card = card]
      BY DEF flushed, card
  <2> HIDE DEF closed
  <2>6. /\ closed(i) \in Slot /\ closed(i).component = flushed.component
        /\ closed(i).card = card /\ closed(i).status = flushed.status
        /\ closed(i).timer = flushed.timer /\ closed(i).queue = flushed.queue
        /\ closed(i).final = flushed.final
      BY <2>2, <2>4, <2>5 DEF Slot
  <2> QED BY <2>2, <2>4, <2>6 DEF Waiting
<1> HIDE DEF closed
<1>5. /\ slots' \in Seq(Slot) /\ Len(slots') = Len(slots) /\ DOMAIN slots' = DOMAIN slots
      /\ \A i \in DOMAIN slots : slots'[i] = closed(i)
    BY <1>2, <1>3, <1>4
<1>6. TypeOK'
    BY <1>1, <1>5 DEF IInv, TypeOK
<1>7. Pacing'
    BY <1>4, <1>5 DEF Pacing, Paced
<1>8. NothingLost'
    BY <1>1, <1>4, <1>5 DEF IInv, NothingLost, Newest, Waiting
<1>9. CardFollows'
    BY <1>1, <1>4, <1>5 DEF CardFollows
<1>10. Known'
    BY <1>1, <1>5 DEF IInv, Known
<1>11. ASSUME NEW t \in Streams PROVE Owned(t)'
  <2>1. Owned(t)
      BY DEF IInv
  <2>2. CASE slotByStream[t] = 0
      BY <1>1, <2>1, <2>2 DEF Owned
  <2>3. CASE slotByStream[t] # 0
    <3> DEFINE own == slotByStream[t]
    <3>1. own \in DOMAIN slots
        BY <1>2, <2>3
    <3>2. slots[own].status = "retrying" => slots[own].final = None
        BY <3>1 DEF IInv, Pacing, Paced, Waiting
    <3>3. /\ slots'[own] = closed(own) /\ closed(own).component = slots[own].component
          /\ closed(own).status = IF slots[own].final # None THEN "final" ELSE slots[own].status
        BY <1>4, <1>5, <3>1
    <3>4. closed(own).final = None
        BY <1>4, <3>1 DEF Waiting
    <3>5. slotByStream'[t] = own /\ attempt'[t] = attempt[t] /\ component'[t] = component[t]
          /\ latest' = latest
        BY <1>1
    <3> QED BY <2>1, <3>2, <3>3, <3>4, <3>5 DEF Owned
  <2> QED BY <2>2, <2>3
<1> QED BY <1>6, <1>7, <1>8, <1>9, <1>10, <1>11 DEF IInv

(***************************************************************************)
(* The theorems                                                            *)
(***************************************************************************)

LEMMA Invariance == Spec => []IInv
<1>1. Init => IInv
  <2> SUFFICES ASSUME Init PROVE IInv
      OBVIOUS
  <2>1. slots = << >> /\ latest = << >> /\ DOMAIN slots = {}
      BY DEF Init
  <2>2. TypeOK
      BY <2>1 DEF Init, TypeOK
  <2> QED BY <2>1, <2>2 DEF Init, IInv, Pacing, NothingLost, CardFollows, Known, Owned
<1>2. IInv /\ [Next]_vars => IInv'
  <2> SUFFICES ASSUME IInv, [Next]_vars PROVE IInv'
      OBVIOUS
  <2>1. CASE \E c \in Components : ToolCall(c)
      BY <2>1, ToolCallStep
  <2>2. CASE \E s \in Streams, n \in Items : Partial(s, n)
      BY <2>2, PartialStep
  <2>3. CASE \E s \in Streams, n \in Items : Final(s, n)
      BY <2>3, FinalStep
  <2>4. CASE \E c \in Whole, n \in Items : WholeCard(c, n)
      BY <2>4, WholeCardStep
  <2>5. CASE \E s \in Streams : Refuse(s)
      BY <2>5, RefuseStep
  <2>6. CASE \E i \in DOMAIN slots : Tick(i)
      BY <2>6, TickStep
  <2>7. CASE End
      BY <2>7, EndStep
  <2>8. CASE UNCHANGED vars
      BY <2>8 DEF vars, IInv, TypeOK, Pacing, Paced, Waiting, NothingLost, Newest, CardFollows,
                  Known, Owned
  <2> QED BY <2>1, <2>2, <2>3, <2>4, <2>5, <2>6, <2>7, <2>8 DEF Next
<1> QED BY <1>1, <1>2, PTL DEF Spec

\* Every variable of a turn keeps its shape, whatever the numbers of attempts and items.
THEOREM TurnTypes == Spec => []TypeOK
<1>1. IInv => TypeOK
    BY DEF IInv
<1> QED BY <1>1, Invariance, PTL

\* A card with something to show always has a timer coming (schedule, drain, and every place
\* that clears a timer).
THEOREM CardsMove == Spec => []NothingStranded
<1>1. IInv => NothingStranded
    BY DEF IInv, Pacing, Paced, NothingStranded
<1> QED BY <1>1, Invariance, PTL

\* At the end every card shows the last block it was handed (flush).
THEOREM EndIsComplete == Spec => []EndShowsLatest
<1>1. IInv => EndShowsLatest
  <2> SUFFICES ASSUME IInv, phase = "ended", NEW i \in DOMAIN slots
               PROVE  slots[i].card.block = latest[i]
      BY DEF EndShowsLatest
  <2>1. ~Waiting(slots[i])
      BY DEF IInv, CardFollows, Pacing, Paced
  <2> QED BY <2>1 DEF IInv, NothingLost, Newest, Waiting
<1> QED BY <1>1, Invariance, PTL

\* At the end an attempt has one card if it was not refused and none if it was.
THEOREM OneCardEach == Spec => []CardPerAttempt
<1>1. IInv => CardPerAttempt
  <2> SUFFICES ASSUME IInv, phase = "ended", NEW s \in Streams
               PROVE  LET cards == {i \in DOMAIN slots : slots[i].card.block.stream = s
                                                        /\ slots[i].card.status = "final"}
                      IN  CASE attempt[s] \in {"open", "done"} ->
                                 \E i \in cards : /\ cards = {i}
                                                 /\ slots[i].card.block.final = (attempt[s] = "done")
                            [] OTHER -> cards = {}
      BY DEF CardPerAttempt
  <2> DEFINE cards == {i \in DOMAIN slots : slots[i].card.block.stream = s
                                           /\ slots[i].card.status = "final"}
             own == slotByStream[s]
  <2>1. \A i \in DOMAIN slots : slots[i].card.block = latest[i]
    <3> TAKE i \in DOMAIN slots
    <3>1. ~Waiting(slots[i])
        BY DEF IInv, CardFollows, Pacing, Paced
    <3> QED BY <3>1 DEF IInv, NothingLost, Newest, Waiting
  <2>2. \A i \in cards : i = own
      BY <2>1 DEF IInv, Known
  <2>3. DOMAIN slots = 1..Len(slots) /\ own \in 0..Len(slots) /\ Len(slots) \in Nat
      BY DEF IInv, TypeOK
  <2>4. CASE attempt[s] \in {"open", "done"}
    <3>1. /\ own # 0 /\ latest[own].stream = s /\ latest[own].final = (attempt[s] = "done")
          /\ slots[own].status \in {"partial", "final"}
        BY <2>4 DEF IInv, Owned
    <3>2. own \in DOMAIN slots
        BY <2>3, <3>1
    <3>3. slots[own].card.status = "final"
        BY <3>1, <3>2 DEF IInv, CardFollows, ClosedStatus
    <3>4. own \in cards /\ cards = {own}
        BY <2>1, <2>2, <3>1, <3>2, <3>3
    <3>5. slots[own].card.block.final = (attempt[s] = "done")
        BY <2>1, <3>1, <3>2
    <3> HIDE DEF cards, own
    <3>6. \E i \in cards : cards = {i} /\ slots[i].card.block.final = (attempt[s] = "done")
        BY <3>4, <3>5
    <3> QED BY <2>4, <3>6 DEF cards
  <2>5. CASE attempt[s] \notin {"open", "done"}
    <3>1. ASSUME NEW i \in cards PROVE FALSE
      <4>1. i = own /\ i \in DOMAIN slots /\ i # 0 /\ latest[own].stream = s
          BY <2>1, <2>2, <2>3
      <4>2. attempt[s] = "refused"
          BY <2>5, <4>1 DEF IInv, Owned, TypeOK
      <4>3. slots[own].status = "retrying"
          BY <4>1, <4>2 DEF IInv, Owned
      <4> QED BY <4>1, <4>3 DEF IInv, CardFollows, ClosedStatus
    <3>2. cards = {}
        BY <3>1
    <3> QED BY <2>5, <3>2
  <2> QED BY <2>4, <2>5
<1> QED BY <1>1, Invariance, PTL

(***************************************************************************)
(* What is shown grows.  The frames of a queue never have fewer items than *)
(* the one before, nor than the card.                                      *)
(***************************************************************************)

Rising(q, n) ==
    \A j \in DOMAIN q : /\ n <= q[j].count
                        /\ \A k \in DOMAIN q : j <= k => q[j].count <= q[k].count

Ascending(slot) ==
    slot.card.status = "partial" => /\ slot.rendered = slot.card.block.count
                                    /\ Rising(slot.queue, slot.rendered)

Climbing == \A i \in DOMAIN slots : Ascending(slots[i])

LEMMA CountIsNat ==
    /\ \A n \in Items : n \in Nat
    /\ \A block \in Block : block.count \in Nat
<1>1. \A n \in Items : n \in Nat
    BY TurnAssumption DEF Items
<1>2. \A block \in Block : block.count \in Items
    BY DEF Block
<1> QED BY <1>1, <1>2

\* Every second frame of a queue that rises, and the last, rise as well.
LEMMA ThinnedRises ==
    ASSUME NEW q \in Seq(Block), q # << >>, NEW n \in Nat, Rising(q, n)
    PROVE  Rising(Thinned(q), n)
<1> DEFINE l == Len(q)
           m == (l + 1) \div 2
           thin == Thinned(q)
<1>1. l \in Nat \ {0} /\ DOMAIN q = 1..l
    OBVIOUS
<1>2. DOMAIN thin = 1..m /\ \A k \in 1..m : thin[k] = IF 2 * k <= l THEN q[2 * k] ELSE q[l]
    BY DEF Thinned
<1> HIDE DEF l, thin
<1>3. m \in Nat /\ (2 * m = l \/ 2 * m = l + 1)
    BY <1>1
<1> HIDE DEF m
<1>4. ASSUME NEW k \in 1..m
      PROVE  \E i \in 1..l : /\ thin[k] = q[i]
                             /\ (i = 2 * k \/ (i = l /\ l <= 2 * k))
  <2>1. CASE 2 * k <= l
    <3>1. 2 * k \in 1..l /\ thin[k] = q[2 * k]
        BY <1>1, <1>2, <1>3, <2>1
    <3> QED BY <3>1
  <2>2. CASE ~(2 * k <= l)
    <3>1. l \in 1..l /\ thin[k] = q[l] /\ l <= 2 * k
        BY <1>1, <1>2, <1>3, <2>2
    <3> QED BY <3>1
  <2> QED BY <2>1, <2>2
<1>5. ASSUME NEW j \in 1..m
      PROVE  /\ n <= thin[j].count
             /\ \A k \in 1..m : j <= k => thin[j].count <= thin[k].count
  <2>1. PICK i \in 1..l : /\ thin[j] = q[i]
                         /\ (i = 2 * j \/ (i = l /\ l <= 2 * j))
      BY <1>4
  <2>2. n <= q[i].count
      BY <1>1 DEF Rising
  <2>3. ASSUME NEW k \in 1..m, j <= k PROVE q[i].count <= thin[k].count
    <3>1. PICK h \in 1..l : /\ thin[k] = q[h]
                           /\ (h = 2 * k \/ (h = l /\ l <= 2 * k))
        BY <1>4
    <3>2. i <= h
        BY <1>1, <1>3, <2>1, <2>3, <3>1
    <3> QED BY <1>1, <3>1, <3>2 DEF Rising
  <2> QED BY <2>1, <2>2, <2>3
<1> QED BY <1>2, <1>5 DEF Rising, thin

LEMMA TailCountIsItem ==
    ASSUME NEW slot \in Slot
    PROVE  TailCount(slot) \in Items
<1>1. slot.queue \in Seq(Block) /\ slot.rendered \in Items
    BY DEF Slot
<1>2. slot.queue # << >> => LastOf(slot.queue) \in Block
    BY <1>1 DEF LastOf
<1> QED BY <1>1, <1>2 DEF TailCount, Block

\* No frame of the queue has more items than that.
Within(q, n) == \A j \in DOMAIN q : q[j].count <= n

\* Frames that rise to n, and frames that rise from n: together they rise.
LEMMA JoinRises ==
    ASSUME NEW a \in Seq(Block), NEW b \in Seq(Block), NEW low \in Nat, NEW n \in Nat, NEW high \in Nat,
           low <= n, n <= high, Rising(a, low), Within(a, n), Rising(b, n), Within(b, high)
    PROVE  /\ a \o b \in Seq(Block)
           /\ Rising(a \o b, low)
           /\ Within(a \o b, high)
<1> DEFINE ab == a \o b
<1>1. /\ ab \in Seq(Block) /\ Len(ab) = Len(a) + Len(b)
      /\ DOMAIN a = 1..Len(a) /\ DOMAIN b = 1..Len(b) /\ DOMAIN ab = 1..Len(ab)
      /\ Len(a) \in Nat /\ Len(b) \in Nat
    OBVIOUS
<1>2. \A j \in 1..Len(ab) : ab[j] = IF j <= Len(a) THEN a[j] ELSE b[j - Len(a)]
    BY <1>1
<1>3. \A j \in 1..Len(ab) : ab[j].count \in Nat
    BY <1>1, CountIsNat
<1> HIDE DEF ab
<1>4. ASSUME NEW j \in 1..Len(ab)
      PROVE  \/ j \in DOMAIN a /\ ab[j] = a[j] /\ low <= ab[j].count /\ ab[j].count <= n
             \/ /\ j > Len(a) /\ j - Len(a) \in DOMAIN b /\ ab[j] = b[j - Len(a)]
                /\ n <= ab[j].count /\ ab[j].count <= high
  <2>1. CASE j <= Len(a)
    <3>1. j \in DOMAIN a /\ ab[j] = a[j]
        BY <1>1, <1>2, <2>1
    <3> QED BY <3>1 DEF Rising, Within
  <2>2. CASE ~(j <= Len(a))
    <3>1. j > Len(a) /\ j - Len(a) \in DOMAIN b /\ ab[j] = b[j - Len(a)]
        BY <1>1, <1>2, <2>2
    <3> QED BY <3>1 DEF Rising, Within
  <2> QED BY <2>1, <2>2
<1>5. \A j \in 1..Len(ab) : low <= ab[j].count /\ ab[j].count <= high
    BY <1>3, <1>4
<1>6. ASSUME NEW j \in 1..Len(ab), NEW k \in 1..Len(ab), j <= k
      PROVE  ab[j].count <= ab[k].count
  <2>1. CASE k \in DOMAIN a /\ ab[k] = a[k]
    <3>1. j \in DOMAIN a /\ ab[j] = a[j]
      <4>1. j \in 1..Len(a) /\ j <= Len(a)
          BY <1>1, <1>6, <2>1
      <4> QED BY <1>1, <1>2, <4>1
    <3> QED BY <1>6, <2>1, <3>1 DEF Rising
  <2>2. CASE k > Len(a) /\ k - Len(a) \in DOMAIN b /\ ab[k] = b[k - Len(a)] /\ n <= ab[k].count
    <3>1. CASE j \in DOMAIN a /\ ab[j].count <= n
        BY <1>3, <2>2, <3>1
    <3>2. CASE j > Len(a) /\ j - Len(a) \in DOMAIN b /\ ab[j] = b[j - Len(a)]
      <4>1. j - Len(a) <= k - Len(a)
          BY <1>1, <1>6
      <4> QED BY <2>2, <3>2, <4>1 DEF Rising
    <3> QED BY <1>4, <3>1, <3>2
  <2> QED BY <1>4, <2>1, <2>2
<1> QED BY <1>1, <1>5, <1>6 DEF Rising, Within, ab

\* A burst is cut into frames between the queue's last and the block that came.
LEMMA StepsRise ==
    ASSUME NEW slot \in Slot, NEW block \in Block,
           Rising(slot.queue, slot.rendered), TailCount(slot) <= block.count
    PROVE  Rising(Steps(slot, block), slot.rendered)
<1> DEFINE t == TailCount(slot)
           q == slot.queue
           more == block.count - t - 1
           cut == [k \in 1..more |-> [block EXCEPT !.count = t + k]]
<1>1. q \in Seq(Block) /\ slot.rendered \in Items /\ t \in Items /\ block.count \in Items
    BY TailCountIsItem DEF Slot, Block
<1>2. /\ slot.rendered \in Nat /\ t \in Nat /\ block.count \in Nat /\ t <= block.count
      /\ Len(q) \in Nat
    BY <1>1, CountIsNat
<1>3. slot.rendered <= t /\ Within(q, t)
  <2>1. CASE q = << >>
      BY <1>2, <2>1 DEF TailCount, Within
  <2>2. CASE q # << >>
    <3>1. Len(q) \in 1..Len(q) /\ DOMAIN q = 1..Len(q)
        BY <1>1, <2>2
    <3>2. t = q[Len(q)].count
        BY <2>2 DEF TailCount, LastOf
    <3>3. \A j \in DOMAIN q : j <= Len(q)
        BY <3>1
    <3> HIDE DEF t
    <3> QED BY <3>1, <3>2, <3>3 DEF Rising, Within
  <2> QED BY <2>1, <2>2
<1> HIDE DEF t
<1>4. more \in Int
    BY <1>2
<1>5. /\ cut \in Seq(Block)
      /\ DOMAIN cut = 1..more
      /\ \A k \in 1..more : cut[k].count = t + k
  <2>1. ASSUME NEW k \in 1..more
        PROVE  /\ [block EXCEPT !.count = t + k] \in Block
               /\ [block EXCEPT !.count = t + k].count = t + k
    <3>1. t + k \in Items
        BY <1>1, <1>2, TurnAssumption DEF Items
    <3> QED BY <3>1 DEF Block
  <2>2. CASE more \in Nat
      BY <2>1, <2>2
  <2>3. CASE more \notin Nat
    <3>1. 1..more = 1..0
        BY <1>4, <2>3
    <3>2. cut = << >>
        BY <3>1
    <3>3. DOMAIN cut = 1..more /\ \A k \in 1..more : FALSE
        BY <3>1
    <3> HIDE DEF cut
    <3> QED BY <3>2, <3>3
  <2> QED BY <2>1, <2>2, <2>3
<1> HIDE DEF cut
<1>6. Rising(cut, t) /\ Within(cut, block.count)
    BY <1>2, <1>5 DEF Rising, Within
<1>7. /\ q \o cut \in Seq(Block)
      /\ Rising(q \o cut, slot.rendered)
      /\ Within(q \o cut, block.count)
    BY <1>1, <1>2, <1>3, <1>5, <1>6, JoinRises
<1>8. /\ <<block>> \in Seq(Block)
      /\ Rising(<<block>>, block.count)
      /\ Within(<<block>>, block.count)
    BY <1>2 DEF Rising, Within
<1>9. Rising((q \o cut) \o <<block>>, slot.rendered)
  <2> DEFINE head == q \o cut
  <2>1. /\ slot.rendered <= block.count /\ block.count <= block.count
        /\ slot.rendered \in Nat /\ block.count \in Nat
      BY <1>2, <1>3
  <2>3. head \in Seq(Block) /\ Rising(head, slot.rendered) /\ Within(head, block.count)
      BY <1>7
  <2> HIDE DEF head
  <2>2. Rising(head \o <<block>>, slot.rendered)
      BY <1>8, <2>1, <2>3, JoinRises
  <2> QED BY <2>2 DEF head
<1> QED BY <1>9 DEF Steps, cut, t

\* The timer's callback puts the next frame on the card, which has as many items or more.
LEMMA DrainRises ==
    ASSUME NEW slot \in Slot, Rising(slot.queue, slot.rendered),
           slot.card.status = "partial" => slot.rendered = slot.card.block.count
    PROVE  /\ Ascending(Drain(slot))
           /\ slot.card.status = "partial" /\ Drain(slot).card.status = "partial" =>
                Drain(slot).card.block.count >= slot.card.block.count
<1> DEFINE shown == Drain(slot)
<1>0. slot.rendered \in Nat /\ slot.queue \in Seq(Block) /\ slot.card \in Card
    BY CountIsNat DEF Slot
<1>1. CASE slot.queue # << >>
  <2> DEFINE first == Head(slot.queue)
             rest == Tail(slot.queue)
             timer == rest # << >> \/ slot.final # None
  <2>1. /\ first = slot.queue[1] /\ rest \in Seq(Block) /\ first \in Block
        /\ Len(rest) = Len(slot.queue) - 1 /\ Len(slot.queue) \in Nat \ {0}
        /\ \A k \in 1..Len(rest) : rest[k] = slot.queue[k + 1]
        /\ DOMAIN slot.queue = 1..Len(slot.queue) /\ DOMAIN rest = 1..Len(rest)
      BY <1>0, <1>1
  <2>2. slot.rendered <= first.count /\ Rising(rest, first.count)
    <3>1. /\ 1 \in DOMAIN slot.queue
          /\ \A k \in DOMAIN rest : k + 1 \in DOMAIN slot.queue /\ 1 <= k + 1
          /\ \A j, k \in DOMAIN rest : j <= k => j + 1 <= k + 1
        BY <2>1
    <3>2. \A k \in DOMAIN rest : rest[k] = slot.queue[k + 1]
        BY <2>1
    <3> HIDE DEF rest
    <3> QED BY <2>1, <3>1, <3>2 DEF Rising
  <2>3. first.count \in Nat
      BY <2>1, CountIsNat
  <2>4. shown = [Commit(slot, first, "partial") EXCEPT !.queue = rest, !.timer = timer]
      BY <1>1 DEF Drain
  <2> HIDE DEF first, rest, timer
  <2>5. /\ shown.rendered = first.count /\ shown.queue = rest
        /\ shown.card = [block |-> first, status |-> "partial"]
      BY <2>4 DEF Commit, Slot
  <2> QED BY <1>0, <2>2, <2>3, <2>5 DEF Ascending
<1>2. CASE slot.queue = << >> /\ slot.final # None
  <2> DEFINE final == slot.final
  <2>1. shown = [Commit(slot, final, "final") EXCEPT !.timer = FALSE, !.final = None]
      BY <1>2 DEF Drain
  <2> HIDE DEF final
  <2>2. shown.card = [block |-> final, status |-> "final"]
      BY <2>1 DEF Commit, Slot
  <2> QED BY <2>2 DEF Ascending
<1>3. CASE slot.queue = << >> /\ slot.final = None
  <2>1. shown = [slot EXCEPT !.timer = FALSE]
      BY <1>3 DEF Drain
  <2>2. shown.card = slot.card /\ shown.rendered = slot.rendered /\ shown.queue = slot.queue
      BY <2>1 DEF Slot
  <2>3. slot.card.status = "partial" => slot.card.block.count \in Nat
      BY <1>0
  <2> QED BY <2>2, <2>3 DEF Ascending
<1> QED BY <1>1, <1>2, <1>3

\* A frame with as many items as the newest, or more, keeps the queue and the card in order.
LEMMA ScheduleRises ==
    ASSUME NEW slot \in Slot, NEW block \in Block,
           slot.status \in {"pending", "partial"}, Paced(slot),
           Rising(slot.queue, slot.rendered), TailCount(slot) <= block.count,
           slot.status = "partial" <=> slot.card.status = "partial",
           slot.card.status = "partial" => slot.rendered = slot.card.block.count
    PROVE  /\ Ascending(Schedule(slot, block))
           /\ slot.card.status = "partial" /\ Schedule(slot, block).card.status = "partial" =>
                Schedule(slot, block).card.block.count >= slot.card.block.count
<1> DEFINE given == Schedule(slot, block)
           t == TailCount(slot)
<1>0. /\ slot.rendered \in Nat /\ block.count \in Nat /\ t \in Nat
      /\ slot.queue \in Seq(Block)
  <2>1. slot.rendered \in Items /\ t \in Items /\ slot.queue \in Seq(Block)
      BY TailCountIsItem DEF Slot
  <2> HIDE DEF t
  <2> QED BY <2>1, CountIsNat
<1>1. CASE slot.queue = << >> /\ ~slot.timer /\ block.count <= t + 1
  <2>1. given = Commit(slot, block, "partial")
      BY <1>1 DEF Schedule
  <2>2. /\ given.rendered = block.count /\ given.queue = << >>
        /\ given.card.block = block
      BY <1>1, <2>1 DEF Commit, Slot
  <2>3. t = slot.rendered
      BY <1>1 DEF TailCount
  <2> QED BY <1>0, <2>2, <2>3 DEF Ascending, Rising
<1>2. CASE slot.queue # << >> /\ block.count <= t
  <2> DEFINE q == [slot.queue EXCEPT ![Len(slot.queue)] = block]
  <2>1. given = [slot EXCEPT !.queue = q]
      BY <1>2 DEF Schedule
  <2>2. block.count = LastOf(slot.queue).count
      BY <1>0, <1>2 DEF TailCount
  <2>3. Rising(q, slot.rendered)
    <3>1. DOMAIN q = DOMAIN slot.queue /\ \A k \in DOMAIN q : q[k].count = slot.queue[k].count
        BY <1>0, <2>2 DEF LastOf
    <3> HIDE DEF q
    <3> QED BY <3>1 DEF Rising
  <2> HIDE DEF q
  <2>4. given.queue = q /\ given.rendered = slot.rendered /\ given.card = slot.card
      BY <2>1 DEF Slot
  <2> QED BY <1>0, <2>3, <2>4 DEF Ascending
<1>3. CASE /\ ~(slot.queue = << >> /\ ~slot.timer /\ block.count <= t + 1)
           /\ ~(slot.queue # << >> /\ block.count <= t)
  <2> DEFINE more == Enqueue(slot, block)
  <2>1. more \in Slot /\ more = [slot EXCEPT !.queue = more.queue]
      BY EnqueueEndsWithBlock
  <2>2. Rising(more.queue, slot.rendered)
    <3> DEFINE steps == Steps(slot, block)
    <3>1. steps \in Seq(Block) /\ steps # << >> /\ Rising(steps, slot.rendered)
        BY StepsEndWithBlock, StepsRise
    <3>2. more.queue = IF Len(steps) > MaxQueue THEN Thinned(steps) ELSE steps
        BY DEF Enqueue, Slot
    <3> HIDE DEF steps, more
    <3> QED BY <1>0, <3>1, <3>2, ThinnedRises
  <2>3. given = IF slot.timer THEN more
                ELSE IF slot.status = "pending" THEN Drain(more)
                ELSE [more EXCEPT !.timer = TRUE]
      BY <1>3 DEF Schedule
  <2> HIDE DEF more
  <2>4. more.rendered = slot.rendered /\ more.card = slot.card
      BY <2>1 DEF Slot
  <2>5. CASE given = Drain(more)
      BY <2>1, <2>2, <2>4, <2>5, DrainRises
  <2>6. CASE given = more \/ given = [more EXCEPT !.timer = TRUE]
    <3>1. given.queue = more.queue /\ given.rendered = slot.rendered /\ given.card = slot.card
        BY <2>1, <2>4, <2>6 DEF Slot
    <3> QED BY <1>0, <2>2, <3>1 DEF Ascending
  <2> QED BY <2>3, <2>5, <2>6
<1> QED BY <1>1, <1>2, <1>3

\* A final block that waits changes nothing of what is shown.
LEMMA SettleRises ==
    ASSUME NEW slot \in Slot, NEW block \in Block, Ascending(slot)
    PROVE  /\ Ascending(Settle(slot, block))
           /\ Settle(slot, block).card.status = "partial" => Settle(slot, block).card = slot.card
<1>1. CASE slot.queue # << >> /\ slot.timer
  <2>1. Settle(slot, block) = [slot EXCEPT !.final = block]
      BY <1>1 DEF Settle
  <2>2. /\ Settle(slot, block).card = slot.card /\ Settle(slot, block).queue = slot.queue
        /\ Settle(slot, block).rendered = slot.rendered
      BY <2>1 DEF Slot
  <2> QED BY <2>2 DEF Ascending
<1>2. CASE ~(slot.queue # << >> /\ slot.timer)
  <2>1. Settle(slot, block).card = [block |-> block, status |-> "final"]
      BY <1>2 DEF Settle, Commit, Slot
  <2> QED BY <2>1 DEF Ascending
<1> QED BY <1>1, <1>2

Shows(i) ==
    slots[i].card.status = "partial" /\ slots'[i].card.status = "partial" =>
        slots'[i].card.block.count >= slots[i].card.block.count

\* A slot that takes a block keeps the order, and so do those it leaves alone.
LEMMA PutRises ==
    ASSUME IInv, Climbing, NEW i \in 1..(Len(slots) + 1), NEW slot \in Slot, NEW block \in Block,
           Put(i, slot, block), Ascending(slot),
           i \in DOMAIN slots /\ slots[i].card.status = "partial" /\ slot.card.status = "partial" =>
               slot.card.block.count >= slots[i].card.block.count
    PROVE  Climbing' /\ \A j \in DOMAIN slots : Shows(j)
<1>1. /\ DOMAIN slots' = DOMAIN slots \cup {i} /\ slots'[i] = slot
      /\ \A j \in DOMAIN slots \ {i} : slots'[j] = slots[j]
    BY PutChangesOne DEF IInv
<1>2. \A j \in DOMAIN slots : slots[j].card.block.count \in Nat
  <2>1. \A j \in DOMAIN slots : slots[j] \in Slot
      BY DEF IInv, TypeOK
  <2> QED BY <2>1, TurnAssumption DEF Slot, Card, Block, Items
<1> QED BY <1>1, <1>2 DEF Climbing, Shows

LEMMA PartialRises ==
    ASSUME IInv, Climbing, NEW s \in Streams, NEW n \in Items, Partial(s, n)
    PROVE  Climbing' /\ \A j \in DOMAIN slots : Shows(j)
<1> DEFINE block == Frame(s, n)
           own == slotByStream[s]
           blank == [block |-> block, status |-> "pending"]
           card(i) == IF i \in DOMAIN slots THEN slots[i].card ELSE blank
           slot(i) == IF own # 0 THEN slots[i] ELSE Opened(component[s], "pending", card(i))
<1>1. PICK i \in 1..(Len(slots) + 1) :
        /\ IF own # 0 THEN i = own ELSE Target(i, Adoptable(component[s]))
        /\ Put(i, Schedule(slot(i), block), block)
    BY DEF Partial
<1>2. /\ phase = "streaming" /\ attempt[s] \in {"new", "open"}
      /\ own # 0 => n >= latest[own].count
    BY DEF Partial
<1>3. block \in Block /\ block.count = n
    BY DEF Block, Frame
<1>4. /\ DOMAIN slots = 1..Len(slots) /\ own \in 0..Len(slots) /\ component[s] \in Components
      /\ Len(slots) \in Nat
    BY DEF IInv, TypeOK
<1>5. /\ slot(i) \in Slot /\ slot(i).status \in {"pending", "partial"} /\ Paced(slot(i))
      /\ slot(i).final = None
      /\ slot(i).status = "partial" <=> slot(i).card.status = "partial"
      /\ slot(i).status = "pending" => slot(i).queue = << >> /\ slot(i).rendered = 0
      /\ slot(i).card.status = "partial" => slot(i).rendered = slot(i).card.block.count
      /\ Rising(slot(i).queue, slot(i).rendered)
      /\ TailCount(slot(i)) <= n
      /\ i \in DOMAIN slots /\ slots[i].card.status = "partial" => slot(i).card = slots[i].card
                                                                  /\ slot(i).card.status = "partial"
  <2>1. CASE own # 0
    <3>1. i = own /\ i \in DOMAIN slots /\ slot(i) = slots[i]
        BY <1>1, <1>4, <2>1
    <3>2. attempt[s] = "open"
        BY <1>2, <2>1 DEF IInv, Owned
    <3>3. slots[i].status = "partial" /\ slots[i].final = None
        BY <3>1, <3>2 DEF IInv, Owned
    <3>4. slots[i] \in Slot /\ Paced(slots[i]) /\ slots[i].card.status = "partial"
        BY <1>2, <3>1, <3>3, StreamingSlot
    <3>5. slots[i].rendered = slots[i].card.block.count /\ Rising(slots[i].queue, slots[i].rendered)
        BY <3>1, <3>4 DEF Climbing, Ascending
    <3>6. latest[i].count = TailCount(slots[i])
        BY <3>1, <3>3, <3>5 DEF IInv, NothingLost, Newest, TailCount
    <3>7. TailCount(slots[i]) <= n
        BY <1>2, <2>1, <3>1, <3>4, <3>6, TailCountIsItem, TurnAssumption DEF Items
    <3> QED BY <3>1, <3>3, <3>4, <3>5, <3>7
  <2>2. CASE own = 0
    <3>1. slot(i) = Opened(component[s], "pending", card(i))
        BY <2>2
    <3>2. blank \in Card /\ "pending" \in Status /\ blank.status = "pending"
        BY <1>3 DEF Card, Status
    <3>3. card(i) \in Card
        BY <1>2, <3>2, StreamingSlot
    <3>4. i \in DOMAIN slots => slots[i].card.status # "partial"
      <4>1. i \in DOMAIN slots => slots[i].status \in {"pending", "retrying"}
          BY <1>1, <1>4, <2>2 DEF Target, IsLast, Adoptable, Found
      <4> QED BY <1>2, <4>1, StreamingSlot
    <3>5. card(i).status # "partial"
        BY <3>2, <3>4
    <3> HIDE DEF card, slot
    <3>6. /\ slot(i) \in Slot /\ slot(i).status = "pending" /\ slot(i).card = card(i)
          /\ slot(i).queue = << >> /\ slot(i).rendered = 0 /\ slot(i).final = None
          /\ Paced(slot(i))
        BY <1>4, <3>1, <3>2, <3>3, OpenedIsEmpty
    <3>7. TailCount(slot(i)) = 0 /\ 0 <= n
        BY <3>6, TurnAssumption DEF TailCount, Items
    <3> QED BY <3>4, <3>5, <3>6, <3>7 DEF Rising
  <2> QED BY <2>1, <2>2
<1> DEFINE given == Schedule(slot(i), block)
<1> HIDE DEF slot, block
<1>6. given \in Slot
    BY <1>3, <1>5, ScheduleTakesBlock
<1>7. /\ Ascending(given)
      /\ slot(i).card.status = "partial" /\ given.card.status = "partial" =>
           given.card.block.count >= slot(i).card.block.count
    BY <1>3, <1>5, ScheduleRises
<1>8. Put(i, given, block)
    BY <1>1
<1> HIDE DEF given
<1> QED BY <1>3, <1>5, <1>6, <1>7, <1>8, PutRises

LEMMA LandRises ==
    ASSUME IInv, Climbing, phase = "streaming", NEW c \in Components, NEW i \in 1..(Len(slots) + 1),
           NEW block \in Block, Land(i, c, block)
    PROVE  Climbing' /\ \A j \in DOMAIN slots : Shows(j)
<1> DEFINE blank == [block |-> block, status |-> "final"]
           slot == IF i \in DOMAIN slots THEN slots[i] ELSE Opened(c, "final", blank)
           given == Settle(slot, block)
<1>1. Put(i, given, block)
    BY DEF Land
<1>2. /\ slot \in Slot /\ Paced(slot) /\ Ascending(slot)
      /\ i \in DOMAIN slots => slot = slots[i]
  <2>1. CASE i \in DOMAIN slots
      BY <2>1, StreamingSlot DEF Climbing
  <2>2. CASE i \notin DOMAIN slots
    <3>1. slot = Opened(c, "final", blank)
        BY <2>2
    <3>2. blank \in Card /\ "final" \in Status /\ blank.status = "final"
        BY DEF Card, Status
    <3> HIDE DEF blank, slot
    <3> QED BY <2>2, <3>1, <3>2, OpenedIsEmpty DEF Ascending
  <2> QED BY <2>1, <2>2
<1> HIDE DEF slot
<1>3. given \in Slot /\ Ascending(given)
      /\ (given.card.status = "partial" => given.card = slot.card)
    BY <1>2, SettleTakesBlock, SettleRises
<1>4. slot.card.block.count \in Nat
    BY <1>2, TurnAssumption DEF Slot, Card, Block, Items
<1> HIDE DEF given
<1> QED BY <1>1, <1>2, <1>3, <1>4, PutRises

\* In place: a refusal, a timeout, the end.
LEMMA OtherRises ==
    ASSUME IInv, IInv', Climbing,
           \/ \E s \in Streams : Refuse(s)
           \/ \E i \in DOMAIN slots : Tick(i)
           \/ End
    PROVE  Climbing' /\ \A j \in DOMAIN slots : Shows(j)
<1>0. /\ \A j \in DOMAIN slots : slots[j] \in Slot /\ slots[j].card.block.count \in Nat
      /\ slots \in Seq(Slot)
  <2>1. slots \in Seq(Slot) /\ \A j \in DOMAIN slots : slots[j] \in Slot
      BY DEF IInv, TypeOK
  <2>2. \A j \in DOMAIN slots : slots[j].card \in Card
      BY <2>1 DEF Slot
  <2>3. \A j \in DOMAIN slots : slots[j].card.block \in Block
      BY <2>2 DEF Card
  <2> QED BY <2>1, <2>3, CountIsNat
<1>1. ASSUME NEW s \in Streams, Refuse(s)
      PROVE  Climbing' /\ \A j \in DOMAIN slots : Shows(j)
  <2> DEFINE i == slotByStream[s]
  <2>1. /\ DOMAIN slots' = DOMAIN slots
        /\ \A j \in DOMAIN slots : slots'[j] = slots[j] \/ slots'[j].card.status = "retrying"
    <3>1. CASE slots' = slots
        BY <3>1
    <3>2. CASE slots' # slots
      <4> DEFINE last == IF slots[i].queue = << >> THEN slots[i].card.block
                         ELSE LastOf(slots[i].queue)
                 card == [block |-> last, status |-> "retrying"]
                 slot == [slots[i] EXCEPT !.status = "retrying", !.timer = FALSE,
                                          !.queue = << >>, !.final = None, !.card = card]
      <4>1. i # 0
          BY <1>1, <3>2 DEF Refuse
      <4>2. i \in DOMAIN slots
          BY <4>1 DEF IInv, TypeOK
      <4>3. slots' = [slots EXCEPT ![i] = slot]
          BY <1>1, <3>2, <4>2 DEF Refuse
      <4>4. card.status = "retrying"
          OBVIOUS
      <4> HIDE DEF card
      <4>5. slot.card = card
          BY <1>0, <4>2 DEF Slot
      <4> HIDE DEF slot, i
      <4> QED BY <4>2, <4>3, <4>4, <4>5
    <3> QED BY <3>1, <3>2
  <2>2. \A j \in DOMAIN slots : Ascending(slots'[j])
      BY <2>1 DEF Climbing, Ascending
  <2> QED BY <1>0, <2>1, <2>2 DEF Climbing, Shows
<1>2. ASSUME NEW i \in DOMAIN slots, Tick(i)
      PROVE  Climbing' /\ \A j \in DOMAIN slots : Shows(j)
  <2>1. slots[i].timer /\ slots' = [slots EXCEPT ![i] = Drain(slots[i])] /\ phase = "streaming"
      BY <1>2 DEF Tick, IInv, TypeOK, CardFollows
  <2>2. slots[i].card.status = "partial"
      BY <2>1 DEF IInv, Pacing, Paced, CardFollows
  <2>3. slots[i].rendered = slots[i].card.block.count /\ Rising(slots[i].queue, slots[i].rendered)
      BY <2>2 DEF Climbing, Ascending
  <2>4. /\ Ascending(Drain(slots[i]))
        /\ Drain(slots[i]).card.status = "partial" =>
             Drain(slots[i]).card.block.count >= slots[i].card.block.count
      BY <1>0, <2>2, <2>3, DrainRises
  <2>5. DOMAIN slots' = DOMAIN slots /\ slots'[i] = Drain(slots[i])
        /\ \A j \in DOMAIN slots \ {i} : slots'[j] = slots[j]
      BY <2>1
  <2> QED BY <1>0, <2>4, <2>5 DEF Climbing, Shows
<1>3. CASE End
  <2>1. \A j \in DOMAIN slots' : slots'[j].card.status # "partial"
      BY <1>3 DEF End, IInv, CardFollows, ClosedStatus
  <2>2. DOMAIN slots' = DOMAIN slots
      BY <1>3 DEF End
  <2> QED BY <2>1, <2>2 DEF Climbing, Ascending, Shows
<1> QED BY <1>1, <1>2, <1>3

\* A card that is being built never loses an item before the reader's eyes (schedule, drain),
\* for any limit of the queue and any burst.
THEOREM CardsGrow == Spec => ShownGrows
<1> DEFINE Growing == \A i \in DOMAIN slots : Shows(i)
<1>1. Init => Climbing
    BY DEF Init, Climbing
<1>2. IInv /\ IInv' /\ Climbing /\ [Next]_vars => Climbing' /\ [Growing]_vars
  <2> SUFFICES ASSUME IInv, IInv', Climbing, [Next]_vars PROVE Climbing' /\ [Growing]_vars
      OBVIOUS
  <2>1. ASSUME NEW c \in Components, ToolCall(c) PROVE Climbing' /\ Growing
    <3> DEFINE block == Frame(None, 0)
               blank == [block |-> block, status |-> "pending"]
               slot == Opened(c, "pending", blank)
               i == Len(slots) + 1
    <3>1. Put(i, slot, block) /\ Len(slots) \in Nat /\ DOMAIN slots = 1..Len(slots)
        BY <2>1 DEF ToolCall, IInv, TypeOK
    <3>2. block \in Block
        BY TurnAssumption DEF Block, Frame, Items
    <3>3. blank \in Card /\ "pending" \in Status /\ blank.status = "pending"
        BY <3>2 DEF Card, Status
    <3> HIDE DEF block, blank
    <3>4. slot \in Slot /\ slot.card = blank
        BY <3>3, OpenedIsEmpty
    <3> HIDE DEF slot
    <3>5. i \in 1..(Len(slots) + 1) /\ i \notin DOMAIN slots
        BY <3>1
    <3> HIDE DEF i
    <3> QED BY <3>1, <3>2, <3>3, <3>4, <3>5, PutRises DEF Ascending
  <2>2. ASSUME NEW s \in Streams, NEW n \in Items, Partial(s, n) PROVE Climbing' /\ Growing
      BY <2>2, PartialRises
  <2>3. ASSUME NEW s \in Streams, NEW n \in Items, Final(s, n) PROVE Climbing' /\ Growing
    <3>1. PICK i \in 1..(Len(slots) + 1) : Land(i, component[s], FinalBlock(s, n))
        BY <2>3 DEF Final
    <3>2. phase = "streaming" /\ component[s] \in Components /\ FinalBlock(s, n) \in Block
        BY <2>3 DEF Final, IInv, TypeOK, Block, FinalBlock
    <3> QED BY <3>1, <3>2, LandRises
  <2>4. ASSUME NEW c \in Whole, NEW n \in Items, WholeCard(c, n) PROVE Climbing' /\ Growing
    <3>1. PICK i \in 1..(Len(slots) + 1) : Land(i, c, FinalBlock(None, n))
        BY <2>4 DEF WholeCard
    <3>2. phase = "streaming" /\ c \in Components /\ FinalBlock(None, n) \in Block
        BY <2>4, TurnAssumption DEF WholeCard, Block, FinalBlock
    <3> QED BY <3>1, <3>2, LandRises
  <2>5. CASE \/ \E s \in Streams : Refuse(s)
             \/ \E i \in DOMAIN slots : Tick(i)
             \/ End
      BY <2>5, OtherRises
  <2>6. CASE UNCHANGED vars
      BY <2>6 DEF vars, Climbing, Ascending, Rising
  <2> QED BY <2>1, <2>2, <2>3, <2>4, <2>5, <2>6 DEF Next
<1>3. Spec => [][Growing]_vars
    BY <1>1, <1>2, Invariance, PTL DEF Spec
<1> QED BY <1>3 DEF ShownGrows, Shows
===============================================================================
