------------------------------- MODULE Portal -------------------------------
(***************************************************************************)
(* The merchant portal's page: the assistant's rail, whose replies hold    *)
(* preview cards with Approve and Dismiss, beside the views that read the  *)
(* store.  A change moves at the service, by the agent's tools or by a     *)
(* card's button; the stream's events and the buttons' answers tell the    *)
(* page, which rewrites its cards and reads its views again.               *)
(*                                                                         *)
(* A button's request is asked, served and answered in three steps; an     *)
(* answer is null when it is lost or refused.  Alerts are computed as if   *)
(* the service's reference cache were dropped by every write (what it may  *)
(* keep across one is the matter of ReferenceCache and MerchantChanges).   *)
(***************************************************************************)
EXTENDS PortalPages

CONSTANTS
    Nothing,       \* no data, no entry
    MaxTurns,      \* the chat turns (bound)
    MaxSpent       \* gestures, the agent's tools, failed reads and other sessions, together (bound)

ASSUME PortalAssumption == MaxTurns \in Nat /\ MaxSpent \in Nat

VARIABLES
    ledger,        \* the status of each change
    agent,         \* whether a turn runs at the service
    wire,          \* the events of the stream that are still to come
    streaming,     \* the page's turn
    dirty,         \* a change moved during it
    replies,       \* the replies: preview cards, the changes listed and those shown staged, stale chips
    rail,          \* the assistant's rail: open, and how often it was
    acts,          \* the buttons' requests that are out
    view,          \* the view on the page; none before there is a session
    reads,         \* useResource of what is mounted: the load, an older one, data, failed
    spent,         \* the budget used
    untold,        \* history: changes whose move the page was not told of
    outrun         \* history: cards that arrived after the news of a later status

serviceVars == <<ledger, agent>>
streamVars == <<wire, streaming, dirty>>
railVars == <<replies, rail, acts>>
pageVars == <<view, reads>>
historyVars == <<untold, outrun>>
vars == <<serviceVars, streamVars, railVars, pageVars, spent, historyVars>>

Statuses == {"absent", "staged", "applied", "discarded"}
Views == {"home", "catalog", "orders", "inventory"}
Resources == {"overview", "listings", "alerts"}
NoView == "none"

Spend == spent < MaxSpent /\ spent' = spent + 1

AppliedIn(l) == {c \in Changes : l[c] = "applied"}
Resolved(s) == s \in {"applied", "discarded"}

(***************************************************************************)
(* useResource                                                             *)
(***************************************************************************)

\* A load that is out is the states of the store it may answer with, those since it was asked.
Unmounted == [out |-> {}, late |-> {}, data |-> Nothing, failed |-> FALSE]
Fresh == [Unmounted EXCEPT !.out = {ledger}]

OfView(v) == CASE v = "catalog" -> {"listings", "alerts"}
               [] v \in {"orders", "inventory"} -> {"alerts"}
               [] OTHER -> {}

Mounted == IF view = NoView THEN {} ELSE {"overview"} \cup OfView(view)

\* A load whose dependencies moved is cancelled; its answer may still come.
Again(r) == [r EXCEPT !.out = {ledger}, !.late = @ \cup r.out]

\* What a read that is out may see when the ledger moves.
Since(seen, l) == IF seen = {} THEN {} ELSE seen \cup {l}
Moved(l) ==
    /\ ledger' = l
    /\ reads' = [r \in Resources |->
         [reads[r] EXCEPT !.out = Since(@, l), !.late = Since(@, l)]]

\* refreshKey: what is mounted is read again.
Refreshed == [r \in Resources |-> IF r \in Mounted THEN Again(reads[r]) ELSE reads[r]]

ReadAnswered(r) ==
    /\ \E seen \in reads[r].out :
         reads' = [reads EXCEPT ![r].out = {}, ![r].data = seen, ![r].failed = FALSE]
    /\ UNCHANGED <<serviceVars, streamVars, railVars, view, spent, historyVars>>

\* data keeps its last good value.
ReadFails(r) ==
    /\ reads[r].out # {}
    /\ Spend
    /\ reads' = [reads EXCEPT ![r].out = {}, ![r].failed = TRUE]
    /\ UNCHANGED <<serviceVars, streamVars, railVars, view, historyVars>>

\* Mutant: an older load's answer is taken.
LateTaken(r) ==
    /\ \E seen \in reads[r].late :
         reads' = [reads EXCEPT ![r].late = {}, ![r].data = seen, ![r].failed = FALSE]
    /\ UNCHANGED <<serviceVars, streamVars, railVars, view, spent, historyVars>>

\* The answer of a cancelled load changes nothing.
LateAnswered(r) ==
    /\ reads[r].late # {}
    /\ reads' = [reads EXCEPT ![r].late = {}]
    /\ UNCHANGED <<serviceVars, streamVars, railVars, view, spent, historyVars>>

(***************************************************************************)
(* The page                                                                *)
(***************************************************************************)

PageRest == UNCHANGED <<serviceVars, streamVars, historyVars>>

\* The session is there: the overview loads, and the home view is mounted.
SessionStarts ==
    /\ view = NoView
    /\ view' = "home"
    /\ reads' = [reads EXCEPT !["overview"] = Fresh]
    /\ UNCHANGED <<railVars, spent>>
    /\ PageRest

\* A view that is left forgets its data, one that comes reads.
Navigate(v) ==
    /\ view \notin {NoView, v}
    /\ Spend
    /\ view' = v
    /\ reads' = [r \in Resources |-> CASE r = "overview" -> reads[r]
                                       [] r \in OfView(v) -> Fresh
                                       [] OTHER -> Unmounted]
    /\ UNCHANGED railVars
    /\ PageRest

\* A card's own state lives as long as the rail is open.
Reset(card) == [card EXCEPT !.busy = FALSE, !.error = FALSE]
RailToggled(open) ==
    /\ rail' = [open |-> open, nth |-> IF open THEN rail.nth + 1 ELSE rail.nth]
    /\ replies' = [t \in DOMAIN replies |->
         [replies[t] EXCEPT !.cards = [c \in Changes |-> Reset(@[c])]]]

CloseRail ==
    /\ rail.open
    /\ Spend
    /\ RailToggled(FALSE)
    /\ UNCHANGED <<acts, pageVars>>
    /\ PageRest

\* The rail is opened, by its button or by a hand-off, whose question only fills the composer.
OpenRail ==
    /\ ~rail.open
    /\ RailToggled(TRUE)
    /\ UNCHANGED <<acts, pageVars, spent>>
    /\ PageRest

(***************************************************************************)
(* The turn: the agent's tools and the stream                              *)
(***************************************************************************)

\* A preview card with its own state, "busy" while its request is out.
NoCard == [status |-> "absent", busy |-> FALSE, error |-> FALSE]
NewReply == [cards |-> [c \in Changes |-> NoCard], ids |-> {}, posed |-> {}, stale |-> FALSE]
Event(type, c, s) == [type |-> type, change |-> c, status |-> s]

\* Where the rail's messages come from: no chip is pressed once a change
\* of its reply has moved.
Senders ==
    {"composer"} \cup (IF replies = << >> THEN {"starter"}
                       ELSE IF replies[Len(replies)].stale THEN {} ELSE {"chip"})

Send ==
    /\ \E from \in Senders : view # NoView /\ rail.open /\ ~streaming
    /\ Len(replies) < MaxTurns
    /\ streaming' = TRUE
    /\ agent' = TRUE
    /\ replies' = Append(replies, NewReply)
    /\ UNCHANGED <<ledger, wire, dirty, rail, acts, pageVars, spent, historyVars>>

\* What the agent's tools emit, if anyone still listens.
Emit(e) == wire' = IF streaming THEN Append(wire, e) ELSE wire
Unheard(c) == untold' = IF streaming THEN untold ELSE untold \cup {c}

AgentRest == UNCHANGED <<agent, streaming, dirty, railVars, view, outrun>>

AgentMoves(c, from, to) ==
    /\ agent /\ ledger[c] = from
    /\ Spend
    /\ Moved([ledger EXCEPT ![c] = to])
    /\ Emit(Event("change_update", c, to))
    /\ Unheard(c)
    /\ AgentRest

AgentStages(c) == AgentMoves(c, "absent", "staged")
AgentDiscards(c) == AgentMoves(c, "staged", "discarded")

\* A preview shows the change as it stands.  A reply has one card of each change it presents
\* (bound): presenting a change again replaces its card, as the final preview replaces a
\* partial one.  (The page opens a second card for a second streamed preview, which the same
\* news rewrite; and a final preview without a stream id takes the place of the latest card,
\* whichever change that shows, which can only take a card off.)
AgentPresents(c) ==
    /\ agent /\ ledger[c] # "absent"
    /\ Spend
    /\ Emit(Event("ui", c, ledger[c]))
    /\ UNCHANGED <<ledger, reads, untold>>
    /\ AgentRest

Holds(reply, c) == reply.cards[c].status # "absent"

\* Mutant: only the last reply's cards are rewritten.
ApplyToLast(rs, c, s) ==
    [t \in DOMAIN rs |->
      IF t # Len(rs) \/ c \notin rs[t].ids THEN rs[t]
      ELSE [rs[t] EXCEPT !.stale = @ \/ s # "staged",
                         !.cards[c].status = IF Holds(rs[t], c) THEN s ELSE @]]

\* applyChangeUpdate: every card of the change, in the replies that list it.
ApplyChangeUpdate(rs, c, s) ==
    [t \in DOMAIN rs |->
      IF c \notin rs[t].ids THEN rs[t]
      ELSE [rs[t] EXCEPT !.stale = @ \/ s # "staged",
                         !.cards[c].status = IF Holds(rs[t], c) THEN s ELSE @]]

\* News of the change that the page has still to hear.
ToCome(c) ==
    \/ \E i \in 2..Len(wire) : wire[i].type = "change_update" /\ wire[i].change = c
    \/ \E q \in acts : q.change = c /\ Resolved(q.got)

\* The stream's next event: a preview, or a change that moved.
Deliver ==
    /\ wire # << >>
    /\ wire' = Tail(wire)
    /\ LET e == Head(wire)
           now == Len(replies)
       IN  \/ /\ e.type = "ui"
              /\ replies' = [replies EXCEPT ![now].ids = @ \cup {e.change},
                                            ![now].posed = IF Resolved(e.status) THEN @ ELSE @ \cup {e.change},
                                            ![now].cards[e.change].status = e.status]
              /\ outrun' = IF e.status # ledger[e.change] /\ ~ToCome(e.change)
                           THEN outrun \cup {<<now, e.change>>} ELSE outrun
              /\ UNCHANGED dirty
           \/ /\ e.type = "change_update"
              /\ dirty' = TRUE
              /\ replies' = ApplyChangeUpdate(replies, e.change, e.status)
              /\ UNCHANGED outrun
    /\ UNCHANGED <<serviceVars, streaming, rail, acts, pageVars, spent, untold>>

\* onTurnEnd: the views are read again if a change moved.
TurnEnd ==
    /\ streaming' = FALSE
    /\ dirty' = FALSE
    /\ reads' = IF dirty THEN Refreshed ELSE reads

\* The agent is done, and the stream's end has come.
EndTurn ==
    /\ streaming /\ wire = << >>
    /\ agent' = FALSE
    /\ TurnEnd
    /\ UNCHANGED <<ledger, wire, railVars, view, spent, historyVars>>

\* The stream breaks; the turn may go on at the service.
Break ==
    /\ streaming
    /\ Spend
    /\ wire' = << >>
    /\ TurnEnd
    /\ untold' = untold \cup {wire[i].change : i \in {j \in 1..Len(wire) : wire[j].type = "change_update"}}
    /\ UNCHANGED <<serviceVars, railVars, view, outrun>>

(***************************************************************************)
(* Approve and Dismiss                                                     *)
(***************************************************************************)

Outcome == {"applied", "discarded"}

\* Approve and Dismiss, on a card of a staged change.
Buttons(card) == IF card.status = "staged" /\ ~card.busy THEN Outcome ELSE {}

\* What the card shows: the pill of its status, the buttons, whether the last press failed.
Preview(card) == [pill |-> Pill(card.status), buttons |-> Buttons(card), error |-> card.error]

Act(t, c, to) ==
    /\ rail.open
    /\ to \in Preview(replies[t].cards[c]).buttons
    /\ Spend
    /\ replies' = [replies EXCEPT ![t].cards[c].busy = TRUE, ![t].cards[c].error = FALSE]
    /\ acts' = acts \cup {[turn |-> t, change |-> c, to |-> to, nth |-> spent,
                           rail |-> rail.nth, at |-> "asked", got |-> "absent"]}
    /\ UNCHANGED <<rail, pageVars>>
    /\ PageRest

\* The gate: a staged change moves unless the platform refuses, anything else is refused.
ServeAct(q) ==
    /\ q \in acts /\ q.at = "asked"
    /\ \/ /\ ledger[q.change] = "staged"
          /\ Moved([ledger EXCEPT ![q.change] = q.to])
          /\ acts' = (acts \ {q}) \cup {[q EXCEPT !.at = "served", !.got = q.to]}
       \/ /\ acts' = (acts \ {q}) \cup {[q EXCEPT !.at = "served"]}
          /\ UNCHANGED <<ledger, reads>>
    /\ UNCHANGED <<agent, streamVars, replies, rail, view, spent, untold, outrun>>

\* The button's own card, if the rail was not closed meanwhile.
Released(rs, q, got) ==
    IF ~rail.open \/ q.rail # rail.nth THEN rs
    ELSE [rs EXCEPT ![q.turn].cards[q.change].busy = FALSE,
                    ![q.turn].cards[q.change].error = (got = "absent")]

\* actOnChange and useChangeActions: the change itself, or null.
ActAnswered(q) ==
    /\ q \in acts
    /\ \E got \in {q.got, "absent"} :
         /\ replies' = Released(IF got = "absent" THEN replies
                                ELSE ApplyChangeUpdate(replies, q.change, got), q, got)
         /\ reads' = IF got = "absent" THEN reads ELSE Refreshed
         /\ untold' = IF got = q.got THEN untold ELSE untold \cup {q.change}
    /\ acts' = acts \ {q}
    /\ UNCHANGED <<serviceVars, streamVars, rail, view, spent, outrun>>

\* A change is resolved in another session.
Elsewhere(c, to) ==
    /\ ledger[c] = "staged"
    /\ Spend
    /\ Moved([ledger EXCEPT ![c] = to])
    /\ untold' = untold \cup {c}
    /\ UNCHANGED <<agent, streamVars, railVars, view, outrun>>

-----------------------------------------------------------------------------
Init ==
    /\ ledger = [c \in Changes |-> "absent"]
    /\ agent = FALSE
    /\ wire = << >>
    /\ streaming = FALSE
    /\ dirty = FALSE
    /\ replies = << >>
    /\ \E open \in BOOLEAN : rail = [open |-> open, nth |-> 0]
    /\ acts = {}
    /\ view = NoView
    /\ reads = [r \in Resources |-> Unmounted]
    /\ spent = 0
    /\ untold = {}
    /\ outrun = {}

Next ==
    \/ SessionStarts
    \/ \E v \in Views : Navigate(v)
    \/ CloseRail
    \/ OpenRail
    \/ \E r \in Resources : ReadAnswered(r) \/ ReadFails(r) \/ LateAnswered(r)
    \/ Send
    \/ \E c \in Changes : AgentStages(c) \/ AgentDiscards(c) \/ AgentPresents(c)
    \/ Deliver
    \/ EndTurn
    \/ Break
    \/ \E t \in DOMAIN replies, c \in Changes, to \in Outcome : Act(t, c, to)
    \/ \E q \in acts : ServeAct(q) \/ ActAnswered(q)
    \/ \E c \in Changes, to \in Outcome : Elsewhere(c, to)

Spec == Init /\ [][Next]_vars

-----------------------------------------------------------------------------
(***************************************************************************)
(* Properties                                                              *)
(***************************************************************************)

Ledgers == [Changes -> Statuses]
Resource == [out : SUBSET Ledgers, late : SUBSET Ledgers, data : {Nothing} \cup Ledgers, failed : BOOLEAN]
Card == [status : Statuses, busy : BOOLEAN, error : BOOLEAN]
Reply == [cards : [Changes -> Card], ids : SUBSET Changes, posed : SUBSET Changes, stale : BOOLEAN]
Message == [type : {"ui", "change_update"}, change : Changes, status : Statuses]
Request == [turn : 1..MaxTurns, change : Changes, to : Outcome, nth : 0..MaxSpent, rail : Nat,
            at : {"asked", "served"}, got : {"absent"} \cup Outcome]

TypeOK ==
    /\ ledger \in Ledgers
    /\ {agent, streaming, dirty} \subseteq BOOLEAN
    /\ wire \in Seq(Message)
    /\ replies \in Seq(Reply) /\ Len(replies) <= MaxTurns
    /\ rail \in [open : BOOLEAN, nth : Nat]
    /\ acts \subseteq Request
    /\ view \in Views \cup {NoView}
    /\ reads \in [Resources -> Resource]
    /\ spent \in 0..MaxSpent
    /\ untold \subseteq Changes
    /\ outrun \subseteq (1..MaxTurns) \X Changes

\* Nothing the page waits for is out.
AtRest ==
    /\ ~streaming
    /\ acts = {}
    /\ \A r \in Resources : reads[r].out = {}

\* Once all is quiet, every preview card of every reply says what the ledger says, its buttons
\* can be pressed, and the chips written while its change was staged are stale once it is not
\* (two replies may show one change, whose button may be pressed on either while the agent
\* dismisses it, and the rail may be closed over a request); exempt are changes whose move the
\* page was never told of, and cards that came after the news of a later status.
CardsTellTheLedger ==
    ~streaming /\ acts = {} =>
        \A t \in DOMAIN replies, c \in Changes :
            Holds(replies[t], c) =>
                /\ ~replies[t].cards[c].busy
                /\ \/ c \in untold \/ <<t, c>> \in outrun
                   \/ /\ replies[t].cards[c].status = ledger[c]
                      /\ c \in replies[t].posed /\ Resolved(ledger[c]) => replies[t].stale

Shown(r) == reads[r].data
Alerts(r) == InventoryAlerts(AppliedIn(Shown(r)))

\* What a resource shows of a change the page was told of is what the ledger says.
Current(r) ==
    reads[r].failed \/ \A c \in Changes \ untold : Shown(r)[c] = ledger[c]

\* The counts of a page are those of the rows it lists, "See all" leads to a view that lists
\* the first hidden row, the catalogue's rows need attention exactly if they show why, the home
\* page and the inventory page say the same of an alert, a preview card can be approved exactly
\* while the home page lists its change as waiting and then says what the home page says of
\* it, and the count beside "Inventory" is
\* the rows of its view.
CountsAgree ==
    /\ Shown("overview") # Nothing => \A f \in HomeFilters :
         LET overview == Overview(AppliedIn(Shown("overview")))
             rows == HomeRows(overview, f)
         IN  /\ HomeCount(overview, f) = Len(rows)
             /\ QueueOverflow(rows) > 0 => rows[RowCap + 1] \in ListedOn(OverflowView(rows), Alerts("overview"))
             /\ \A a \in Elems(overview.inventory) : InventoryRow(a) = AlertRow(a)
    /\ Shown("listings") # Nothing /\ Shown("alerts") # Nothing => \A f \in CatalogFilters :
         LET done == AppliedIn(Shown("listings"))
             page == CatalogPage(done, Alerts("alerts"), f, Elems(Listings))
             marked(l) == Marked(ListingRow(l, done, Alerts("alerts")))
         IN  /\ CatalogCount(done, Alerts("alerts"), f) = Len(page.attention) + Len(page.rest)
             /\ \A l \in Elems(page.attention) : marked(l)
             /\ \A l \in Elems(page.rest) : ~marked(l)
    /\ Shown("overview") # Nothing /\ ~reads["overview"].failed => \A t \in DOMAIN replies, c \in Changes :
         Holds(replies[t], c) /\ c \notin untold /\ <<t, c>> \notin outrun =>
             LET card == Preview(replies[t].cards[c])
                 recent == RecentChanges(Shown("overview"))
             IN  /\ card.buttons # {} <=> c \in Pending(Shown("overview"))
                 /\ c \in DOMAIN recent => recent[c] = card.pill
    /\ view = "inventory" /\ untold = {} /\ (\A r \in Mounted : ~reads[r].failed) =>
         NavCounts(AppliedIn(Shown("overview"))).inventory = Len(InventoryPage(Alerts("alerts")))

\* Once all is quiet, every mounted view shows the store as the changes the page was told of
\* left it, unless its last read failed, and its counts agree with its rows and with the counts
\* beside the views' names: a change that moves re-reads them all, and a read that was out
\* before it does not come back over it.
PagesAreCurrent ==
    AtRest => CountsAgree /\ \A r \in Mounted : Current(r)

==============================================================================
