# Verification of the commercetools agents

TLA+ models of the service, the two commerce backends and the shared client code of
this repository, with TLC configurations that check them on small instances and TLAPS
proofs of what matters most for every value of the constants. Paths are relative to
the repository's root.

## Contents

1. Inventory: parts, state, operations, interactions, what is hard
2. The modules and how they correspond to the code
3. What each run checks and shows
4. Bounds, fairness and abstractions
5. What is proved
6. What the code does otherwise than its text says
7. What is not modelled, and the plan

## 1. Inventory

| Part | Source | State it keeps | Operations |
|---|---|---|---|
| Session store | `service/sessions.py`, `redis_sessions.py`, `ct_sessions.py` | versioned state document and transcript per session | `start`, `require`, `save`, `reset`, six storage methods |
| Turns | `service/host.py` | the request's `SessionRecord`, queued app events | `append_user_turn`, `stream_turn`, `write_back` |
| Merchant changes | `ct_merchant/ledger.py`, `ct_merchant/backend.py`, `service/merchant.py`, `ct_merchant/executor.py` | the ledger's staged, applied and discarded changes; the session's seen and approved marks; the platform's records | `stage_*`, `overview`, `apply_change`, `discard_change`, `_write*` |
| Reference cache | `ct_common/cache.py` | entries with an expiry, one lock per key | `get`, `invalidate` |
| Carts and checkout | `ct_shopping/backend.py`, `service/checkout.py`, `service/main.py`, `ct_common/checkout.py` | none of its own: the platform's carts, the Checkout sessions | find, create, add, set, remove, address, shipping method, create session |
| Platform clients | `ct_common/client.py`, `sync_client.py`, `errors.py` | an access token and its expiry | `_access_token`, `get`, `post`, `graphql` |
| Event stream, a turn's cards, the conversation | `service/host.py` (`event_stream`), `web/web-shared/api.ts`, `turn.ts`, `Transcript.tsx`, `Composer.tsx`, `Suggestions.tsx`, `Inspector.tsx` | the unread text of the stream; the replies, their line of activity and their cards; the trace of the Activity panel; a busy flag | `send`, `readEventStream`, `handleEvent`, timers, end or break of a stream |
| Client session | `web/storefront/lib/session.ts`, `web/web-shared/session.ts` | the session id in the browser's storage | start, check, reset |
| Shop and checkout pages | `web/storefront` | the panel's cart, the staged summary, the phase of each Add button, the open product; the step of the checkout, its total, its payment | press, ask, open details, submit address and method, pay, confirm |
| What the assistant knows | `service/memory.py`, `service/main.py`, `web/web-shared/turn.ts` (`readMemory`), `web/web-shared/storefront/home.tsx` | the stored facts; the page's copy, what counts as new, the account sheet's rows | extract, read, correct, forget |
| Portal pages | `web/web-shared/resource.ts`, `web/portal` | loaded data and its generation; preview cards and their busy marks; the view | load, navigate, approve, dismiss |
| Mapping and queries | `ct_common/mapping.py`, `graphql.py`, reads of both backends | none | pure functions over platform records |
| Wiring, look, scripts, skills | `service/main.py`, `web/*/components`, `scripts/`, `*/skills` | | routes, rendering, provisioning, prompts |

How they interact:

- A browser starts a session and sends its id with every request. The request's
  dependency (`session_dependency`) loads the record, the handler edits it, the dependency
  saves it before the response. A chat request streams afterwards and saves a second time
  from a background task. Requests share nothing in memory but the store: what one does
  between another's calls is decided by the version check.
- A handler runs one tool through the executor of its agent: the assistant's tool calls and
  the buttons' clicks take the same gates. The merchant's tools stage changes in the ledger;
  only a click may apply one, by a mark on the record that lives for that call.
- `apply_change` reads the ledger, writes the platform product by product (a read of the
  version, then an update with it), drops the backend's cache and marks the change.
- Every cart operation finds the cart anew; an update carries the version found. Checkout,
  a service of the platform, closes a cart it has a session for.
- Buttons leave a line in `pending_app_events`; the next turn tells the model and empties
  the list.
- A reply is a stream of events. The page reads it off a network that cuts it anywhere, builds
  the reply, and hands some events on: a cart update to the cart panel, a change update to the
  portal's cards and views.
- The shop's tab and the checkout's tab share nothing but the session id in the browser's storage,
  and through it the cart at the service.
- A page's reads and its buttons' requests are independent calls: they are served and answered in
  any order, and a call that failed answers null.

What is hard in it: two reads and two writes of the store without a transaction; a
write-back forced over whatever it finds; requests in threads of one process and in several
processes; the check of a change's status before several awaits and its mark after them;
writes of several products of which some fail; answers that are lost after an effect; a
platform that freezes, closes or deletes what a request is working on; invalidation during
a load; cancellation of tasks that wait for a lock; on the pages, answers that cross each other
and the events of a running reply, timers that fire after the reply they belong to, streams that break,
and several views of one fact that must agree. `PROJECT.json` lists these hazards at
their lines with the properties that would catch them.

What makes each part correct:

- Session store: a request that loses a race writes nothing; a write replaces only what its
  writer read; an acknowledged event is queued, or noted in one message of the transcript and in no
  second one, or lost for one of two named causes; a settled turn is in the transcript once, its reply behind it.
- Merchant changes: no chat turn applies a change; the platform is never written more often
  than the operator clicked; an applied change is complete; the status of an undisturbed change tells the
  truth; a resolved change stays resolved; alerts lag for named reasons only.
- Reference cache: one load per drop; no answer older than an earlier one; a stale entry
  only by an invalidation that crossed its load; nobody waits for ever.
- Carts: one Active cart; an acknowledged add is kept as long as its cart is; one request never adds to
  two carts.
- A turn's cards: whatever waits has a timer coming; no item is taken off a card that is being
  built; when the stream ends, every attempt that was not refused has one card, with the last
  block it sent.
- Conversation: whatever the network cuts, the page handles the events that were written; a closed
  reply never changes, no word of it is taken back, and one that breaks off says so unless it said
  something before, be it a card that failed; the panel shows the calls the
  stream told of; the composer is freed.
- Shop and checkout: one visitor keeps one session across tabs; what is charged has the chosen
  delivery and is the cart whose total was shown, unless the assistant or an Add button wrote it in
  between; "View summary" leads to a summary of the cart in the panel; the details are of the
  product whose panel they are in.
- What the assistant knows: a correction does not leave the page behind the store, and what the shopper
  did is not marked as learned.
- Portal: once all is quiet, every card tells the ledger's status, every view shows the store, and
  counts, rows and cards agree.

## 2. The modules

Each component has a module with its CONSTANTS and their assumptions, variables, `Init`,
one action per step of the code, `Next`, `Spec` and its properties; an `MC` module adds
TLC's symmetry where there is one; a `Proofs` module extends the component's with TLAPS.
An operator under a comment "Mutant:" is not part of the specification: it is a plausible
bug of the definition below it, and exchanging the two must break the property listed for it
in `PROJECT.json`.

### SessionStore (`service/sessions.py`, `redis_sessions.py`, `host.py`)

One session and the requests that race on it. `states` is the stored document with its
version (0: none), `transcript` the stored messages, `rec[r]` a request's `SessionRecord`
(its `base` is `stored_state`, `stored` is `stored_messages`), `stage[r]` which save it is in:
the dependency's (`request`), the background task's (`writeback`), or the one after a
conflict (`forced`).

| Action | Code |
|---|---|
| `ReadState`, `ReadMessages` | the two reads of `require`; a 401 without a document |
| `AppendUserTurn` | `append_user_turn`: message, note of the queue, emptied queue |
| `HandleRoute`, `Reset`, `HandlerRaises` | the other routes' handlers |
| `SaveNothing`, `SaveConflicts`, `SaveState` | `save` up to `write_state` over Redis, whose script is one step |
| `CheckVersion`, `AssignState` | `write_state` of the in-process store, two steps of a thread |
| `WriteMessages` | `write_messages` and the end of `save` |
| `Stream` | the stream: reply or none, new provenance, cleared results |
| `Adopt` | `write_back` after a conflict: the version found is adopted |
| `Crash` | the process ends, or a serverless instance is frozen, between two calls |

History variables record which events were noted in a message put in the transcript (`told`), which were
lost (`dropped`: by a forced write, or by a crash between a turn's document and the message that notes its
queue), and whether two turns ever overlapped; `epoch` counts resets. `Carried` is what is between the two
writes: the events that left the queue with the document and are noted in a message not stored yet. That an
event is told to the model is more than its note in the transcript; the model's end is outside this module.

### MerchantChanges (`ct_merchant/ledger.py`, `backend.py`, `service/merchant.py`)

`ledger` is the status of each change, `listed` and `version` the platform's products,
`writes[c][i]` how often change `c` took effect on product `i`, `session` the stored seen
and approved marks, `rec[r]` a request's copy. A request is a click (`apply`, `discard`,
`overview`) or a chat turn (`stage`, `apply`, `discard` by the model). `store` selects the
process's ledger, where check and mark are one step, or the Custom Object ledger, where they
are two calls and an apply may run in another process than the cached alerts.

| Action | Code |
|---|---|
| `Begin` | the record, the click's approval mark |
| `Stage`, `Overview`, `Gate` | `stage_*`; `seen_changes.update`; the executor's gate (of an external package, modelled from the marks this code sets) |
| `CheckStaged` | `apply_change` up to the write: status, then guardrails |
| `ReadProduct`, `PostUpdate`, `PostVanishes`, `PostConflicts`, `PostFails` | one product of `_write`: version read, update posted, its answers (404 as an empty one) |
| `SkipProduct` | a product of which the change asks nothing (`Void`): a restock by none, which `_write_inventory` passes over |
| `RequireStaged`, `MarkChange`, `LedgerFails` | invalidation, then the ledger's `apply` or `discard` |
| `Finish` | marks removed in `finally`, record saved or refused |
| `StartLoad`, `FinishLoad`, `Expire` | `get_inventory_alerts` through the cache |
| `Crash`, `Delist` | the process ends; somebody deletes a product |

The session's save is abstracted to "happens or is refused": `SessionStore` has its detail.

### ReferenceCache (`ct_common/cache.py`)

One key. A value is the version of the source it was read from; an expired entry is no
entry. `get` is split at its awaits: `Hit`, `Begin` and `Wait` (no await before the lock is
taken or queued for), `AcquireHit` and `AcquireLoad` (the second look under the lock),
`Read`, `Fill`, `LoadEnds` (an exception, a cancellation), `CancelWait`. `Change`,
`Invalidate` and `Expire` are the environment.

### Carts (`ct_shopping/backend.py`, `service/checkout.py`, `service/main.py`)

One shopper's carts. A cart is its state, a version (at once the last-modified time the
search sorts by) and its lines: the requests whose quantity it holds. `Find` is `_find_cart`
(`IsLatest`: Active, newest, one), `Create` and `ReadCreated` are `_create_cart`'s two calls,
`Update`, `UpdateRefused` and `UpdateMissed` are `_update` (of a deleted cart the client makes an empty
answer of the 404, and the request is answered as if it had been done), `CreateSession` the payment step, `Answer` the
read after an update and the save of the service's session, `Close` what Checkout does to a
cart, `Delete` what the platform does to one that nobody works on. Calls that take effect may lose their answers; `CallFails` is a call without effect.
The step that makes a Frozen cart Active is not there: the search never returns a Frozen
cart, so `_unfreeze_if_frozen` always returns at once.

### Turn (`web/web-shared/turn.ts`)

The cards of one turn. `slots` is `slotsRef` in insertion order, each slot with the card the
page shows for it (`card`: the block and the status of its segment); `slotByStream` is the map
of that name; `attempt[s]` and `component[s]` describe the stream: an attempt sends frames whose
items never get fewer, then its final block or a refusal. A block is its attempt, its number
of items and whether it is final. `latest` is history: the last block a slot was handed.

| Operator or action | Code |
|---|---|
| `Commit`, `Drain`, `Schedule` (`Steps`, `Thinned`, `Enqueue`), `Flushed` | `commit`, `drain`, `schedule`, `flush` |
| `Found`, `Opened`, `Put` | `findSlot`, `openSlot`, the maps of slots |
| `ToolCall` | `tool_call`: a skeleton, where the option `pendingComponent` asks for one (neither site does) |
| `Partial` | `ui_partial`: own slot, adopted slot, or new one; then `schedule` |
| `Final`, `WholeCard` | `ui` with and without a stream id |
| `Refuse` | `tool_result` with `is_error` |
| `Tick` | a timeout of a slot, also after the stream's end if one were left |
| `End` | the `finally` of `runTurn`, after any event: the stream may break off |

That frames grow, that an attempt sends nothing after its final block or its refusal, and that plain
tools' components are not those of attempts, is how the server's events are made.

### Conversation and ReplyLog (`web/web-shared/turn.ts`, `api.ts`, `Transcript.tsx`, `Composer.tsx`, `Inspector.tsx`, `service/host.py`)

The page's conversation as a whole, with `Turn`'s cards reduced to one card of a reply. `wire`
holds the pieces of the service's text that are on their way, `buffer` and `eventType` are
`readEventStream`'s, `replies` the assistant's items, `trace` the Activity panel's steps. A piece
is the head or the tail of a line, so an event may be cut where it hurts.

| Action | Code |
|---|---|
| `Send` (`Senders`, `ChipsOffered`) | `send` and its guards, from the composer, a chip or a starter |
| `Write` (`Frame`, `Plausible`), `CloseStream` | `event_stream`; `to_sse` and the agent loop's order of events are of external packages |
| `Deliver` (`ReadLine`, `Whole`) | `readEventStream` |
| `TextDelta` ... `TurnComplete` | the cases of `handleEvent` |
| `Tick` | a card's timer, whatever the reply is doing by then |
| `ToolResult` (`Fails`, `Marked`) | an attempt's card fails; a call held at a gate may be reported as an error or not |
| `Complete`, `Break` (`EndTurn`, `Settled`, `Left`) | the end of the stream, the `catch`, the `finally` of `runTurn`, which takes a failed card off |
| `Transcript`, `LineUnder` | what a reply shows: pieces, line of activity, chips |
| `ToolRows`, `RowStatus` | `buildToolRows` and the panel's rows |

`ReplyLog` is the abstract specification: replies come one at a time, a reply only says more, it is
closed once and from then on never changes. The one thing taken back is a card: it may fail and be taken up
again, and one that has failed goes when the reply is closed. A reply that is broken off has said
something, so it is left empty only if that was cards that failed. `Conversation` implements it under
`Log == INSTANCE ReplyLog WITH Said <- ..., Card <- "card", Failed <- "failed", replies <- ...`, which takes
the pieces of a reply as they are and forgets events, streams, timers and what a card shows.

### MemoryFacts (`service/memory.py`, `service/main.py`, `web/web-shared/turn.ts`, `storefront/home.tsx`)

The facts stored about a shopper, the page's copy and the account sheet. `reads` and `edits` are
the requests in the order they were sent, each at `sent`, `checked`, `served`/`accepted`/`refused` or `done`.

| Action | Code |
|---|---|
| `TurnEnds`, `Extract` | a reply ends; the extractor (an external package) writes in its own time |
| `FirstRead`, `Reread`, `ReadAnswered` (`NewBaseline`, `Mounted`) | `readMemory`, the re-read 2.5 s after a reply |
| `ServeRead`, `ServeEdit` (`Patch`, `Delete`), `Upsert` | the routes and `memory.py`; a correction is checked and, in a second call, written over what has become of the fact |
| `Toggle`, `Save`, `Forget`, `CloseSheet`, `EditAnswered` | the account sheet's rows |
| `LoseRead`, `LoseEdit` | the network |

### Storefront (`web/storefront`)

The shopper's two tabs. A request is a slot, `asked`, `served` with what it will answer, or idle;
a cart is the number of writes when it was written, and `delivery` says what of each session's cart is settled
(the address, the method). The forms' routes set it on the cart; `moved` is history: the cart of the checkout's
session was written since its total was made.

| Action | Code |
|---|---|
| `Open`, `CheckSession`, `StartSession`, `Expire` | `useStoredSession` in each tab |
| `ServeFirstRead`, `FirstReadAnswered` | `GET /api/cart`, `fetchCart` |
| `Ask` (`Askers`), `AgentWrites`, `AgentStages`, `ShopEvent`, `ReplyEnds` | the page's hand-offs to the assistant, `onEvent`, `handleCartUpdate` |
| `Press`, `ServeAdd`, `AddAnswered`, `ButtonTimer` | `AddButton` |
| `Toggle`, `Folded`, `DetailsAnswered` | `ProductCarousel` |
| `ServeList`, `ListAnswered`, `Submit`, `ServeSubmit` (`Settled`), `SubmitAnswered` | the checkout's forms and payment step, and their routes |
| `Pay`, `Redirect`, `ReadConfirmation` | the payment widget's end and the confirmation page |

### PortalPages and Portal (`web/portal`, `web/web-shared/resource.ts`, `portal/cards.tsx`, `ct_merchant/backend.py`)

`PortalPages` has the pages as functions of what they read: alerts, catalogue rows, filters and
their counts, the home page's queue and its overflow, pills. A filter is `Among(s, T)`, the items of `s`
that are in `T`, and a stable sort puts filters one after the other, so that a list is always a
concatenation (`FlattenSeq`) and can be reasoned about as one. `Portal` is the page that reads:
`ledger` is the service's, `wire` the running turn's events, `replies` the preview cards, `acts`
the buttons' requests that are out, `reads` one `useResource` each. A read that is out is the set of
ledgers it may still answer with.

| Action | Code |
|---|---|
| `ReadAnswered`, `ReadFails`, `LateAnswered` (`Again`, `Refreshed`) | `useResource` |
| `SessionStarts`, `Navigate`, `CloseRail`, `OpenRail` | mounting and unmounting |
| `Send`, `AgentStages`, `AgentDiscards`, `AgentPresents`, `Deliver`, `EndTurn`, `Break` | a turn and its events |
| `ApplyChangeUpdate` | `applyChangeUpdate` |
| `Act` (`Preview`, `Buttons`), `ServeAct`, `ActAnswered` | a card's buttons |
| `Elsewhere` | the change is resolved in another session |

## 3. The runs

| Run | Instance | Shows |
|---|---|---|
| `session_store` | 2 turns, 1 other request, both stores; 1.5 million states | the six properties of `SessionStore` |
| `session_torn_read` | 2 turns of one such client, Redis | a read between two writes cuts the transcript |
| `merchant_changes` | 1 change of 3 products, one of which it asks nothing of and one deletable, 3 clicks, 1 turn, both ledgers; 3.4 million states | the seven properties of `MerchantChanges` |
| `merchant_written_twice` | 2 clicks, 1 product | two applies in flight, or one after a lost answer, write twice |
| `reference_cache` | 3 tasks, 2 changes of the source; 29 thousand states | the five properties of `ReferenceCache`, liveness included |
| `carts` | 3 requests of any kind, 3 carts, each deletable; 278 thousand states | the four properties of `Carts` |
| `carts_frozen_not_found` | 3 requests, 1 cart | add, pay, abandon: the checkout page then finds no cart |
| `turn` | 2 attempts at one component, 1 plain component, skeletons for both, 3 items, a queue of 2; 94 thousand states | the six properties of `Turn`, liveness included |
| `conversation` | 2 messages, 2 tools, 5 messages and events together, one event on the wire while the next is written; 307 thousand states | the four properties of `Conversation`: the refinement of `ReplyLog` and liveness included |
| `memory_facts` | 1 fact of 2 values, 4 reads, 2 corrections, 1 reply; 1.8 million states | the two properties of `MemoryFacts` |
| `storefront` | 2 products (one with options), 2 sessions, 5 page loads, gestures and agent's writes, any submits; 3.3 million states | the four properties of `Storefront` |
| `portal` | 2 changes, 3 listings, 2 issues, 5 alerts of which 3 are returned, 2 replies, 4 gestures and agent's tools; 2.5 million states | the two properties of `Portal` |

## 4. Bounds, fairness, abstractions

- A request of `SessionStore`, `MerchantChanges` and `Carts` happens once and keeps its
  identity, so the sets of requests bound a behaviour. In `SessionStore` two turns and a
  third request are what every hazard listed needs (a loser, a winner, a witness); in
  `MerchantChanges` three clicks allow two racing applies and a dismissal or an overview, and
  a turn that tries to spend a mark; in `Carts` three requests allow two racing
  adds and a set or a payment between them, and three carts one that is deleted or closed, and two more. Three
  products are the least with a half-written change and a product it asks nothing of; more add no new
  order of events. The proofs do not depend on any
  of these bounds.
  In `Turn` two attempts at one component give every adoption and every mix-up of two cards, and
  a burst of three items overflows a queue of two (`MAX_QUEUE` is eight in the code; thinning
  depends on the excess only).
- In `Conversation` two messages are what it takes for something late to hit a reply that is over, two
  tools run side by side, one of them the presenter, and five messages and events hold a call, its
  progress, another tool's result and the end. One event may be on the wire while the next is written: the
  wire is a first-in first-out queue, so a longer one only delays. In `MemoryFacts` four reads let two cross
  around a correction. In `Storefront` the five that are counted are a page load in
  each tab, a question, and two writes of the assistant or the Add buttons. The forms of the checkout are not counted,
  so a write falls at each place between address, method, payment session and payment: an order of a cart
  written after its total is among the states. In `Portal` a restock and a rewrite move
  different traits of different listings, two replies may hold cards of one change, and caps of three and two let
  the alerts, the overview and the queue overflow (40, 12 and 6 in the code). A reply holds one card of each
  change it presents: a second streamed preview of the same change would open a second card, which the same
  news rewrite, and a final preview without a stream id takes a card off at most. The trait sets contain a listing that is at once low
  and slow, one that sells slowly and is sold out, and one paused; the pages' functions are checked on those.
- Runs of all modules but `MerchantChanges` and `ReferenceCache` switch the deadlock check off, since a
  behaviour stops when the requests, gestures or turns of the instance have ended. Those two never stop.
- Symmetry is over identities that no definition orders; it is not used with liveness.
- Fairness is stated in `ReferenceCache`, `Turn` and `Conversation`. In `Conversation`, `WF(Deliver)`: the
  network hands over what was written; `WF(CloseStream)`: the service's generator ends, since every turn
  has a bounded number of steps and every call a timeout; `WF(Complete)`: the page reads the end. Nothing
  is asked of the user, of what the service writes, or of the timers. `WF(Tick(i))` for every slot: the browser runs a
  timeout that is not cleared; nothing is asked of the stream, which may go quiet or never end. `WF(AcquireHit \/ AcquireLoad)`: asyncio wakes
  the first waiter when the lock is released, and a ready task is run. `WF(Read)` and
  `WF(Fill \/ LoadEnds)`: every load is an HTTP call of a client with a timeout, so it ends
  with an answer or an exception. No fairness is asked of callers, of changes, of
  invalidation or expiry. The other modules state safety only: nothing in the code promises
  that a request ends before its process does.
- Data: messages, provenance, quantities, prices, addresses are identities of the request that
  wrote them. Guardrails may refuse at each place they are asked, their arithmetic is left out.
- Reads and buttons' requests of the pages are asked, served and answered in separate steps; a request
  or an answer that is lost, and a refusal, are all the null that `api.ts` returns. Cart and total are
  the count of cart writes when they were made: what differs in them is only which cart they are of.
- Some properties of the pages exempt named histories (`lost`, `overlap`, `crossed` in `Storefront`;
  `overtaken`, `excuses` in `MemoryFacts`; `untold`, `outrun` in `Portal`). Each names histories
  in which the code does let the pages differ; outside them the property has no exception. What a property
  exempts it does not catch: `PROJECT.json` says so at each hazard.
- `Portal` takes alerts as if every write dropped the service's cache: what the cache may keep is the
  matter of `ReferenceCache` and `MerchantChanges`.
- The lists of `PortalPages` (`FlattenSeq`) and `ToolRows` are recursive functions, not recursive
  operators, so that they can be proved about.

## 5. What is proved

All theorems are of the form `Spec => []Inv` or `Spec => [][A]_vars`, for every value of the
constants that satisfies the assumptions declared with them (disjoint sets of requests, at
least one product, finitely many clicks, a null value that is no cart and no caller, a known
set of stores).

- **SessionStoreProofs**
  - `SessionTypes`: the type invariant, from a lemma on the splice that `write_messages` makes.
  - `CompareAndSet` (`ReplacesWhatItRead`): inductive by `CasInv`. A request that is not
    forcing and has seen the latest reset has read a version no higher than the store's, and
    if it is the same one, it has read this document (`LevelWithStore`). The equality of
    versions alone says nothing of documents; that is why the invariant relates the two.
  - `NoTraceOfRefused` (`RefusedLeavesNoTrace`): inductive by `TraceInv`. As long as a request has
    written nothing, neither the store nor any *other* request's record carries its mark: the
    second half is what makes it inductive, since another record may be written later.
  - `EventsAccounted` (`AcceptedEventAccounted`): by `EventInv`. An event leaves the stored queue
    by a turn's first save, which replaces the document it read (`CasInv`) and so carries a message that
    notes all it empties (`NotesItsQueue`), or by a forced write-back. From there it comes into the transcript
    by the turn's `WriteMessages`, or is lost by a crash before it. Every other writer keeps the queue it read (`OwnRecord`),
    and a route's event is never also its provenance (`Apart`).
  - `EventsToldOnce` (`ToldOnce`): by `NoteInv`, on top of the three before. It speaks of every
    message in the transcript and in every record, since a record may be written back: no message
    of a turn that has saved carries a note of what is still queued (`NotesUnqueued`) or of what
    another turn's message notes (`NotesApart`), and a turn's message is in no sequence twice (`Once`),
    because nobody else has it until its owner writes it (`Silent`).
  - `SettledTurnsAreStored` (`SettledTurnStored`): by `PostInv`. A turn's own messages are the last of
    its record (`Speaks`), and routes have none to write (`RouteQuiet`). While no two turns overlapped
    (`OneByOne`), the turn in flight holds all of the transcript and nothing of anybody else's beyond it
    (`Synced`), so the splice of `write_messages` is the turn's messages whatever stored length it starts
    from; and a settled turn's messages stay the transcript's beginning (`Kept`).
- **MerchantChangesProofs**
  - `ChangeTypes` with `Positions`: where a request is decides which product it may be at.
  - `ModelCannotApply`: by `ApprovalsHeld`, no mark is ever stored, and a record holds at most
    the mark of its own click.
  - `AppliedComplete`: by `WrittenSoFar`, all products below an apply's position that are still
    listed, and not `Void`, have been written, and it marks only beyond the last.
  - `ResolvedStays`: by `NeverBetween`, no request of a one-process ledger is between check and mark.
  - `AlertsCurrent`: by `LagsForAReason`, which also speaks of the load in flight.
  - `WrittenAsApproved` (`NeverMoreThanApproved`): by `WithinBudget`, the writes of a product are at
    most as many as the clicks whose apply is past that product. An apply passes a product once, so
    each write adds a click to that finite set.
  - `UndisturbedExact` (`UndisturbedIsExact`): by `ExactInv`. For a change that nothing disturbed, one
    request at most acts (`Sole`), an apply has written no product twice and none beyond its position
    (`UpToHere`), a dismissal is of a staged change (`Dismissing`), and between requests the status says
    what was written (`Settled`). That the apply wrote every listed product it asks something of is
    `AppliedComplete`'s part.
- **BackendProofs**, of `ReferenceCache`: one invariant `CacheInv` with `Exclusive` (who loads holds the lock,
  and then there is no entry), `Serial` (what was answered, cached, read and is current are
  in order) and `Causes`; it gives `LoadsOnce`, `StaleIsRaced` and `AnswersAdvance`.
- **BackendProofs**, of `Carts`
  - `CartTypes` with `Clocked`: no version is ahead of the clock.
  - `OneCart`: by `MakesTheOnlyOne`, who is about to make a cart has none to race with.
  - `AddsAreKept`: by `SnapshotTrue` (a snapshot with the cart's version has the cart's lines,
    which needs versions never to repeat) and `AddedThere`; the one exception is a cart deleted
    after it was found.
  - `ServedOnce`: by `InPlace`, a request with a line in some cart is past its only update.
- **TurnProofs**: lemmas on the operators first (thinning keeps the last frame, a burst ends with
  the block that came, a timeout, a frame, a final block and a flush all keep or set the *newest*
  block of a slot), then one invariant `IInv`. `Pacing` gives `CardsMove`. `NothingLost` (the block
  handed last is the final one that waits, or the queue's last, or on the card) gives
  `EndIsComplete`. `Known` and `Owned` (the slot of an attempt that is still good has its block
  and a status that nothing may adopt) give `OneCardEach`; they are also what shows that no frame
  ever meets a slot where a final block waits, which `NothingLost` needs. `CardsGrow` (`ShownGrows`) is by
  `Climbing`: the frames of a queue rise from the card on. Cutting a burst, thinning, replacing the last
  frame and the timer all keep that (`StepsRise`, `ThinnedRises`, `ScheduleRises`, `DrainRises`).

- **ConversationProofs**: one invariant `IInv == TypeOK /\ Framed /\ OnlyNewestOpen`. `Framed` says what
  the wire and the page hold between two pieces: each piece on the wire follows the one before it in a
  frame or starts the next, the last ends a frame, and `buffer` and `eventType` remember what came before
  the first (`StreamIsFramed`); it is what makes `eventType` the type of the data line it is used with.
  `OnlyNewestOpen` says that every reply but the newest is closed, and that nothing waits for a timer
  once the newest is. `RepliesAreKept` (`KeepsReplyLog`) is the refinement of `ReplyLog`:
  the initial state maps to the abstract one, and every step maps to `Begin`, `Say`, `Mark`, `Close` or a
  stutter, by lemmas on the two or fewer pieces that an event or a late timer adds, and on what is left of
  a reply without its failed card. `EveryEventHandled`
  (`HandledIsWritten`) is by `Placed`: the k-th piece from the end of the wire is the one that its place
  in the text says, five pieces an event, so a `Deliver` handles the event its count says, and a count of
  sound events is the length of what was handled. `ToolsAreAsTold` (`ToolsAsTold`) is by `ToolInv`: the
  service answers only what it called (`Answerable`), what was handled owes as much (`HandledCounts`),
  and the rows of the trace have of each tool the calls and the results that were handled (`RowsInv`).
  `ToolRows` is a recursive function: that it exists and what one more entry does to it are inductions.
- **StorefrontProofs**: one invariant `IInv`. `Alive` (a stored or used session lives
  unless something was lost) and `Known` (and it is the only one, unless the tabs started theirs at
  once) give `OneVisitorHolds`. `Numbered` (no cart is ahead of the count of writes), `Totalled` (the
  payment step has a total, of a cart of the checkout's own session) and `Delivered` (with the total the
  method is on the cart, and the total is of the cart as it is unless that was written since) give
  `ChargedAsShownHolds`. `OneAtATime` gives `SummaryHolds`: while Add buttons, replies and the first read
  keep apart, the events still to come are in the order of the writes and bring the panel level with the
  service's cart. `DetailsHold` is a part of the invariant itself.
- **MemoryFactsProofs**: one invariant `IInv`. `Numbered` says that the answers still out are numbered
  apart and none is the newest the page took. `LastRead` gives `ShownHolds` (`ShownIsStored`): as long as
  nothing excuses it, the last read served is on the page or on its way there and level with the store, or
  another read is due. `OnlyCorrected` gives `NewHolds` (`NewIsLearned`): a fact that only the shopper
  changed is in the store as in the baseline, and every read still of interest has it so, unless a
  correction came since.
- **PortalProofs**: one invariant `IInv == TypeOK /\ RailInv /\ ReadInv`. `RailInv` says that an event on
  its way, a card and an answer say of a change one of the statuses it has been through (`WireInv`,
  `CardInv`, `ActInv`), and that a card which does not say what the ledger says has the news still to come
  or is exempt (`ToldInv`); it gives `CardsTold` (`CardsTellTheLedger`). `ReadInv` says of every mounted
  view and every change the page was told of that the view is right on it, or a load is out that began
  after the move, or a re-read is to come; it gives the first half of `PagesAgree` (`PagesAreCurrent`). The
  other half, that counts, rows, marks and cards agree, is about the pages' functions on any data:
  `AmongEither` and `AmongMany` (filters that share nothing take together what one takes that takes
  what either does) give the counts (`QueueFacts`, `CatalogAgrees`, `NavMeetsPage`); `Blocks` (where the
  rows of the queue's four parts are) gives "See all" (`HomeAgrees`); `AttentionIsMarked` gives the marks.
  That an inventory alert's row says the same on both pages needs that a slow mover is in stock, which
  `get_inventory_alerts` asks for (`AlertsSound`).

Inductions. The library's induction theorems take an operator, which the provers cannot instantiate. Where
a definition is recursive the modules prove induction for a *set* instead, from the existence of a
least element (`WFMin` of `WellFoundedInduction`, whose parameters are sets): `SetInduction` and
`NumberInduction` over the numbers, `SequenceInduction` over sequences. What a recursive function computes
is then a set of the numbers or sequences it does so for.

Only model-checked: `WaitEnds`, `CatchesUp` and `SendSettles` (liveness under fairness is out of the
prover's reach, as is ENABLED). Every other property of a run that passes is a theorem. What TLC shows and
the proofs do not is that the models are not empty: the runs fire every action, and the mutants break
every property.

## 6. What the code does otherwise than its text says

Three runs expect a violation; each checks one sentence of the repository, and `PROJECT.json` quotes the
line under `findings`.

1. `session_torn_read`. `service/sessions.py:24`, `ct_sessions.py:121`: two requests cannot overwrite
   each other. A request that reads the document after and the transcript before another's
   transcript write passes the version check with a transcript that is too short, and cuts it.
2. `merchant_written_twice`. `docs/diagrams/3-merchant-write-path.mmd:44`: applying twice no longer
   writes twice. In sequence it does not; two applies in flight do, and so does an apply after a
   lost answer.
3. `carts_frozen_not_found`. `service/checkout.py:10`: a Frozen cart is made Active. It is never found.

Other sentences the models read differently, without a run of their own:

- `service/host.py:212`: the forced write-back loses a button's note. It may also lose another
  turn's messages: the write-back runs after the stream's end, so a client that waits for it and
  sends its next message at once is enough.
- `ct_merchant/executor.py:16`: on a conflict nothing was written. Products before the
  conflicting one were.
- `ct_merchant/backend.py:864`: no change is recorded that the store cannot see. A 404 for the update
  is read as an empty answer, and the change is recorded.
- `service/sessions.py:190`: on a conflict, retry. The Add button's cart update is done by then.
- `web/storefront/app/page.tsx:35`: a staged checkout owns the panel's action until the cart changes
  again. A summary event of a running reply may arrive after an Add button's answer and stage an older
  cart, and the page's first cart read, when it is late, replaces the panel without unstaging:
  `SummaryIsOfTheCart` names these overlaps.
- `web/storefront/components/CartPanel.tsx:61`: every write is one the assistant made. The Add button
  writes the cart without it.

What the pages do that a reader may not expect, each as modelled:

- A reply whose only content was a card that failed, and whose stream then breaks, ends empty:
  the page tests for emptiness before it takes the card off (`turn.ts:469`). `ReplyLog` has it so.
- A process that ends between a turn's two writes loses the app events the turn had taken
  (`sessions.py:118`): the document has no queue any more, the transcript no note.
- An update of a cart that was deleted after it was found is answered as a success (`client.py:94`).
- A fact that is forgotten while its correction is between check and write is back (`main.py:324`).
- Rows of the Activity panel stay "running" after a stream that broke.
- The last line of a stream is dropped if it has no newline.
- `readMemory` takes answers in the order they come, so an older one may stand.
- What is typed in a fact's box while its save is on the way goes with the draft; the failure mark of
  a fact stays after Cancel.
- A liveness read that fails, for whatever reason, replaces the stored session
  (`storefront/lib/session.ts:46`).
- Details that cannot be read stay "loading" (`ProductCarousel.tsx`).
- The checkout lists the cart it read when it was opened; its total is later, and the payment charges what
  the cart is by then.
- The shop's tab is not told when the other tab pays.
- The catalogue page keeps one alert a listing: a listing that is both low and a slow mover shows
  the slow-mover mark only.
- A product with options is alerted by variant, while the catalogue shows its family.
- The overview carries at most twelve alerts, the counts beside the views' names count all.
- A draft in the composer is lost when the rail is closed over it.

## 7. What is not modelled, and the plan

Not modelled:

- The Custom Object session store (`service/ct_sessions.py`) beyond what it shares with the others:
  its version moves only with the value, and two dictionaries are shared by a process's threads.
- The token cache of `ct_common/client.py`: a lifetime within the margin of 60 s is never fresh.
- Redis' separate times to live of state and transcript; the version an unfreeze would leave stale
  (it is never reached); a cart left behind when a product has no tax category.
- Pure mapping of platform records, price selection, shipping fees, search, filters; restock and
  markdown arithmetic, digests and metrics. Guardrails may refuse wherever they are asked.
- Orders as the shop lists them, the listing sheet with its variants, the search box: views of one
  read each, without a state that another part depends on.
- Markdown, icons, formatting, layout; provisioning scripts; prompts and skills; route
  registration and settings.

The executor's gates, the process's ledger, the agent loop and the extractor of facts live in external
packages and are modelled from how this code uses them.

Done, in this order: `SessionStore` (the store every request depends on), `MerchantChanges` (the write
path with the operator's approval), `ReferenceCache`, `Carts`, `Turn` (a turn's cards),
`Conversation` with `ReplyLog` (the stream and the replies), `MemoryFacts`, `Storefront`, `PortalPages`
and `Portal`. What is left:

1. `CustomObjectSessions`, shown to implement, or not, the compare-and-set of an abstract
   `VersionedRegister`, which the Redis store implements.
2. `TokenCache`: the double-checked refresh with its margin.
3. Pure functions, checked against reference definitions over bounded inputs: variant references,
   price selection, stock by sku, shipping fees, filters.
