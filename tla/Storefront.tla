------------------------------ MODULE Storefront ------------------------------
(***************************************************************************)
(* The shopper's browser: the shop's tab (the cart panel beside the        *)
(* conversation, the product cards with their Add buttons and details) and *)
(* the checkout's tab, which a summary's link opens and which ends on the  *)
(* confirmation page.  The tabs share the session id in localStorage and,  *)
(* through it, one cart at the service.                                    *)
(*                                                                         *)
(* A request is asked, served and answered in three steps, so that answers *)
(* cross; the answer is null when the request or the answer is lost or the *)
(* service refuses.  A cart is its number, the count of writes when its    *)
(* lines were; 0 is the empty cart.  A total is the cart it was computed   *)
(* from.  The address and the shipping method are written on the cart,     *)
(* too, but change no line.                                                *)
(***************************************************************************)
EXTENDS Integers, Sequences

CONSTANTS
    Products,      \* the products of a carousel, one Add button each
    Optioned,      \* those whose options must be chosen first
    MaxSessions,   \* the sessions the service starts (bound)
    MaxSpent       \* page loads, gestures and the agent's writes, together (bound)

NoProduct == "no product"

ASSUME StorefrontAssumption ==
    /\ Optioned \subseteq Products
    /\ NoProduct \notin Products
    /\ MaxSessions \in Nat
    /\ MaxSpent \in Nat

VARIABLES
    live,          \* the service's sessions
    issued,        \* how many it has started
    cartOf,        \* the cart of each
    delivery,      \* what is settled of each cart's delivery
    writes,        \* the cart writes so far
    moved,         \* history: the checkout's cart was written since it was last totalled
    stored,        \* the session id in localStorage
    visit,         \* useStoredSession of each tab
    shop,          \* the shop page: the panel's cart, staged, the last summary card, the reply
    button,        \* the phase of each Add button
    adding,        \* and its request
    carousel,      \* which product is expanded, which is rendered, whose details it has
    reads,         \* the detail reads that are out, and whether their panel is still mounted
    till,          \* the checkout's tab: the page, what it lists, the total, the payment
    order,         \* the order the payment created
    spent,         \* the budget used
    lost,          \* history: an answer was lost, or a session expired
    overlap,       \* history: both tabs were starting a session at once
    crossed        \* history: an Add button and a reply, or the first read and either, overlapped

cartVars == <<cartOf, delivery, writes, moved>>
serviceVars == <<live, issued, cartVars>>
shopVars == <<shop, button, adding, carousel, reads>>
tillVars == <<till, order>>
historyVars == <<lost, overlap, crossed>>
vars == <<serviceVars, stored, visit, shopVars, tillVars, spent, historyVars>>

Tabs == {"shop", "till"}
Sessions == 1..MaxSessions
NoSession == 0
Nothing == -1

Spend == spent < MaxSpent /\ spent' = spent + 1

(***************************************************************************)
(* Requests                                                                *)
(***************************************************************************)

Slot(at, cart) == [at |-> at, cart |-> cart]
Idle == Slot("idle", Nothing)
Asked == Slot("asked", Nothing)
Served(cart) == Slot("served", cart)

\* What a scoped read answers: a session the service does not know is refused.
CartFor(sid) == IF sid \in live THEN cartOf[sid] ELSE Nothing

\* What comes back of a request, and whether something got lost on the way.
Outcomes(slot) ==
    CASE slot.at = "asked" -> {Nothing}
      [] slot.at = "served" -> {slot.cart, Nothing}
      [] OTHER -> {}
Missed(slot, got) == slot.at = "asked" \/ got # slot.cart

Sid(t) == visit[t].sid
Ready(t) == visit[t].step = "ready"

Write(sid) ==
    /\ writes' = writes + 1
    /\ cartOf' = [cartOf EXCEPT ![sid] = writes + 1]
    /\ moved' = (moved \/ sid = Sid("till"))
    /\ UNCHANGED <<live, issued, delivery>>

(***************************************************************************)
(* useStoredSession                                                        *)
(***************************************************************************)

NewShop == [panel |-> Nothing, staged |-> FALSE, summary |-> Nothing, first |-> Idle,
            replying |-> FALSE, feed |-> << >>]
NewCarousel == [expanded |-> NoProduct, rendered |-> NoProduct, details |-> NoProduct]
NewTill == [page |-> "checkout", step |-> "address", listed |-> Nothing, list |-> Idle,
            asking |-> Idle, total |-> Nothing, widget |-> "none", confirmed |-> "no"]

NoOrder == [sid |-> NoSession, cart |-> Nothing, delivery |-> "none"]

ClearShop ==
    /\ shop' = NewShop
    /\ button' = [p \in Products |-> "idle"]
    /\ adding' = [p \in Products |-> Idle]
    /\ carousel' = NewCarousel
    /\ reads' = {}

Mounted(from) == [step |-> IF from = NoSession THEN "starting" ELSE "checking", sid |-> from]

\* A page loads with nothing but the stored id; two pages may find none.
Mount(t, from) ==
    /\ visit' = [visit EXCEPT ![t] = Mounted(from)]
    /\ overlap' = (overlap \/ \E u \in Tabs \ {t} : from = NoSession /\ visit[u].step = "starting")

AddsOut == \E p \in Products : adding[p].at # "idle"

\* Mutant: a page starts a session of its own, as web-shared's useSession does.
OpenAfresh(t) ==
    /\ visit[t].step \in {"closed", "ready"}
    /\ Spend
    /\ Mount(t, NoSession)
    /\ IF t = "shop" THEN ClearShop /\ UNCHANGED tillVars
                     ELSE till' = NewTill /\ order' = NoOrder /\ UNCHANGED shopVars
    /\ lost' = (lost \/ (t = "shop" /\ AddsOut))
    /\ UNCHANGED <<serviceVars, stored, crossed>>

\* The shop or the checkout is opened, or loaded again; a press that is out is forgotten.
Open(t) ==
    /\ visit[t].step \in {"closed", "ready"}
    /\ Spend
    /\ Mount(t, stored)
    /\ IF t = "shop" THEN ClearShop /\ UNCHANGED tillVars
                     ELSE till' = NewTill /\ order' = NoOrder /\ UNCHANGED shopVars
    /\ lost' = (lost \/ (t = "shop" /\ AddsOut))
    /\ UNCHANGED <<serviceVars, stored, crossed>>

\* The page is ready: the shop reads the cart, the checkout reads what it lists.
Arrive(t, sid) ==
    /\ visit' = [visit EXCEPT ![t] = [step |-> "ready", sid |-> sid]]
    /\ shop' = [shop EXCEPT !.first = IF t = "shop" /\ sid # NoSession THEN Asked ELSE @]
    /\ till' = [till EXCEPT !.list = IF t = "till" /\ till.page = "checkout" /\ sid # NoSession
                                       THEN Asked ELSE @]
    /\ UNCHANGED <<button, adding, carousel, reads, order, spent, overlap, crossed>>

\* The liveness read of the stored id: any null, a lost answer too, starts over.
CheckSession(t) ==
    /\ visit[t].step = "checking"
    /\ \/ /\ Sid(t) \in live
          /\ Arrive(t, Sid(t))
          /\ UNCHANGED lost
       \/ /\ visit' = [visit EXCEPT ![t].step = "starting"]
          /\ lost' = TRUE
          /\ UNCHANGED <<shopVars, tillVars, spent, overlap, crossed>>
    /\ UNCHANGED <<serviceVars, stored>>

\* POST /session; without an answer the page goes on with no session.
StartSession(t) ==
    /\ visit[t].step = "starting"
    /\ \/ /\ issued < MaxSessions
          /\ issued' = issued + 1
          /\ live' = live \cup {issued + 1}
          /\ stored' = issued + 1
          /\ Arrive(t, issued + 1)
          /\ UNCHANGED lost
       \/ /\ Arrive(t, NoSession)
          /\ lost' = TRUE
          /\ UNCHANGED <<issued, live, stored>>
    /\ UNCHANGED cartVars

Expire(s) ==
    /\ s \in live
    /\ ~lost
    /\ live' = live \ {s}
    /\ lost' = TRUE
    /\ UNCHANGED <<issued, cartVars, stored, visit, shopVars, tillVars, spent, overlap, crossed>>

(***************************************************************************)
(* The shop: the cart panel                                                *)
(***************************************************************************)

ShopRest == UNCHANGED <<stored, visit, carousel, reads, tillVars, overlap>>

ServeFirstRead ==
    /\ shop.first.at = "asked"
    /\ shop' = [shop EXCEPT !.first = Served(CartFor(Sid("shop")))]
    /\ UNCHANGED <<serviceVars, button, adding, spent, lost, crossed>>
    /\ ShopRest

\* fetchCart's answer is the cart, whatever came before it; it does not unstage.
FirstReadAnswered ==
    /\ \E got \in Outcomes(shop.first) :
         /\ shop' = [shop EXCEPT !.first = Idle, !.panel = IF got = Nothing THEN @ ELSE got]
         /\ lost' = (lost \/ Missed(shop.first, got))
    /\ UNCHANGED <<serviceVars, button, adding, spent, crossed>>
    /\ ShopRest

\* Mutant: a staged checkout stays staged when the cart changes.
CartUpdateStaged(s, cart) == [s EXCEPT !.panel = cart]

\* handleCartUpdate
CartUpdate(s, cart) == [s EXCEPT !.panel = cart, !.staged = FALSE]

\* ask: sends to the assistant, unless a reply streams or there is no session yet.
Ask(from) ==
    /\ Ready("shop")
    /\ Sid("shop") # NoSession
    /\ ~shop.replying
    /\ Spend
    /\ shop' = [shop EXCEPT !.replying = TRUE]
    /\ crossed' = (crossed \/ AddsOut \/ shop.first.at # "idle")
    /\ UNCHANGED <<serviceVars, button, adding, lost>>
    /\ ShopRest

\* CheckoutButton: the summary that is staged is scrolled to; otherwise the assistant is asked.
ViewSummary == shop.staged /\ shop.panel > 0

\* Where the page's hand-offs to the assistant are: every change to a line of the bag, what
\* the panel adds to its lines, the Add button of a product whose options must be chosen, and
\* each row of the orders.
LineAskers == {"stepper", "remove"}
PanelAskers ==
    IF shop.panel <= 0 THEN {}
    ELSE LineAskers \cup {"ask about this cart"} \cup (IF ViewSummary THEN {} ELSE {"check out"})
OptionAskers == Optioned

\* The hand-off of an order's row, by its status.
OrderAskers == {"why is it late", "can it be returned", "where is it", "what is its status"}

Askers == {"composer"} \cup PanelAskers \cup OptionAskers \cup OrderAskers

\* The agent writes the cart, and its event carries the cart it wrote.
AgentWrites ==
    /\ shop.replying
    /\ Sid("shop") \in live
    /\ Spend
    /\ Write(Sid("shop"))
    /\ shop' = [shop EXCEPT !.feed = Append(@, [type |-> "cart_update", cart |-> writes + 1])]
    /\ UNCHANGED <<button, adding, lost, crossed>>
    /\ ShopRest

\* The summary card of a cart, with its lines, its totals and the link to the checkout.
Staged(s, cart) == [s EXCEPT !.staged = TRUE, !.summary = cart]

\* The agent presents the cart as a checkout summary.
AgentStages ==
    /\ shop.replying
    /\ CartFor(Sid("shop")) > 0
    /\ Spend
    /\ shop' = [shop EXCEPT !.feed = Append(@, [type |-> "checkout", cart |-> CartFor(Sid("shop"))])]
    /\ UNCHANGED <<serviceVars, button, adding, lost, crossed>>
    /\ ShopRest

\* onEvent
ShopEvent ==
    /\ shop.feed # << >>
    /\ LET event == Head(shop.feed)
           rest == [shop EXCEPT !.feed = Tail(@)]
       IN  shop' = IF event.type = "cart_update"
                     THEN CartUpdate(rest, event.cart)
                     ELSE Staged(rest, event.cart)
    /\ UNCHANGED <<serviceVars, button, adding, spent, lost, crossed>>
    /\ ShopRest

\* The stream is read to its end, or breaks off.
ReplyEnds ==
    /\ shop.replying
    /\ shop' = [shop EXCEPT !.replying = FALSE, !.feed = << >>]
    /\ lost' = (lost \/ shop.feed # << >>)
    /\ UNCHANGED <<serviceVars, button, adding, spent, crossed>>
    /\ ShopRest

(***************************************************************************)
(* The shop: product cards                                                 *)
(***************************************************************************)

Press(p) ==
    /\ Ready("shop")
    /\ p \in Products \ Optioned
    /\ button[p] = "idle"
    /\ Spend
    /\ button' = [button EXCEPT ![p] = "busy"]
    /\ adding' = [adding EXCEPT ![p] = Asked]
    /\ crossed' = (crossed \/ shop.replying \/ AddsOut \/ shop.first.at # "idle")
    /\ UNCHANGED <<serviceVars, shop, lost>>
    /\ ShopRest

\* POST /cart/add: the service writes, or refuses a product the agent never showed.
ServeAdd(p) ==
    /\ adding[p].at = "asked"
    /\ \/ /\ Sid("shop") \in live
          /\ Write(Sid("shop"))
          /\ adding' = [adding EXCEPT ![p] = Served(writes + 1)]
       \/ /\ adding' = [adding EXCEPT ![p] = Served(Nothing)]
          /\ UNCHANGED serviceVars
    /\ UNCHANGED <<shop, button, spent, lost, crossed>>
    /\ ShopRest

AddAnswered(p) ==
    /\ \E got \in Outcomes(adding[p]) :
         /\ button' = [button EXCEPT ![p] = IF got = Nothing THEN "error" ELSE "done"]
         /\ shop' = IF got = Nothing THEN shop ELSE CartUpdate(shop, got)
         /\ lost' = (lost \/ Missed(adding[p], got))
    /\ adding' = [adding EXCEPT ![p] = Idle]
    /\ UNCHANGED <<serviceVars, spent, crossed>>
    /\ ShopRest

\* The mark stays for its timer.
ButtonTimer(p) ==
    /\ button[p] \in {"done", "error"}
    /\ button' = [button EXCEPT ![p] = "idle"]
    /\ UNCHANGED <<serviceVars, shop, adding, spent, lost, crossed>>
    /\ ShopRest

(***************************************************************************)
(* The shop: a carousel's details                                          *)
(***************************************************************************)

CarouselRest ==
    /\ UNCHANGED <<serviceVars, stored, visit, shop, button, adding, tillVars, historyVars>>

\* The reads of a panel that is unmounted are still out, but nobody waits for them.
Forsaken == {<<read[1], FALSE>> : read \in reads}

\* The panel of the product: it stays the one it was, or is mounted anew and reads again.
Render(p) ==
    IF p = carousel.rendered
      THEN /\ carousel' = [carousel EXCEPT !.expanded = p]
           /\ UNCHANGED reads
      ELSE /\ carousel' = [expanded |-> p, rendered |-> p, details |-> NoProduct]
           /\ reads' = Forsaken \cup {<<p, TRUE>>}

\* toggle: the card that is expanded folds its panel, any other takes it over.
Toggle(p) ==
    /\ Ready("shop")
    /\ Spend
    /\ IF carousel.expanded = p
         THEN /\ carousel' = [carousel EXCEPT !.expanded = NoProduct]
              /\ UNCHANGED reads
         ELSE Render(p)
    /\ CarouselRest

\* onTransitionEnd: the panel that has folded is unmounted.
Folded ==
    /\ carousel.rendered # NoProduct
    /\ carousel.expanded = NoProduct
    /\ carousel' = [carousel EXCEPT !.rendered = NoProduct, !.details = NoProduct]
    /\ reads' = Forsaken
    /\ UNCHANGED spent
    /\ CarouselRest

\* Mutant: an answer is taken whoever asked.
DetailsAnsweredAnyone ==
    /\ \E read \in reads : \E got \in {read[1], NoProduct} :
         /\ reads' = reads \ {read}
         /\ carousel' = [carousel EXCEPT !.details = IF @ # read[1] THEN got ELSE @]
    /\ UNCHANGED spent
    /\ CarouselRest

\* fetchProduct's answer is for the panel that asked; null leaves it loading.
DetailsAnswered ==
    /\ \E read \in reads : \E got \in {read[1], NoProduct} :
         /\ reads' = reads \ {read}
         /\ carousel' = [carousel EXCEPT !.details = IF read[2] THEN got ELSE @]
    /\ UNCHANGED spent
    /\ CarouselRest

(***************************************************************************)
(* The checkout                                                            *)
(***************************************************************************)

TillRest == UNCHANGED <<live, issued, stored, shopVars, overlap, crossed>>

OnPage(page) == Ready("till") /\ till.page = page

ServeList ==
    /\ till.list.at = "asked"
    /\ till' = [till EXCEPT !.list = Served(CartFor(Sid("till")))]
    /\ UNCHANGED <<cartVars, visit, order, spent, lost>>
    /\ TillRest

ListAnswered ==
    /\ \E got \in Outcomes(till.list) :
         /\ till' = [till EXCEPT !.list = Idle, !.listed = got]
         /\ lost' = (lost \/ Missed(till.list, got))
    /\ UNCHANGED <<cartVars, visit, order, spent>>
    /\ TillRest

\* The buttons of the two forms wait for the answer; an empty cart has no form.
Submit ==
    /\ OnPage("checkout")
    /\ till.listed # 0
    /\ till.step \in {"address", "shipping"}
    /\ till.asking = Idle
    /\ till' = [till EXCEPT !.asking = Asked]
    /\ UNCHANGED <<cartVars, visit, order, spent, lost>>
    /\ TillRest

\* What a form settles of the delivery: it is on the cart, and the method comes with a total.
Settled(step) == CASE step = "address" -> "address"
                   [] step = "shipping" -> "method"
                   [] OTHER -> delivery[Sid("till")]

\* The service writes the address, or the method, on the cart, or makes a payment session of it;
\* or it refuses.
ServeSubmit ==
    /\ till.asking.at = "asked"
    /\ \/ /\ CartFor(Sid("till")) > 0
          /\ till' = [till EXCEPT !.asking = Served(CartFor(Sid("till")))]
          /\ delivery' = [delivery EXCEPT ![Sid("till")] = Settled(till.step)]
          /\ moved' = (moved /\ till.step # "shipping")
       \/ /\ till' = [till EXCEPT !.asking = Served(Nothing)]
          /\ UNCHANGED <<delivery, moved>>
    /\ UNCHANGED <<cartOf, writes, visit, order, spent, lost>>
    /\ TillRest

\* Mutant: the payment step shows the total of the cart the page has listed.
ShippingAnsweredAsListed(got) ==
    /\ till.step = "shipping"
    /\ till' = IF got = Nothing
                 THEN [till EXCEPT !.asking = Idle]
                 ELSE [till EXCEPT !.step = "payment", !.total = till.listed, !.asking = Asked,
                                   !.widget = "loading"]

\* The payment step comes with the total, and asks for its session as it mounts.
ShippingAnswered(got) ==
    /\ till.step = "shipping"
    /\ till' = IF got = Nothing
                 THEN [till EXCEPT !.asking = Idle]
                 ELSE [till EXCEPT !.step = "payment", !.total = got, !.asking = Asked,
                                   !.widget = "loading"]

AddressAnswered(got) ==
    /\ till.step = "address"
    /\ till' = [till EXCEPT !.asking = Idle, !.step = IF got = Nothing THEN @ ELSE "shipping"]

\* start: the widget is mounted on the session, or the step says that it cannot be.
PaymentStarted(got) ==
    /\ till.step = "payment"
    /\ till' = [till EXCEPT !.asking = Idle, !.widget = IF got = Nothing THEN "failed" ELSE "open"]

SubmitAnswered ==
    /\ \E got \in Outcomes(till.asking) :
         /\ \/ AddressAnswered(got)
            \/ ShippingAnswered(got)
            \/ PaymentStarted(got)
         /\ lost' = (lost \/ Missed(till.asking, got))
    /\ UNCHANGED <<cartVars, visit, order, spent>>
    /\ TillRest

\* Checkout charges the cart as it is now and makes the order of it.
Pay ==
    /\ OnPage("checkout")
    /\ till.widget = "open"
    /\ order = NoOrder
    /\ cartOf[Sid("till")] > 0
    /\ order' = [sid |-> Sid("till"), cart |-> cartOf[Sid("till")],
                  delivery |-> delivery[Sid("till")]]
    /\ cartOf' = [cartOf EXCEPT ![Sid("till")] = 0]
    /\ delivery' = [delivery EXCEPT ![Sid("till")] = "none"]
    /\ UNCHANGED <<writes, moved, visit, till, spent, lost>>
    /\ TillRest

\* onInfo: the browser goes to the confirmation, a page that loads like any other.
Redirect ==
    /\ OnPage("checkout")
    /\ order # NoOrder
    /\ Mount("till", stored)
    /\ till' = [till EXCEPT !.page = "confirmation", !.confirmed = "loading", !.asking = Idle, !.list = Idle]
    /\ UNCHANGED <<serviceVars, stored, shopVars, order, spent, lost, crossed>>

\* The order is read back as the session's own; anyone else's is not found.
ReadConfirmation ==
    /\ OnPage("confirmation")
    /\ till.confirmed = "loading"
    /\ \/ /\ order.sid = Sid("till")
          /\ order.sid \in live
          /\ till' = [till EXCEPT !.confirmed = "shown"]
          /\ UNCHANGED lost
       \/ /\ order.sid = Sid("till") /\ order.sid \in live
          /\ till' = [till EXCEPT !.confirmed = "failed"]
          /\ lost' = TRUE
       \/ /\ order.sid # Sid("till") \/ order.sid \notin live
          /\ till' = [till EXCEPT !.confirmed = "failed"]
          /\ UNCHANGED lost
    /\ UNCHANGED <<cartVars, visit, order, spent>>
    /\ TillRest

Init ==
    /\ live = {}
    /\ issued = 0
    /\ cartOf = [s \in Sessions |-> 0]
    /\ delivery = [s \in Sessions |-> "none"]
    /\ writes = 0
    /\ moved = FALSE
    /\ stored = NoSession
    /\ visit = [t \in Tabs |-> [step |-> "closed", sid |-> NoSession]]
    /\ shop = NewShop
    /\ button = [p \in Products |-> "idle"]
    /\ adding = [p \in Products |-> Idle]
    /\ carousel = NewCarousel
    /\ reads = {}
    /\ till = NewTill
    /\ order = NoOrder
    /\ spent = 0
    /\ lost = FALSE
    /\ overlap = FALSE
    /\ crossed = FALSE

Next ==
    \/ \E t \in Tabs : Open(t) \/ CheckSession(t) \/ StartSession(t)
    \/ \E s \in Sessions : Expire(s)
    \/ ServeFirstRead
    \/ FirstReadAnswered
    \/ \E from \in Askers : Ask(from)
    \/ AgentWrites
    \/ AgentStages
    \/ ShopEvent
    \/ ReplyEnds
    \/ \E p \in Products : \/ Press(p)
                           \/ ServeAdd(p)
                           \/ AddAnswered(p)
                           \/ ButtonTimer(p)
                           \/ Toggle(p)
    \/ Folded
    \/ DetailsAnswered
    \/ ServeList
    \/ ListAnswered
    \/ Submit
    \/ ServeSubmit
    \/ SubmitAnswered
    \/ Pay
    \/ Redirect
    \/ ReadConfirmation

Spec == Init /\ [][Next]_vars

(***************************************************************************)
(* Properties                                                              *)
(***************************************************************************)

Carts == Nat \cup {Nothing}
Slots == [at : {"idle", "asked", "served"}, cart : Carts]
Deliveries == {"none", "address", "method"}
Moves == [type : {"cart_update", "checkout"}, cart : Nat]
SomeProduct == Products \cup {NoProduct}
SomeSession == Sessions \cup {NoSession}
Visit == [step : {"closed", "checking", "starting", "ready"}, sid : SomeSession]
Shop == [panel : Carts, staged : BOOLEAN, summary : Carts, first : Slots, replying : BOOLEAN,
         feed : Seq(Moves)]
Carousel == [expanded : SomeProduct, rendered : SomeProduct, details : SomeProduct]
Till == [page : {"checkout", "confirmation"}, step : {"address", "shipping", "payment"},
         listed : Carts, list : Slots, asking : Slots, total : Carts,
         widget : {"none", "loading", "open", "failed"},
         confirmed : {"no", "loading", "shown", "failed"}]

TypeOK ==
    /\ live \subseteq Sessions
    /\ issued \in 0..MaxSessions
    /\ cartOf \in [Sessions -> Nat]
    /\ delivery \in [Sessions -> Deliveries]
    /\ writes \in Nat
    /\ moved \in BOOLEAN
    /\ stored \in SomeSession
    /\ visit \in [Tabs -> Visit]
    /\ shop \in Shop
    /\ button \in [Products -> {"idle", "busy", "done", "error"}]
    /\ adding \in [Products -> Slots]
    /\ carousel \in Carousel
    /\ reads \subseteq Products \X BOOLEAN
    /\ till \in Till
    /\ order \in [sid : Sessions, cart : Nat, delivery : Deliveries] \cup {NoOrder}
    /\ spent \in 0..MaxSpent
    /\ lost \in BOOLEAN /\ overlap \in BOOLEAN /\ crossed \in BOOLEAN

\* One visitor, one session, whatever pages are opened and loaded again, so the cart follows
\* to the checkout and the order is shown to whoever paid for it: a second session, and a
\* confirmation that cannot be shown, take a lost answer, an expired session or two first
\* page loads at once (useStoredSession, ConfirmationPage).
OneVisitor ==
    ~lost /\ ~overlap =>
      /\ issued <= 1
      /\ \A t \in Tabs : Ready(t) => Sid(t) = stored
      /\ till.confirmed # "failed"

\* What is charged is what the page showed: an order comes after a total, it is of the very
\* cart that was totalled and has the delivery that was chosen, unless the assistant or an Add
\* button wrote the cart of the checkout's session in between (nothing in the service stops
\* them), and then it is of that later cart.
ChargedAsShown ==
    order # NoOrder =>
      /\ till.total \in 1..order.cart
      /\ order.delivery = "method"
      /\ order.cart = till.total \/ moved

\* "View summary" leads to a summary of the cart that the panel shows, unless a press on an
\* Add button, a reply and the page's first read overlapped, or an answer was lost.
SummaryIsOfTheCart == ViewSummary /\ ~crossed /\ ~lost => shop.summary = shop.panel

\* The details under a carousel are of the product whose panel it is, and an open panel is
\* the expanded product's, however fast the cards are pressed and the answers come.
DetailsAreOfTheirProduct ==
    /\ carousel.details \in {carousel.rendered, NoProduct}
    /\ carousel.expanded # NoProduct => carousel.rendered = carousel.expanded
    /\ \A read \in reads : read[2] => read[1] = carousel.rendered
===============================================================================
